----------------------------- MODULE AsmEmitter -----------------------------
(***************************************************************************)
(* Emission, codegen/asm_emitter.cpp: the prologue where a function's code *)
(* starts, the epilogue in place of its exit block, and the expansion      *)
(* through t4 of immediates an instruction cannot hold.                    *)
(***************************************************************************)
EXTENDS Asm, Frame

\* The operators Arith::to_string has a mnemonic for; it asserts on others.
Mnemonics == {"Add", "Sub", "Mul", "Div", "Mod", "And", "Or", "Xor", "Sll", "Srl"}

\* Mutant of Expand: loads are emitted as they are.
ExpandStoresOnly(inst) ==
  CASE inst.kind = "ArithImm" /\ ~Fits(inst.imm) ->
         << Li("t4", inst.imm), Arith(inst.op, inst.rd, inst.rs1, "t4") >>
    [] inst.kind = "Store" /\ ~Fits(inst.imm) ->
         << Li("t4", inst.imm), Arith("Add", "t4", inst.rs1, "t4"),
            Store("t4", inst.rs2, 0) >>
    [] OTHER -> << inst >>

\* emit(inst) for an instruction that is neither a label nor a function.
Expand(inst) ==
  CASE inst.kind = "ArithImm" /\ ~Fits(inst.imm) ->
         << Li("t4", inst.imm), Arith(inst.op, inst.rd, inst.rs1, "t4") >>
    [] inst.kind = "Store" /\ ~Fits(inst.imm) ->
         << Li("t4", inst.imm), Arith("Add", "t4", inst.rs1, "t4"),
            Store("t4", inst.rs2, 0) >>
    [] inst.kind = "Load" /\ ~Fits(inst.imm) ->
         << Li("t4", inst.imm), Arith("Add", "t4", inst.rs1, "t4"),
            Load(inst.rd, "t4", 0) >>
    [] OTHER -> << inst >>

\* fp and ra get their slots only now, before the frame is measured.
PrologueFrame(fr) == AllocTemp(AllocTemp(fr, WordSize, "fp"), WordSize, "ra")

Prologue(size, ra_offset, fp_offset) ==
  Expand(ArithImm("Add", "sp", "sp", -size))
  \o Expand(Store("sp", "ra", ra_offset))
  \o Expand(Store("sp", "fp", fp_offset))
  \o Expand(ArithImm("Add", "fp", "sp", size))

\* Mutant of Epilogue: the frame is released before it is read.
EpilogueReleasedFirst(label, ret, size, ra_offset, fp_offset) ==
  << Label(label) >>
  \o (IF ret = "" THEN << >> ELSE << Mv("a0", ret) >>)
  \o Expand(ArithImm("Add", "sp", "sp", size))
  \o Expand(Load("ra", "sp", ra_offset))
  \o Expand(Load("fp", "sp", fp_offset))
  \o << Ret >>

\* ret is the register the exit block returns, "" if it returns none.
Epilogue(label, ret, size, ra_offset, fp_offset) ==
  << Label(label) >>
  \o (IF ret = "" THEN << >> ELSE << Mv("a0", ret) >>)
  \o Expand(Load("ra", "sp", ra_offset))
  \o Expand(Load("fp", "sp", fp_offset))
  \o Expand(ArithImm("Add", "sp", "sp", size))
  \o << Ret >>
=============================================================================
