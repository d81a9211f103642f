------------------------------ MODULE Machine ------------------------------
(***************************************************************************)
(* A RISC-V machine for the code the compiler emits: registers, memory and *)
(* the stack, as the instructions of codegen/asm.hpp are meant.  One step  *)
(* executes one instruction.  Library functions keep the registers that a  *)
(* callee has to keep and leave Junk in all others; read and write of the  *)
(* Venus prelude (asm_emitter.cpp) change a0 and a1 only.                  *)
(***************************************************************************)
EXTENDS Asm, Word, FiniteSets

CONSTANTS StackTop,       \* sp when main is entered
          DataFrom        \* where the data section begins

VARIABLES out,      \* the instructions
          data,     \* the directives of the data section
          venus,    \* whether the prelude was emitted
          ip,       \* the instruction that is next
          regs,     \* registers to words
          calls,    \* history: sp, fp and ra at the calls that have not returned
          mem, trace, reads, result     \* as in IRMachine

machineVars == << out, data, venus, ip, regs, calls, mem, trace, reads, result >>

\* The return address main is entered with.
Environment == 0

\* Every directive but a label takes a word.
WordsBefore(directives, i) ==
  Cardinality({j \in DOMAIN directives : j < i /\ directives[j].directive = "Word"})

AddressOf(label) ==
  LET at == CHOOSE i \in DOMAIN data : data[i] = [directive |-> "Label", label |-> label]
  IN  DataFrom + 4 * WordsBefore(data, at)

InitialData(directives) ==
  LET words == {i \in DOMAIN directives : directives[i].directive = "Word"}
      Place(i) == DataFrom + 4 * WordsBefore(directives, i)
  IN  [a \in {Place(i) : i \in words} |-> directives[CHOOSE i \in words : Place(i) = a].value]

LabelIn(code, label) ==
  CHOOSE i \in DOMAIN code : code[i].kind \in {"Label", "Function"} /\ code[i].label = label

LoadAsm(code, directives, prelude) ==
  /\ out' = code /\ data' = directives /\ venus' = prelude
  /\ ip' = LabelIn(code, "main")
  /\ regs' = [[r \in PhysReg |-> Junk] EXCEPT !["sp"] = StackTop, !["ra"] = Environment,
                                              !["zero"] = 0]
  /\ calls' = << >>
  /\ mem' = InitialData(directives)

-----------------------------------------------------------------------------
Instr == out[ip]
At(kind) == Instr.kind = kind

Cell(a) == IF a \in DOMAIN mem THEN mem[a] ELSE Junk
Address == regs[Instr.rs1] + Instr.imm

Goes == ip' = ip + 1
JumpsTo(label) == ip' = LabelIn(out, label)
Quiet == UNCHANGED << out, data, venus, calls, trace, reads, result >>

Defines(value) ==
  regs' = [regs EXCEPT ![Instr.rd] = value] /\ Goes /\ Quiet /\ UNCHANGED mem

\* The value of a bitwise operator is left open.
Operate(op, a, b) ==
  IF op \in {"Add", "Sub", "Mul", "Div", "Mod"} THEN Compute(op, a, b) ELSE Junk

ExecArith    == At("Arith") /\ Defines(Operate(Instr.op, regs[Instr.rs1], regs[Instr.rs2]))
ExecArithImm == At("ArithImm") /\ Defines(Operate(Instr.op, regs[Instr.rs1], Instr.imm))
ExecMv       == At("Mv") /\ Defines(regs[Instr.rs1])
ExecLi       == At("Li") /\ Defines(Instr.imm)
ExecLa       == At("La") /\ Defines(AddressOf(Instr.label))
ExecLoad     == At("Load") /\ Defines(Cell(Address))

ExecStore ==
  /\ At("Store") /\ Goes
  /\ mem' = [a \in DOMAIN mem \cup {Address} |-> IF a = Address THEN regs[Instr.rs2] ELSE mem[a]]
  /\ UNCHANGED << regs, out, data, venus, calls, trace, reads, result >>

ExecBranch ==
  /\ At("Branch")
  /\ IF Compare(Instr.op, regs[Instr.rs1], regs[Instr.rs2]) THEN JumpsTo(Instr.label) ELSE Goes
  /\ Quiet /\ UNCHANGED << regs, mem >>

ExecJump == At("Jump") /\ JumpsTo(Instr.label) /\ Quiet /\ UNCHANGED << regs, mem >>

ExecLabel ==
  Instr.kind \in {"Label", "GlobalLabel", "Function"} /\ Goes /\ Quiet /\ UNCHANGED << regs, mem >>

ExecCall ==
  /\ At("Call") /\ Instr.label \notin Library
  /\ regs' = [regs EXCEPT !["ra"] = ip + 1]
  /\ calls' = Append(calls, [func |-> Instr.label, sp |-> regs["sp"], fp |-> regs["fp"], ra |-> ip + 1])
  /\ JumpsTo(Instr.label)
  /\ UNCHANGED << out, data, venus, mem, trace, reads, result >>

Preserved ==
  {"zero", "sp", "gp", "tp", "fp", "s1", "s2", "s3", "s4", "s5", "s6", "s7", "s8",
   "s9", "s10", "s11"}

AfterLibrary(a0, a1) ==
  [r \in PhysReg |->
     CASE r = "ra" -> ip + 1
       [] r = "a0" -> a0
       [] r = "a1" -> a1
       [] OTHER -> IF venus \/ r \in Preserved THEN regs[r] ELSE Junk]

ExecWrite ==
  /\ At("Call") /\ Instr.label = "write" /\ Goes
  /\ trace' = Append(trace, regs["a0"])
  /\ regs' = IF venus THEN AfterLibrary(1, regs["a0"]) ELSE AfterLibrary(Junk, Junk)
  /\ UNCHANGED << out, data, venus, calls, mem, reads, result >>

ExecRead ==
  /\ At("Call") /\ Instr.label = "read" /\ Goes
  /\ reads' = reads + 1
  /\ regs' = AfterLibrary(Input(reads), IF venus THEN regs["a1"] ELSE Junk)
  /\ UNCHANGED << out, data, venus, calls, mem, trace, result >>

ExecRet ==
  /\ At("Ret") /\ regs["ra"] # Environment
  /\ ip' = regs["ra"]
  /\ calls' = SubSeq(calls, 1, Len(calls) - 1)
  /\ UNCHANGED << out, data, venus, regs, mem, trace, reads, result >>

ExecHalt ==
  /\ At("Ret") /\ regs["ra"] = Environment
  /\ result' = regs["a0"]
  /\ UNCHANGED << out, data, venus, ip, regs, calls, mem, trace, reads >>

Exec ==
  \/ ExecArith \/ ExecArithImm \/ ExecMv \/ ExecLi \/ ExecLa \/ ExecLoad \/ ExecStore
  \/ ExecBranch \/ ExecJump \/ ExecLabel \/ ExecCall \/ ExecWrite \/ ExecRead
  \/ ExecRet \/ ExecHalt
=============================================================================
