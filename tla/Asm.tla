-------------------------------- MODULE Asm --------------------------------
(***************************************************************************)
(* Registers and instructions of codegen/asm.hpp.  A register is its name; *)
(* the names of RISC-V registers are physical, every other name is a       *)
(* virtual register of the IR.  An instruction is one record whatever its  *)
(* class, with the fields a class has not set to Unused and 0.             *)
(***************************************************************************)
EXTENDS Integers, Sequences

CONSTANTS ImmMin, ImmMax    \* immediates an I-type instruction can hold

ASSUME ImmAssumption == ImmMin \in Int /\ ImmMax \in Int /\ ImmMin <= 0 /\ 0 <= ImmMax

Fits(imm) == ImmMin <= imm /\ imm <= ImmMax

Unused == "-"

PhysReg == {"zero", "ra", "sp", "gp", "tp", "fp", "s1",
            "t0", "t1", "t2", "t3", "t4", "t5", "t6",
            "a0", "a1", "a2", "a3", "a4", "a5", "a6", "a7",
            "s2", "s3", "s4", "s5", "s6", "s7", "s8", "s9", "s10", "s11"}

\* "a" + std::to_string(k), for k < 8
ArgReg == << "a0", "a1", "a2", "a3", "a4", "a5", "a6", "a7" >>

Inst(kind, op, rd, rs1, rs2, imm, label) ==
  [kind |-> kind, op |-> op, rd |-> rd, rs1 |-> rs1, rs2 |-> rs2,
   imm |-> imm, label |-> label]

Arith(op, rd, rs1, rs2)       == Inst("Arith", op, rd, rs1, rs2, 0, Unused)
ArithImm(op, rd, rs1, imm)    == Inst("ArithImm", op, rd, rs1, Unused, imm, Unused)
Mv(rd, rs)                    == Inst("Mv", Unused, rd, rs, Unused, 0, Unused)
Li(rd, imm)                   == Inst("Li", Unused, rd, Unused, Unused, imm, Unused)
La(rd, label)                 == Inst("La", Unused, rd, Unused, Unused, 0, label)
Load(rd, rs1, offset)         == Inst("Load", Unused, rd, rs1, Unused, offset, Unused)
Store(rs1, rs2, offset)       == Inst("Store", Unused, Unused, rs1, rs2, offset, Unused)
Branch(op, rs1, rs2, label)   == Inst("Branch", op, Unused, rs1, rs2, 0, label)
Jump(label)                   == Inst("Jump", Unused, Unused, Unused, Unused, 0, label)
Call(func)                    == Inst("Call", Unused, Unused, Unused, Unused, 0, func)
Ret                           == Inst("Ret", Unused, Unused, Unused, Unused, 0, Unused)
Label(label)                  == Inst("Label", Unused, Unused, Unused, Unused, 0, label)
GlobalLabel(label)            == Inst("GlobalLabel", Unused, Unused, Unused, Unused, 0, label)
Function(func)                == Inst("Function", Unused, Unused, Unused, Unused, 0, func)

Kinds == {"Arith", "ArithImm", "Mv", "Li", "La", "Load", "Store", "Branch",
          "Jump", "Call", "Ret", "Label", "GlobalLabel", "Function"}

\* The registers an instruction mentions.
RegsOf(inst) == {inst.rd, inst.rs1, inst.rs2} \ {Unused}
=============================================================================
