------------------------------- MODULE Layout -------------------------------
(***************************************************************************)
(* How the code that is emitted treats sp, fp, ra and t4.  Every place in  *)
(* it has a shape: the function it belongs to, how far the prologue or the *)
(* epilogue of that function has come, and what t4 holds.  A function is   *)
(* known by its name, its slots, the size of its frame and its transfers   *)
(* of control.                                                             *)
(***************************************************************************)
EXTENDS Asm

\* Registers that only prologues and epilogues define, and t4.
Critical == {"sp", "fp", "ra", "t4"}

\* Functions of the module by number, 0 outside of them.  From 0 at the entry, p
\* counts sp lowered, ra saved, fp saved, fp set (the body), ra restored, fp
\* restored, sp raised.  t4 holds any value, the constant k, or sp + k.
Shapes == [f : Nat, p : 0 .. 7, t4 : {"any", "const", "slot"}, k : Int]

At(f, p) == [f |-> f, p |-> p, t4 |-> "any", k |-> 0]
Outside  == At(0, 7)
Body(f)  == At(f, 4)

\* inst addresses sp + offset.
Reaches(inst, s, offset) ==
  \/ inst.rs1 = "sp" /\ inst.imm = offset
  \/ inst.rs1 = "t4" /\ inst.imm = 0 /\ s.t4 = "slot" /\ s.k = offset

\* inst makes rd sp + by.
Moves(inst, s, rd, by) ==
  /\ inst.rd = rd /\ inst.rs1 = "sp" /\ inst.op = "Add"
  /\ \/ inst.kind = "ArithImm" /\ inst.imm = by
     \/ inst.kind = "Arith" /\ inst.rs2 = "t4" /\ s.t4 = "const" /\ s.k = by

\* s when t4 holds the constant k, and when it holds sp + k.
Constant(s, k) == [s EXCEPT !.t4 = "const", !.k = k]
Address(s)     == [s EXCEPT !.t4 = "slot"]

\* Half of an expansion.
Builds(inst, s, t) ==
  \/ /\ inst.kind = "Li" /\ inst.rd = "t4" /\ s.p < 7
     /\ t = Constant(s, inst.imm)
  \/ /\ inst.kind = "Arith" /\ inst.op = "Add" /\ inst.rd = "t4"
     /\ inst.rs1 = "sp" /\ inst.rs2 = "t4" /\ s.t4 = "const" /\ s.p \in 1 .. 6
     /\ t = Address(s)

\* A step of the prologue or of the epilogue of fn.
Saves(fn, inst, s, reg) ==
  inst.kind = "Store" /\ inst.rs2 = reg /\ Reaches(inst, s, fn.slots[reg])

Restores(fn, inst, s, reg) ==
  inst.kind = "Load" /\ inst.rd = reg /\ Reaches(inst, s, fn.slots[reg])

Frames(fn, inst, s, t) ==
  \/ s.p = 0 /\ Moves(inst, s, "sp", -fn.size) /\ t = At(s.f, 1)
  \/ s.p = 1 /\ Saves(fn, inst, s, "ra")       /\ t = At(s.f, 2)
  \/ s.p = 2 /\ Saves(fn, inst, s, "fp")       /\ t = At(s.f, 3)
  \/ s.p = 3 /\ Moves(inst, s, "fp", fn.size)  /\ t = Body(s.f)
  \/ s.p = 4 /\ Restores(fn, inst, s, "ra")    /\ t = At(s.f, 5)
  \/ s.p = 5 /\ Restores(fn, inst, s, "fp")    /\ t = At(s.f, 6)
  \/ s.p = 6 /\ Moves(inst, s, "sp", fn.size)  /\ t = At(s.f, 7)
  \/ s = At(s.f, 7) /\ inst.kind = "Ret"       /\ t = Outside

\* An instruction of the body of fn: it defines none of sp, fp, ra, stores in a slot
\* other than those of ra and fp or through an address the program computed, or is
\* one of the transfers of fn.
Works(fn, inst, s, t) ==
  /\ s.p = 4 /\ t = Body(s.f)
  /\ \/ /\ inst.kind \in {"Arith", "ArithImm", "Mv", "Li", "La", "Load"}
        /\ inst.rd \notin Critical \ {"t4"}
        /\ inst.rd = "t4" => inst.kind = "Arith"
     \/ inst.kind = "Store" /\ inst.rs1 \notin {"sp", "t4"}
     \/ /\ inst.kind = "Store"
        /\ \E r \in DOMAIN fn.slots \ {"ra", "fp"} : Reaches(inst, s, fn.slots[r])
     \/ /\ inst.kind \in {"Label", "Jump", "Branch", "Call"} /\ s = t
        /\ [kind |-> inst.kind, op |-> inst.op, label |-> inst.label] \in fn.control

Within(G, inst, s, t) ==
  /\ s.f \in DOMAIN G
  /\ \/ s = At(s.f, 0) /\ t = s /\ inst.kind = "Function" /\ inst.label = G[s.f].name
     \/ Builds(inst, s, t)
     \/ Frames(G[s.f], inst, s, t)
     \/ Works(G[s.f], inst, s, t)

\* inst leads from a place of shape s to one of shape t in the functions G.
Follows(G, inst, s, t) ==
  \/ s = Outside /\ inst.kind = "GlobalLabel" /\ t.f \in DOMAIN G /\ t = At(t.f, 0)
  \/ Within(G, inst, s, t)

\* sh gives every place of code, and the place behind it, its shape.
Annotates(G, code, sh) ==
  /\ sh \in Seq(Shapes) /\ Len(sh) = Len(code) + 1
  /\ \A i \in 1 .. Len(code) : Follows(G, code[i], sh[i], sh[i + 1])

\* code leads from s to t.
Laid(G, code, s, t) ==
  \E sh \in Seq(Shapes) : Annotates(G, code, sh) /\ sh[1] = s /\ sh[Len(code) + 1] = t
=============================================================================
