---------------------------- MODULE RegAllocator ----------------------------
(***************************************************************************)
(* Register allocation, codegen/reg_allocator.cpp: every virtual register  *)
(* lives in its slot of the frame.  An instruction that reads one loads it *)
(* into t1 (first source) or t2 (second source) beforehand, and one that   *)
(* defines one computes into t0 and stores t0 afterwards; physical         *)
(* registers stay as they are.                                             *)
(***************************************************************************)
EXTENDS Asm, Frame

Virtual(reg) == reg # Unused /\ reg \notin PhysReg

\* The frame once a register that needs a slot has one.
WithSlot(fr, reg) == IF Virtual(reg) THEN AllocTemp(fr, WordSize, reg) ELSE fr

\* The slots of an instruction are requested in this order.
WithSlots(fr, inst) ==
  WithSlot(WithSlot(WithSlot(fr, inst.rs1), inst.rs2), inst.rd)

LoadSource(reg, scratch, fr) ==
  IF Virtual(reg) THEN << Load(scratch, "sp", fr.temp_offset[reg]) >> ELSE << >>

StoreResult(reg, fr) ==
  IF Virtual(reg) THEN << Store("sp", "t0", fr.temp_offset[reg]) >> ELSE << >>

Phys(reg, scratch) == IF Virtual(reg) THEN scratch ELSE reg

\* The instruction over physical registers, between its loads and its store.
Allocated(inst, fr) ==
  LoadSource(inst.rs1, "t1", fr)
  \o LoadSource(inst.rs2, "t2", fr)
  \o << [inst EXCEPT !.rs1 = Phys(@, "t1"), !.rs2 = Phys(@, "t2"),
                     !.rd = Phys(@, "t0")] >>
  \o StoreResult(inst.rd, fr)
=============================================================================
