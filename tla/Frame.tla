------------------------------- MODULE Frame -------------------------------
(***************************************************************************)
(* The stack frame of one compiled function, class Function of             *)
(* analysis/control_flow.hpp.  A frame maps registers to sp-relative       *)
(* offsets (temp_offset) and saved registers to fp-relative ones           *)
(* (reg_offset), and counts the bytes handed out on either side.  Blocks   *)
(* of declared arrays are handed out by alloc_dec and remembered by no     *)
(* field of the class; `decs' is a history of them, so that what the       *)
(* allocator promises about them can be stated.                            *)
(***************************************************************************)
EXTENDS Integers, Sequences

WordSize == 4

\* A frame as Function::create leaves it.
NewFrame == [temp_offset     |-> << >>,
             temp_stack_size |-> 0,
             reg_offset      |-> << >>,
             reg_stack_size  |-> 0,
             decs            |-> << >>]

\* The map f with the key k bound to v.
Bind(f, k, v) == [x \in DOMAIN f \cup {k} |-> IF x = k THEN v ELSE f[x]]

\* Mutant of AllocTemp: every request gets a slot of its own.
AllocTempAnew(fr, size, reg) ==
  [fr EXCEPT !.temp_offset     = Bind(@, reg, fr.temp_stack_size),
             !.temp_stack_size = @ + size]

\* Mutant of AllocTemp: the size is not counted.
AllocTempUncounted(fr, size, reg) ==
  IF reg \in DOMAIN fr.temp_offset
    THEN fr
    ELSE [fr EXCEPT !.temp_offset = Bind(@, reg, fr.temp_stack_size)]

\* alloc_temp: a register keeps the slot of its first request.
AllocTemp(fr, size, reg) ==
  IF reg \in DOMAIN fr.temp_offset
    THEN fr
    ELSE [fr EXCEPT !.temp_offset     = Bind(@, reg, fr.temp_stack_size),
                    !.temp_stack_size = @ + size]

\* alloc_reg: the same for saved registers, downwards from fp.
AllocReg(fr, size, reg) ==
  IF reg \in DOMAIN fr.reg_offset
    THEN fr
    ELSE [fr EXCEPT !.reg_offset     = Bind(@, reg, -fr.reg_stack_size),
                    !.reg_stack_size = @ + size]

\* The history of arrays after one more block.
AddBlock(decs, lo, size) == Append(decs, [lo |-> lo, size |-> size])

\* Mutant of AllocDec: one word is counted, as for a scalar.
AllocDecOneWord(fr, size) ==
  [fr EXCEPT !.decs            = AddBlock(@, fr.temp_stack_size, size),
             !.temp_stack_size = @ + WordSize]

\* alloc_dec: a new block at every request.
AllocDec(fr, size) ==
  [fr EXCEPT !.decs            = AddBlock(@, fr.temp_stack_size, size),
             !.temp_stack_size = @ + size]

\* Space the prologue reserves and the epilogue releases.
StackSize(fr) == fr.temp_stack_size + fr.reg_stack_size

-----------------------------------------------------------------------------
ArrayBlock == [lo : Nat, size : Nat]

\* fr is a frame whose slots belong to registers of Regs.
IsFrame(fr, Regs) ==
  /\ fr = [temp_offset     |-> fr.temp_offset,
           temp_stack_size |-> fr.temp_stack_size,
           reg_offset      |-> fr.reg_offset,
           reg_stack_size  |-> fr.reg_stack_size,
           decs            |-> fr.decs]
  /\ DOMAIN fr.temp_offset \subseteq Regs
  /\ fr.temp_offset \in [DOMAIN fr.temp_offset -> Nat]
  /\ DOMAIN fr.reg_offset \subseteq Regs
  /\ fr.reg_offset \in [DOMAIN fr.reg_offset -> Int]
  /\ fr.temp_stack_size \in Nat
  /\ fr.reg_stack_size \in Nat
  /\ fr.decs \in Seq(ArrayBlock)

Apart(lo1, size1, lo2, size2) == lo1 + size1 <= lo2 \/ lo2 + size2 <= lo1

\* No two registers share a slot.
SlotsApart(fr) ==
  \A r, s \in DOMAIN fr.temp_offset :
    r # s => Apart(fr.temp_offset[r], WordSize, fr.temp_offset[s], WordSize)

\* No register's slot lies in an array, and no two arrays overlap.
ArraysApart(fr) ==
  \A i \in 1 .. Len(fr.decs) :
    LET d == fr.decs[i] IN
    /\ \A r \in DOMAIN fr.temp_offset :
         Apart(fr.temp_offset[r], WordSize, d.lo, d.size)
    /\ \A j \in 1 .. Len(fr.decs) :
         i # j => Apart(d.lo, d.size, fr.decs[j].lo, fr.decs[j].size)

\* Everything handed out from sp lies below temp_stack_size.
WithinTemps(fr) ==
  /\ \A r \in DOMAIN fr.temp_offset :
       fr.temp_offset[r] + WordSize <= fr.temp_stack_size
  /\ \A i \in 1 .. Len(fr.decs) :
       fr.decs[i].lo + fr.decs[i].size <= fr.temp_stack_size

FrameSeparate(fr) == SlotsApart(fr) /\ ArraysApart(fr) /\ WithinTemps(fr)

\* later is a frame that earlier may have grown into: nothing handed out moved.
Grows(earlier, later) ==
  /\ DOMAIN earlier.temp_offset \subseteq DOMAIN later.temp_offset
  /\ \A r \in DOMAIN earlier.temp_offset :
       later.temp_offset[r] = earlier.temp_offset[r]
  /\ Len(earlier.decs) <= Len(later.decs)
  /\ \A i \in 1 .. Len(earlier.decs) : later.decs[i] = earlier.decs[i]
  /\ earlier.temp_stack_size <= later.temp_stack_size
=============================================================================
