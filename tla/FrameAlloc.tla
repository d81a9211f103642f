----------------------------- MODULE FrameAlloc -----------------------------
(***************************************************************************)
(* The three allocation calls of class Function, in any order: the passes  *)
(* of the back end interleave alloc_temp and alloc_dec as the program      *)
(* dictates, and alloc_reg is offered beside them.  alloc_temp and         *)
(* alloc_reg are only ever asked for one word; the size given to alloc_dec *)
(* comes from the declared dimensions, whose product may be zero or        *)
(* negative, and then the call throws and the compiler stops.              *)
(***************************************************************************)
EXTENDS Frame

CONSTANTS Regs,       \* register names
          DecSizes,   \* sizes alloc_dec is called with, in bytes
          MaxFrame    \* bound: bytes either side of a frame may reach

ASSUME FrameAllocAssumption == DecSizes \subseteq Int /\ MaxFrame \in Nat

VARIABLES frame,      \* the frame of the function being compiled
          aborted     \* std::invalid_argument was thrown

vars == << frame, aborted >>

Init == frame = NewFrame /\ aborted = FALSE

TempRequest(reg) ==
  /\ ~aborted
  /\ frame.temp_stack_size + WordSize <= MaxFrame
  /\ frame' = AllocTemp(frame, WordSize, reg)
  /\ UNCHANGED aborted

SavedRequest(reg) ==
  /\ ~aborted
  /\ frame.reg_stack_size + WordSize <= MaxFrame
  /\ frame' = AllocReg(frame, WordSize, reg)
  /\ UNCHANGED aborted

\* Mutant of DecRequest: only an empty array is refused.
DecRequestZeroOnly(size) ==
  /\ ~aborted
  /\ IF size = 0
       THEN aborted' = TRUE /\ UNCHANGED frame
       ELSE /\ frame.temp_stack_size + size <= MaxFrame
            /\ frame' = AllocDec(frame, size)
            /\ UNCHANGED aborted

DecRequest(size) ==
  /\ ~aborted
  /\ IF size <= 0
       THEN aborted' = TRUE /\ UNCHANGED frame
       ELSE /\ frame.temp_stack_size + size <= MaxFrame
            /\ frame' = AllocDec(frame, size)
            /\ UNCHANGED aborted

Next ==
  \/ \E reg \in Regs : TempRequest(reg) \/ SavedRequest(reg)
  \/ \E size \in DecSizes : DecRequest(size)

Spec == Init /\ [][Next]_vars

-----------------------------------------------------------------------------
(* Properties.                                                             *)

\* The frame is a frame: offsets and sizes are numbers of the right kind.
TypeOK == IsFrame(frame, Regs) /\ aborted \in BOOLEAN

\* No order of calls makes a slot overlap another slot or an array, or lets an
\* array overlap another, and all of it lies below temp_stack_size, which is
\* what the prologue reserves (Function::alloc_temp, Function::alloc_dec).
NoOverlap == FrameSeparate(frame)

\* The offset alloc_temp returned for a register, which the selected code
\* already contains, is the one it returns ever after.
OffsetsFixed == [][Grows(frame, frame')]_vars

Regions == INSTANCE StackRegions WITH
  Word     <- WordSize,
  Offsets  <- 0 .. MaxFrame,
  word     <- frame.temp_offset,
  blocks   <- frame.decs,
  rejected <- aborted

\* The frame keeps the promise of StackRegions: every call is one of its
\* requests, or asks for what is already there.
ImplementsRegions == Regions!Spec
=============================================================================
