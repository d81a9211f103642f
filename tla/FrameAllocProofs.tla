-------------------------- MODULE FrameAllocProofs --------------------------
(***************************************************************************)
(* The frame allocator for any registers, any array sizes and any bound:   *)
(* what it hands out never overlaps, never moves, and it implements        *)
(* StackRegions.                                                           *)
(***************************************************************************)
EXTENDS FrameAlloc, FrameProofs

\* TypeOK and NoOverlap are inductive together: a new slot or array starts at
\* temp_stack_size, and everything older ends at or below it.
IInv == TypeOK /\ NoOverlap /\ frame.temp_stack_size <= MaxFrame

LEMMA InitIInv == Init => IInv
<1> SUFFICES ASSUME Init PROVE IInv
  OBVIOUS
<1>1. IsFrame(NewFrame, Regs) /\ FrameSeparate(NewFrame)
  BY NewFrameSeparate
<1>2. NewFrame.temp_stack_size <= MaxFrame
  BY FrameAllocAssumption DEF NewFrame
<1> QED
  BY <1>1, <1>2 DEF Init, IInv, TypeOK, NoOverlap

LEMMA StackSizes ==
  ASSUME NEW fr, NEW reg, IsFrame(fr, Regs)
  PROVE  /\ AllocTemp(fr, WordSize, reg).temp_stack_size
              \in {fr.temp_stack_size, fr.temp_stack_size + WordSize}
         /\ AllocReg(fr, WordSize, reg).temp_stack_size = fr.temp_stack_size
         /\ \A size \in Nat :
              AllocDec(fr, size).temp_stack_size = fr.temp_stack_size + size
BY DEF AllocTemp, AllocReg, AllocDec, IsFrame

LEMMA NextIInv == IInv /\ [Next]_vars => IInv' /\ Grows(frame, frame')
<1> SUFFICES ASSUME IInv, [Next]_vars
             PROVE  IInv' /\ Grows(frame, frame')
  OBVIOUS
<1>0. IsFrame(frame, Regs) /\ FrameSeparate(frame) /\ frame.temp_stack_size <= MaxFrame
      /\ frame.temp_stack_size \in Nat /\ aborted \in BOOLEAN /\ MaxFrame \in Nat
  BY FrameAllocAssumption DEF IInv, TypeOK, NoOverlap, IsFrame
<1>1. ASSUME NEW reg \in Regs, TempRequest(reg)
      PROVE  IInv' /\ Grows(frame, frame')
  <2>1. frame' = AllocTemp(frame, WordSize, reg) /\ aborted' = aborted
        /\ frame.temp_stack_size + WordSize <= MaxFrame
    BY <1>1 DEF TempRequest
  <2>2. IsFrame(frame', Regs) /\ FrameSeparate(frame') /\ Grows(frame, frame')
    BY <1>0, <2>1, AllocTempSeparate
  <2>3. frame'.temp_stack_size <= MaxFrame
    BY <1>0, <2>1, StackSizes
  <2> QED
    BY <1>0, <2>1, <2>2, <2>3 DEF IInv, TypeOK, NoOverlap
<1>2. ASSUME NEW reg \in Regs, SavedRequest(reg)
      PROVE  IInv' /\ Grows(frame, frame')
  <2>1. frame' = AllocReg(frame, WordSize, reg) /\ aborted' = aborted
    BY <1>2 DEF SavedRequest
  <2>2. IsFrame(frame', Regs) /\ FrameSeparate(frame') /\ Grows(frame, frame')
    BY <1>0, <2>1, AllocRegSeparate
  <2>3. frame'.temp_stack_size <= MaxFrame
    BY <1>0, <2>1, StackSizes
  <2> QED
    BY <1>0, <2>1, <2>2, <2>3 DEF IInv, TypeOK, NoOverlap
<1>3. ASSUME NEW size \in DecSizes, DecRequest(size)
      PROVE  IInv' /\ Grows(frame, frame')
  <2>0. size \in Int
    BY FrameAllocAssumption
  <2>1. CASE size <= 0
    BY <1>0, <1>3, <2>1, GrowsReflexive DEF DecRequest, IInv, TypeOK, NoOverlap
  <2>2. CASE ~(size <= 0)
    <3>1. frame' = AllocDec(frame, size) /\ aborted' = aborted
          /\ frame.temp_stack_size + size <= MaxFrame /\ size \in Nat
      BY <1>3, <2>0, <2>2 DEF DecRequest
    <3>2. IsFrame(frame', Regs) /\ FrameSeparate(frame') /\ Grows(frame, frame')
      BY <1>0, <3>1, AllocDecSeparate
    <3>3. frame'.temp_stack_size <= MaxFrame
      BY <1>0, <3>1, StackSizes
    <3> QED
      BY <1>0, <3>1, <3>2, <3>3 DEF IInv, TypeOK, NoOverlap
  <2> QED
    BY <2>1, <2>2
<1>4. CASE UNCHANGED vars
  BY <1>0, <1>4, GrowsReflexive DEF vars, IInv, TypeOK, NoOverlap
<1> QED
  BY <1>1, <1>2, <1>3, <1>4 DEF Next

\* The frame stays a frame whatever is requested.
THEOREM TypeCorrect == Spec => []TypeOK
<1>1. IInv => TypeOK
  BY DEF IInv
<1> QED
  BY InitIInv, NextIInv, <1>1, PTL DEF Spec

\* Slots and arrays never overlap, for frames of any size
\* (Function::alloc_temp, Function::alloc_dec).
THEOREM NothingOverlaps == Spec => []NoOverlap
<1>1. IInv => NoOverlap
  BY DEF IInv
<1> QED
  BY InitIInv, NextIInv, <1>1, PTL DEF Spec

\* An offset that alloc_temp returned is never changed by a later call.
THEOREM OffsetsNeverMove == Spec => OffsetsFixed
<1>1. IInv /\ [Next]_vars => [Grows(frame, frame')]_vars
  BY NextIInv
<1> QED
  BY InitIInv, NextIInv, <1>1, PTL DEF Spec, OffsetsFixed

-----------------------------------------------------------------------------
(* Refinement: every call is a request StackRegions allows.                *)

LEMMA TempRequestRefines ==
  ASSUME IInv, NEW reg \in Regs, TempRequest(reg)
  PROVE  Regions!WordFor(reg) \/ UNCHANGED Regions!vars
<1> DEFINE top == frame.temp_stack_size
<1>0. IsFrame(frame, Regs) /\ WithinTemps(frame) /\ top \in Nat
  BY DEF IInv, TypeOK, NoOverlap, FrameSeparate, IsFrame
<1>1. /\ ~aborted /\ aborted' = aborted
      /\ top + WordSize <= MaxFrame
      /\ frame' = AllocTemp(frame, WordSize, reg)
  BY DEF TempRequest
<1>2. CASE reg \in DOMAIN frame.temp_offset
  <2>1. frame' = frame
    BY <1>1, <1>2 DEF AllocTemp
  <2> QED
    BY <1>1, <2>1 DEF Regions!vars
<1>3. CASE reg \notin DOMAIN frame.temp_offset
  <2>1. frame'.temp_offset = Bind(frame.temp_offset, reg, top)
        /\ frame'.decs = frame.decs
    BY <1>0, <1>1, <1>3 DEF AllocTemp, IsFrame
  <2>2. frame'.temp_offset = [r \in DOMAIN frame.temp_offset \cup {reg} |->
                                IF r = reg THEN top ELSE frame.temp_offset[r]]
    BY <2>1 DEF Bind
  <2>3. top \in 0 .. MaxFrame
    BY <1>0, <1>1, FrameAllocAssumption DEF WordSize
  <2>4. Regions!Free(top, WordSize)
    BY <1>0 DEF Regions!Free, Regions!Clear, WithinTemps
  <2> QED
    BY <1>1, <1>3, <2>1, <2>2, <2>3, <2>4 DEF Regions!WordFor
<1> QED
  BY <1>2, <1>3

LEMMA SavedRequestRefines ==
  ASSUME IInv, NEW reg \in Regs, SavedRequest(reg)
  PROVE  UNCHANGED Regions!vars
<1>1. frame'.temp_offset = frame.temp_offset /\ frame'.decs = frame.decs
  BY AllocRegSeparate DEF SavedRequest, IInv, TypeOK, NoOverlap
<1> QED
  BY <1>1 DEF SavedRequest, Regions!vars

LEMMA DecRequestRefines ==
  ASSUME IInv, NEW size \in DecSizes, DecRequest(size)
  PROVE  Regions!Block(size) \/ Regions!Reject
<1> DEFINE top == frame.temp_stack_size
<1>0. IsFrame(frame, Regs) /\ WithinTemps(frame) /\ top \in Nat /\ size \in Int
  BY FrameAllocAssumption DEF IInv, TypeOK, NoOverlap, FrameSeparate, IsFrame
<1>1. CASE size <= 0
  BY <1>1 DEF DecRequest, Regions!Reject
<1>2. CASE ~(size <= 0)
  <2>1. /\ ~aborted /\ aborted' = aborted /\ size > 0
        /\ top + size <= MaxFrame
        /\ frame' = AllocDec(frame, size)
    BY <1>0, <1>2 DEF DecRequest
  <2>2. frame'.decs = AddBlock(frame.decs, top, size)
        /\ frame'.temp_offset = frame.temp_offset
    BY <1>0, <2>1 DEF AllocDec, IsFrame
  <2>3. frame'.decs = Append(frame.decs, [lo |-> top, size |-> size])
    BY <2>2 DEF AddBlock
  <2>4. top \in 0 .. MaxFrame
    BY <1>0, <2>1, FrameAllocAssumption
  <2>5. Regions!Free(top, size)
    BY <1>0 DEF Regions!Free, Regions!Clear, WithinTemps
  <2> QED
    BY <2>1, <2>2, <2>3, <2>4, <2>5 DEF Regions!Block
<1> QED
  BY <1>1, <1>2

\* The allocator implements StackRegions: whatever the passes ask for, in any
\* order, they get a word or a block of their own.
THEOREM AllocatorImplementsRegions == Spec => ImplementsRegions
<1>1. Init => Regions!Init
  BY DEF Init, NewFrame, Regions!Init
<1>2. IInv /\ [Next]_vars => [Regions!Next]_(Regions!vars)
  <2> SUFFICES ASSUME IInv, [Next]_vars
               PROVE  Regions!Next \/ UNCHANGED Regions!vars
    OBVIOUS
  <2>1. ASSUME NEW reg \in Regs, TempRequest(reg)
        PROVE  Regions!Next \/ UNCHANGED Regions!vars
    BY <2>1, TempRequestRefines DEF Regions!Next
  <2>2. ASSUME NEW reg \in Regs, SavedRequest(reg)
        PROVE  UNCHANGED Regions!vars
    BY <2>2, SavedRequestRefines
  <2>3. ASSUME NEW size \in DecSizes, DecRequest(size)
        PROVE  Regions!Next
    BY <2>3, DecRequestRefines DEF Regions!Next
  <2>4. CASE UNCHANGED vars
    BY <2>4 DEF vars, Regions!vars
  <2> QED
    BY <2>1, <2>2, <2>3, <2>4 DEF Next
<1> QED
  BY InitIInv, NextIInv, <1>1, <1>2, PTL DEF Spec, ImplementsRegions, Regions!Spec
=============================================================================
