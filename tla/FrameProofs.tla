---------------------------- MODULE FrameProofs ----------------------------
(***************************************************************************)
(* What the allocation calls of Frame preserve, for frames of any size.    *)
(***************************************************************************)
EXTENDS Frame, TLAPS

\* What a sequence and its extension by one element hold.
LEMMA ElementsOf ==
  ASSUME NEW S, NEW s \in Seq(S)
  PROVE  Len(s) \in Nat /\ \A i \in 1 .. Len(s) : s[i] \in S
OBVIOUS

LEMMA AppendElements ==
  ASSUME NEW S, NEW s \in Seq(S), NEW e \in S
  PROVE  /\ Append(s, e) \in Seq(S)
         /\ Len(Append(s, e)) = Len(s) + 1
         /\ Append(s, e)[Len(s) + 1] = e
         /\ \A i \in 1 .. Len(s) : Append(s, e)[i] = s[i]
OBVIOUS

LEMMA ArrayNumbers ==
  ASSUME NEW Regs, NEW fr, IsFrame(fr, Regs)
  PROVE  \A i \in 1 .. Len(fr.decs) : fr.decs[i].lo \in Nat /\ fr.decs[i].size \in Nat
<1>1. \A i \in 1 .. Len(fr.decs) : fr.decs[i] \in ArrayBlock
  BY ElementsOf DEF IsFrame
<1>2. \A b \in ArrayBlock : b.lo \in Nat /\ b.size \in Nat
  BY DEF ArrayBlock
<1> QED
  BY <1>1, <1>2

\* A fresh frame is a frame in which nothing overlaps.
LEMMA NewFrameSeparate ==
  ASSUME NEW Regs
  PROVE  IsFrame(NewFrame, Regs) /\ FrameSeparate(NewFrame)
BY DEF NewFrame, IsFrame, FrameSeparate, SlotsApart, ArraysApart, WithinTemps

\* Growing is a preorder, so that offsets handed out survive any run of calls.
LEMMA GrowsReflexive ==
  ASSUME NEW Regs, NEW fr, IsFrame(fr, Regs)
  PROVE  Grows(fr, fr)
BY DEF Grows, IsFrame

LEMMA GrowsTransitive ==
  ASSUME NEW Regs, NEW f, NEW g, NEW h,
         IsFrame(f, Regs), IsFrame(g, Regs), IsFrame(h, Regs),
         Grows(f, g), Grows(g, h)
  PROVE  Grows(f, h)
<1>1. DOMAIN f.temp_offset \subseteq DOMAIN h.temp_offset
  BY DEF Grows
<1>2. \A r \in DOMAIN f.temp_offset : h.temp_offset[r] = f.temp_offset[r]
  BY DEF Grows
<1>3. Len(f.decs) <= Len(h.decs) /\ \A i \in 1 .. Len(f.decs) : h.decs[i] = f.decs[i]
  <2>1. Len(f.decs) \in Nat /\ Len(g.decs) \in Nat /\ Len(h.decs) \in Nat
    BY DEF IsFrame
  <2> QED
    BY <2>1 DEF Grows
<1>4. f.temp_stack_size <= h.temp_stack_size
  BY DEF Grows, IsFrame
<1> QED
  BY <1>1, <1>2, <1>3, <1>4 DEF Grows

\* alloc_temp gives the register a slot of its own and moves nothing.
LEMMA AllocTempSeparate ==
  ASSUME NEW Regs, NEW fr, IsFrame(fr, Regs), FrameSeparate(fr), NEW reg \in Regs
  PROVE  LET g == AllocTemp(fr, WordSize, reg) IN
         /\ IsFrame(g, Regs)
         /\ FrameSeparate(g)
         /\ Grows(fr, g)
         /\ reg \in DOMAIN g.temp_offset
<1> DEFINE g == AllocTemp(fr, WordSize, reg)
<1>1. CASE reg \in DOMAIN fr.temp_offset
  <2>1. g = fr
    BY <1>1 DEF AllocTemp
  <2> QED
    BY <1>1, <2>1, GrowsReflexive
<1>2. CASE reg \notin DOMAIN fr.temp_offset
  <2> DEFINE top == fr.temp_stack_size
  <2>0. top \in Nat /\ Len(fr.decs) \in Nat
    BY DEF IsFrame
  <2>1. /\ g.temp_offset = Bind(fr.temp_offset, reg, top)
        /\ g.temp_stack_size = top + WordSize
        /\ g.reg_offset = fr.reg_offset
        /\ g.reg_stack_size = fr.reg_stack_size
        /\ g.decs = fr.decs
        /\ g = [temp_offset     |-> g.temp_offset,
                temp_stack_size |-> g.temp_stack_size,
                reg_offset      |-> g.reg_offset,
                reg_stack_size  |-> g.reg_stack_size,
                decs            |-> g.decs]
    BY <1>2 DEF AllocTemp, IsFrame
  <2>2. /\ DOMAIN g.temp_offset = DOMAIN fr.temp_offset \cup {reg}
        /\ g.temp_offset[reg] = top
        /\ \A r \in DOMAIN fr.temp_offset : g.temp_offset[r] = fr.temp_offset[r]
    BY <1>2, <2>1 DEF Bind
  <2>3. /\ DOMAIN g.temp_offset \subseteq Regs
        /\ g.temp_offset \in [DOMAIN g.temp_offset -> Nat]
    BY <1>2, <2>0, <2>1, <2>2 DEF IsFrame, Bind
  <2>4. IsFrame(g, Regs)
    BY <2>0, <2>1, <2>3 DEF IsFrame, WordSize
  <2>5. SlotsApart(g)
    <3> SUFFICES ASSUME NEW r \in DOMAIN g.temp_offset, NEW s \in DOMAIN g.temp_offset,
                        r # s
                 PROVE  Apart(g.temp_offset[r], WordSize, g.temp_offset[s], WordSize)
      BY DEF SlotsApart
    <3>1. CASE r # reg /\ s # reg
      BY <2>2, <3>1 DEF FrameSeparate, SlotsApart
    <3>2. CASE r = reg
      <4>1. fr.temp_offset[s] \in Nat /\ fr.temp_offset[s] + WordSize <= top
        BY <2>2, <3>2 DEF FrameSeparate, WithinTemps, IsFrame
      <4> QED
        BY <2>0, <2>2, <3>2, <4>1 DEF Apart, WordSize
    <3>3. CASE s = reg
      <4>1. fr.temp_offset[r] \in Nat /\ fr.temp_offset[r] + WordSize <= top
        BY <2>2, <3>3 DEF FrameSeparate, WithinTemps, IsFrame
      <4> QED
        BY <2>0, <2>2, <3>3, <4>1 DEF Apart, WordSize
    <3> QED
      BY <3>1, <3>2, <3>3
  <2>6. ArraysApart(g)
    <3> SUFFICES ASSUME NEW i \in 1 .. Len(fr.decs)
                 PROVE  /\ \A r \in DOMAIN g.temp_offset :
                             Apart(g.temp_offset[r], WordSize,
                                   fr.decs[i].lo, fr.decs[i].size)
                        /\ \A j \in 1 .. Len(fr.decs) :
                             i # j => Apart(fr.decs[i].lo, fr.decs[i].size,
                                            fr.decs[j].lo, fr.decs[j].size)
      BY <2>1 DEF ArraysApart
    <3>1. fr.decs[i].lo \in Nat /\ fr.decs[i].size \in Nat
      BY ArrayNumbers
    <3>2. fr.decs[i].lo + fr.decs[i].size <= top
      BY DEF FrameSeparate, WithinTemps
    <3> QED
      BY <2>0, <2>2, <3>1, <3>2 DEF FrameSeparate, ArraysApart, Apart, WordSize
  <2>7. WithinTemps(g)
    <3>1. \A i \in 1 .. Len(fr.decs) : fr.decs[i].lo \in Nat /\ fr.decs[i].size \in Nat
      BY ArrayNumbers
    <3>2. \A r \in DOMAIN g.temp_offset : g.temp_offset[r] + WordSize <= g.temp_stack_size
      <4>1. \A r \in DOMAIN fr.temp_offset :
              fr.temp_offset[r] \in Nat /\ fr.temp_offset[r] + WordSize <= top
        BY DEF FrameSeparate, WithinTemps, IsFrame
      <4> QED
        BY <2>0, <2>1, <2>2, <4>1 DEF WordSize
    <3>3. \A i \in 1 .. Len(g.decs) : g.decs[i].lo + g.decs[i].size <= g.temp_stack_size
      <4>1. \A i \in 1 .. Len(fr.decs) : fr.decs[i].lo + fr.decs[i].size <= top
        BY DEF FrameSeparate, WithinTemps
      <4> QED
        BY <2>0, <2>1, <3>1, <4>1 DEF WordSize
    <3> QED
      BY <3>2, <3>3 DEF WithinTemps
  <2>8. Grows(fr, g)
    BY <2>0, <2>1, <2>2 DEF Grows, WordSize
  <2> QED
    BY <2>2, <2>4, <2>5, <2>6, <2>7, <2>8 DEF FrameSeparate
<1> QED
  BY <1>1, <1>2

\* alloc_dec gives every declared array a block of its own and moves nothing.
LEMMA AllocDecSeparate ==
  ASSUME NEW Regs, NEW fr, IsFrame(fr, Regs), FrameSeparate(fr),
         NEW size \in Nat
  PROVE  LET g == AllocDec(fr, size) IN
         /\ IsFrame(g, Regs)
         /\ FrameSeparate(g)
         /\ Grows(fr, g)
<1> DEFINE g == AllocDec(fr, size)
           top == fr.temp_stack_size
           new == [lo |-> top, size |-> size]
           n == Len(fr.decs)
<1>0. top \in Nat /\ n \in Nat /\ new \in ArrayBlock
      /\ fr.decs \in Seq(ArrayBlock)
  BY DEF IsFrame, ArrayBlock
<1>1. /\ g.temp_offset = fr.temp_offset
      /\ g.temp_stack_size = top + size
      /\ g.reg_offset = fr.reg_offset
      /\ g.reg_stack_size = fr.reg_stack_size
      /\ g.decs = Append(fr.decs, new)
      /\ g = [temp_offset     |-> g.temp_offset,
              temp_stack_size |-> g.temp_stack_size,
              reg_offset      |-> g.reg_offset,
              reg_stack_size  |-> g.reg_stack_size,
              decs            |-> g.decs]
  <2>1. /\ g.temp_offset = fr.temp_offset
        /\ g.temp_stack_size = top + size
        /\ g.reg_offset = fr.reg_offset
        /\ g.reg_stack_size = fr.reg_stack_size
        /\ g.decs = AddBlock(fr.decs, top, size)
    BY DEF AllocDec, IsFrame
  <2>2. g = [temp_offset     |-> g.temp_offset,
             temp_stack_size |-> g.temp_stack_size,
             reg_offset      |-> g.reg_offset,
             reg_stack_size  |-> g.reg_stack_size,
             decs            |-> g.decs]
    <3> DEFINE m == [fr EXCEPT !.decs = AddBlock(@, fr.temp_stack_size, size)]
    <3>1. m = [temp_offset     |-> m.temp_offset,
               temp_stack_size |-> m.temp_stack_size,
               reg_offset      |-> m.reg_offset,
               reg_stack_size  |-> m.reg_stack_size,
               decs            |-> m.decs]
      BY DEF IsFrame
    <3>2. g = [m EXCEPT !.temp_stack_size = fr.temp_stack_size + size]
      BY DEF AllocDec
    <3> HIDE DEF m, g
    <3> QED
      BY <3>1, <3>2
  <2> QED
    BY <2>1, <2>2 DEF AddBlock
<1>2. /\ g.decs \in Seq(ArrayBlock)
      /\ Len(g.decs) = n + 1
      /\ g.decs[n + 1] = new
      /\ \A i \in 1 .. n : g.decs[i] = fr.decs[i]
  <2> HIDE DEF g, new
  <2> QED
    BY <1>0, <1>1, AppendElements
<1>3. IsFrame(g, Regs)
  BY <1>0, <1>1, <1>2 DEF IsFrame
<1>4. \A i \in 1 .. n : /\ fr.decs[i].lo \in Nat /\ fr.decs[i].size \in Nat
                        /\ fr.decs[i].lo + fr.decs[i].size <= top
  BY <1>0, ArrayNumbers DEF FrameSeparate, WithinTemps
<1>5. \A r \in DOMAIN fr.temp_offset :
        fr.temp_offset[r] \in Nat /\ fr.temp_offset[r] + WordSize <= top
  BY DEF FrameSeparate, WithinTemps, IsFrame
<1>6. SlotsApart(g)
  BY <1>1 DEF FrameSeparate, SlotsApart
<1>7. ArraysApart(g)
  <2> SUFFICES ASSUME NEW i \in 1 .. n + 1
               PROVE  /\ \A r \in DOMAIN g.temp_offset :
                           Apart(g.temp_offset[r], WordSize, g.decs[i].lo, g.decs[i].size)
                      /\ \A j \in 1 .. n + 1 :
                           i # j => Apart(g.decs[i].lo, g.decs[i].size,
                                          g.decs[j].lo, g.decs[j].size)
    BY <1>2 DEF ArraysApart
  <2>1. CASE i = n + 1
    <3>1. g.decs[i].lo = top /\ g.decs[i].size = size
      BY <1>2, <2>1
    <3>2. \A j \in 1 .. n + 1 : i # j => j \in 1 .. n
      BY <1>0, <2>1
    <3> QED
      BY <1>0, <1>1, <1>2, <1>4, <1>5, <3>1, <3>2 DEF Apart, WordSize
  <2>2. CASE i # n + 1
    <3>1. i \in 1 .. n /\ g.decs[i] = fr.decs[i]
      BY <1>0, <1>2, <2>2
    <3>2. ASSUME NEW j \in 1 .. n + 1, i # j
          PROVE  Apart(g.decs[i].lo, g.decs[i].size, g.decs[j].lo, g.decs[j].size)
      <4>1. CASE j = n + 1
        BY <1>0, <1>2, <1>4, <3>1, <4>1 DEF Apart
      <4>2. CASE j # n + 1
        <5>1. j \in 1 .. n
          BY <1>0, <4>2
        <5> QED
          BY <1>2, <3>1, <3>2, <5>1 DEF FrameSeparate, ArraysApart
      <4> QED
        BY <4>1, <4>2
    <3> QED
      BY <1>1, <3>1, <3>2 DEF FrameSeparate, ArraysApart
  <2> QED
    BY <2>1, <2>2
<1>8. WithinTemps(g)
  <2>1. \A r \in DOMAIN g.temp_offset : g.temp_offset[r] + WordSize <= g.temp_stack_size
    BY <1>0, <1>1, <1>5 DEF WordSize
  <2>2. ASSUME NEW i \in 1 .. n + 1
        PROVE  g.decs[i].lo + g.decs[i].size <= g.temp_stack_size
    <3>1. CASE i = n + 1
      BY <1>0, <1>1, <1>2, <3>1
    <3>2. CASE i # n + 1
      BY <1>0, <1>1, <1>2, <1>4, <3>2
    <3> QED
      BY <3>1, <3>2
  <2> QED
    BY <1>2, <2>1, <2>2 DEF WithinTemps
<1>9. Grows(fr, g)
  BY <1>0, <1>1, <1>2 DEF Grows
<1> QED
  BY <1>3, <1>6, <1>7, <1>8, <1>9 DEF FrameSeparate

\* alloc_reg does not touch what is addressed from sp.
LEMMA AllocRegSeparate ==
  ASSUME NEW Regs, NEW fr, IsFrame(fr, Regs), FrameSeparate(fr), NEW reg \in Regs
  PROVE  LET g == AllocReg(fr, WordSize, reg) IN
         /\ IsFrame(g, Regs)
         /\ FrameSeparate(g)
         /\ Grows(fr, g)
         /\ g.temp_offset = fr.temp_offset
         /\ g.decs = fr.decs
<1> DEFINE g == AllocReg(fr, WordSize, reg)
<1>1. CASE reg \in DOMAIN fr.reg_offset
  <2>1. g = fr
    BY <1>1 DEF AllocReg
  <2> QED
    BY <2>1, GrowsReflexive
<1>2. CASE reg \notin DOMAIN fr.reg_offset
  <2> DEFINE off == -fr.reg_stack_size
  <2>1. /\ g.temp_offset = fr.temp_offset
        /\ g.temp_stack_size = fr.temp_stack_size
        /\ g.reg_offset = Bind(fr.reg_offset, reg, off)
        /\ g.reg_stack_size = fr.reg_stack_size + WordSize
        /\ g.decs = fr.decs
        /\ g = [temp_offset     |-> g.temp_offset,
                temp_stack_size |-> g.temp_stack_size,
                reg_offset      |-> g.reg_offset,
                reg_stack_size  |-> g.reg_stack_size,
                decs            |-> g.decs]
    BY <1>2 DEF AllocReg, IsFrame
  <2>2. off \in Int /\ fr.reg_stack_size \in Nat
    BY DEF IsFrame
  <2>3. DOMAIN g.reg_offset = DOMAIN fr.reg_offset \cup {reg}
        /\ g.reg_offset \in [DOMAIN g.reg_offset -> Int]
    BY <1>2, <2>1, <2>2 DEF Bind, IsFrame
  <2>4. IsFrame(g, Regs)
    BY <2>1, <2>2, <2>3 DEF IsFrame, WordSize
  <2>5. FrameSeparate(g)
    BY <2>1 DEF FrameSeparate, SlotsApart, ArraysApart, WithinTemps
  <2>6. Grows(fr, g)
    BY <2>1 DEF Grows, IsFrame
  <2> QED
    BY <2>1, <2>4, <2>5, <2>6
<1> QED
  BY <1>1, <1>2
=============================================================================
