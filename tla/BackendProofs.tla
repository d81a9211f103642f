--------------------------- MODULE BackendProofs ---------------------------
(***************************************************************************)
(* The invariants of the back end, for every module CFGBuilder may hand    *)
(* over and every range of immediates.  Each pass relies on what the       *)
(* passes before it left, so the invariants are proved together, from one  *)
(* inductive invariant with a part per concern.  That the passes keep the  *)
(* transfers of control is proved on top of it, from an invariant of its   *)
(* own that follows them from pass to pass.                                *)
(***************************************************************************)
EXTENDS Backend, Layout, FrameProofs, SequenceFacts, TLAPS

\* Instructions that define no critical register, and need no expansion to store elsewhere
\* than in the frame.
Plain ==
  {inst \in InstSet :
     /\ inst.rd \notin Critical /\ inst.rs1 # "t4" /\ inst.kind # "Ret"
     /\ inst.kind = "Store" /\ inst.rs1 # "sp" => Fits(inst.imm)}

\* Those that may stand behind the beginning of a function.
Inner == {inst \in Plain : inst.kind \notin {"GlobalLabel", "Function"}}

\* A load or store from sp goes to a slot, and to neither of those for ra and fp.
AtOwnSlot(inst, fr) ==
  \E r \in DOMAIN fr.temp_offset \ {"ra", "fp"} : fr.temp_offset[r] = inst.imm

\* Instructions whose sp-relative operands belong to something in fr.
Owned(fr) ==
  {inst \in Plain : /\ SpAddressOwned(inst, fr)
                    /\ inst.kind \in {"Load", "Store"} /\ inst.rs1 = "sp"
                         => AtOwnSlot(inst, fr)}

\* Instructions over physical registers.
Physical == {inst \in InstSet : RegsOf(inst) \subseteq PhysReg}

\* Instructions that can be emitted as they are.
Legal == {inst \in Physical :
            inst.kind \in {"ArithImm", "Load", "Store"} => Fits(inst.imm)}

-----------------------------------------------------------------------------
(* Sequences over a set.                                                   *)

LEMMA SeqConcat ==
  ASSUME NEW S, NEW s \in Seq(S), NEW t \in Seq(S)
  PROVE  s \o t \in Seq(S)
OBVIOUS

LEMMA SeqSubset ==
  ASSUME NEW S, NEW T, S \subseteq T, NEW s \in Seq(S)
  PROVE  s \in Seq(T)
OBVIOUS

LEMMA SeqTuples ==
  ASSUME NEW S
  PROVE  /\ << >> \in Seq(S)
         /\ \A a \in S : << a >> \in Seq(S)
         /\ \A a, b \in S : << a, b >> \in Seq(S)
         /\ \A a, b, c \in S : << a, b, c >> \in Seq(S)
         /\ \A a, b, c, d \in S : << a, b, c, d >> \in Seq(S)
OBVIOUS

LEMMA SeqSubsetOf ==
  ASSUME NEW S, NEW T, NEW s \in Seq(T), \A i \in 1 .. Len(s) : s[i] \in S
  PROVE  s \in Seq(S)
OBVIOUS

\* Membership of Seq(Owned(fr)) is CodeOwned, for code of the right type.
LEMMA OwnedIsCodeOwned ==
  ASSUME NEW fr, NEW code \in Seq(Owned(fr))
  PROVE  code \in Seq(InstSet) /\ CodeOwned(code, fr)
<1>1. Owned(fr) \subseteq InstSet /\ \A i \in Owned(fr) : SpAddressOwned(i, fr)
  BY DEF Owned, Plain
<1>2. \A i \in 1 .. Len(code) : code[i] \in Owned(fr)
  BY ElementsOf
<1> QED
  BY <1>1, <1>2, SeqSubset DEF CodeOwned

-----------------------------------------------------------------------------
(* Registers and instructions.                                             *)

LEMMA Registers ==
  /\ {"zero", "ra", "sp", "fp", "t0", "t1", "t2", "t4", "a0"} \subseteq PhysReg
  /\ Unused \notin PhysReg /\ "" \notin PhysReg
  /\ \A k \in Nat : k < 8 => /\ ArgReg[k + 1] \in PhysReg
                            /\ ArgReg[k + 1] \notin Critical
<1>1. {"zero", "ra", "sp", "fp", "t0", "t1", "t2", "t4", "a0"} \subseteq PhysReg
      /\ Unused \notin PhysReg /\ "" \notin PhysReg
  BY DEF PhysReg, Unused
<1>2. ASSUME NEW k \in Nat, k < 8
      PROVE  ArgReg[k + 1] \in PhysReg /\ ArgReg[k + 1] \notin Critical
  <2>1. k \in {0, 1, 2, 3, 4, 5, 6, 7}
    BY <1>2
  <2> QED
    BY <2>1 DEF ArgReg, PhysReg, Critical
<1> QED
  BY <1>1, <1>2

LEMMA VirtualRegisters ==
  /\ Unused \notin VReg /\ Literal \notin VReg
  /\ VReg \cap PhysReg = {} /\ VReg \cap Critical = {} /\ "" \notin VReg
BY BackendAssumption, Registers DEF Critical

LEMMA ZeroFits == 0 \in Int /\ Fits(0)
BY ImmAssumption DEF Fits

\* An instruction with well-typed fields is an instruction.
LEMMA InstTyped ==
  ASSUME NEW kind \in Kinds, NEW op \in BinaryOps \cup Mnemonics \cup {Unused},
         NEW rd \in Regs \cup {Unused}, NEW rs1 \in Regs \cup {Unused},
         NEW rs2 \in Regs \cup {Unused}, NEW imm \in Int,
         NEW label \in Labels \cup {Unused}
  PROVE  /\ Inst(kind, op, rd, rs1, rs2, imm, label) \in InstSet
         /\ Inst(kind, op, rd, rs1, rs2, imm, label).kind = kind
         /\ Inst(kind, op, rd, rs1, rs2, imm, label).rd = rd
         /\ Inst(kind, op, rd, rs1, rs2, imm, label).rs1 = rs1
         /\ Inst(kind, op, rd, rs1, rs2, imm, label).rs2 = rs2
         /\ Inst(kind, op, rd, rs1, rs2, imm, label).imm = imm
         /\ Inst(kind, op, rd, rs1, rs2, imm, label).op = op
BY DEF Inst, InstSet

\* An instruction that does not address from sp is owned by every frame.
LEMMA NotFromSp ==
  ASSUME NEW fr, NEW inst \in Plain, inst.rs1 # "sp"
  PROVE  inst \in Owned(fr)
BY DEF Owned, SpAddressOwned

\* A load or store at the slot of a register is owned.
LEMMA AtSlot ==
  ASSUME NEW fr, NEW inst \in Plain, inst.kind \in {"Load", "Store"},
         NEW r \in DOMAIN fr.temp_offset \ {"ra", "fp"}, inst.imm = fr.temp_offset[r]
  PROVE  inst \in Owned(fr)
BY DEF Owned, SpAddressOwned, AtOwnSlot

\* What was owned stays owned when the frame grows.
LEMMA OwnedGrows ==
  ASSUME NEW fr, NEW gr, IsFrame(fr, Regs), IsFrame(gr, Regs), Grows(fr, gr)
  PROVE  /\ Owned(fr) \subseteq Owned(gr)
         /\ \A code \in Seq(Owned(fr)) : code \in Seq(Owned(gr))
<1>1. ASSUME NEW inst \in Owned(fr) PROVE inst \in Owned(gr)
  <2>1. inst \in Plain /\ SpAddressOwned(inst, fr)
    BY DEF Owned
  <2>2. CASE inst.rs1 # "sp"
    BY <2>1, <2>2, NotFromSp
  <2>3. CASE inst.rs1 = "sp" /\ inst.kind \in {"Load", "Store"}
    <3>1. PICK r \in DOMAIN fr.temp_offset \ {"ra", "fp"} : fr.temp_offset[r] = inst.imm
      BY <2>3 DEF Owned, AtOwnSlot
    <3>2. r \in DOMAIN gr.temp_offset \ {"ra", "fp"} /\ gr.temp_offset[r] = inst.imm
      BY <3>1 DEF Grows
    <3> QED
      BY <2>1, <2>3, <3>2, AtSlot
  <2>4. CASE inst.rs1 = "sp" /\ inst.kind = "ArithImm"
    <3>1. PICK i \in 1 .. Len(fr.decs) : fr.decs[i].lo = inst.imm
      BY <2>1, <2>4 DEF SpAddressOwned
    <3>2. i \in 1 .. Len(gr.decs) /\ gr.decs[i].lo = inst.imm
      <4>1. Len(fr.decs) \in Nat /\ Len(gr.decs) \in Nat
        BY DEF IsFrame
      <4> QED
        BY <3>1, <4>1 DEF Grows
    <3> QED
      BY <2>1, <2>4, <3>2 DEF Owned, SpAddressOwned
  <2> QED
    BY <2>1, <2>2, <2>3, <2>4 DEF SpAddressOwned
<1> QED
  BY <1>1, SeqSubset

-----------------------------------------------------------------------------
(* Selection.                                                              *)

\* What selecting a node may do: extend the frame without overlap, and emit
\* code whose sp-relative operands the extended frame owns.
Sound(sel, fr) ==
  /\ IsFrame(sel.frame, Regs) /\ FrameSeparate(sel.frame)
  /\ Grows(fr, sel.frame)
  /\ sel.code \in Seq(Owned(sel.frame))

\* Registers an instruction may address from without addressing the frame, and
\* those it may define.
NonSp == Regs \ {"sp", "t4"}
Free  == Regs \ Critical

SpFree == {inst \in Inner : inst.rs1 # "sp"}

LEMMA NonSpRegisters ==
  /\ VReg \subseteq NonSp /\ VReg \subseteq Free
  /\ {"zero", "fp", "ra", "t0", "t1", "t2", "a0"} \subseteq NonSp
  /\ {"t0", "t1", "t2", "a0"} \subseteq Free
  /\ \A k \in Nat : k < 8 => ArgReg[k + 1] \in NonSp /\ ArgReg[k + 1] \in Free
  /\ NonSp \subseteq Regs /\ Free \subseteq Regs /\ Unused \notin Critical
BY Registers, VirtualRegisters DEF NonSp, Free, Critical, Regs, Unused

LEMMA SpFreeInst ==
  ASSUME NEW kind \in Kinds \ {"Ret"}, NEW op \in BinaryOps \cup Mnemonics \cup {Unused},
         NEW rd \in Free \cup {Unused}, NEW rs1 \in NonSp \cup {Unused},
         NEW rs2 \in Regs \cup {Unused}, NEW imm \in Int,
         NEW label \in Labels \cup {Unused}, kind = "Store" => Fits(imm)
  PROVE  LET inst == Inst(kind, op, rd, rs1, rs2, imm, label) IN
         /\ inst \in Plain /\ inst.rs1 # "sp"
         /\ kind \notin {"GlobalLabel", "Function"} => inst \in SpFree
<1>1. /\ rs1 \notin {"sp", "t4"} /\ rs1 \in Regs \cup {Unused}
      /\ rd \notin Critical /\ rd \in Regs \cup {Unused}
  <2>1. Unused \notin Critical /\ Unused # "sp" /\ Unused # "t4"
    BY DEF Unused, Critical
  <2> QED
    BY <2>1 DEF NonSp, Free, Critical
<1>2. PICK inst : inst = Inst(kind, op, rd, rs1, rs2, imm, label)
  OBVIOUS
<1>3. /\ inst \in InstSet /\ inst.kind = kind /\ inst.rd = rd /\ inst.rs1 = rs1
      /\ inst.imm = imm
  <2>1. Inst(kind, op, rd, rs1, rs2, imm, label) \in InstSet
    BY <1>1, InstTyped
  <2> QED
    BY <1>2, <2>1 DEF Inst
<1>4. inst \in Plain
  BY <1>1, <1>3 DEF Plain
<1> QED
  BY <1>1, <1>2, <1>3, <1>4 DEF SpFree, Inner

LEMMA SpFreeConstructors ==
  /\ \A op \in BinaryOps \cup Mnemonics \cup {Unused}, rd \in Free, rs1 \in NonSp,
        rs2 \in Regs : Arith(op, rd, rs1, rs2) \in SpFree
  /\ \A rd \in Free, rs \in NonSp : Mv(rd, rs) \in SpFree
  /\ \A rd \in Free, imm \in Int : Li(rd, imm) \in SpFree
  /\ \A rd \in Free, l \in Labels : La(rd, l) \in SpFree
  /\ \A rd \in Free, rs1 \in NonSp, imm \in Int : Load(rd, rs1, imm) \in SpFree
  /\ \A rs1 \in NonSp, rs2 \in Regs, imm \in Int :
        Fits(imm) => Store(rs1, rs2, imm) \in SpFree
  /\ \A op \in BinaryOps, rs1 \in NonSp, rs2 \in Regs, l \in Labels :
        Branch(op, rs1, rs2, l) \in SpFree
  /\ \A op \in {"Add", "Sub"}, rd \in Free, rs1 \in NonSp, imm \in Int :
        ArithImm(op, rd, rs1, imm) \in SpFree
  /\ \A l \in Labels : /\ Label(l) \in SpFree
                       /\ Jump(l) \in SpFree
                       /\ Call(l) \in SpFree
<1> USE DEF Kinds
<1> 0 \in Int
  OBVIOUS
<1>1. ASSUME NEW op \in BinaryOps \cup Mnemonics \cup {Unused}, NEW rd \in Free,
             NEW rs1 \in NonSp, NEW rs2 \in Regs
      PROVE  Arith(op, rd, rs1, rs2) \in SpFree
  BY SpFreeInst DEF Arith
<1>2. ASSUME NEW rd \in Free, NEW rs \in NonSp PROVE Mv(rd, rs) \in SpFree
  BY SpFreeInst DEF Mv
<1>3. ASSUME NEW rd \in Free, NEW imm \in Int PROVE Li(rd, imm) \in SpFree
  BY SpFreeInst DEF Li
<1>4. ASSUME NEW rd \in Free, NEW l \in Labels PROVE La(rd, l) \in SpFree
  BY SpFreeInst DEF La
<1>5. ASSUME NEW rd \in Free, NEW rs1 \in NonSp, NEW imm \in Int
      PROVE  Load(rd, rs1, imm) \in SpFree
  BY SpFreeInst DEF Load
<1>6. ASSUME NEW rs1 \in NonSp, NEW rs2 \in Regs, NEW imm \in Int, Fits(imm)
      PROVE  Store(rs1, rs2, imm) \in SpFree
  BY <1>6, SpFreeInst DEF Store
<1>7. ASSUME NEW op \in BinaryOps, NEW rs1 \in NonSp, NEW rs2 \in Regs, NEW l \in Labels
      PROVE  Branch(op, rs1, rs2, l) \in SpFree
  BY SpFreeInst DEF Branch
<1>8. ASSUME NEW op \in {"Add", "Sub"}, NEW rd \in Free, NEW rs1 \in NonSp, NEW imm \in Int
      PROVE  ArithImm(op, rd, rs1, imm) \in SpFree
  <2>1. op \in BinaryOps \cup Mnemonics \cup {Unused}
    BY DEF Mnemonics
  <2> QED
    BY <2>1, SpFreeInst DEF ArithImm
<1>9. ASSUME NEW l \in Labels
      PROVE  Label(l) \in SpFree /\ Jump(l) \in SpFree /\ Call(l) \in SpFree
  BY SpFreeInst DEF Label, Jump, Call
<1> QED
  BY <1>1, <1>2, <1>3, <1>4, <1>5, <1>6, <1>7, <1>8, <1>9

\* The instructions a function begins with.
LEMMA EntryOwned ==
  ASSUME NEW fr, NEW l \in Labels
  PROVE  /\ GlobalLabel(l) \in Owned(fr) /\ Function(l) \in Owned(fr)
         /\ RegsOf(GlobalLabel(l)) = {} /\ RegsOf(Function(l)) = {}
<1>1. {"GlobalLabel", "Function"} \subseteq Kinds /\ 0 \in Int
  BY DEF Kinds
<1>2. /\ GlobalLabel(l) \in Plain /\ GlobalLabel(l).rs1 # "sp"
      /\ Function(l) \in Plain /\ Function(l).rs1 # "sp"
  BY <1>1, SpFreeInst DEF GlobalLabel, Function
<1>3. RegsOf(GlobalLabel(l)) = {} /\ RegsOf(Function(l)) = {}
  BY DEF RegsOf, GlobalLabel, Function, Inst
<1> QED
  BY <1>2, <1>3, NotFromSp

LEMMA SpFreeOwned ==
  ASSUME NEW fr
  PROVE  /\ SpFree \subseteq Owned(fr) /\ \A code \in Seq(SpFree) : code \in Seq(Owned(fr))
         /\ SpFree \subseteq Inner /\ \A code \in Seq(SpFree) : code \in Seq(Inner)
<1>1. SpFree \subseteq Owned(fr) /\ SpFree \subseteq Inner
  BY NotFromSp DEF SpFree, Inner
<1> QED
  BY <1>1, SeqSubset

\* A handler that takes nothing from the frame and does not address from sp.
LEMMA SpFreeSound ==
  ASSUME NEW fr, IsFrame(fr, Regs), FrameSeparate(fr), NEW sel,
         sel.frame = fr, sel.code \in Seq(SpFree)
  PROVE  Sound(sel, fr)
BY SpFreeOwned, GrowsReflexive DEF Sound

\* The code of the handlers that never address from sp.
LEMMA SpFreeCode ==
  ASSUME NEW node \in IRNode, NEW fr
  PROVE  /\ node.ir = "LoadImm" => SelectLoadImm(node, fr).code \in Seq(SpFree)
         /\ node.ir = "Assign" => SelectAssign(node, fr).code \in Seq(SpFree)
         /\ node.ir = "Binary" => SelectBinary(node, fr).code \in Seq(SpFree)
         /\ node.ir = "Unary" => SelectUnary(node, fr).code \in Seq(SpFree)
         /\ node.ir = "Label" => SelectLabel(node, fr).code \in Seq(SpFree)
         /\ node.ir = "Goto" => SelectGoto(node, fr).code \in Seq(SpFree)
         /\ node.ir = "Param" => SelectParam(node, fr).code \in Seq(SpFree)
         /\ node.ir = "If" => SelectIf(node, fr).code \in Seq(SpFree)
         /\ node.ir = "LoadAddr" => SelectLoadAddr(node, fr).code \in Seq(SpFree)
         /\ node.ir = "Store" => SelectStore(node, fr).code \in Seq(SpFree)
         /\ node.ir = "Load" => SelectLoad(node, fr).code \in Seq(SpFree)
<1>1. CASE node.ir = "LoadImm"
  <2>1. node.x \in VReg /\ node.k \in Int
    BY <1>1 DEF IRNode
  <2>2. Li(node.x, node.k) \in SpFree
    BY <2>1, SpFreeConstructors, NonSpRegisters
  <2>3. SelectLoadImm(node, fr).code = << Li(node.x, node.k) >>
    BY DEF SelectLoadImm, Selected
  <2> QED
    BY <1>1, <2>2, <2>3, SeqTuples
<1>2. CASE node.ir = "Assign"
  <2>1. node.x \in VReg \cup {"a0"} /\ node.y \in VReg
    BY <1>2 DEF IRNode
  <2>2. Mv(node.x, node.y) \in SpFree
    BY <2>1, SpFreeConstructors, NonSpRegisters
  <2>3. SelectAssign(node, fr).code = << Mv(node.x, node.y) >>
    BY DEF SelectAssign, Selected
  <2> QED
    BY <1>2, <2>2, <2>3, SeqTuples
<1>3. CASE node.ir = "Binary"
  <2>1. /\ node.x \in VReg /\ node.y \in VReg /\ node.z \in VReg \cup {Literal}
        /\ node.op \in BinaryOps /\ node.num \in Int
    BY <1>3 DEF IRNode
  <2>2. ArithOp(node.op) \in BinaryOps \cup Mnemonics \cup {Unused}
    BY <2>1 DEF ArithOp, Mnemonics
  <2>3. CASE node.z # Literal
    <3>1. Arith(ArithOp(node.op), node.x, node.y, node.z) \in SpFree
      BY <2>1, <2>2, <2>3, SpFreeConstructors, NonSpRegisters
    <3>2. SelectBinary(node, fr).code = << Arith(ArithOp(node.op), node.x, node.y, node.z) >>
      BY <2>3 DEF SelectBinary, Selected
    <3> QED
      BY <1>3, <3>1, <3>2, SeqTuples
  <2>4. CASE node.z = Literal /\ node.op \in {"Add", "Sub"}
    <3>1. ArithImm(node.op, node.x, node.y, node.num) \in SpFree
      BY <2>1, <2>4, SpFreeConstructors, NonSpRegisters
    <3>2. SelectBinary(node, fr).code = << ArithImm(node.op, node.x, node.y, node.num) >>
      BY <2>4 DEF SelectBinary, Selected
    <3> QED
      BY <1>3, <3>1, <3>2, SeqTuples
  <2>5. CASE node.z = Literal /\ node.op \notin {"Add", "Sub"}
    <3>1. /\ Li("t0", node.num) \in SpFree
          /\ Arith(ArithOp(node.op), node.x, node.y, "t0") \in SpFree
      BY <2>1, <2>2, SpFreeConstructors, NonSpRegisters
    <3>2. SelectBinary(node, fr).code =
            << Li("t0", node.num), Arith(ArithOp(node.op), node.x, node.y, "t0") >>
      BY <2>5 DEF SelectBinary, Selected
    <3> QED
      BY <1>3, <3>1, <3>2, SeqTuples
  <2> QED
    BY <2>3, <2>4, <2>5
<1>4. CASE node.ir = "Unary"
  <2>1. node.x \in VReg /\ node.y \in VReg /\ node.op \in BinaryOps
    BY <1>4 DEF IRNode
  <2>2. ArithOp(node.op) \in BinaryOps \cup Mnemonics \cup {Unused}
    BY <2>1 DEF ArithOp, Mnemonics
  <2>3. Arith(ArithOp(node.op), node.x, "zero", node.y) \in SpFree
    BY <2>1, <2>2, SpFreeConstructors, NonSpRegisters
  <2>4. SelectUnary(node, fr).code = << Arith(ArithOp(node.op), node.x, "zero", node.y) >>
    BY DEF SelectUnary, Selected
  <2> QED
    BY <1>4, <2>3, <2>4, SeqTuples
<1>5. CASE node.ir \in {"Label", "Goto"}
  <2>1. node.label \in Labels
    BY <1>5 DEF IRNode
  <2>2. Label(node.label) \in SpFree /\ Jump(node.label) \in SpFree
    BY <2>1, SpFreeConstructors
  <2>3. /\ SelectLabel(node, fr).code = << Label(node.label) >>
        /\ SelectGoto(node, fr).code = << Jump(node.label) >>
    BY DEF SelectLabel, SelectGoto, Selected
  <2> QED
    BY <1>5, <2>2, <2>3, SeqTuples
<1>7. CASE node.ir = "Param"
  <2>1. node.x \in VReg /\ node.k \in Nat
    BY <1>7 DEF IRNode
  <2>2. CASE node.k < 8
    <3>1. ArgReg[node.k + 1] \in NonSp
      BY <2>1, <2>2, NonSpRegisters
    <3>2. Mv(node.x, ArgReg[node.k + 1]) \in SpFree
      BY <2>1, <3>1, SpFreeConstructors, NonSpRegisters
    <3>3. SelectParam(node, fr).code = << Mv(node.x, ArgReg[node.k + 1]) >>
      BY <2>2 DEF SelectParam, Selected
    <3> QED
      BY <1>7, <3>2, <3>3, SeqTuples
  <2>3. CASE ~(node.k < 8)
    <3>1. Load(node.x, "fp", 4 * (node.k - 8)) \in SpFree
      <4>1. 4 * (node.k - 8) \in Int
        BY <2>1
      <4> QED
        BY <2>1, <4>1, SpFreeConstructors, NonSpRegisters
    <3>2. SelectParam(node, fr).code = << Load(node.x, "fp", 4 * (node.k - 8)) >>
      BY <2>3 DEF SelectParam, Selected
    <3> QED
      BY <1>7, <3>1, <3>2, SeqTuples
  <2> QED
    BY <2>2, <2>3
<1>8. CASE node.ir = "If"
  <2>1. /\ node.op \in BinaryOps /\ node.t1 \in VReg /\ node.t2 \in VReg
        /\ node.label \in Labels
    BY <1>8 DEF IRNode
  <2>2. Branch(node.op, node.t1, node.t2, node.label) \in SpFree
    BY <2>1, SpFreeConstructors, NonSpRegisters
  <2>3. SelectIf(node, fr).code = << Branch(node.op, node.t1, node.t2, node.label) >>
    BY DEF SelectIf, Selected
  <2> QED
    BY <1>8, <2>2, <2>3, SeqTuples
<1>9. CASE node.ir = "LoadAddr"
  <2>1. node.x \in VReg /\ node.label \in Labels
    BY <1>9 DEF IRNode
  <2>2. La(node.x, node.label) \in SpFree
    BY <2>1, SpFreeConstructors, NonSpRegisters
  <2>3. SelectLoadAddr(node, fr).code = << La(node.x, node.label) >>
    BY DEF SelectLoadAddr, Selected
  <2> QED
    BY <1>9, <2>2, <2>3, SeqTuples
<1>10. CASE node.ir = "Store"
  <2>1. node.addr \in VReg /\ node.value \in VReg /\ node.offset \in Int
    BY <1>10 DEF IRNode
  <2>2. /\ Fits(node.offset) => Store(node.addr, node.value, node.offset) \in SpFree
        /\ Li("t0", node.offset) \in SpFree
        /\ Arith("Add", "t0", node.addr, "t0") \in SpFree
        /\ Store("t0", node.value, 0) \in SpFree
    <3>1. "Add" \in BinaryOps \cup Mnemonics \cup {Unused}
      BY DEF Mnemonics
    <3>2. /\ {"t0", node.addr} \subseteq NonSp /\ "t0" \in Free
          /\ {"t0"} \cup VReg \subseteq Regs /\ 0 \in Int /\ Fits(0)
      BY <2>1, NonSpRegisters, ZeroFits
    <3>3. Arith("Add", "t0", node.addr, "t0") \in SpFree
      BY <3>1, <3>2, SpFreeConstructors
    <3>4. Li("t0", node.offset) \in SpFree
      BY <2>1, <3>2, SpFreeConstructors
    <3> QED
      BY <2>1, <3>2, <3>3, <3>4, SpFreeConstructors
  <2>3. /\ Fits(node.offset) =>
             SelectStore(node, fr).code = << Store(node.addr, node.value, node.offset) >>
        /\ ~Fits(node.offset) =>
             SelectStore(node, fr).code =
               << Li("t0", node.offset), Arith("Add", "t0", node.addr, "t0"),
                  Store("t0", node.value, 0) >>
    BY DEF SelectStore, Selected
  <2> QED
    BY <1>10, <2>2, <2>3, SeqTuples
<1>11. CASE node.ir = "Load"
  <2>1. node.addr \in VReg /\ node.x \in VReg /\ node.offset \in Int
    BY <1>11 DEF IRNode
  <2>2. /\ Load(node.x, node.addr, node.offset) \in SpFree
        /\ Li("t0", node.offset) \in SpFree
        /\ Arith("Add", "t0", node.addr, "t0") \in SpFree
        /\ Load(node.x, "t0", 0) \in SpFree
    <3>1. "Add" \in BinaryOps \cup Mnemonics \cup {Unused}
      BY DEF Mnemonics
    <3>2. /\ {"t0", node.addr} \subseteq NonSp /\ {"t0"} \cup VReg \subseteq Free
          /\ {"t0"} \cup VReg \subseteq Regs
      BY <2>1, NonSpRegisters
    <3>3. Arith("Add", "t0", node.addr, "t0") \in SpFree
      BY <3>1, <3>2, SpFreeConstructors
    <3>4. Li("t0", node.offset) \in SpFree
      BY <2>1, <3>2, SpFreeConstructors
    <3> QED
      BY <2>1, <3>2, <3>3, <3>4, SpFreeConstructors
  <2>3. SelectLoad(node, fr).code \in
          {<< Load(node.x, node.addr, node.offset) >>,
           << Li("t0", node.offset), Arith("Add", "t0", node.addr, "t0"),
              Load(node.x, "t0", 0) >>}
    BY DEF SelectLoad, Selected
  <2> QED
    BY <1>11, <2>2, <2>3, SeqTuples
<1> QED
  BY <1>1, <1>2, <1>3, <1>4, <1>5, <1>7, <1>8, <1>9, <1>10, <1>11

\* The code of a function's node.
LEMMA FunctionCode ==
  ASSUME NEW node \in IRNode, node.ir = "Function", NEW fr
  PROVE  SelectFunction(node, fr).code \in Seq(Owned(fr))
<1>1. node.name \in Labels
  BY DEF IRNode
<1>2. SelectFunction(node, fr).code = << GlobalLabel(node.name), Function(node.name) >>
  BY DEF SelectFunction, Selected
<1> QED
  BY <1>1, <1>2, EntryOwned, SeqTuples

\* Two requests, one after the other, are one extension of the frame.
LEMMA TwoSlots ==
  ASSUME NEW fr, IsFrame(fr, Regs), FrameSeparate(fr),
         NEW r \in Regs, NEW s \in Regs
  PROVE  LET g == AllocTemp(AllocTemp(fr, WordSize, r), WordSize, s) IN
         /\ IsFrame(g, Regs) /\ FrameSeparate(g) /\ Grows(fr, g)
         /\ {r, s} \subseteq DOMAIN g.temp_offset
<1> DEFINE g0 == AllocTemp(fr, WordSize, r)
           g == AllocTemp(g0, WordSize, s)
<1>1. IsFrame(g0, Regs) /\ FrameSeparate(g0) /\ Grows(fr, g0) /\ r \in DOMAIN g0.temp_offset
  BY AllocTempSeparate
<1> HIDE DEF g0
<1>2. IsFrame(g, Regs) /\ FrameSeparate(g) /\ Grows(g0, g) /\ s \in DOMAIN g.temp_offset
  BY <1>1, AllocTempSeparate
<1> HIDE DEF g
<1>3. Grows(fr, g) /\ r \in DOMAIN g.temp_offset
  BY <1>1, <1>2, GrowsTransitive DEF Grows
<1> QED
  BY <1>2, <1>3 DEF g, g0

\* Loads and stores at a slot of the frame's own.
LEMMA SlotInst ==
  ASSUME NEW fr, IsFrame(fr, Regs), NEW r \in DOMAIN fr.temp_offset \ {"ra", "fp"},
         NEW reg \in Regs
  PROVE  /\ reg \in Free => Load(reg, "sp", fr.temp_offset[r]) \in Owned(fr) \cap Inner
         /\ Store("sp", reg, fr.temp_offset[r]) \in Owned(fr) \cap Inner
<1> DEFINE off == fr.temp_offset[r]
<1>1. off \in Int /\ "sp" \in Regs
  <2>1. off \in Nat
    BY DEF IsFrame
  <2>2. "sp" \in Regs
    BY Registers DEF Regs
  <2> QED
    BY <2>1, <2>2
<1> HIDE DEF off
<1>2. Load(reg, "sp", off) \in InstSet /\ Store("sp", reg, off) \in InstSet
  BY <1>1, InstTyped DEF Load, Store, Kinds
<1>3. /\ Load(reg, "sp", off).kind = "Load" /\ Load(reg, "sp", off).imm = off
      /\ Load(reg, "sp", off).rd = reg /\ Load(reg, "sp", off).rs1 = "sp"
      /\ Store("sp", reg, off).kind = "Store" /\ Store("sp", reg, off).imm = off
      /\ Store("sp", reg, off).rd = Unused /\ Store("sp", reg, off).rs1 = "sp"
  BY DEF Load, Store, Inst
<1>4. Store("sp", reg, off) \in Inner /\ (reg \in Free => Load(reg, "sp", off) \in Inner)
  BY <1>2, <1>3, NonSpRegisters DEF Inner, Plain, Free
<1> QED
  BY <1>3, <1>4, AtSlot DEF off, Inner

LEMMA SelectCallSound ==
  ASSUME NEW node \in IRNode, node.ir = "Call",
         NEW fr, IsFrame(fr, Regs), FrameSeparate(fr)
  PROVE  Sound(SelectCall(node, fr), fr) /\ SelectCall(node, fr).code \in Seq(Inner)
<1> DEFINE f1 == AllocTemp(AllocTemp(fr, WordSize, "t0"), WordSize, "t1")
           f2 == AllocTemp(f1, WordSize, "t2")
           off(r) == f2.temp_offset[r]
           save == << Store("sp", "t0", off("t0")), Store("sp", "t1", off("t1")),
                      Store("sp", "t2", off("t2")), Call(node.func) >>
           result == IF node.x = "" THEN << >> ELSE << Mv(node.x, "a0") >>
           restore == << Load("t0", "sp", off("t0")), Load("t1", "sp", off("t1")),
                         Load("t2", "sp", off("t2")) >>
           S == Owned(f2) \cap Inner
<1>0. /\ {"t0", "t1", "t2", "a0"} \subseteq Regs
      /\ node.x \in VReg \cup {""} /\ node.func \in Labels
  BY Registers DEF IRNode, Regs
<1>1. SelectCall(node, fr) = Selected(save \o result \o restore, f2)
  BY DEF SelectCall
<1>2. /\ IsFrame(f1, Regs) /\ FrameSeparate(f1) /\ Grows(fr, f1)
      /\ {"t0", "t1"} \subseteq DOMAIN f1.temp_offset
  BY <1>0, TwoSlots
<1> HIDE DEF f1
<1>3. /\ IsFrame(f2, Regs) /\ FrameSeparate(f2) /\ Grows(f1, f2)
      /\ "t2" \in DOMAIN f2.temp_offset
  BY <1>0, <1>2, AllocTempSeparate
<1> HIDE DEF f2
<1>4. Grows(fr, f2) /\ {"t0", "t1", "t2"} \subseteq DOMAIN f2.temp_offset
  <2>1. Grows(fr, f2)
    BY <1>2, <1>3, GrowsTransitive
  <2> QED
    BY <1>2, <1>3, <2>1 DEF Grows
<1>5. \A r \in {"t0", "t1", "t2"} :
        Load(r, "sp", off(r)) \in S /\ Store("sp", r, off(r)) \in S
  BY <1>0, <1>3, <1>4, SlotInst, NonSpRegisters
<1>6. Call(node.func) \in S
  BY <1>0, SpFreeConstructors, SpFreeOwned
<1> HIDE DEF S
<1>7. save \in Seq(S)
  BY <1>5, <1>6
<1>8. restore \in Seq(S)
  BY <1>5, SeqTuples
<1>9. result \in Seq(S)
  <2>1. node.x # "" => Mv(node.x, "a0") \in S
    BY <1>0, SpFreeConstructors, SpFreeOwned, NonSpRegisters DEF S
  <2> QED
    BY <2>1, SeqTuples
<1> HIDE DEF save, result, restore
<1>10. save \o result \o restore \in Seq(S)
  BY <1>7, <1>8, <1>9, SeqConcat
<1>11. S \subseteq Owned(f2) /\ S \subseteq Inner
  BY DEF S
<1>12. /\ save \o result \o restore \in Seq(Owned(f2))
       /\ save \o result \o restore \in Seq(Inner)
  BY <1>10, <1>11, SeqSubset
<1> QED
  BY <1>1, <1>3, <1>4, <1>12 DEF Sound, Selected

LEMMA SelectArgSound ==
  ASSUME NEW node \in IRNode, node.ir = "Arg",
         NEW fr, IsFrame(fr, Regs), FrameSeparate(fr)
  PROVE  Sound(SelectArg(node, fr), fr) /\ SelectArg(node, fr).code \in Seq(Inner)
<1> DEFINE f == AllocTemp(fr, WordSize, node.x)
<1>0. node.x \in VReg /\ node.x \in Regs /\ node.k \in Nat
  BY DEF IRNode, Regs
<1>1. IsFrame(f, Regs) /\ FrameSeparate(f) /\ Grows(fr, f) /\ node.x \in DOMAIN f.temp_offset
  BY <1>0, AllocTempSeparate
<1>2. CASE node.k < 8
  <2>1. SelectArg(node, fr) = Selected(<< Mv(ArgReg[node.k + 1], node.x) >>, fr)
    BY <1>2 DEF SelectArg
  <2>2. Mv(ArgReg[node.k + 1], node.x) \in SpFree
    BY <1>0, <1>2, NonSpRegisters, SpFreeConstructors
  <2>3. << Mv(ArgReg[node.k + 1], node.x) >> \in Seq(SpFree)
    BY <2>2, SeqTuples
  <2>4. /\ SelectArg(node, fr).frame = fr
        /\ SelectArg(node, fr).code = << Mv(ArgReg[node.k + 1], node.x) >>
    BY <2>1 DEF Selected
  <2>5. Sound(SelectArg(node, fr), fr)
    BY <2>3, <2>4, SpFreeSound
  <2> QED
    BY <2>3, <2>4, <2>5, SpFreeOwned
<1>3. CASE ~(node.k < 8)
  <2>1. SelectArg(node, fr) = Selected(<< Store("sp", node.x, f.temp_offset[node.x]) >>, f)
    BY <1>3 DEF SelectArg
  <2> HIDE DEF f
  <2>2. node.x \notin {"ra", "fp"}
    BY <1>0, VirtualRegisters DEF Critical
  <2>3. Store("sp", node.x, f.temp_offset[node.x]) \in Owned(f) \cap Inner
    BY <1>0, <1>1, <2>2, SlotInst
  <2>4. /\ << Store("sp", node.x, f.temp_offset[node.x]) >> \in Seq(Owned(f))
        /\ << Store("sp", node.x, f.temp_offset[node.x]) >> \in Seq(Inner)
    BY <2>3, SeqTuples
  <2> QED
    BY <1>1, <2>1, <2>4 DEF Sound, Selected
<1> QED
  BY <1>2, <1>3

LEMMA SelectDecSound ==
  ASSUME NEW node \in IRNode, node.ir = "Dec", node.size > 0,
         NEW fr, IsFrame(fr, Regs), FrameSeparate(fr)
  PROVE  Sound(SelectDec(node, fr), fr) /\ SelectDec(node, fr).code \in Seq(Inner)
<1> DEFINE top == fr.temp_stack_size
           g == AllocDec(fr, node.size)
           inst == ArithImm("Add", node.x, "sp", top)
<1>0. /\ node.x \in VReg /\ node.size \in Nat
      /\ top \in Nat /\ Len(fr.decs) \in Nat /\ fr.decs \in Seq(ArrayBlock)
  <2>1. node.size \in Int /\ node.x \in VReg
    BY DEF IRNode
  <2> QED
    BY <2>1 DEF IsFrame
<1>1. IsFrame(g, Regs) /\ FrameSeparate(g) /\ Grows(fr, g)
  BY <1>0, AllocDecSeparate
<1>2. Len(g.decs) = Len(fr.decs) + 1 /\ g.decs[Len(fr.decs) + 1].lo = top
  <2> DEFINE block == [lo |-> top, size |-> node.size]
  <2>1. g.decs = AddBlock(fr.decs, top, node.size)
    BY DEF AllocDec, IsFrame
  <2>2. block \in ArrayBlock /\ block.lo = top
    BY <1>0 DEF ArrayBlock
  <2>3. g.decs = Append(fr.decs, block)
    BY <2>1 DEF AddBlock
  <2> HIDE DEF g, block
  <2> QED
    BY <1>0, <2>2, <2>3, AppendElements
<1> HIDE DEF g
<1>3. /\ inst \in InstSet /\ inst.kind = "ArithImm" /\ inst.imm = top /\ inst.rd = node.x
      /\ inst.rs1 = "sp"
  <2>1. "Add" \in BinaryOps \cup Mnemonics \cup {Unused}
    BY DEF Mnemonics
  <2>2. node.x \in Regs /\ "sp" \in Regs /\ top \in Int
    <3>1. node.x \in Regs /\ "sp" \in Regs
      BY <1>0, Registers DEF Regs
    <3> QED
      BY <1>0, <3>1
  <2>3. inst \in InstSet
    BY <2>1, <2>2, InstTyped DEF ArithImm, Kinds
  <2> QED
    BY <2>3 DEF ArithImm, Inst
<1> HIDE DEF inst
<1>4. inst \in Owned(g) /\ inst \in Inner
  <2>1. inst \in Inner
    BY <1>0, <1>3, VirtualRegisters DEF Inner, Plain
  <2> QED
    BY <1>0, <1>2, <1>3, <2>1 DEF Owned, SpAddressOwned, Inner
<1>5. SelectDec(node, fr) = Selected(<< inst >>, g)
  BY DEF SelectDec, inst, g
<1> QED
  BY <1>1, <1>4, <1>5, SeqTuples DEF Sound, Selected

-----------------------------------------------------------------------------
(* Register allocation.                                                    *)

LEMMA WithSlotSound ==
  ASSUME NEW fr, IsFrame(fr, Regs), FrameSeparate(fr), NEW reg \in Regs \cup {Unused}
  PROVE  LET g == WithSlot(fr, reg) IN
         /\ IsFrame(g, Regs) /\ FrameSeparate(g) /\ Grows(fr, g)
         /\ Virtual(reg) => reg \in DOMAIN g.temp_offset
<1>1. CASE Virtual(reg)
  BY <1>1, AllocTempSeparate DEF WithSlot, Virtual
<1>2. CASE ~Virtual(reg)
  BY <1>2, GrowsReflexive DEF WithSlot
<1> QED
  BY <1>1, <1>2

LEMMA WithSlotsSound ==
  ASSUME NEW fr, IsFrame(fr, Regs), FrameSeparate(fr), NEW inst \in InstSet
  PROVE  LET g == WithSlots(fr, inst) IN
         /\ IsFrame(g, Regs) /\ FrameSeparate(g) /\ Grows(fr, g)
         /\ \A reg \in {inst.rs1, inst.rs2, inst.rd} :
              Virtual(reg) => reg \in DOMAIN g.temp_offset
<1> DEFINE g1 == WithSlot(fr, inst.rs1)
           g2 == WithSlot(g1, inst.rs2)
           g == WithSlot(g2, inst.rd)
<1>0. {inst.rs1, inst.rs2, inst.rd} \subseteq Regs \cup {Unused}
  BY DEF InstSet
<1>1. /\ IsFrame(g1, Regs) /\ FrameSeparate(g1) /\ Grows(fr, g1)
      /\ Virtual(inst.rs1) => inst.rs1 \in DOMAIN g1.temp_offset
  BY <1>0, WithSlotSound
<1> HIDE DEF g1
<1>2. /\ IsFrame(g2, Regs) /\ FrameSeparate(g2) /\ Grows(g1, g2)
      /\ Virtual(inst.rs2) => inst.rs2 \in DOMAIN g2.temp_offset
  BY <1>0, <1>1, WithSlotSound
<1> HIDE DEF g2
<1>3. /\ IsFrame(g, Regs) /\ FrameSeparate(g) /\ Grows(g2, g)
      /\ Virtual(inst.rd) => inst.rd \in DOMAIN g.temp_offset
  BY <1>0, <1>2, WithSlotSound
<1> HIDE DEF g
<1>4. Grows(g1, g)
  BY <1>1, <1>2, <1>3, GrowsTransitive
<1>5. Grows(fr, g)
  BY <1>1, <1>3, <1>4, GrowsTransitive
<1>6. /\ DOMAIN g1.temp_offset \subseteq DOMAIN g.temp_offset
      /\ DOMAIN g2.temp_offset \subseteq DOMAIN g.temp_offset
  BY <1>3, <1>4 DEF Grows
<1>7. g = WithSlots(fr, inst)
  BY DEF g, g2, g1, WithSlots
<1> QED
  BY <1>1, <1>2, <1>3, <1>5, <1>6, <1>7

LEMMA SlotInstPhysical ==
  ASSUME NEW fr, IsFrame(fr, Regs), NEW r \in DOMAIN fr.temp_offset \ {"ra", "fp"},
         NEW reg \in {"t0", "t1", "t2"}
  PROVE  /\ Load(reg, "sp", fr.temp_offset[r]) \in Owned(fr) \cap Physical \cap Inner
         /\ Store("sp", reg, fr.temp_offset[r]) \in Owned(fr) \cap Physical \cap Inner
<1> DEFINE off == fr.temp_offset[r]
<1>1. reg \in PhysReg /\ reg \in Regs /\ reg \in Free /\ "sp" \in PhysReg
  BY Registers, NonSpRegisters DEF Regs
<1>2. /\ Load(reg, "sp", off) \in Owned(fr) \cap Inner
      /\ Store("sp", reg, off) \in Owned(fr) \cap Inner
  BY <1>1, SlotInst
<1> HIDE DEF off
<1>3. /\ RegsOf(Load(reg, "sp", off)) \subseteq PhysReg
      /\ RegsOf(Store("sp", reg, off)) \subseteq PhysReg
  BY <1>1 DEF RegsOf, Load, Store, Inst
<1> QED
  BY <1>2, <1>3 DEF Owned, Plain, Physical, off

\* The instruction itself, over the registers it is given.
Core(inst) == [inst EXCEPT !.rs1 = Phys(@, "t1"), !.rs2 = Phys(@, "t2"), !.rd = Phys(@, "t0")]

\* Allocation keeps what addresses the frame and leaves only physical registers.
LEMMA AllocatedParts ==
  ASSUME NEW fr, IsFrame(fr, Regs), FrameSeparate(fr), NEW inst \in Owned(fr),
         NEW g, g = WithSlots(fr, inst)
  PROVE  /\ IsFrame(g, Regs) /\ FrameSeparate(g) /\ Grows(fr, g)
         /\ LoadSource(inst.rs1, "t1", g) \in Seq(Owned(g) \cap Physical \cap Inner)
         /\ LoadSource(inst.rs2, "t2", g) \in Seq(Owned(g) \cap Physical \cap Inner)
         /\ Core(inst) \in Owned(g) \cap Physical
         /\ inst \in Inner => Core(inst) \in Inner
         /\ StoreResult(inst.rd, g) \in Seq(Owned(g) \cap Physical \cap Inner)
         /\ Core(inst).kind = inst.kind /\ Core(inst).op = inst.op
         /\ Core(inst).label = inst.label
<1> DEFINE S == Owned(g) \cap Physical \cap Inner
           core == [inst EXCEPT !.rs1 = Phys(@, "t1"), !.rs2 = Phys(@, "t2"),
                                !.rd = Phys(@, "t0")]
<1>0. /\ inst \in InstSet /\ {inst.rs1, inst.rs2, inst.rd} \subseteq Regs \cup {Unused}
      /\ inst \in Plain
  BY DEF Owned, Plain, InstSet
<1>1. /\ IsFrame(g, Regs) /\ FrameSeparate(g) /\ Grows(fr, g)
      /\ \A reg \in {inst.rs1, inst.rs2, inst.rd} :
           Virtual(reg) => reg \in DOMAIN g.temp_offset \ {"ra", "fp"}
  <2>1. \A reg : Virtual(reg) => reg \notin {"ra", "fp"}
    BY Registers DEF Virtual
  <2> QED
    BY <1>0, <2>1, WithSlotsSound
<1>2. ASSUME NEW reg \in {inst.rs1, inst.rs2}, NEW t \in {"t1", "t2"}
      PROVE  LoadSource(reg, t, g) \in Seq(S)
  <2>1. CASE Virtual(reg)
    <3>1. Load(t, "sp", g.temp_offset[reg]) \in S
      BY <1>1, <2>1, SlotInstPhysical
    <3>2. LoadSource(reg, t, g) = << Load(t, "sp", g.temp_offset[reg]) >>
      BY <2>1 DEF LoadSource
    <3> HIDE DEF S
    <3> QED
      BY <3>1, <3>2, SeqTuples
  <2>2. CASE ~Virtual(reg)
    BY <2>2, SeqTuples DEF LoadSource
  <2> QED
    BY <2>1, <2>2
<1>3. StoreResult(inst.rd, g) \in Seq(S)
  <2>1. CASE Virtual(inst.rd)
    <3>1. Store("sp", "t0", g.temp_offset[inst.rd]) \in S
      BY <1>1, <2>1, SlotInstPhysical
    <3>2. StoreResult(inst.rd, g) = << Store("sp", "t0", g.temp_offset[inst.rd]) >>
      BY <2>1 DEF StoreResult
    <3> HIDE DEF S
    <3> QED
      BY <3>1, <3>2, SeqTuples
  <2>2. CASE ~Virtual(inst.rd)
    BY <2>2, SeqTuples DEF StoreResult
  <2> QED
    BY <2>1, <2>2
<1>4. /\ core \in Owned(g) \cap Physical
      /\ core.kind = inst.kind /\ core.op = inst.op /\ core.label = inst.label
      /\ core = Core(inst) /\ core \in Plain
  <2>1. \A reg \in Regs \cup {Unused}, t \in {"t0", "t1", "t2"} :
          /\ Phys(reg, t) \in PhysReg \cup {Unused}
          /\ Phys(reg, t) = "sp" => reg = "sp"
          /\ reg = "sp" => Phys(reg, t) = "sp"
          /\ Phys(reg, t) = "t4" => reg = "t4"
          /\ Phys(reg, t) \in Critical => reg \in Critical
    BY Registers DEF Phys, Virtual, Critical
  <2>2. /\ core.rs1 = Phys(inst.rs1, "t1") /\ core.rs2 = Phys(inst.rs2, "t2")
        /\ core.rd = Phys(inst.rd, "t0")
        /\ core.kind = inst.kind /\ core.imm = inst.imm
        /\ core.op = inst.op /\ core.label = inst.label /\ core = Core(inst)
    BY <1>0 DEF InstSet, Core
  <2>3. core \in InstSet
    <3> DEFINE a == Phys(inst.rs1, "t1")  b == Phys(inst.rs2, "t2")  c == Phys(inst.rd, "t0")
    <3>1. {a, b, c} \subseteq Regs \cup {Unused}
      BY <1>0, <2>1 DEF Regs
    <3> HIDE DEF a, b, c
    <3>2. [inst EXCEPT !.rs1 = a, !.rs2 = b, !.rd = c] \in InstSet
      BY <1>0, <3>1 DEF InstSet
    <3> QED
      BY <3>2 DEF a, b, c
  <2>4. RegsOf(core) \subseteq PhysReg
    BY <1>0, <2>1, <2>2 DEF RegsOf
  <2>5. /\ core.rs1 = "sp" => inst.rs1 = "sp"
        /\ inst.rs1 = "sp" => core.rs1 = "sp"
        /\ core.rs1 = "t4" => inst.rs1 = "t4"
        /\ core.rd \in Critical => inst.rd \in Critical
    BY <1>0, <2>1, <2>2
  <2>6. inst \in Owned(g)
    BY <1>1, OwnedGrows
  <2> HIDE DEF core
  <2>7. core \in Plain
    BY <1>0, <2>2, <2>3, <2>5 DEF Plain
  <2>8. SpAddressOwned(core, g)
    <3>1. SpAddressOwned(inst, g)
      BY <2>6 DEF Owned
    <3> QED
      BY <2>2, <2>5, <3>1 DEF SpAddressOwned
  <2>9. core.kind \in {"Load", "Store"} /\ core.rs1 = "sp" => AtOwnSlot(core, g)
    BY <2>2, <2>5, <2>6 DEF Owned, AtOwnSlot
  <2> QED
    BY <2>2, <2>3, <2>4, <2>7, <2>8, <2>9 DEF Owned, Physical
<1> HIDE DEF core
<1>5. inst \in Inner => core \in Inner
  BY <1>4 DEF Inner
<1> QED
  BY <1>1, <1>2, <1>3, <1>4, <1>5

LEMMA AllocatedSound ==
  ASSUME NEW fr, IsFrame(fr, Regs), FrameSeparate(fr), NEW inst \in Owned(fr)
  PROVE  LET g == WithSlots(fr, inst) IN
         /\ IsFrame(g, Regs) /\ FrameSeparate(g) /\ Grows(fr, g)
         /\ Allocated(inst, g) \in Seq(Owned(g) \cap Physical)
         /\ inst \in Inner => Allocated(inst, g) \in Seq(Inner)
<1>1. PICK g : g = WithSlots(fr, inst)
  OBVIOUS
<1> DEFINE S == Owned(g) \cap Physical
           a == LoadSource(inst.rs1, "t1", g)
           b == LoadSource(inst.rs2, "t2", g)
           d == StoreResult(inst.rd, g)
<1>2. /\ IsFrame(g, Regs) /\ FrameSeparate(g) /\ Grows(fr, g) /\ Core(inst) \in S
      /\ a \in Seq(S \cap Inner) /\ b \in Seq(S \cap Inner) /\ d \in Seq(S \cap Inner)
      /\ inst \in Inner => Core(inst) \in Inner
  BY <1>1, AllocatedParts
<1>3. Allocated(inst, g) = ((a \o b) \o << Core(inst) >>) \o d
  BY DEF Allocated, Core
<1> HIDE DEF S, a, b, d
<1>4. S \cap Inner \subseteq S /\ S \cap Inner \subseteq Inner
  OBVIOUS
<1>5. a \in Seq(S) /\ b \in Seq(S) /\ d \in Seq(S)
  BY <1>2, <1>4, SeqSubset
<1>6. a \in Seq(Inner) /\ b \in Seq(Inner) /\ d \in Seq(Inner)
  BY <1>2, <1>4, SeqSubset
<1>7. << Core(inst) >> \in Seq(S) /\ (inst \in Inner => << Core(inst) >> \in Seq(Inner))
  BY <1>2, SeqTuples
<1>8. Allocated(inst, g) \in Seq(S)
  BY <1>3, <1>5, <1>7, SeqConcat
<1>9. inst \in Inner => Allocated(inst, g) \in Seq(Inner)
  BY <1>3, <1>6, <1>7, SeqConcat
<1> QED
  BY <1>1, <1>2, <1>8, <1>9 DEF S

\* An instruction without registers is kept as it is.
LEMMA AllocatedKept ==
  ASSUME NEW fr, NEW inst \in InstSet, RegsOf(inst) = {}
  PROVE  Allocated(inst, fr) = << inst >>
<1>1. inst.rd = Unused /\ inst.rs1 = Unused /\ inst.rs2 = Unused
  BY DEF RegsOf
<1>2. ~Virtual(Unused)
  BY DEF Virtual
<1>3. [inst EXCEPT !.rs1 = Unused, !.rs2 = Unused, !.rd = Unused] = inst
  BY <1>1 DEF InstSet
<1>4. Allocated(inst, fr) = (((<< >> \o << >>) \o << inst >>) \o << >>)
  BY <1>1, <1>2, <1>3 DEF Allocated, LoadSource, StoreResult, Phys
<1> QED
  BY <1>4

-----------------------------------------------------------------------------
(* Emission.                                                               *)

\* Instructions over physical registers, from their fields.
LEMMA PhysicalInst ==
  ASSUME NEW kind \in Kinds, NEW op \in BinaryOps \cup Mnemonics \cup {Unused},
         NEW rd \in PhysReg \cup {Unused}, NEW rs1 \in PhysReg \cup {Unused},
         NEW rs2 \in PhysReg \cup {Unused}, NEW imm \in Int,
         NEW label \in Labels \cup {Unused}
  PROVE  /\ Inst(kind, op, rd, rs1, rs2, imm, label) \in Physical
         /\ Fits(imm) => Inst(kind, op, rd, rs1, rs2, imm, label) \in Legal
         /\ kind \notin {"ArithImm", "Load", "Store"}
              => Inst(kind, op, rd, rs1, rs2, imm, label) \in Legal
<1> DEFINE inst == Inst(kind, op, rd, rs1, rs2, imm, label)
<1>1. rd \in Regs \cup {Unused} /\ rs1 \in Regs \cup {Unused} /\ rs2 \in Regs \cup {Unused}
  BY DEF Regs
<1>2. /\ inst \in InstSet /\ inst.kind = kind /\ inst.rd = rd /\ inst.rs1 = rs1
      /\ inst.rs2 = rs2 /\ inst.imm = imm
  BY <1>1 DEF Inst, InstSet
<1> HIDE DEF inst
<1>3. RegsOf(inst) \subseteq PhysReg
  BY <1>2 DEF RegsOf
<1>4. inst \in Physical
  BY <1>2, <1>3 DEF Physical
<1> QED
  BY <1>2, <1>4 DEF Legal, inst

LEMMA PhysicalFields ==
  ASSUME NEW inst \in Physical
  PROVE  /\ inst \in InstSet /\ inst.kind \in Kinds /\ inst.imm \in Int
         /\ inst.op \in BinaryOps \cup Mnemonics \cup {Unused}
         /\ inst.rd \in PhysReg \cup {Unused} /\ inst.rs1 \in PhysReg \cup {Unused}
         /\ inst.rs2 \in PhysReg \cup {Unused}
BY DEF Physical, InstSet, RegsOf

\* Expansion makes every instruction over physical registers legal.
LEMMA ExpandLegal ==
  ASSUME NEW inst \in Physical
  PROVE  Expand(inst) \in Seq(Legal)
<1>0. /\ inst \in InstSet /\ inst.kind \in Kinds /\ inst.imm \in Int
      /\ inst.op \in BinaryOps \cup Mnemonics \cup {Unused}
      /\ inst.rd \in PhysReg \cup {Unused} /\ inst.rs1 \in PhysReg \cup {Unused}
      /\ inst.rs2 \in PhysReg \cup {Unused}
  BY PhysicalFields
<1> 0 \in Int
  OBVIOUS
<1>1. "t4" \in PhysReg \cup {Unused} /\ "Add" \in Mnemonics
  BY Registers DEF Mnemonics
<1>2. Li("t4", inst.imm) \in Legal
  BY <1>0, <1>1, PhysicalInst DEF Li, Kinds
<1>3. CASE inst.kind = "ArithImm" /\ ~Fits(inst.imm)
  <2>1. Arith(inst.op, inst.rd, inst.rs1, "t4") \in Legal
    BY <1>0, <1>1, PhysicalInst DEF Arith, Kinds
  <2>2. Expand(inst) = << Li("t4", inst.imm), Arith(inst.op, inst.rd, inst.rs1, "t4") >>
    BY <1>3 DEF Expand
  <2> QED
    BY <1>2, <2>1, <2>2, SeqTuples
<1>4. CASE inst.kind = "Store" /\ ~Fits(inst.imm)
  <2>1. Arith("Add", "t4", inst.rs1, "t4") \in Legal
    BY <1>0, <1>1, PhysicalInst DEF Arith, Kinds
  <2>2. Store("t4", inst.rs2, 0) \in Legal
    BY <1>0, <1>1, PhysicalInst, ZeroFits DEF Store, Kinds
  <2>3. Expand(inst) = << Li("t4", inst.imm), Arith("Add", "t4", inst.rs1, "t4"),
                          Store("t4", inst.rs2, 0) >>
    BY <1>4 DEF Expand
  <2> QED
    BY <1>2, <2>1, <2>2, <2>3, SeqTuples
<1>5. CASE inst.kind = "Load" /\ ~Fits(inst.imm)
  <2>1. Arith("Add", "t4", inst.rs1, "t4") \in Legal
    BY <1>0, <1>1, PhysicalInst DEF Arith, Kinds
  <2>2. Load(inst.rd, "t4", 0) \in Legal
    BY <1>0, <1>1, PhysicalInst, ZeroFits DEF Load, Kinds
  <2>3. Expand(inst) = << Li("t4", inst.imm), Arith("Add", "t4", inst.rs1, "t4"),
                          Load(inst.rd, "t4", 0) >>
    BY <1>5 DEF Expand
  <2> QED
    BY <1>2, <2>1, <2>2, <2>3, SeqTuples
<1>6. CASE inst.kind \in {"ArithImm", "Load", "Store"} => Fits(inst.imm)
  <2>1. inst \in Legal
    BY <1>6 DEF Legal
  <2>2. Expand(inst) = << inst >>
    BY <1>6 DEF Expand
  <2> QED
    BY <2>1, <2>2, SeqTuples
<1> QED
  BY <1>3, <1>4, <1>5, <1>6

\* The instructions prologue and epilogue are made of, before expansion.
LEMMA FrameInsts ==
  ASSUME NEW imm \in Int, NEW reg \in {"ra", "fp"}
  PROVE  /\ ArithImm("Add", "sp", "sp", imm) \in Physical
         /\ ArithImm("Add", "fp", "sp", imm) \in Physical
         /\ Store("sp", reg, imm) \in Physical
         /\ Load(reg, "sp", imm) \in Physical
<1>1. /\ {"sp", "fp", "ra"} \subseteq PhysReg \cup {Unused}
      /\ "Add" \in Mnemonics /\ {"ArithImm", "Load", "Store"} \subseteq Kinds
  BY Registers DEF Mnemonics, Kinds
<1>2. /\ ArithImm("Add", "sp", "sp", imm) \in Physical
      /\ ArithImm("Add", "fp", "sp", imm) \in Physical
  BY <1>1, PhysicalInst DEF ArithImm
<1>3. Store("sp", reg, imm) \in Physical /\ Load(reg, "sp", imm) \in Physical
  BY <1>1, PhysicalInst DEF Store, Load
<1> QED
  BY <1>2, <1>3

LEMMA PrologueLegal ==
  ASSUME NEW size \in Int, NEW ra \in Int, NEW fp \in Int
  PROVE  Prologue(size, ra, fp) \in Seq(Legal)
<1> DEFINE a == Expand(ArithImm("Add", "sp", "sp", -size))
           b == Expand(Store("sp", "ra", ra))
           c == Expand(Store("sp", "fp", fp))
           d == Expand(ArithImm("Add", "fp", "sp", size))
<1>1. -size \in Int
  OBVIOUS
<1>2. a \in Seq(Legal)
  BY <1>1, FrameInsts, ExpandLegal
<1>3. b \in Seq(Legal) /\ c \in Seq(Legal) /\ d \in Seq(Legal)
  BY FrameInsts, ExpandLegal
<1> HIDE DEF a, b, c, d
<1>4. ((a \o b) \o c) \o d \in Seq(Legal)
  BY <1>2, <1>3, SeqConcat
<1> QED
  BY <1>4 DEF Prologue, a, b, c, d

LEMMA EpilogueLegal ==
  ASSUME NEW label \in Labels, NEW ret \in {"", "a0"},
         NEW size \in Int, NEW ra \in Int, NEW fp \in Int
  PROVE  Epilogue(label, ret, size, ra, fp) \in Seq(Legal)
<1> 0 \in Int
  BY ZeroFits
<1> DEFINE a == << Label(label) >>
           b == IF ret = "" THEN << >> ELSE << Mv("a0", ret) >>
           c == Expand(Load("ra", "sp", ra))
           d == Expand(Load("fp", "sp", fp))
           e == Expand(ArithImm("Add", "sp", "sp", size))
           f == << Ret >>
<1>0. "a0" \in PhysReg /\ {"Label", "Mv", "Ret"} \subseteq Kinds
  BY Registers DEF Kinds
<1>1. Label(label) \in Legal
  BY <1>0, PhysicalInst DEF Label
<1>2. Mv("a0", "a0") \in Legal
  BY <1>0, PhysicalInst DEF Mv
<1>3. Ret \in Legal
  BY <1>0, PhysicalInst DEF Ret
<1>4. a \in Seq(Legal) /\ f \in Seq(Legal)
  BY <1>1, <1>3, SeqTuples
<1>5. b \in Seq(Legal)
  BY <1>2, SeqTuples
<1>6. c \in Seq(Legal) /\ d \in Seq(Legal) /\ e \in Seq(Legal)
  BY FrameInsts, ExpandLegal
<1> HIDE DEF a, b, c, d, e, f
<1>7. ((((a \o b) \o c) \o d) \o e) \o f \in Seq(Legal)
  BY <1>4, <1>5, <1>6, SeqConcat
<1> QED
  BY <1>7 DEF Epilogue, a, b, c, d, e, f

-----------------------------------------------------------------------------
(* The transfers of control in a piece of code.                            *)

Transfers ==
  [kind : Kinds, op : BinaryOps \cup Mnemonics \cup {Unused}, label : Labels \cup {Unused}]

Silent(inst) == ControlOf(inst) = << >>

\* Code the passes make of one node or instruction: it has at most one transfer.
Alone(code, j) ==
  /\ code \in Seq(InstSet) /\ j \in 1 .. Len(code)
  /\ \A i \in 1 .. Len(code) : i # j => Silent(code[i])

LEMMA ControlTyped ==
  ASSUME NEW inst \in InstSet
  PROVE  ControlOf(inst) \in Seq(Transfers)
<1>1. Transfer(inst.kind, inst.op, inst.label) \in Transfers
  BY DEF InstSet, Transfers, Transfer
<1>2. ControlOf(inst) \in {<< >>, << Transfer(inst.kind, inst.op, inst.label) >>}
  BY DEF ControlOf
<1> QED
  BY <1>1, <1>2, SeqTuples

LEMMA ControlParts ==
  ASSUME NEW c \in Seq(InstSet)
  PROVE  /\ [i \in DOMAIN c |-> ControlOf(c[i])] \in Seq(Seq(Transfers))
         /\ [i \in DOMAIN c |-> ControlOf(c[i])] \in [1 .. Len(c) -> Seq(Transfers)]
         /\ Len([i \in DOMAIN c |-> ControlOf(c[i])]) = Len(c)
<1>1. DOMAIN c = 1 .. Len(c) /\ Len(c) \in Nat
  OBVIOUS
<1>2. \A i \in 1 .. Len(c) : ControlOf(c[i]) \in Seq(Transfers)
  BY ElementsOf, ControlTyped
<1>3. [i \in DOMAIN c |-> ControlOf(c[i])] \in [1 .. Len(c) -> Seq(Transfers)]
  BY <1>1, <1>2
<1> QED
  BY <1>1, <1>3

LEMMA ControlAppend ==
  ASSUME NEW c \in Seq(InstSet), NEW inst \in InstSet
  PROVE  /\ Control(Append(c, inst)) = Control(c) \o ControlOf(inst)
         /\ Control(c) \in Seq(Transfers)
<1>1. PICK d : d = Append(c, inst)
  OBVIOUS
<1>2. PICK n \in Nat : n = Len(c)
  OBVIOUS
<1>3. /\ d \in Seq(InstSet) /\ Len(d) = n + 1 /\ d[n + 1] = inst
      /\ \A i \in 1 .. n : d[i] = c[i]
  BY <1>1, <1>2
<1>4. PICK m : m = [i \in DOMAIN c |-> ControlOf(c[i])]
  OBVIOUS
<1>5. PICK u : u = [i \in DOMAIN d |-> ControlOf(d[i])]
  OBVIOUS
<1>6. m \in [1 .. n -> Seq(Transfers)] /\ u \in [1 .. n + 1 -> Seq(Transfers)]
  BY <1>2, <1>3, <1>4, <1>5, ControlParts
<1>7. DOMAIN c = 1 .. n /\ DOMAIN d = 1 .. n + 1
  BY <1>2, <1>3
<1>8. n + 1 \in 1 .. n + 1 /\ \A i \in 1 .. n : i \in 1 .. n + 1
  OBVIOUS
<1>9. u[n + 1] = ControlOf(inst) /\ \A i \in 1 .. n : u[i] = m[i]
  BY <1>3, <1>4, <1>5, <1>7, <1>8
<1>10. OneMore(Transfers, n, m, u)
  BY <1>6, <1>9 DEF OneMore
<1>11. FlattenSeq(m) \in Seq(Transfers) /\ FlattenSeq(u) = FlattenSeq(m) \o u[n + 1]
  BY <1>10, FlattenMapped
<1> QED
  BY <1>1, <1>4, <1>5, <1>9, <1>11 DEF Control

LEMMA ControlCode ==
  ASSUME NEW c \in Seq(InstSet)
  PROVE  Control(c) \in Seq(Transfers)
<1>1. PICK m \in Seq(Seq(Transfers)) : m = [i \in DOMAIN c |-> ControlOf(c[i])]
  BY ControlParts
<1>2. FlattenSeq(m) \in Seq(Transfers)
  BY <1>1, FlattenAppend
<1> QED
  BY <1>1, <1>2 DEF Control

LEMMA ControlEmpty == Control(<< >>) = << >>
<1>1. PICK m : m = [i \in DOMAIN << >> |-> ControlOf(<< >>[i])]
  OBVIOUS
<1>2. << >> \in Seq(InstSet) /\ Len(<< >>) = 0
  BY SeqTuples
<1>3. m \in Seq(Seq(Transfers)) /\ Len(m) = 0
  BY <1>1, <1>2, ControlParts
<1>4. m = << >>
  BY <1>3
<1> QED
  BY <1>1, <1>4, FlattenEmpty DEF Control

LEMMA ControlConcat ==
  ASSUME NEW c \in Seq(InstSet), NEW d \in Seq(InstSet)
  PROVE  /\ Control(c \o d) = Control(c) \o Control(d)
         /\ c \o d \in Seq(InstSet)
<1> DEFINE Upto(k) == SubSeq(d, 1, k)
           Good == {k \in Nat : Control(c \o Upto(k)) = Control(c) \o Control(Upto(k))}
<1>1. Control(c) \in Seq(Transfers) /\ Len(d) \in Nat
  BY ControlCode
<1>2. 0 \in Good
  <2>1. Upto(0) = << >> /\ c \o << >> = c /\ Control(c) \o << >> = Control(c)
    BY <1>1, ConcatAssociates
  <2> HIDE DEF Upto
  <2> QED
    BY <2>1, ControlEmpty
<1>3. ASSUME NEW k \in 0 .. Len(d), k + 1 <= Len(d), k \in Good
      PROVE  k + 1 \in Good
  <2>1. PICK f : f = Upto(k)
    OBVIOUS
  <2>2. PICK e : e = d[k + 1]
    OBVIOUS
  <2>3. Upto(k + 1) = Append(f, e) /\ f \in Seq(InstSet) /\ e \in InstSet
    BY <1>3, <2>1, <2>2, FrontLonger
  <2>4. Control(c \o f) = Control(c) \o Control(f)
    BY <1>3, <2>1
  <2> HIDE DEF Upto, Good
  <2>5. c \o Append(f, e) = Append(c \o f, e) /\ c \o f \in Seq(InstSet)
    BY <2>3
  <2>6. Control(Append(c \o f, e)) = Control(c \o f) \o ControlOf(e)
    BY <2>3, <2>5, ControlAppend
  <2>7. Control(Append(f, e)) = Control(f) \o ControlOf(e) /\ Control(f) \in Seq(Transfers)
    BY <2>3, ControlAppend
  <2>8. (Control(c) \o Control(f)) \o ControlOf(e) = Control(c) \o (Control(f) \o ControlOf(e))
    <3>1. ControlOf(e) \in Seq(Transfers)
      BY <2>3, ControlTyped
    <3> QED
      BY <1>1, <2>7, <3>1, ConcatAssociates
  <2>9. Control(c \o Upto(k + 1)) = Control(c) \o Control(Upto(k + 1))
    BY <2>3, <2>4, <2>5, <2>6, <2>7, <2>8
  <2> QED
    BY <1>3, <2>9 DEF Good
<1>4. Len(d) \in Good
  <2> HIDE DEF Good
  <2> QED
    BY <1>1, <1>2, <1>3, UpTo DEF HoldsUpTo
<1>5. Upto(Len(d)) = d
  OBVIOUS
<1> QED
  BY <1>4, <1>5, SeqConcat

\* Code with one transfer at most transfers what that instruction does.
LEMMA AloneControl ==
  ASSUME NEW code, NEW j, Alone(code, j)
  PROVE  Control(code) = ControlOf(code[j])
<1> DEFINE Upto(k) == SubSeq(code, 1, k)
           Good == {k \in Nat : Control(Upto(k)) = IF k < j THEN << >> ELSE ControlOf(code[j])}
<1>0. /\ code \in Seq(InstSet) /\ j \in 1 .. Len(code) /\ Len(code) \in Nat
      /\ \A i \in 1 .. Len(code) : i # j => ControlOf(code[i]) = << >>
  BY DEF Alone, Silent
<1>1. ControlOf(code[j]) \in Seq(Transfers)
  BY <1>0, ElementsOf, ControlTyped
<1>2. 0 \in Good
  <2>1. Upto(0) = << >> /\ 0 < j
    BY <1>0
  <2> HIDE DEF Upto
  <2> QED
    BY <2>1, ControlEmpty
<1>3. ASSUME NEW k \in 0 .. Len(code), k + 1 <= Len(code), k \in Good
      PROVE  k + 1 \in Good
  <2>1. PICK f : f = Upto(k)
    OBVIOUS
  <2>2. PICK e : e = code[k + 1]
    OBVIOUS
  <2>3. Upto(k + 1) = Append(f, e) /\ f \in Seq(InstSet) /\ e \in InstSet
    BY <1>0, <1>3, <2>1, <2>2, FrontLonger
  <2>4. Control(f) = IF k < j THEN << >> ELSE ControlOf(code[j])
    BY <1>3, <2>1
  <2> HIDE DEF Upto, Good
  <2>5. Control(Upto(k + 1)) = Control(f) \o ControlOf(e)
    BY <2>3, ControlAppend
  <2>6. ControlOf(e) = IF k + 1 = j THEN ControlOf(code[j]) ELSE << >>
    <3>1. k + 1 \in 1 .. Len(code)
      BY <1>0, <1>3
    <3> QED
      BY <1>0, <2>2, <3>1
  <2>7. /\ k + 1 = j => k < j /\ ~(k + 1 < j)
        /\ k + 1 # j /\ k < j => k + 1 < j
        /\ ~(k < j) => ~(k + 1 < j) /\ k + 1 # j
    BY <1>0, <1>3
  <2>8. << >> \o ControlOf(code[j]) = ControlOf(code[j])
        /\ ControlOf(code[j]) \o << >> = ControlOf(code[j]) /\ << >> \o << >> = << >>
    BY <1>1, ConcatAssociates
  <2>9. Control(Upto(k + 1)) = IF k + 1 < j THEN << >> ELSE ControlOf(code[j])
    BY <2>4, <2>5, <2>6, <2>7, <2>8
  <2> QED
    BY <1>3, <2>9 DEF Good
<1>4. Len(code) \in Good
  <2> HIDE DEF Good
  <2> QED
    BY <1>0, <1>2, <1>3, UpTo DEF HoldsUpTo
<1>5. Upto(Len(code)) = code /\ ~(Len(code) < j)
  BY <1>0
<1> QED
  BY <1>4, <1>5

LEMMA SpFreeInstSet == SpFree \subseteq InstSet /\ \A code \in Seq(SpFree) : code \in Seq(InstSet)
<1>1. SpFree \subseteq InstSet
  BY DEF SpFree, Inner, Plain
<1> QED
  BY <1>1, SeqSubset

\* Short pieces, all but the last instruction of which are silent.
LEMMA TupleControl ==
  ASSUME NEW code \in Seq(InstSet)
  PROVE  /\ \A a : code = << a >> => Control(code) = ControlOf(a)
         /\ \A a, b : code = << a, b >> /\ Silent(a) => Control(code) = ControlOf(b)
         /\ \A a, b, c : code = << a, b, c >> /\ Silent(a) /\ Silent(b)
                          => Control(code) = ControlOf(c)
<1>1. ASSUME NEW a, code = << a >>
      PROVE  Control(code) = ControlOf(a)
  <2>1. Len(code) = 1 /\ code[1] = a
    BY <1>1
  <2>2. Alone(code, 1)
    BY <2>1 DEF Alone
  <2> QED
    BY <2>1, <2>2, AloneControl
<1>2. ASSUME NEW a, NEW b, code = << a, b >>, Silent(a)
      PROVE  Control(code) = ControlOf(b)
  <2>1. Len(code) = 2 /\ code[1] = a /\ code[2] = b
    BY <1>2
  <2>2. \A i \in 1 .. 2 : i # 2 => i = 1
    OBVIOUS
  <2>3. Alone(code, 2)
    BY <1>2, <2>1, <2>2 DEF Alone
  <2> QED
    BY <2>1, <2>3, AloneControl
<1>3. ASSUME NEW a, NEW b, NEW c, code = << a, b, c >>, Silent(a), Silent(b)
      PROVE  Control(code) = ControlOf(c)
  <2>1. Len(code) = 3 /\ code[1] = a /\ code[2] = b /\ code[3] = c
    BY <1>3
  <2>2. \A i \in 1 .. 3 : i # 3 => i = 1 \/ i = 2
    OBVIOUS
  <2>3. Alone(code, 3)
    BY <1>3, <2>1, <2>2 DEF Alone
  <2> QED
    BY <2>1, <2>3, AloneControl
<1> QED
  BY <1>1, <1>2, <1>3

\* What each class of instruction transfers.
LEMMA InstControl ==
  /\ \A op, rd, rs1, rs2 : Silent(Arith(op, rd, rs1, rs2))
  /\ \A op, rd, rs1, imm : Silent(ArithImm(op, rd, rs1, imm))
  /\ \A rd, rs : Silent(Mv(rd, rs))
  /\ \A rd, imm : Silent(Li(rd, imm))
  /\ \A rd, rs1, imm : Silent(Load(rd, rs1, imm))
  /\ \A rs1, rs2, imm : Silent(Store(rs1, rs2, imm))
  /\ \A l : Silent(GlobalLabel(l))
  /\ \A rd, l : ControlOf(La(rd, l)) = << Transfer("La", Unused, l) >>
  /\ \A op, rs1, rs2, l : ControlOf(Branch(op, rs1, rs2, l)) = << Transfer("Branch", op, l) >>
  /\ \A l : /\ ControlOf(Jump(l)) = << Transfer("Jump", Unused, l) >>
            /\ ControlOf(Call(l)) = << Transfer("Call", Unused, l) >>
            /\ ControlOf(Label(l)) = << Transfer("Label", Unused, l) >>
            /\ ControlOf(Function(l)) = << Transfer("Function", Unused, l) >>
  /\ ControlOf(Ret) = << Transfer("Ret", Unused, Unused) >>
BY DEF Silent, ControlOf, Arith, ArithImm, Mv, Li, La, Load, Store, Branch, Jump, Call, Ret,
       Label, GlobalLabel, Function, Inst

\* Selection gives a node the transfer it stands for.
LEMMA SelectControl ==
  ASSUME NEW node \in IRNode, NEW fr
  PROVE  /\ node.ir = "LoadImm" => Control(SelectLoadImm(node, fr).code) = NodeControl(node)
         /\ node.ir = "Assign" => Control(SelectAssign(node, fr).code) = NodeControl(node)
         /\ node.ir = "Binary" => Control(SelectBinary(node, fr).code) = NodeControl(node)
         /\ node.ir = "Unary" => Control(SelectUnary(node, fr).code) = NodeControl(node)
         /\ node.ir = "Label" => Control(SelectLabel(node, fr).code) = NodeControl(node)
         /\ node.ir = "Goto" => Control(SelectGoto(node, fr).code) = NodeControl(node)
         /\ node.ir = "Function" => Control(SelectFunction(node, fr).code) = NodeControl(node)
         /\ node.ir = "Param" => Control(SelectParam(node, fr).code) = NodeControl(node)
         /\ node.ir = "If" => Control(SelectIf(node, fr).code) = NodeControl(node)
         /\ node.ir = "LoadAddr" => Control(SelectLoadAddr(node, fr).code) = NodeControl(node)
         /\ node.ir = "Store" => Control(SelectStore(node, fr).code) = NodeControl(node)
         /\ node.ir = "Load" => Control(SelectLoad(node, fr).code) = NodeControl(node)
<1>1. ASSUME node.ir = "LoadImm"
      PROVE  Control(SelectLoadImm(node, fr).code) = NodeControl(node)
  <2>1. PICK code : code = SelectLoadImm(node, fr).code
    OBVIOUS
  <2>2. code \in Seq(InstSet)
    BY <1>1, <2>1, SpFreeCode, SpFreeInstSet
  <2>3. code = << Li(node.x, node.k) >>
    BY <2>1 DEF SelectLoadImm, Selected
  <2>4. NodeControl(node) = << >>
    BY <1>1 DEF NodeControl
  <2>5. Silent(Li(node.x, node.k))
    BY InstControl
  <2>6. Control(code) = ControlOf(Li(node.x, node.k))
    BY <2>2, <2>3, TupleControl
  <2> QED
    BY <2>1, <2>4, <2>5, <2>6 DEF Silent
<1>2. ASSUME node.ir = "Assign"
      PROVE  Control(SelectAssign(node, fr).code) = NodeControl(node)
  <2>1. PICK code : code = SelectAssign(node, fr).code
    OBVIOUS
  <2>2. code \in Seq(InstSet)
    BY <1>2, <2>1, SpFreeCode, SpFreeInstSet
  <2>3. code = << Mv(node.x, node.y) >>
    BY <2>1 DEF SelectAssign, Selected
  <2>4. NodeControl(node) = << >>
    BY <1>2 DEF NodeControl
  <2>5. Silent(Mv(node.x, node.y))
    BY InstControl
  <2>6. Control(code) = ControlOf(Mv(node.x, node.y))
    BY <2>2, <2>3, <2>5, TupleControl
  <2> QED
    BY <2>1, <2>4, <2>5, <2>6 DEF Silent
<1>3. ASSUME node.ir = "Binary"
      PROVE  Control(SelectBinary(node, fr).code) = NodeControl(node)
  <2>1. PICK code : code = SelectBinary(node, fr).code
    OBVIOUS
  <2>2. code \in Seq(InstSet)
    BY <1>3, <2>1, SpFreeCode, SpFreeInstSet
  <2>3. \/ code = << Arith(ArithOp(node.op), node.x, node.y, node.z) >>
        \/ code = << ArithImm(node.op, node.x, node.y, node.num) >>
        \/ code = << Li("t0", node.num), Arith(ArithOp(node.op), node.x, node.y, "t0") >>
    BY <2>1 DEF SelectBinary, Selected
  <2>4. NodeControl(node) = << >>
    BY <1>3 DEF NodeControl
  <2>5. /\ Silent(Arith(ArithOp(node.op), node.x, node.y, node.z))
        /\ Silent(ArithImm(node.op, node.x, node.y, node.num))
        /\ Silent(Arith(ArithOp(node.op), node.x, node.y, "t0"))
        /\ Silent(Li("t0", node.num))
    BY InstControl
  <2>6. \/ Control(code) = ControlOf(Arith(ArithOp(node.op), node.x, node.y, node.z))
        \/ Control(code) = ControlOf(ArithImm(node.op, node.x, node.y, node.num))
        \/ Control(code) = ControlOf(Arith(ArithOp(node.op), node.x, node.y, "t0"))
    BY <2>2, <2>3, <2>5, TupleControl
  <2> QED
    BY <2>1, <2>4, <2>5, <2>6 DEF Silent
<1>4. ASSUME node.ir = "Unary"
      PROVE  Control(SelectUnary(node, fr).code) = NodeControl(node)
  <2>1. PICK code : code = SelectUnary(node, fr).code
    OBVIOUS
  <2>2. code \in Seq(InstSet)
    BY <1>4, <2>1, SpFreeCode, SpFreeInstSet
  <2>3. code = << Arith(ArithOp(node.op), node.x, "zero", node.y) >>
    BY <2>1 DEF SelectUnary, Selected
  <2>4. NodeControl(node) = << >>
    BY <1>4 DEF NodeControl
  <2>5. Silent(Arith(ArithOp(node.op), node.x, "zero", node.y))
    BY InstControl
  <2>6. Control(code) = ControlOf(Arith(ArithOp(node.op), node.x, "zero", node.y))
    BY <2>2, <2>3, <2>5, TupleControl
  <2> QED
    BY <2>1, <2>4, <2>5, <2>6 DEF Silent
<1>5. ASSUME node.ir = "Label"
      PROVE  Control(SelectLabel(node, fr).code) = NodeControl(node)
  <2>1. PICK code : code = SelectLabel(node, fr).code
    OBVIOUS
  <2>2. code \in Seq(InstSet)
    BY <1>5, <2>1, SpFreeCode, SpFreeInstSet
  <2>3. code = << Label(node.label) >>
    BY <2>1 DEF SelectLabel, Selected
  <2>4. NodeControl(node) = << Transfer("Label", Unused, node.label) >>
    BY <1>5 DEF NodeControl
  <2>5. ControlOf(Label(node.label)) = << Transfer("Label", Unused, node.label) >>
    BY InstControl
  <2>6. Control(code) = ControlOf(Label(node.label))
    BY <2>2, <2>3, <2>5, TupleControl
  <2> QED
    BY <2>1, <2>4, <2>5, <2>6 DEF Silent
<1>6. ASSUME node.ir = "Goto"
      PROVE  Control(SelectGoto(node, fr).code) = NodeControl(node)
  <2>1. PICK code : code = SelectGoto(node, fr).code
    OBVIOUS
  <2>2. code \in Seq(InstSet)
    BY <1>6, <2>1, SpFreeCode, SpFreeInstSet
  <2>3. code = << Jump(node.label) >>
    BY <2>1 DEF SelectGoto, Selected
  <2>4. NodeControl(node) = << Transfer("Jump", Unused, node.label) >>
    BY <1>6 DEF NodeControl
  <2>5. ControlOf(Jump(node.label)) = << Transfer("Jump", Unused, node.label) >>
    BY InstControl
  <2>6. Control(code) = ControlOf(Jump(node.label))
    BY <2>2, <2>3, <2>5, TupleControl
  <2> QED
    BY <2>1, <2>4, <2>5, <2>6 DEF Silent
<1>7. ASSUME node.ir = "Function"
      PROVE  Control(SelectFunction(node, fr).code) = NodeControl(node)
  <2>1. PICK code : code = SelectFunction(node, fr).code
    OBVIOUS
  <2>2. code \in Seq(InstSet)
    BY <1>7, <2>1, FunctionCode, OwnedIsCodeOwned
  <2>3. code = << GlobalLabel(node.name), Function(node.name) >>
    BY <2>1 DEF SelectFunction, Selected
  <2>4. NodeControl(node) = << Transfer("Function", Unused, node.name) >>
    BY <1>7 DEF NodeControl
  <2>5. Silent(GlobalLabel(node.name)) /\ ControlOf(Function(node.name)) = << Transfer("Function", Unused, node.name) >>
    BY InstControl
  <2>6. Control(code) = ControlOf(Function(node.name))
    BY <2>2, <2>3, <2>5, TupleControl
  <2> QED
    BY <2>1, <2>4, <2>5, <2>6 DEF Silent
<1>8. ASSUME node.ir = "Param"
      PROVE  Control(SelectParam(node, fr).code) = NodeControl(node)
  <2>1. PICK code : code = SelectParam(node, fr).code
    OBVIOUS
  <2>2. code \in Seq(InstSet)
    BY <1>8, <2>1, SpFreeCode, SpFreeInstSet
  <2>3. \/ code = << Mv(node.x, ArgReg[node.k + 1]) >>
        \/ code = << Load(node.x, "fp", 4 * (node.k - 8)) >>
    BY <2>1 DEF SelectParam, Selected
  <2>4. NodeControl(node) = << >>
    BY <1>8 DEF NodeControl
  <2>5. /\ Silent(Mv(node.x, ArgReg[node.k + 1]))
        /\ Silent(Load(node.x, "fp", 4 * (node.k - 8)))
    BY InstControl
  <2>6. \/ Control(code) = ControlOf(Mv(node.x, ArgReg[node.k + 1]))
        \/ Control(code) = ControlOf(Load(node.x, "fp", 4 * (node.k - 8)))
    BY <2>2, <2>3, <2>5, TupleControl
  <2> QED
    BY <2>1, <2>4, <2>5, <2>6 DEF Silent
<1>9. ASSUME node.ir = "If"
      PROVE  Control(SelectIf(node, fr).code) = NodeControl(node)
  <2>1. PICK code : code = SelectIf(node, fr).code
    OBVIOUS
  <2>2. code \in Seq(InstSet)
    BY <1>9, <2>1, SpFreeCode, SpFreeInstSet
  <2>3. code = << Branch(node.op, node.t1, node.t2, node.label) >>
    BY <2>1 DEF SelectIf, Selected
  <2>4. NodeControl(node) = << Transfer("Branch", node.op, node.label) >>
    BY <1>9 DEF NodeControl
  <2>5. ControlOf(Branch(node.op, node.t1, node.t2, node.label)) = << Transfer("Branch", node.op, node.label) >>
    BY InstControl
  <2>6. Control(code) = ControlOf(Branch(node.op, node.t1, node.t2, node.label))
    BY <2>2, <2>3, <2>5, TupleControl
  <2> QED
    BY <2>1, <2>4, <2>5, <2>6 DEF Silent
<1>10. ASSUME node.ir = "LoadAddr"
      PROVE  Control(SelectLoadAddr(node, fr).code) = NodeControl(node)
  <2>1. PICK code : code = SelectLoadAddr(node, fr).code
    OBVIOUS
  <2>2. code \in Seq(InstSet)
    BY <1>10, <2>1, SpFreeCode, SpFreeInstSet
  <2>3. code = << La(node.x, node.label) >>
    BY <2>1 DEF SelectLoadAddr, Selected
  <2>4. NodeControl(node) = << Transfer("La", Unused, node.label) >>
    BY <1>10 DEF NodeControl
  <2>5. ControlOf(La(node.x, node.label)) = << Transfer("La", Unused, node.label) >>
    BY InstControl
  <2>6. Control(code) = ControlOf(La(node.x, node.label))
    BY <2>2, <2>3, <2>5, TupleControl
  <2> QED
    BY <2>1, <2>4, <2>5, <2>6 DEF Silent
<1>11. ASSUME node.ir = "Store"
      PROVE  Control(SelectStore(node, fr).code) = NodeControl(node)
  <2>1. PICK code : code = SelectStore(node, fr).code
    OBVIOUS
  <2>2. code \in Seq(InstSet)
    BY <1>11, <2>1, SpFreeCode, SpFreeInstSet
  <2>3. \/ code = << Store(node.addr, node.value, node.offset) >>
        \/ code = << Li("t0", node.offset), Arith("Add", "t0", node.addr, "t0"),
                      Store("t0", node.value, 0) >>
    BY <2>1 DEF SelectStore, Selected
  <2>4. NodeControl(node) = << >>
    BY <1>11 DEF NodeControl
  <2>5. /\ Silent(Store(node.addr, node.value, node.offset))
        /\ Silent(Store("t0", node.value, 0))
        /\ Silent(Li("t0", node.offset))
        /\ Silent(Arith("Add", "t0", node.addr, "t0"))
    BY InstControl
  <2>6. \/ Control(code) = ControlOf(Store(node.addr, node.value, node.offset))
        \/ Control(code) = ControlOf(Store("t0", node.value, 0))
    BY <2>2, <2>3, <2>5, TupleControl
  <2> QED
    BY <2>1, <2>4, <2>5, <2>6 DEF Silent
<1>12. ASSUME node.ir = "Load"
      PROVE  Control(SelectLoad(node, fr).code) = NodeControl(node)
  <2>1. PICK code : code = SelectLoad(node, fr).code
    OBVIOUS
  <2>2. code \in Seq(InstSet)
    BY <1>12, <2>1, SpFreeCode, SpFreeInstSet
  <2>3. \/ code = << Load(node.x, node.addr, node.offset) >>
        \/ code = << Li("t0", node.offset), Arith("Add", "t0", node.addr, "t0"),
                      Load(node.x, "t0", 0) >>
    BY <2>1 DEF SelectLoad, Selected
  <2>4. NodeControl(node) = << >>
    BY <1>12 DEF NodeControl
  <2>5. /\ Silent(Load(node.x, node.addr, node.offset))
        /\ Silent(Load(node.x, "t0", 0))
        /\ Silent(Li("t0", node.offset))
        /\ Silent(Arith("Add", "t0", node.addr, "t0"))
    BY InstControl
  <2>6. \/ Control(code) = ControlOf(Load(node.x, node.addr, node.offset))
        \/ Control(code) = ControlOf(Load(node.x, "t0", 0))
    BY <2>2, <2>3, <2>5, TupleControl
  <2> QED
    BY <2>1, <2>4, <2>5, <2>6 DEF Silent
<1> QED
  BY <1>1, <1>2, <1>3, <1>4, <1>5, <1>6, <1>7, <1>8, <1>9, <1>10, <1>11, <1>12

LEMMA LastControl ==
  ASSUME NEW code \in Seq(InstSet)
  PROVE  /\ Len(code) = 3 /\ Silent(code[1]) /\ Silent(code[2])
              => Control(code) = ControlOf(code[3])
         /\ Len(code) = 4 /\ Silent(code[1]) /\ Silent(code[2]) /\ Silent(code[3])
              => Control(code) = ControlOf(code[4])
<1>1. ASSUME Len(code) = 3, Silent(code[1]), Silent(code[2])
      PROVE  Control(code) = ControlOf(code[3])
  <2>1. \A i \in 1 .. 3 : i # 3 => i = 1 \/ i = 2
    OBVIOUS
  <2>2. Alone(code, 3)
    BY <1>1, <2>1 DEF Alone
  <2> QED
    BY <2>2, AloneControl
<1>2. ASSUME Len(code) = 4, Silent(code[1]), Silent(code[2]), Silent(code[3])
      PROVE  Control(code) = ControlOf(code[4])
  <2>1. \A i \in 1 .. 4 : i # 4 => i = 1 \/ i = 2 \/ i = 3
    OBVIOUS
  <2>2. Alone(code, 4)
    BY <1>2, <2>1 DEF Alone
  <2> QED
    BY <2>2, AloneControl
<1> QED
  BY <1>1, <1>2

LEMMA SoundCode ==
  ASSUME NEW sel, NEW fr, Sound(sel, fr)
  PROVE  sel.code \in Seq(InstSet)
BY OwnedIsCodeOwned DEF Sound

LEMMA SelectFrameControl ==
  ASSUME NEW node \in IRNode, NEW fr, IsFrame(fr, Regs), FrameSeparate(fr)
  PROVE  /\ node.ir = "Call" => Control(SelectCall(node, fr).code) = NodeControl(node)
         /\ node.ir = "Arg" => Control(SelectArg(node, fr).code) = NodeControl(node)
         /\ node.ir = "Dec" /\ node.size > 0
              => Control(SelectDec(node, fr).code) = NodeControl(node)
<1>1. ASSUME node.ir = "Call"
      PROVE  Control(SelectCall(node, fr).code) = NodeControl(node)
  <2>1. PICK code \in Seq(InstSet) : code = SelectCall(node, fr).code
    BY <1>1, SelectCallSound, SoundCode
  <2>2. PICK o0, o1, o2 :
          code = << Store("sp", "t0", o0), Store("sp", "t1", o1), Store("sp", "t2", o2),
                    Call(node.func) >>
                 \o (IF node.x = "" THEN << >> ELSE << Mv(node.x, "a0") >>)
                 \o << Load("t0", "sp", o0), Load("t1", "sp", o1), Load("t2", "sp", o2) >>
    BY <2>1 DEF SelectCall, Selected
  <2>3. NodeControl(node) = << Transfer("Call", Unused, node.func) >>
    BY <1>1 DEF NodeControl
  <2>4. PICK s0, s1, s2 : /\ s0 = Store("sp", "t0", o0) /\ Silent(s0)
                          /\ s1 = Store("sp", "t1", o1) /\ Silent(s1)
                          /\ s2 = Store("sp", "t2", o2) /\ Silent(s2)
    BY InstControl
  <2>5. PICK l0, l1, l2 : /\ l0 = Load("t0", "sp", o0) /\ Silent(l0)
                          /\ l1 = Load("t1", "sp", o1) /\ Silent(l1)
                          /\ l2 = Load("t2", "sp", o2) /\ Silent(l2)
    BY InstControl
  <2>6. PICK call, move : /\ call = Call(node.func)
                          /\ move = Mv(node.x, "a0") /\ Silent(move)
    BY InstControl
  <2>7. PICK save : save = << s0, s1, s2, call >>
    OBVIOUS
  <2>8. PICK result \in {<< >>, << move >>} :
          result = (IF node.x = "" THEN << >> ELSE << Mv(node.x, "a0") >>)
    BY <2>6
  <2>9. PICK restore : restore = << l0, l1, l2 >>
    OBVIOUS
  <2>10. code = (save \o result) \o restore
    BY <2>2, <2>4, <2>5, <2>6, <2>7, <2>8, <2>9
  <2>11. PICK S : save \in Seq(S) /\ result \in Seq(S) /\ restore \in Seq(S)
    <3>1. PICK S : S = {s0, s1, s2, call, move, l0, l1, l2}
      OBVIOUS
    <3>2. s0 \in S /\ s1 \in S /\ s2 \in S /\ call \in S /\ move \in S
          /\ l0 \in S /\ l1 \in S /\ l2 \in S
      BY <3>1
    <3> QED
      BY <2>7, <2>8, <2>9, <3>2, SeqTuples
  <2>12. save \o result \in Seq(InstSet) /\ restore \in Seq(InstSet)
    BY <2>10, <2>11, ConcatParts, SeqConcat
  <2>13. save \in Seq(InstSet) /\ result \in Seq(InstSet)
    BY <2>11, <2>12, ConcatParts
  <2>14. Control(save) = ControlOf(call)
    <3>1. Silent(s0) /\ Silent(s1) /\ Silent(s2)
      BY <2>4
    <3>2. save \in Seq(InstSet)
      BY <2>13
    <3>3. Len(save) = 4 /\ save[1] = s0 /\ save[2] = s1 /\ save[3] = s2 /\ save[4] = call
      BY <2>7
    <3> QED
      BY <3>1, <3>2, <3>3, LastControl
  <2>15. Control(restore) = << >>
    <3>1. Silent(l0) /\ Silent(l1) /\ Silent(l2)
      BY <2>5
    <3>2. restore \in Seq(InstSet)
      BY <2>12
    <3>3. Len(restore) = 3 /\ restore[1] = l0 /\ restore[2] = l1 /\ restore[3] = l2
      BY <2>9
    <3>4. Control(restore) = ControlOf(l2)
      BY <3>1, <3>2, <3>3, LastControl
    <3> QED
      BY <3>1, <3>4 DEF Silent
  <2>16. Control(result) = << >>
    BY <2>6, <2>8, <2>13, TupleControl, ControlEmpty DEF Silent
  <2>17. PICK t \in Seq(Transfers) : t = Control(save)
    BY <2>13, ControlCode
  <2>18. Control(code) = (t \o << >>) \o << >>
    <3>1. Control(save \o result) = t \o << >>
      BY <2>13, <2>16, <2>17, ControlConcat
    <3>2. Control((save \o result) \o restore) = Control(save \o result) \o << >>
      BY <2>12, <2>15, ControlConcat
    <3> QED
      BY <2>10, <3>1, <3>2
  <2>19. Control(code) = ControlOf(Call(node.func))
    BY <2>6, <2>14, <2>17, <2>18, ConcatAssociates
  <2> QED
    BY <2>1, <2>3, <2>19, InstControl
<1>2. ASSUME node.ir = "Arg"
      PROVE  Control(SelectArg(node, fr).code) = NodeControl(node)
  <2>1. PICK code \in Seq(InstSet) : code = SelectArg(node, fr).code
    BY <1>2, SelectArgSound, SoundCode
  <2>2. PICK o : \/ code = << Mv(ArgReg[node.k + 1], node.x) >>
                 \/ code = << Store("sp", node.x, o) >>
    BY <2>1 DEF SelectArg, Selected
  <2>3. NodeControl(node) = << >>
    BY <1>2 DEF NodeControl
  <2>4. /\ Silent(Mv(ArgReg[node.k + 1], node.x))
        /\ Silent(Store("sp", node.x, o))
    BY InstControl
  <2>5. \/ Control(code) = ControlOf(Mv(ArgReg[node.k + 1], node.x))
        \/ Control(code) = ControlOf(Store("sp", node.x, o))
    BY <2>2, <2>4, TupleControl
  <2> QED
    BY <2>1, <2>3, <2>4, <2>5 DEF Silent
<1>3. ASSUME node.ir = "Dec", node.size > 0
      PROVE  Control(SelectDec(node, fr).code) = NodeControl(node)
  <2>1. PICK code \in Seq(InstSet) : code = SelectDec(node, fr).code
    BY <1>3, SelectDecSound, SoundCode
  <2>2. code = << ArithImm("Add", node.x, "sp", fr.temp_stack_size) >>
    BY <2>1 DEF SelectDec, Selected
  <2>3. NodeControl(node) = << >>
    BY <1>3 DEF NodeControl
  <2>4. Silent(ArithImm("Add", node.x, "sp", fr.temp_stack_size))
    BY InstControl
  <2>5. Control(code) = ControlOf(ArithImm("Add", node.x, "sp", fr.temp_stack_size))
    BY <2>2, <2>4, TupleControl
  <2> QED
    BY <2>1, <2>3, <2>4, <2>5 DEF Silent
<1> QED
  BY <1>1, <1>2, <1>3

\* The loads before an instruction and the store behind it transfer nothing.
LEMMA AllocatedControl ==
  ASSUME NEW fr, IsFrame(fr, Regs), FrameSeparate(fr), NEW inst \in Owned(fr)
  PROVE  /\ Control(Allocated(inst, WithSlots(fr, inst))) = ControlOf(inst)
         /\ Allocated(inst, WithSlots(fr, inst)) \in Seq(InstSet)
<1>1. PICK g : g = WithSlots(fr, inst)
  OBVIOUS
<1>2. PICK a : a = LoadSource(inst.rs1, "t1", g)
  OBVIOUS
<1>3. PICK b : b = LoadSource(inst.rs2, "t2", g)
  OBVIOUS
<1>4. PICK c : c = << Core(inst) >>
  OBVIOUS
<1>5. PICK d : d = StoreResult(inst.rd, g)
  OBVIOUS
<1>6. Owned(g) \cap Physical \subseteq InstSet
  BY DEF Physical
<1>7. /\ a \in Seq(InstSet) /\ b \in Seq(InstSet) /\ c \in Seq(InstSet) /\ d \in Seq(InstSet)
  <2> DEFINE S == Owned(g) \cap Physical \cap Inner
  <2>0. S \subseteq Owned(g) \cap Physical
    OBVIOUS
  <2>a. a \in Seq(S) /\ b \in Seq(S) /\ d \in Seq(S) /\ Core(inst) \in InstSet
    BY <1>1, <1>2, <1>3, <1>5, <1>6, AllocatedParts
  <2> HIDE DEF S
  <2>1. /\ a \in Seq(Owned(g) \cap Physical) /\ b \in Seq(Owned(g) \cap Physical)
        /\ d \in Seq(Owned(g) \cap Physical) /\ Core(inst) \in InstSet
    BY <2>0, <2>a, SeqSubset
  <2>2. c \in Seq(InstSet)
    BY <1>4, <2>1, SeqTuples
  <2> QED
    BY <1>6, <2>1, <2>2, SeqSubset
<1>8. Control(a) = << >>
  <2>1. CASE a = << >>
    BY <2>1, ControlEmpty
  <2>2. CASE a # << >>
    <3>1. a = << Load("t1", "sp", g.temp_offset[inst.rs1]) >>
      BY <1>2, <2>2 DEF LoadSource
    <3>2. Control(a) = ControlOf(Load("t1", "sp", g.temp_offset[inst.rs1]))
      BY <1>7, <3>1, TupleControl
    <3> QED
      BY <3>2, InstControl DEF Silent
  <2> QED
    BY <2>1, <2>2
<1>9. Control(b) = << >>
  <2>1. CASE b = << >>
    BY <2>1, ControlEmpty
  <2>2. CASE b # << >>
    <3>1. b = << Load("t2", "sp", g.temp_offset[inst.rs2]) >>
      BY <1>3, <2>2 DEF LoadSource
    <3>2. Control(b) = ControlOf(Load("t2", "sp", g.temp_offset[inst.rs2]))
      BY <1>7, <3>1, TupleControl
    <3> QED
      BY <3>2, InstControl DEF Silent
  <2> QED
    BY <2>1, <2>2
<1>10. Control(d) = << >>
  <2>1. CASE d = << >>
    BY <2>1, ControlEmpty
  <2>2. CASE d # << >>
    <3>1. d = << Store("sp", "t0", g.temp_offset[inst.rd]) >>
      BY <1>5, <2>2 DEF StoreResult
    <3>2. Control(d) = ControlOf(Store("sp", "t0", g.temp_offset[inst.rd]))
      BY <1>7, <3>1, TupleControl
    <3> QED
      BY <3>2, InstControl DEF Silent
  <2> QED
    BY <2>1, <2>2
<1>11. Control(c) = ControlOf(inst)
  <2>1. Control(c) = ControlOf(Core(inst))
    BY <1>4, <1>7, TupleControl
  <2>2. Core(inst).kind = inst.kind /\ Core(inst).op = inst.op /\ Core(inst).label = inst.label
    BY <1>1, AllocatedParts
  <2>3. ControlOf(Core(inst)) = ControlOf(inst)
    BY <2>2 DEF ControlOf
  <2> QED
    BY <2>1, <2>3
<1>12. PICK t \in Seq(Transfers) : t = Control(c)
  BY <1>7, ControlCode
<1>13. << >> \o << >> = << >> /\ << >> \o t = t /\ t \o << >> = t
  BY ConcatAssociates
<1>14. Control(a \o b) = << >> /\ a \o b \in Seq(InstSet)
  BY <1>7, <1>8, <1>9, <1>13, ControlConcat
<1>15. Control((a \o b) \o c) = t /\ (a \o b) \o c \in Seq(InstSet)
  BY <1>7, <1>12, <1>13, <1>14, ControlConcat
<1>16. Control(((a \o b) \o c) \o d) = t /\ ((a \o b) \o c) \o d \in Seq(InstSet)
  BY <1>7, <1>10, <1>13, <1>15, ControlConcat
<1>17. Allocated(inst, g) = ((a \o b) \o c) \o d
  BY <1>2, <1>3, <1>4, <1>5 DEF Allocated, Core
<1> QED
  BY <1>1, <1>11, <1>12, <1>16, <1>17

\* Neither do the instructions that build an immediate.
LEMMA ExpandControl ==
  ASSUME NEW inst \in Physical
  PROVE  /\ Control(Expand(inst)) = ControlOf(inst)
         /\ Expand(inst) \in Seq(InstSet)
<1>1. PICK code : code = Expand(inst)
  OBVIOUS
<1>2. code \in Seq(InstSet)
  <2>1. Legal \subseteq InstSet
    BY DEF Legal, Physical
  <2> QED
    BY <1>1, <2>1, ExpandLegal, SeqSubset
<1>3. CASE inst.kind = "ArithImm" /\ ~Fits(inst.imm)
  <2>1. PICK x : x = Li("t4", inst.imm) /\ Silent(x)
    BY InstControl
  <2>2. PICK y : y = Arith(inst.op, inst.rd, inst.rs1, "t4") /\ Silent(y)
    BY InstControl
  <2>3. code = << x, y >>
    BY <1>1, <1>3, <2>1, <2>2 DEF Expand
  <2>4. Control(code) = << >>
    <3>1. Silent(x)
      BY <2>1
    <3>2. Control(code) = ControlOf(y)
      BY <1>2, <2>3, <3>1, TupleControl
    <3> QED
      BY <2>2, <3>2 DEF Silent
  <2>5. Silent(inst)
    BY <1>3 DEF Silent, ControlOf
  <2> QED
    BY <1>1, <1>2, <2>4, <2>5 DEF Silent
<1>4. CASE inst.kind = "Store" /\ ~Fits(inst.imm)
  <2>1. PICK x : x = Li("t4", inst.imm) /\ Silent(x)
    BY InstControl
  <2>2. PICK y : y = Arith("Add", "t4", inst.rs1, "t4") /\ Silent(y)
    BY InstControl
  <2>3. PICK z : z = Store("t4", inst.rs2, 0) /\ Silent(z)
    BY InstControl
  <2>4. code = << x, y, z >>
    BY <1>1, <1>4, <2>1, <2>2, <2>3 DEF Expand
  <2>5. Control(code) = << >>
    <3>1. Silent(x) /\ Silent(y)
      BY <2>1, <2>2
    <3>2. Len(code) = 3 /\ code[1] = x /\ code[2] = y /\ code[3] = z
      BY <2>4
    <3>3. Control(code) = ControlOf(z)
      BY <1>2, <3>1, <3>2, LastControl
    <3> QED
      BY <2>3, <3>3 DEF Silent
  <2>6. Silent(inst)
    BY <1>4 DEF Silent, ControlOf
  <2> QED
    BY <1>1, <1>2, <2>5, <2>6 DEF Silent
<1>5. CASE inst.kind = "Load" /\ ~Fits(inst.imm)
  <2>1. PICK x : x = Li("t4", inst.imm) /\ Silent(x)
    BY InstControl
  <2>2. PICK y : y = Arith("Add", "t4", inst.rs1, "t4") /\ Silent(y)
    BY InstControl
  <2>3. PICK z : z = Load(inst.rd, "t4", 0) /\ Silent(z)
    BY InstControl
  <2>4. code = << x, y, z >>
    BY <1>1, <1>5, <2>1, <2>2, <2>3 DEF Expand
  <2>5. Control(code) = << >>
    <3>1. Silent(x) /\ Silent(y)
      BY <2>1, <2>2
    <3>2. Len(code) = 3 /\ code[1] = x /\ code[2] = y /\ code[3] = z
      BY <2>4
    <3>3. Control(code) = ControlOf(z)
      BY <1>2, <3>1, <3>2, LastControl
    <3> QED
      BY <2>3, <3>3 DEF Silent
  <2>6. Silent(inst)
    BY <1>5 DEF Silent, ControlOf
  <2> QED
    BY <1>1, <1>2, <2>5, <2>6 DEF Silent
<1>6. CASE inst.kind \in {"ArithImm", "Load", "Store"} => Fits(inst.imm)
  <2>1. code = << inst >>
    BY <1>1, <1>6 DEF Expand
  <2> QED
    BY <1>1, <1>2, <2>1, TupleControl
<1> QED
  BY <1>3, <1>4, <1>5, <1>6

LEMMA FrameControl ==
  ASSUME NEW imm \in Int, NEW reg \in {"ra", "fp"}, NEW inst,
         inst \in {ArithImm("Add", "sp", "sp", imm), ArithImm("Add", "fp", "sp", imm),
                  Store("sp", reg, imm), Load(reg, "sp", imm)}
  PROVE  Expand(inst) \in Seq(InstSet) /\ Control(Expand(inst)) = << >>
<1>1. inst \in Physical
  BY FrameInsts
<1>2. Silent(inst)
  BY InstControl
<1> QED
  BY <1>1, <1>2, ExpandControl DEF Silent

LEMMA PrologueControl ==
  ASSUME NEW size \in Int, NEW ra \in Int, NEW fp \in Int
  PROVE  Control(Prologue(size, ra, fp)) = << >>
<1> DEFINE a == Expand(ArithImm("Add", "sp", "sp", -size))
           b == Expand(Store("sp", "ra", ra))
           c == Expand(Store("sp", "fp", fp))
           d == Expand(ArithImm("Add", "fp", "sp", size))
<1>0. -size \in Int
  OBVIOUS
<1>1. a \in Seq(InstSet) /\ Control(a) = << >>
  BY <1>0, FrameControl
<1>2. b \in Seq(InstSet) /\ Control(b) = << >>
  BY FrameControl
<1>3. c \in Seq(InstSet) /\ Control(c) = << >>
  BY FrameControl
<1>4. d \in Seq(InstSet) /\ Control(d) = << >>
  BY FrameControl
<1> HIDE DEF a, b, c, d
<1>5. << >> \o << >> = << >>
  OBVIOUS
<1>6. a \o b \in Seq(InstSet) /\ Control(a \o b) = << >>
  BY <1>1, <1>2, <1>5, ControlConcat
<1>7. (a \o b) \o c \in Seq(InstSet) /\ Control((a \o b) \o c) = << >>
  BY <1>3, <1>5, <1>6, ControlConcat
<1>8. Control(((a \o b) \o c) \o d) = << >>
  BY <1>4, <1>5, <1>7, ControlConcat
<1> QED
  BY <1>8 DEF Prologue, a, b, c, d

\* The epilogue is the exit block: its label, and the return.
LEMMA EpilogueControl ==
  ASSUME NEW label \in Labels, NEW ret \in {"", "a0"},
         NEW size \in Int, NEW ra \in Int, NEW fp \in Int
  PROVE  Control(Epilogue(label, ret, size, ra, fp))
           = << Transfer("Label", Unused, label), Transfer("Ret", Unused, Unused) >>
<1> DEFINE a == << Label(label) >>
           b == IF ret = "" THEN << >> ELSE << Mv("a0", ret) >>
           c == Expand(Load("ra", "sp", ra))
           d == Expand(Load("fp", "sp", fp))
           e == Expand(ArithImm("Add", "sp", "sp", size))
           f == << Ret >>
<1>0. /\ "a0" \in PhysReg /\ {"Label", "Mv", "Ret"} \subseteq Kinds
      /\ Physical \subseteq InstSet /\ 0 \in Int
  BY Registers, ZeroFits DEF Kinds, Physical
<1>1. Label(label) \in InstSet
  BY <1>0, PhysicalInst DEF Label
<1>2. Mv("a0", "a0") \in InstSet
  BY <1>0, PhysicalInst DEF Mv
<1>3. Ret \in InstSet
  BY <1>0, PhysicalInst DEF Ret
<1>4. a \in Seq(InstSet) /\ f \in Seq(InstSet)
  BY <1>1, <1>3, SeqTuples
<1>5. b \in Seq(InstSet) /\ Control(b) = << >>
  <2>1. CASE ret = ""
    BY <2>1, ControlEmpty, SeqTuples
  <2>2. CASE ret = "a0"
    <3>1. b = << Mv("a0", "a0") >>
      BY <2>2
    <3> HIDE DEF b
    <3>2. b \in Seq(InstSet)
      BY <1>2, <3>1, SeqTuples
    <3>3. Control(b) = ControlOf(Mv("a0", "a0"))
      BY <3>1, <3>2, TupleControl
    <3> QED
      BY <3>2, <3>3, InstControl DEF Silent
  <2> QED
    BY <2>1, <2>2
<1>6. c \in Seq(InstSet) /\ Control(c) = << >>
  BY FrameControl
<1>7. d \in Seq(InstSet) /\ Control(d) = << >>
  BY FrameControl
<1>8. e \in Seq(InstSet) /\ Control(e) = << >>
  BY FrameControl
<1>9. /\ Control(a) = << Transfer("Label", Unused, label) >>
      /\ Control(f) = << Transfer("Ret", Unused, Unused) >>
  BY <1>4, TupleControl, InstControl
<1> HIDE DEF a, b, c, d, e, f
<1>10. PICK t : t = Control(a)
  OBVIOUS
<1>11. t \o << >> = t
  <2>1. t \in Seq(Transfers)
    BY <1>4, <1>10, ControlCode
  <2> QED
    BY <2>1, ConcatAssociates
<1>12. a \o b \in Seq(InstSet) /\ Control(a \o b) = t
  BY <1>4, <1>5, <1>10, <1>11, ControlConcat
<1>13. (a \o b) \o c \in Seq(InstSet) /\ Control((a \o b) \o c) = t
  BY <1>6, <1>11, <1>12, ControlConcat
<1>14. ((a \o b) \o c) \o d \in Seq(InstSet) /\ Control(((a \o b) \o c) \o d) = t
  BY <1>7, <1>11, <1>13, ControlConcat
<1>15. (((a \o b) \o c) \o d) \o e \in Seq(InstSet)
       /\ Control((((a \o b) \o c) \o d) \o e) = t
  BY <1>8, <1>11, <1>14, ControlConcat
<1>16. Control(((((a \o b) \o c) \o d) \o e) \o f) = t \o Control(f)
  BY <1>4, <1>15, ControlConcat
<1>17. t \o Control(f) = << Transfer("Label", Unused, label), Transfer("Ret", Unused, Unused) >>
  <2>1. PICK u, v : u = Transfer("Label", Unused, label) /\ v = Transfer("Ret", Unused, Unused)
    OBVIOUS
  <2>2. << u >> \o << v >> = << u, v >>
    <3>1. PICK S : S = {u, v}
      OBVIOUS
    <3>2. u \in S /\ v \in S
      BY <3>1
    <3> QED
      BY <3>2, PairConcat
  <2> QED
    BY <1>9, <1>10, <2>1, <2>2
<1> QED
  BY <1>16, <1>17 DEF Epilogue, a, b, c, d, e, f

-----------------------------------------------------------------------------
(* How the code of a function begins.                                      *)

\* The label and the Function instruction of the name, and neither again.
Enters(code, name) ==
  /\ Len(code) >= 2
  /\ code[1] = GlobalLabel(name) /\ code[2] = Function(name)
  /\ \A i \in 3 .. Len(code) : code[i] \in Inner

LEMMA FunctionEnters ==
  ASSUME NEW node, NEW fr
  PROVE  Enters(SelectFunction(node, fr).code, node.name)
<1>1. SelectFunction(node, fr).code = << GlobalLabel(node.name), Function(node.name) >>
  BY DEF SelectFunction, Selected
<1> QED
  BY <1>1 DEF Enters

\* Code appended later does not change how it begins.
LEMMA StillEnters ==
  ASSUME NEW S, NEW s \in Seq(S), NEW t \in Seq(Inner), NEW name, Enters(s, name)
  PROVE  Enters(s \o t, name)
<1>1. /\ Len(s) \in Nat /\ Len(t) \in Nat /\ Len(s \o t) = Len(s) + Len(t) /\ Len(s) >= 2
      /\ \A i \in 1 .. Len(s) : (s \o t)[i] = s[i]
      /\ \A i \in 1 .. Len(t) : (s \o t)[Len(s) + i] = t[i]
  BY DEF Enters
<1>2. ASSUME NEW i \in 3 .. Len(s \o t)
      PROVE  (s \o t)[i] \in Inner
  <2>1. CASE i <= Len(s)
    BY <1>1, <2>1 DEF Enters
  <2>2. CASE ~(i <= Len(s))
    <3>1. PICK k : k = i - Len(s)
      OBVIOUS
    <3>2. k \in 1 .. Len(t) /\ i = Len(s) + k
      BY <1>1, <2>2, <3>1
    <3>3. t[k] \in Inner
      BY <3>2, ElementsOf
    <3> QED
      BY <1>1, <3>2, <3>3
  <2> QED
    BY <2>1, <2>2
<1> QED
  BY <1>1, <1>2 DEF Enters

LEMMA PairEnters ==
  ASSUME NEW name
  PROVE  Enters(<< GlobalLabel(name) >> \o << Function(name) >>, name)
<1>1. PICK a, b : a = GlobalLabel(name) /\ b = Function(name)
  OBVIOUS
<1>2. << a >> \in Seq({a, b}) /\ << b >> \in Seq({a, b}) /\ Len(<< a >>) = 1 /\ Len(<< b >>) = 1
  OBVIOUS
<1> DEFINE s == << a >> \o << b >>
<1>3. Len(s) = 2 /\ s[1] = a /\ s[2] = b
  BY <1>2
<1> HIDE DEF s
<1>4. Enters(s, name)
  BY <1>1, <1>3 DEF Enters
<1> QED
  BY <1>1, <1>4 DEF s

LEMMA EmptyConcat ==
  ASSUME NEW S, NEW t \in Seq(S)
  PROVE  << >> \o t = t
OBVIOUS

-----------------------------------------------------------------------------
(* The inductive invariant.                                                *)

\* Code is owned by its frame, and what has been allocated is physical.
CodeInv ==
  /\ \A f \in Funcs : asm[f] \in Seq(Owned(frame[f]))
  /\ acc \in Seq(Owned(frame[cur])) /\ acc \in Seq(Physical)
  /\ stage # "allocate" => acc = << >>
  /\ stage = "allocate" => \A f \in Funcs : f < cur => asm[f] \in Seq(Physical)
  /\ stage \in {"emit", "done"} => \A f \in Funcs : asm[f] \in Seq(Physical)
  /\ out \in Seq(Legal)

\* The name of a function is that of its Function node.
NameOf(f) == prog[f].entry[1].name

\* The code of a function begins with GlobalLabel and Function in every pass.
EntryInv ==
  /\ stage = "select" =>
       /\ \A f \in Funcs : f < cur => Enters(asm[f], NameOf(f))
       /\ \A f \in Funcs : cur < f => asm[f] = << >>
       /\ IF pos = 1 THEN asm[cur] = << >> ELSE Enters(asm[cur], NameOf(cur))
  /\ stage \in {"allocate", "emit"} => \A f \in Funcs : Enters(asm[f], NameOf(f))
  /\ stage = "allocate" =>
       /\ pos = 1 => acc = << >>
       /\ pos = 2 => acc = << asm[cur][1] >>
       /\ pos > 2 => Enters(acc, NameOf(cur))

\* The emitter's members belong to the function being emitted once its
\* Function instruction has been.
EmitterInv ==
  /\ stage \in {"select", "allocate"} =>
       \A f \in Funcs : reserved[f] = NotYet /\ released[f] = NotYet
  /\ stage = "emit" =>
       /\ \A f \in Funcs : cur < f => reserved[f] = NotYet
       /\ \A f \in Funcs : cur <= f => released[f] = NotYet
       /\ pos > 2 => /\ reserved[cur] # NotYet
                     /\ reserved[cur].ra = ra_offset
                     /\ reserved[cur].fp = fp_offset

IInv ==
  /\ TypeOK
  /\ FramesSeparate
  /\ CodeInv
  /\ EntryInv
  /\ EmitterInv
  /\ FramesBalanced

-----------------------------------------------------------------------------
(* Facts every step uses.                                                  *)

LEMMA ProgramFacts ==
  ASSUME TypeOK
  PROVE  /\ prog \in Seq(IRFunction) /\ Len(prog) \in Nat /\ Len(prog) > 0
         /\ Funcs = 1 .. Len(prog) /\ cur \in Nat /\ 1 <= cur /\ cur <= Len(prog)
         /\ \A f \in Funcs : /\ prog[f].entry \in Seq(IRNode)
                            /\ Len(prog[f].entry) > 0
                            /\ prog[f].entry[1].ir = "Function"
                            /\ prog[f].exit \in Labels /\ prog[f].ret \in {"", "a0"}
<1>1. prog \in Seq(IRFunction) /\ Len(prog) > 0
  BY BackendAssumption DEF TypeOK
<1>2. \A f \in 1 .. Len(prog) : prog[f] \in IRFunction
  BY <1>1, ElementsOf
<1>3. \A f \in Funcs : Len(prog[f].entry) > 0 /\ prog[f].entry[1].ir = "Function"
  <2> SUFFICES ASSUME NEW f \in Funcs
               PROVE  Len(prog[f].entry) > 0 /\ prog[f].entry[1].ir = "Function"
    OBVIOUS
  <2>1. /\ Len(prog[f].entry) > 0
        /\ \A i \in 1 .. Len(prog[f].entry) : prog[f].entry[i].ir = "Function" <=> i = 1
    BY BackendAssumption DEF TypeOK, Funcs
  <2>2. Len(prog[f].entry) \in Nat
    <3>1. prog[f].entry \in Seq(IRNode)
      BY <1>2 DEF Funcs, IRFunction
    <3> QED
      BY <3>1
  <2>3. 1 \in 1 .. Len(prog[f].entry)
    BY <2>1, <2>2
  <2> QED
    BY <2>1, <2>3
<1>4. Len(prog) \in Nat
  BY <1>1
<1>5. cur \in 1 .. Len(prog)
  BY DEF TypeOK, Funcs
<1>6. cur \in Nat /\ 1 <= cur /\ cur <= Len(prog)
  BY <1>4, <1>5
<1>7. \A f \in Funcs : /\ prog[f].entry \in Seq(IRNode)
                       /\ prog[f].exit \in Labels /\ prog[f].ret \in {"", "a0"}
  BY <1>2 DEF Funcs, IRFunction
<1> QED
  BY <1>1, <1>3, <1>4, <1>6, <1>7 DEF Funcs

LEMMA OtherFunctions ==
  ASSUME TypeOK
  PROVE  \A f \in Funcs : /\ f < cur => f # cur /\ ~(cur < f)
                          /\ cur < f => f # cur
                          /\ f < cur + 1 => f < cur \/ f = cur
                          /\ cur + 1 <= f => cur < f
                          /\ cur + 1 < f => cur < f
                          /\ cur = Len(prog) => f < cur \/ f = cur
<1>1. cur \in Nat /\ Funcs = 1 .. Len(prog) /\ Len(prog) \in Nat
  BY ProgramFacts
<1> QED
  BY <1>1

\* Frames when that of the current function grows to g.
LEMMA FrameStep ==
  ASSUME TypeOK, FramesSeparate, prog' = prog,
         NEW g, IsFrame(g, Regs), FrameSeparate(g), Grows(frame[cur], g),
         frame' = [frame EXCEPT ![cur] = g]
  PROVE  /\ Funcs' = Funcs /\ DOMAIN frame' = Funcs
         /\ \A f \in Funcs : IsFrame(frame'[f], Regs) /\ FrameSeparate(frame'[f])
         /\ \A f \in Funcs : Grows(frame[f], frame'[f])
         /\ frame'[cur] = g /\ \A f \in Funcs : f # cur => frame'[f] = frame[f]
         /\ \A f \in Funcs : \A code \in Seq(Owned(frame[f])) :
              code \in Seq(Owned(frame'[f]))
<1>1. DOMAIN frame = Funcs /\ cur \in Funcs
      /\ \A f \in Funcs : IsFrame(frame[f], Regs) /\ FrameSeparate(frame[f])
  BY DEF TypeOK, FramesSeparate
<1>2. Funcs' = Funcs
  BY DEF Funcs
<1>3. /\ DOMAIN frame' = Funcs /\ frame'[cur] = g
      /\ \A f \in Funcs : f # cur => frame'[f] = frame[f]
  BY <1>1
<1>4. \A f \in Funcs : IsFrame(frame'[f], Regs) /\ FrameSeparate(frame'[f])
  BY <1>1, <1>3
<1>5. \A f \in Funcs : Grows(frame[f], frame'[f])
  BY <1>1, <1>3, GrowsReflexive
<1>6. ASSUME NEW f \in Funcs, NEW code \in Seq(Owned(frame[f]))
      PROVE  code \in Seq(Owned(frame'[f]))
  <2>1. IsFrame(frame[f], Regs) /\ IsFrame(frame'[f], Regs) /\ Grows(frame[f], frame'[f])
    BY <1>1, <1>4, <1>5
  <2> QED
    BY <2>1, OwnedGrows
<1> QED
  BY <1>2, <1>3, <1>4, <1>5, <1>6

LEMMA FrameKept ==
  ASSUME TypeOK, prog' = prog, frame' = frame
  PROVE  Funcs' = Funcs /\ \A f \in Funcs : Grows(frame[f], frame'[f])
<1>1. Funcs' = Funcs
  BY DEF Funcs
<1>2. \A f \in Funcs : IsFrame(frame[f], Regs)
  BY DEF TypeOK
<1> QED
  BY <1>1, <1>2, GrowsReflexive

\* Where a pass goes when it is through with a function.
LEMMA NextFunctionFacts ==
  ASSUME TypeOK, prog' = prog, NEW next, NextFunction(next)
  PROVE  /\ pos' = 1 /\ cur' \in Funcs
         /\ \/ cur < Len(prog) /\ cur' = cur + 1 /\ stage' = stage
            \/ cur = Len(prog) /\ cur' = 1 /\ stage' = next
<1>1. Len(prog) \in Nat /\ cur \in Nat /\ 1 <= cur /\ cur <= Len(prog)
      /\ Funcs = 1 .. Len(prog)
  BY ProgramFacts
<1> QED
  BY <1>1 DEF NextFunction

-----------------------------------------------------------------------------
(* Selection.                                                              *)

\* What every step is shown to do.
StepOK == IInv' /\ \A f \in Funcs : Grows(frame[f], frame'[f])

LEMMA AppendsStep ==
  ASSUME IInv, stage = "select", NEW sel, Sound(sel, frame[cur]),
         pos = 1 => Enters(sel.code, NameOf(cur)), pos # 1 => sel.code \in Seq(Inner),
         Appends(sel)
  PROVE  StepOK
<1> DEFINE g == sel.frame
<1> USE DEF IInv
<1>0. /\ TypeOK /\ FramesSeparate /\ cur \in Funcs /\ pos \in Nat \ {0}
      /\ prog' = prog /\ stage' = stage /\ cur' = cur /\ pos' = pos + 1 /\ acc' = acc
      /\ UNCHANGED emitVars /\ asm' = [asm EXCEPT ![cur] = @ \o sel.code]
      /\ asm \in [Funcs -> Seq(InstSet)]
  BY DEF Appends, TypeOK
<1>1. /\ IsFrame(g, Regs) /\ FrameSeparate(g) /\ Grows(frame[cur], g)
      /\ sel.code \in Seq(Owned(g)) /\ frame' = [frame EXCEPT ![cur] = g]
  BY DEF Sound, Appends
<1> HIDE DEF g
<1>2. /\ Funcs' = Funcs /\ DOMAIN frame' = Funcs
      /\ \A f \in Funcs : IsFrame(frame'[f], Regs) /\ FrameSeparate(frame'[f])
      /\ \A f \in Funcs : Grows(frame[f], frame'[f])
      /\ frame'[cur] = g
      /\ \A f \in Funcs : \A code \in Seq(Owned(frame[f])) :
           code \in Seq(Owned(frame'[f]))
  BY <1>0, <1>1, FrameStep
<1>3. /\ asm'[cur] = asm[cur] \o sel.code /\ DOMAIN asm' = Funcs
      /\ \A f \in Funcs : f # cur => asm'[f] = asm[f]
  BY <1>0
<1>4. asm'[cur] \in Seq(Owned(g))
  <2>1. asm[cur] \in Seq(Owned(g))
    BY <1>0, <1>2 DEF CodeInv
  <2> QED
    BY <1>1, <1>3, <2>1, SeqConcat
<1>5. \A f \in Funcs : asm'[f] \in Seq(Owned(frame'[f]))
  BY <1>2, <1>3, <1>4 DEF CodeInv
<1>6. TypeOK'
  <2>1. asm' \in [Funcs -> Seq(InstSet)]
    <3>1. \A f \in Funcs : asm'[f] \in Seq(InstSet)
      BY <1>5, OwnedIsCodeOwned
    <3>2. asm' = [f \in Funcs |-> asm'[f]]
      BY <1>0
    <3> QED
      BY <3>1, <3>2
  <2>2. pos' \in Nat \ {0}
    BY <1>0
  <2> QED
    BY <1>0, <1>2, <2>1, <2>2 DEF TypeOK, emitVars
<1>7. FramesSeparate'
  BY <1>2 DEF FramesSeparate
<1>8. CodeInv'
  <2>1. acc' \in Seq(Owned(frame'[cur]))
    BY <1>0, <1>2 DEF CodeInv
  <2> QED
    BY <1>0, <1>2, <1>5, <2>1 DEF CodeInv, emitVars
<1>9. EntryInv'
  <2>0. \A f : NameOf(f)' = NameOf(f)
    BY <1>0 DEF NameOf
  <2>1. Enters(asm'[cur], NameOf(cur))
    <3>1. asm[cur] \in Seq(InstSet) /\ sel.code \in Seq(InstSet)
      BY <1>0, <1>1, OwnedIsCodeOwned
    <3>2. CASE pos = 1
      <4>1. asm[cur] = << >>
        BY <3>2 DEF EntryInv
      <4>2. asm'[cur] = sel.code
        BY <1>3, <3>1, <4>1, EmptyConcat
      <4> QED
        BY <3>2, <4>2
    <3>3. CASE pos # 1
      <4>1. Enters(asm[cur], NameOf(cur)) /\ sel.code \in Seq(Inner)
        BY <3>3 DEF EntryInv
      <4> QED
        BY <1>3, <3>1, <4>1, StillEnters
    <3> QED
      BY <3>2, <3>3
  <2>2. pos' # 1
    BY <1>0
  <2>3. \A f \in Funcs : f < cur => Enters(asm'[f], NameOf(f))
    <3>1. \A f \in Funcs : f < cur => f # cur
      BY <1>0, OtherFunctions
    <3> QED
      BY <1>3, <3>1 DEF EntryInv
  <2>4. \A f \in Funcs : cur < f => asm'[f] = << >>
    <3>1. \A f \in Funcs : cur < f => f # cur
      BY <1>0, OtherFunctions
    <3> QED
      BY <1>3, <3>1 DEF EntryInv
  <2> QED
    BY <1>0, <1>2, <2>0, <2>1, <2>2, <2>3, <2>4 DEF EntryInv
<1>10. EmitterInv' /\ FramesBalanced'
  BY <1>0, <1>2 DEF EmitterInv, FramesBalanced, emitVars
<1> QED
  BY <1>2, <1>6, <1>7, <1>8, <1>9, <1>10 DEF StepOK

\* Rejecting the module changes nothing but the stage.
LEMMA AbortStep ==
  ASSUME IInv, stage \in {"select", "emit"}, Abort
  PROVE  StepOK
<1> USE DEF IInv
<1>1. /\ stage' = "aborted" /\ prog' = prog /\ cur' = cur /\ pos' = pos
      /\ frame' = frame /\ asm' = asm /\ acc' = acc /\ UNCHANGED emitVars
  BY DEF Abort
<1>2. Funcs' = Funcs /\ \A f \in Funcs : Grows(frame[f], frame'[f])
  BY <1>1, FrameKept
<1>3. TypeOK'
  BY <1>1, <1>2 DEF TypeOK, emitVars
<1>4. FramesSeparate' /\ FramesBalanced'
  BY <1>1, <1>2 DEF FramesSeparate, FramesBalanced, emitVars
<1>5. CodeInv'
  BY <1>1, <1>2 DEF CodeInv, emitVars
<1>6. EntryInv' /\ EmitterInv'
  BY <1>1, <1>2 DEF EntryInv, EmitterInv, NameOf
<1> QED
  BY <1>2, <1>3, <1>4, <1>5, <1>6 DEF StepOK

LEMMA AtNodeFacts ==
  ASSUME TypeOK, NEW ir, AtNode(ir)
  PROVE  /\ stage = "select" /\ Node \in IRNode /\ Node.ir = ir
         /\ pos = 1 <=> ir = "Function"
         /\ pos = 1 => Node.name = NameOf(cur)
<1>1. cur \in Funcs /\ pos \in Nat \ {0} /\ pos <= Len(prog[cur].entry)
  BY DEF TypeOK, AtNode
<1>2. prog[cur].entry \in Seq(IRNode) /\ prog[cur].entry[1].ir = "Function"
  BY <1>1, ProgramFacts
<1> DEFINE entry == prog[cur].entry
<1>3. entry[pos] \in IRNode
  <2> HIDE DEF entry
  <2>1. entry \in Seq(IRNode) /\ pos <= Len(entry)
    BY <1>1, <1>2 DEF entry
  <2>2. pos \in 1 .. Len(entry)
    BY <1>1, <2>1
  <2> QED
    BY <2>1, <2>2, ElementsOf
<1>4. entry[pos].ir = "Function" => pos = 1
  <2>1. Len(entry) \in Nat
    BY <1>2
  <2>2. \A i \in 1 .. Len(entry) : entry[i].ir = "Function" => i = 1
    BY <1>1, BackendAssumption DEF TypeOK, Funcs
  <2> HIDE DEF entry
  <2> QED
    BY <1>1, <2>1, <2>2 DEF entry
<1> QED
  BY <1>2, <1>3, <1>4 DEF AtNode, Node, NameOf

\* A handler that takes nothing from the frame and does not address from sp.
LEMMA SpFreeStep ==
  ASSUME IInv, NEW ir, AtNode(ir), ir # "Function", NEW sel,
         sel.frame = frame[cur], sel.code \in Seq(SpFree), Appends(sel)
  PROVE  StepOK
<1>1. TypeOK /\ FramesSeparate /\ cur \in Funcs
  BY DEF IInv, TypeOK
<1>2. stage = "select" /\ pos # 1
  BY <1>1, AtNodeFacts
<1>3. IsFrame(frame[cur], Regs) /\ FrameSeparate(frame[cur])
  BY <1>1 DEF TypeOK, FramesSeparate
<1>4. Sound(sel, frame[cur]) /\ sel.code \in Seq(Inner)
  BY <1>3, SpFreeSound, SpFreeOwned
<1> QED
  BY <1>2, <1>4, AppendsStep

LEMMA SelectedFunctionStep ==
  ASSUME IInv, SelectedFunction
  PROVE  StepOK
<1> USE DEF IInv
<1>1. /\ TypeOK /\ stage = "select" /\ pos > Len(prog[cur].entry) /\ pos \in Nat
      /\ NextFunction("allocate") /\ prog' = prog /\ frame' = frame /\ asm' = asm
      /\ acc' = acc /\ UNCHANGED emitVars
  BY DEF SelectedFunction, TypeOK
<1>2. /\ pos' = 1 /\ cur' \in Funcs
      /\ \/ cur < Len(prog) /\ cur' = cur + 1 /\ stage' = stage
         \/ cur = Len(prog) /\ cur' = 1 /\ stage' = "allocate"
  BY <1>1, NextFunctionFacts
<1>3. Funcs' = Funcs /\ \A f \in Funcs : Grows(frame[f], frame'[f])
  BY <1>1, FrameKept
<1>4. cur \in Funcs /\ cur \in Nat
  BY <1>1, ProgramFacts DEF TypeOK
<1>5. TypeOK'
  <2>1. pos' \in Nat \ {0}
    BY <1>2
  <2> QED
    BY <1>1, <1>2, <1>3, <2>1 DEF TypeOK, emitVars
<1>6. FramesSeparate' /\ FramesBalanced'
  BY <1>1, <1>3 DEF FramesSeparate, FramesBalanced, emitVars
<1>7. CodeInv'
  <2>1. acc = << >>
    BY <1>1 DEF CodeInv
  <2>2. stage' = "allocate" => \A f \in Funcs : ~(f < cur')
    <3>1. Funcs = 1 .. Len(prog) /\ Len(prog) \in Nat
      BY ProgramFacts
    <3>2. \A f \in Funcs : ~(f < 1)
      BY <3>1
    <3>3. stage' = "allocate" => cur' = 1
      BY <1>1, <1>2
    <3> QED
      BY <3>2, <3>3
  <2>3. stage' \in {"select", "allocate"}
    BY <1>1, <1>2
  <2> QED
    BY <1>1, <1>2, <1>3, <2>1, <2>2, <2>3, SeqTuples DEF CodeInv, emitVars
<1>8. EntryInv'
  <2>0. \A f : NameOf(f)' = NameOf(f)
    BY <1>1 DEF NameOf
  <2>1. Enters(asm[cur], NameOf(cur)) /\ \A f \in Funcs : f < cur => Enters(asm[f], NameOf(f))
    <3>1. Len(prog[cur].entry) > 0 /\ Len(prog[cur].entry) \in Nat
      <4>1. Len(prog[cur].entry) > 0
        BY <1>1, <1>4, BackendAssumption DEF TypeOK, Funcs
      <4>2. prog[cur].entry \in Seq(IRNode)
        BY <1>1, <1>4, ProgramFacts
      <4> HIDE DEF IInv
      <4> QED
        BY <4>1, <4>2
    <3>2. pos # 1
      BY <1>1, <3>1
    <3> QED
      BY <1>1, <3>2 DEF EntryInv
  <2>2. CASE cur < Len(prog) /\ cur' = cur + 1 /\ stage' = stage
    <3>1. \A f \in Funcs : f < cur' => f < cur \/ f = cur
      BY <1>1, <2>2, OtherFunctions
    <3>2. \A f \in Funcs : (cur' < f => cur < f) /\ cur < cur'
      BY <1>1, <1>4, <2>2, OtherFunctions
    <3>3. \A f \in Funcs : f < cur' => Enters(asm'[f], NameOf(f))
      BY <1>1, <2>1, <3>1
    <3>4. \A f \in Funcs : cur' < f => asm'[f] = << >>
      BY <1>1, <3>2 DEF EntryInv
    <3>5. asm'[cur'] = << >>
      BY <1>1, <1>2, <3>2 DEF EntryInv
    <3> QED
      BY <1>1, <1>2, <1>3, <2>0, <2>2, <3>3, <3>4, <3>5 DEF EntryInv
  <2>3. CASE cur = Len(prog) /\ cur' = 1 /\ stage' = "allocate"
    <3>1. \A f \in Funcs : f < cur \/ f = cur
      BY <1>1, <2>3, OtherFunctions
    <3>2. acc' = << >>
      BY <1>1 DEF CodeInv
    <3>3. \A f \in Funcs : Enters(asm'[f], NameOf(f))
      BY <1>1, <2>1, <3>1
    <3>4. ~(pos' = 2) /\ ~(pos' > 2)
      BY <1>2
    <3> QED
      BY <1>3, <2>0, <2>3, <3>2, <3>3, <3>4 DEF EntryInv
  <2> QED
    BY <1>2, <2>2, <2>3
<1>9. EmitterInv'
  BY <1>1, <1>2, <1>3 DEF EmitterInv, emitVars
<1> QED
  BY <1>3, <1>5, <1>6, <1>7, <1>8, <1>9 DEF StepOK

LEMMA SelectStep ==
  ASSUME IInv, Select
  PROVE  StepOK
<1> DEFINE fr == frame[cur]
<1>0. TypeOK /\ IsFrame(fr, Regs) /\ FrameSeparate(fr)
  BY DEF IInv, TypeOK, FramesSeparate
<1>1. CASE LoadImmNode
  <2>1. AtNode("LoadImm") /\ Appends(SelectLoadImm(Node, fr))
    BY <1>1 DEF LoadImmNode
  <2>2. SelectLoadImm(Node, fr).frame = fr
    BY DEF SelectLoadImm, Selected
  <2>3. SelectLoadImm(Node, fr).code \in Seq(SpFree)
    BY <1>0, <2>1, AtNodeFacts, SpFreeCode
  <2> QED
    BY <2>1, <2>2, <2>3, SpFreeStep
<1>2. CASE AssignNode
  <2>1. AtNode("Assign") /\ Appends(SelectAssign(Node, fr))
    BY <1>2 DEF AssignNode
  <2>2. SelectAssign(Node, fr).frame = fr
    BY DEF SelectAssign, Selected
  <2>3. SelectAssign(Node, fr).code \in Seq(SpFree)
    BY <1>0, <2>1, AtNodeFacts, SpFreeCode
  <2> QED
    BY <2>1, <2>2, <2>3, SpFreeStep
<1>3. CASE BinaryNode
  <2>1. AtNode("Binary") /\ Appends(SelectBinary(Node, fr))
    BY <1>3 DEF BinaryNode
  <2>2. SelectBinary(Node, fr).frame = fr
    BY DEF SelectBinary, Selected
  <2>3. SelectBinary(Node, fr).code \in Seq(SpFree)
    BY <1>0, <2>1, AtNodeFacts, SpFreeCode
  <2> QED
    BY <2>1, <2>2, <2>3, SpFreeStep
<1>4. CASE UnaryNode
  <2>1. AtNode("Unary") /\ Appends(SelectUnary(Node, fr))
    BY <1>4 DEF UnaryNode
  <2>2. SelectUnary(Node, fr).frame = fr
    BY DEF SelectUnary, Selected
  <2>3. SelectUnary(Node, fr).code \in Seq(SpFree)
    BY <1>0, <2>1, AtNodeFacts, SpFreeCode
  <2> QED
    BY <2>1, <2>2, <2>3, SpFreeStep
<1>5. CASE LabelNode
  <2>1. AtNode("Label") /\ Appends(SelectLabel(Node, fr))
    BY <1>5 DEF LabelNode
  <2>2. SelectLabel(Node, fr).frame = fr
    BY DEF SelectLabel, Selected
  <2>3. SelectLabel(Node, fr).code \in Seq(SpFree)
    BY <1>0, <2>1, AtNodeFacts, SpFreeCode
  <2> QED
    BY <2>1, <2>2, <2>3, SpFreeStep
<1>6. CASE GotoNode
  <2>1. AtNode("Goto") /\ Appends(SelectGoto(Node, fr))
    BY <1>6 DEF GotoNode
  <2>2. SelectGoto(Node, fr).frame = fr
    BY DEF SelectGoto, Selected
  <2>3. SelectGoto(Node, fr).code \in Seq(SpFree)
    BY <1>0, <2>1, AtNodeFacts, SpFreeCode
  <2> QED
    BY <2>1, <2>2, <2>3, SpFreeStep
<1>7. CASE ParamNode
  <2>1. AtNode("Param") /\ Appends(SelectParam(Node, fr))
    BY <1>7 DEF ParamNode
  <2>2. SelectParam(Node, fr).frame = fr
    BY DEF SelectParam, Selected
  <2>3. SelectParam(Node, fr).code \in Seq(SpFree)
    BY <1>0, <2>1, AtNodeFacts, SpFreeCode
  <2> QED
    BY <2>1, <2>2, <2>3, SpFreeStep
<1>8. CASE LoadAddrNode
  <2>1. AtNode("LoadAddr") /\ Appends(SelectLoadAddr(Node, fr))
    BY <1>8 DEF LoadAddrNode
  <2>2. SelectLoadAddr(Node, fr).frame = fr
    BY DEF SelectLoadAddr, Selected
  <2>3. SelectLoadAddr(Node, fr).code \in Seq(SpFree)
    BY <1>0, <2>1, AtNodeFacts, SpFreeCode
  <2> QED
    BY <2>1, <2>2, <2>3, SpFreeStep
<1>9. CASE StoreNode
  <2>1. AtNode("Store") /\ Appends(SelectStore(Node, fr))
    BY <1>9 DEF StoreNode
  <2>2. SelectStore(Node, fr).frame = fr
    BY DEF SelectStore, Selected
  <2>3. SelectStore(Node, fr).code \in Seq(SpFree)
    BY <1>0, <2>1, AtNodeFacts, SpFreeCode
  <2> QED
    BY <2>1, <2>2, <2>3, SpFreeStep
<1>10. CASE LoadNode
  <2>1. AtNode("Load") /\ Appends(SelectLoad(Node, fr))
    BY <1>10 DEF LoadNode
  <2>2. SelectLoad(Node, fr).frame = fr
    BY DEF SelectLoad, Selected
  <2>3. SelectLoad(Node, fr).code \in Seq(SpFree)
    BY <1>0, <2>1, AtNodeFacts, SpFreeCode
  <2> QED
    BY <2>1, <2>2, <2>3, SpFreeStep
<1>11. CASE FunctionNode
  <2>1. AtNode("Function") /\ Appends(SelectFunction(Node, fr))
    BY <1>11 DEF FunctionNode
  <2>2. stage = "select" /\ Node \in IRNode /\ Node.ir = "Function"
    BY <1>0, <2>1, AtNodeFacts
  <2>3. SelectFunction(Node, fr).frame = fr
    BY DEF SelectFunction, Selected
  <2>4. SelectFunction(Node, fr).code \in Seq(Owned(fr))
    BY <2>2, FunctionCode
  <2>5. Sound(SelectFunction(Node, fr), fr)
    BY <1>0, <2>3, <2>4, GrowsReflexive DEF Sound
  <2>6. pos = 1 /\ Node.name = NameOf(cur)
    BY <1>0, <2>1, AtNodeFacts
  <2>7. Enters(SelectFunction(Node, fr).code, NameOf(cur))
    BY <2>6, FunctionEnters
  <2> QED
    BY <2>1, <2>2, <2>5, <2>6, <2>7, AppendsStep
<1>12. CASE CallNode
  <2>1. AtNode("Call") /\ Appends(SelectCall(Node, fr))
    BY <1>12 DEF CallNode
  <2>2. stage = "select" /\ Node \in IRNode /\ Node.ir = "Call" /\ pos # 1
    BY <1>0, <2>1, AtNodeFacts
  <2>3. Sound(SelectCall(Node, fr), fr) /\ SelectCall(Node, fr).code \in Seq(Inner)
    BY <1>0, <2>2, SelectCallSound
  <2> QED
    BY <2>1, <2>2, <2>3, AppendsStep
<1>13. CASE ArgNode
  <2>1. AtNode("Arg") /\ Appends(SelectArg(Node, fr))
    BY <1>13 DEF ArgNode
  <2>2. stage = "select" /\ Node \in IRNode /\ Node.ir = "Arg" /\ pos # 1
    BY <1>0, <2>1, AtNodeFacts
  <2>3. Sound(SelectArg(Node, fr), fr) /\ SelectArg(Node, fr).code \in Seq(Inner)
    BY <1>0, <2>2, SelectArgSound
  <2> QED
    BY <2>1, <2>2, <2>3, AppendsStep
<1>14. CASE IfNode
  <2>1. AtNode("If")
    BY <1>14 DEF IfNode
  <2>2. CASE Appends(SelectIf(Node, fr))
    <3>1. SelectIf(Node, fr).frame = fr
      BY DEF SelectIf, Selected
    <3>2. SelectIf(Node, fr).code \in Seq(SpFree)
      BY <1>0, <2>1, AtNodeFacts, SpFreeCode
    <3> QED
      BY <2>1, <2>2, <3>1, <3>2, SpFreeStep
  <2>3. CASE Abort
    BY <1>0, <2>1, <2>3, AtNodeFacts, AbortStep
  <2> QED
    BY <1>14, <2>2, <2>3 DEF IfNode
<1>15. CASE DecNode
  <2>1. AtNode("Dec")
    BY <1>15 DEF DecNode
  <2>2. stage = "select" /\ Node \in IRNode /\ Node.ir = "Dec" /\ pos # 1
    BY <1>0, <2>1, AtNodeFacts
  <2>3. CASE Node.size > 0 /\ Appends(SelectDec(Node, fr))
    <3>1. Sound(SelectDec(Node, fr), fr) /\ SelectDec(Node, fr).code \in Seq(Inner)
      BY <1>0, <2>2, <2>3, SelectDecSound
    <3> QED
      BY <2>2, <2>3, <3>1, AppendsStep
  <2>4. CASE Abort
    BY <2>2, <2>4, AbortStep
  <2> QED
    BY <1>15, <2>3, <2>4 DEF DecNode
<1>16. CASE SelectedFunction
  BY <1>16, SelectedFunctionStep
<1> QED
  BY <1>1, <1>2, <1>3, <1>4, <1>5, <1>6, <1>7, <1>8, <1>9, <1>10, <1>11, <1>12, <1>13, <1>14, <1>15, <1>16 DEF Select

-----------------------------------------------------------------------------
(* Register allocation.                                                    *)

LEMMA AllocateKindStep ==
  ASSUME IInv, NEW kind, AllocateKind(kind)
  PROVE  StepOK
<1> DEFINE inst == asm[cur][pos]
           g == WithSlots(frame[cur], inst)
           code == Allocated(inst, g)
<1>0. /\ TypeOK /\ FramesSeparate /\ CodeInv /\ EntryInv /\ EmitterInv /\ FramesBalanced
      /\ cur \in Funcs /\ pos \in Nat \ {0} /\ stage = "allocate"
      /\ prog' = prog /\ stage' = stage /\ cur' = cur /\ pos' = pos + 1 /\ asm' = asm
      /\ UNCHANGED emitVars /\ pos <= Len(asm[cur]) /\ DOMAIN frame = Funcs
      /\ IsFrame(frame[cur], Regs) /\ FrameSeparate(frame[cur])
  BY DEF IInv, AllocateKind, TypeOK, FramesSeparate
<1>1. frame' = [frame EXCEPT ![cur] = g] /\ acc' = acc \o Allocated(inst, frame'[cur])
  BY <1>0 DEF AllocateKind, ThisInst
<1>2. inst \in Owned(frame[cur])
  <2> DEFINE c == asm[cur]
  <2>1. c \in Seq(Owned(frame[cur])) /\ pos <= Len(c)
    BY <1>0 DEF CodeInv
  <2> HIDE DEF c
  <2>2. pos \in 1 .. Len(c)
    BY <1>0, <2>1
  <2>3. c[pos] \in Owned(frame[cur])
    BY <2>1, <2>2, ElementsOf
  <2> QED
    BY <2>3 DEF c
<1> HIDE DEF inst
<1>3. /\ IsFrame(g, Regs) /\ FrameSeparate(g) /\ Grows(frame[cur], g)
      /\ code \in Seq(Owned(g) \cap Physical)
      /\ inst \in Inner => code \in Seq(Inner)
  BY <1>0, <1>2, AllocatedSound
<1> HIDE DEF g
<1>4. /\ Funcs' = Funcs /\ DOMAIN frame' = Funcs
      /\ \A f \in Funcs : IsFrame(frame'[f], Regs) /\ FrameSeparate(frame'[f])
      /\ \A f \in Funcs : Grows(frame[f], frame'[f])
      /\ frame'[cur] = g
      /\ \A f \in Funcs : \A c \in Seq(Owned(frame[f])) : c \in Seq(Owned(frame'[f]))
  BY <1>0, <1>1, <1>3, FrameStep
<1>5. acc' = acc \o code
  BY <1>1, <1>4
<1>6. acc' \in Seq(Owned(g)) /\ acc' \in Seq(Physical)
  <2>1. acc \in Seq(Owned(g)) /\ acc \in Seq(Physical)
    BY <1>0, <1>4 DEF CodeInv
  <2>2. code \in Seq(Owned(g)) /\ code \in Seq(Physical)
    <3>1. Owned(g) \cap Physical \subseteq Owned(g) /\ Owned(g) \cap Physical \subseteq Physical
      OBVIOUS
    <3> HIDE DEF code
    <3> QED
      BY <1>3, <3>1, SeqSubset
  <2> QED
    BY <1>5, <2>1, <2>2, SeqConcat
<1>7. TypeOK'
  <2>1. pos' \in Nat \ {0}
    BY <1>0
  <2>2. acc' \in Seq(InstSet)
    BY <1>6, OwnedIsCodeOwned
  <2> QED
    BY <1>0, <1>4, <2>1, <2>2 DEF TypeOK, emitVars
<1>8. FramesSeparate'
  BY <1>4 DEF FramesSeparate
<1>9. CodeInv'
  <2>1. \A f \in Funcs : asm'[f] \in Seq(Owned(frame'[f]))
    BY <1>0, <1>4 DEF CodeInv
  <2> QED
    BY <1>0, <1>4, <1>6, <2>1 DEF CodeInv, emitVars
<1>10. EntryInv'
  <2>0. Enters(asm[cur], NameOf(cur)) /\ inst \in InstSet
    BY <1>0, <1>2 DEF EntryInv, Owned, Plain
  <2>00. \A f : NameOf(f)' = NameOf(f)
    BY <1>0 DEF NameOf
  <2>1. pos \in {1, 2} => code = << inst >>
    <3>1. pos \in {1, 2} => RegsOf(inst) = {}
      <4>1. \A l : RegsOf(GlobalLabel(l)) = {} /\ RegsOf(Function(l)) = {}
        BY DEF RegsOf, GlobalLabel, Function, Inst
      <4> QED
        BY <2>0, <4>1 DEF Enters, inst
    <3> QED
      BY <2>0, <3>1, AllocatedKept
  <2>2. pos = 1 => pos' = 2 /\ acc' = << asm[cur][1] >>
    <3>1. pos = 1 => acc = << >> /\ code = << inst >> /\ inst = asm[cur][1]
      BY <1>0, <2>1 DEF EntryInv, inst
    <3>2. << >> \o << inst >> = << inst >>
      OBVIOUS
    <3>3. pos = 1 => acc' = << asm[cur][1] >>
      BY <1>5, <3>1, <3>2
    <3> HIDE DEF inst, code
    <3> QED
      BY <1>0, <3>3
  <2>3. pos = 2 => Enters(acc', NameOf(cur))
    <3>1. pos = 2 => acc = << asm[cur][1] >> /\ code = << inst >> /\ inst = asm[cur][2]
      BY <1>0, <2>1 DEF EntryInv, inst
    <3>2. Enters(<< asm[cur][1] >> \o << asm[cur][2] >>, NameOf(cur))
      BY <2>0, PairEnters DEF Enters
    <3> QED
      BY <1>5, <3>1, <3>2
  <2>4. pos > 2 => Enters(acc', NameOf(cur))
    <3>1. acc \in Seq(Physical)
      BY <1>0 DEF CodeInv
    <3>2. pos > 2 => Enters(acc, NameOf(cur))
      BY <1>0 DEF EntryInv
    <3>3. pos > 2 => code \in Seq(Inner)
      <4>1. pos > 2 => pos \in 3 .. Len(asm[cur])
        <5>1. Len(asm[cur]) \in Nat
          <6>1. asm[cur] \in Seq(InstSet)
            BY <1>0 DEF TypeOK
          <6> QED
            BY <6>1
        <5> QED
          BY <1>0, <5>1
      <4>2. pos > 2 => inst \in Inner
        BY <2>0, <4>1 DEF Enters, inst
      <4> QED
        BY <1>3, <4>2
    <3> HIDE DEF code
    <3> QED
      BY <1>5, <3>1, <3>2, <3>3, StillEnters
  <2>5. /\ pos' # 1 /\ (pos' = 2 => pos = 1) /\ (pos' > 2 => pos = 2 \/ pos > 2)
    BY <1>0
  <2>6. \A f \in Funcs : Enters(asm'[f], NameOf(f))
    BY <1>0 DEF EntryInv
  <2>7. /\ pos' = 2 => acc' = << asm'[cur'][1] >>
        /\ pos' > 2 => Enters(acc', NameOf(cur'))
    BY <1>0, <2>2, <2>3, <2>4, <2>5
  <2> QED
    BY <1>0, <1>4, <2>00, <2>5, <2>6, <2>7 DEF EntryInv
<1>11. EmitterInv' /\ FramesBalanced'
  BY <1>0, <1>4 DEF EmitterInv, FramesBalanced, emitVars
<1> QED
  BY <1>4, <1>7, <1>8, <1>9, <1>10, <1>11 DEF StepOK, IInv

LEMMA AllocatedFunctionStep ==
  ASSUME IInv, AllocatedFunction
  PROVE  StepOK
<1>0. /\ TypeOK /\ FramesSeparate /\ CodeInv /\ EntryInv /\ EmitterInv /\ FramesBalanced
      /\ cur \in Funcs /\ pos \in Nat \ {0} /\ stage = "allocate" /\ NextFunction("emit")
      /\ prog' = prog /\ frame' = frame /\ acc' = << >> /\ asm' = [asm EXCEPT ![cur] = acc]
      /\ UNCHANGED emitVars /\ pos > Len(asm[cur]) /\ asm \in [Funcs -> Seq(InstSet)]
  BY DEF IInv, AllocatedFunction, TypeOK
<1>1. /\ pos' = 1 /\ cur' \in Funcs
      /\ \/ cur < Len(prog) /\ cur' = cur + 1 /\ stage' = stage
         \/ cur = Len(prog) /\ cur' = 1 /\ stage' = "emit"
  BY <1>0, NextFunctionFacts
<1>2. Funcs' = Funcs /\ \A f \in Funcs : Grows(frame[f], frame'[f])
  BY <1>0, FrameKept
<1>3. asm'[cur] = acc /\ \A f \in Funcs : f # cur => asm'[f] = asm[f]
  BY <1>0
<1>4. \A f \in Funcs : f < cur' => f < cur \/ f = cur
  <2>1. CASE cur < Len(prog) /\ cur' = cur + 1 /\ stage' = stage
    BY <1>0, <2>1, OtherFunctions
  <2>2. CASE cur = Len(prog) /\ cur' = 1 /\ stage' = "emit"
    BY <1>0, <2>2, OtherFunctions
  <2> QED
    BY <1>1, <2>1, <2>2
<1>5. stage' = "emit" => \A f \in Funcs : f < cur \/ f = cur
  <2>1. stage' = "emit" => cur = Len(prog)
    BY <1>0, <1>1
  <2> QED
    BY <1>0, <2>1, OtherFunctions
<1>6. TypeOK'
  <2>1. asm' \in [Funcs -> Seq(InstSet)]
    BY <1>0 DEF TypeOK
  <2>2. pos' \in Nat \ {0}
    BY <1>1
  <2>3. acc' \in Seq(InstSet)
    BY <1>0, SeqTuples
  <2>4. stage' \in {"allocate", "emit"}
    BY <1>0, <1>1
  <2> QED
    BY <1>0, <1>1, <1>2, <2>1, <2>2, <2>3, <2>4 DEF TypeOK, emitVars
<1>7. FramesSeparate' /\ FramesBalanced'
  BY <1>0, <1>2 DEF FramesSeparate, FramesBalanced, emitVars
<1>8. CodeInv'
  <2>1. \A f \in Funcs : asm'[f] \in Seq(Owned(frame'[f]))
    BY <1>0, <1>3 DEF CodeInv
  <2>2. acc' \in Seq(Owned(frame'[cur'])) /\ acc' \in Seq(Physical)
    BY <1>0, SeqTuples
  <2>3. \A f \in Funcs : f < cur \/ f = cur => asm'[f] \in Seq(Physical)
    <3>1. \A f \in Funcs : f < cur => asm[f] \in Seq(Physical)
      BY <1>0 DEF CodeInv
    <3>2. \A f \in Funcs : f < cur => f # cur
      BY <1>0, OtherFunctions
    <3>3. asm'[cur] \in Seq(Physical)
      BY <1>0, <1>3 DEF CodeInv
    <3> QED
      BY <1>3, <3>1, <3>2, <3>3
  <2>4. stage' \in {"allocate", "emit"}
    BY <1>0, <1>1
  <2>5. stage' = "allocate" => \A f \in Funcs : f < cur' => asm'[f] \in Seq(Physical)
    BY <1>4, <2>3
  <2>6. stage' = "emit" => \A f \in Funcs : asm'[f] \in Seq(Physical)
    BY <1>5, <2>3
  <2>7. out' = out
    BY <1>0 DEF emitVars
  <2> QED
    BY <1>0, <1>2, <2>1, <2>2, <2>4, <2>5, <2>6, <2>7 DEF CodeInv
<1>9. EntryInv'
  <2>0. \A f : NameOf(f)' = NameOf(f)
    BY <1>0 DEF NameOf
  <2>1. Enters(acc, NameOf(cur))
    <3>1. pos > 2
      <4>1. Len(asm[cur]) >= 2 /\ Len(asm[cur]) \in Nat
        <5>1. Len(asm[cur]) >= 2
          BY <1>0 DEF EntryInv, Enters
        <5>2. asm[cur] \in Seq(InstSet)
          BY <1>0
        <5> QED
          BY <5>1, <5>2
      <4> QED
        BY <1>0, <4>1
    <3> QED
      BY <1>0, <3>1 DEF EntryInv
  <2>2. \A f \in Funcs : Enters(asm'[f], NameOf(f))
    BY <1>0, <1>3, <2>1 DEF EntryInv
  <2>3. ~(pos' = 2) /\ ~(pos' > 2)
    BY <1>1
  <2>4. stage' \in {"allocate", "emit"}
    BY <1>0, <1>1
  <2> QED
    BY <1>0, <1>2, <2>0, <2>2, <2>3, <2>4 DEF EntryInv
<1>10. EmitterInv'
  <2>1. ~(pos' > 2)
    BY <1>1
  <2>2. stage' \in {"allocate", "emit"}
    BY <1>0, <1>1
  <2> QED
    BY <1>0, <1>2, <2>1, <2>2 DEF EmitterInv, emitVars
<1> QED
  BY <1>2, <1>6, <1>7, <1>8, <1>9, <1>10 DEF StepOK, IInv

-----------------------------------------------------------------------------
(* Emission.                                                               *)

\* The instruction being emitted is over physical registers.
LEMMA AtInstFacts ==
  ASSUME TypeOK, CodeInv, AtInst
  PROVE  /\ stage = "emit" /\ cur \in Funcs /\ pos \in Nat \ {0}
         /\ ThisInst \in Physical /\ pos <= Len(asm[cur])
<1> DEFINE c == asm[cur]
<1>1. /\ stage = "emit" /\ cur \in Funcs /\ pos \in Nat \ {0} /\ pos <= Len(c)
  BY DEF AtInst, TypeOK
<1>2. c \in Seq(Physical)
  BY <1>1 DEF CodeInv
<1> HIDE DEF c
<1>3. pos \in 1 .. Len(c)
  BY <1>1, <1>2
<1>4. c[pos] \in Physical
  BY <1>2, <1>3, ElementsOf
<1> QED
  BY <1>1, <1>4 DEF c, ThisInst

LEMMA EmitFunctionStep ==
  ASSUME IInv, EmitFunction
  PROVE  StepOK
<1> DEFINE g == PrologueFrame(frame[cur])
           size == StackSize(g)
           ra == g.temp_offset["ra"]
           fp == g.temp_offset["fp"]
           saved == [size |-> size, ra |-> ra, fp |-> fp]
<1>0. /\ TypeOK /\ FramesSeparate /\ CodeInv /\ EntryInv /\ EmitterInv /\ FramesBalanced
      /\ AtInst /\ DOMAIN frame = Funcs /\ cur \in Funcs
      /\ IsFrame(frame[cur], Regs) /\ FrameSeparate(frame[cur])
  BY DEF IInv, EmitFunction, TypeOK, FramesSeparate
<1>1. /\ stage = "emit" /\ pos \in Nat \ {0} /\ ThisInst \in Physical
      /\ ThisInst.kind = "Function"
  BY <1>0, AtInstFacts DEF EmitFunction
<1>2. /\ prog' = prog /\ stage' = stage /\ cur' = cur /\ pos' = pos + 1
      /\ asm' = asm /\ acc' = acc /\ released' = released
      /\ frame' = [frame EXCEPT ![cur] = g] /\ fp_offset' = fp /\ ra_offset' = ra
      /\ out' = out \o << ThisInst >> \o Prologue(size, ra, fp)
      /\ reserved' = [reserved EXCEPT ![cur] = saved]
  BY DEF EmitFunction
<1>3. /\ IsFrame(g, Regs) /\ FrameSeparate(g) /\ Grows(frame[cur], g)
      /\ {"fp", "ra"} \subseteq DOMAIN g.temp_offset
  <2>1. "fp" \in Regs /\ "ra" \in Regs
    BY Registers DEF Regs
  <2> QED
    BY <1>0, <2>1, TwoSlots DEF PrologueFrame
<1> HIDE DEF g
<1>4. /\ Funcs' = Funcs /\ DOMAIN frame' = Funcs
      /\ \A f \in Funcs : IsFrame(frame'[f], Regs) /\ FrameSeparate(frame'[f])
      /\ \A f \in Funcs : Grows(frame[f], frame'[f])
      /\ frame'[cur] = g /\ \A f \in Funcs : f # cur => frame'[f] = frame[f]
      /\ \A f \in Funcs : \A c \in Seq(Owned(frame[f])) : c \in Seq(Owned(frame'[f]))
  BY <1>0, <1>2, <1>3, FrameStep
<1>5. size \in Nat /\ ra \in Int /\ fp \in Int
  <2>1. /\ g.temp_offset \in [DOMAIN g.temp_offset -> Nat]
        /\ g.temp_stack_size \in Nat /\ g.reg_stack_size \in Nat
    BY <1>3 DEF IsFrame
  <2>2. ra \in Nat /\ fp \in Nat
    BY <1>3, <2>1
  <2>3. size \in Nat
    BY <2>1 DEF StackSize
  <2> QED
    BY <2>2, <2>3
<1>6. saved # NotYet /\ saved \in Saved
  <2>1. saved \in Saved
    BY <1>5 DEF Saved
  <2>2. saved.size # -1
    BY <1>5
  <2>3. NotYet.size = -1
    BY DEF NotYet
  <2> QED
    BY <2>1, <2>2, <2>3
<1>7. out' \in Seq(Legal)
  <2>1. ThisInst \in Legal
    BY <1>1 DEF Legal
  <2>2. << ThisInst >> \in Seq(Legal)
    BY <2>1, SeqTuples
  <2>3. Prologue(size, ra, fp) \in Seq(Legal)
    <3>1. size \in Int
      BY <1>5
    <3> HIDE DEF size, ra, fp
    <3> QED
      BY <1>5, <3>1, PrologueLegal
  <2>4. out \in Seq(Legal)
    BY <1>0 DEF CodeInv
  <2> HIDE DEF size, ra, fp
  <2>5. (out \o << ThisInst >>) \o Prologue(size, ra, fp) \in Seq(Legal)
    BY <2>2, <2>3, <2>4, SeqConcat
  <2> QED
    BY <1>2, <2>5
<1> HIDE DEF saved, size, ra, fp
<1>8. TypeOK'
  <2>1. pos' \in Nat \ {0}
    BY <1>1, <1>2
  <2>2. out' \in Seq(InstSet)
    <3>1. Legal \subseteq InstSet
      BY DEF Legal, Physical
    <3> QED
      BY <1>7, <3>1, SeqSubset
  <2>3. reserved' \in [Funcs -> Saved]
    BY <1>0, <1>2, <1>6 DEF TypeOK
  <2> QED
    BY <1>0, <1>2, <1>4, <1>5, <2>1, <2>2, <2>3 DEF TypeOK
<1>9. FramesSeparate'
  BY <1>4 DEF FramesSeparate
<1>10. CodeInv'
  <2>1. \A f \in Funcs : asm'[f] \in Seq(Owned(frame'[f]))
    BY <1>0, <1>2, <1>4 DEF CodeInv
  <2>2. acc' \in Seq(Owned(frame'[cur']))
    BY <1>0, <1>2, <1>4 DEF CodeInv
  <2> QED
    BY <1>0, <1>1, <1>2, <1>4, <1>7, <2>1, <2>2 DEF CodeInv
<1>11. EntryInv'
  BY <1>0, <1>1, <1>2, <1>4 DEF EntryInv, NameOf
<1>12. reserved'[cur] = saved /\ \A f \in Funcs : f # cur => reserved'[f] = reserved[f]
  BY <1>0, <1>2 DEF TypeOK
<1>13. EmitterInv'
  <2>1. \A f \in Funcs : cur < f => reserved'[f] = NotYet
    BY <1>0, <1>1, <1>12, OtherFunctions DEF EmitterInv
  <2>2. saved.ra = ra /\ saved.fp = fp
    BY DEF saved
  <2> QED
    BY <1>0, <1>1, <1>2, <1>4, <1>6, <1>12, <2>1, <2>2 DEF EmitterInv
<1>14. FramesBalanced'
  <2>1. saved.size = StackSize(g) /\ saved.ra = g.temp_offset["ra"]
        /\ saved.fp = g.temp_offset["fp"]
    BY DEF saved, size, ra, fp
  <2>2. released[cur] = NotYet
    <3>0. cur \in Nat
      BY <1>0, ProgramFacts
    <3>1. cur <= cur
      BY <3>0
    <3> QED
      BY <1>0, <1>1, <3>1 DEF EmitterInv
  <2> QED
    BY <1>0, <1>2, <1>3, <1>4, <1>12, <2>1, <2>2 DEF FramesBalanced
<1> QED
  BY <1>4, <1>8, <1>9, <1>10, <1>11, <1>13, <1>14 DEF StepOK, IInv

LEMMA EmitInstStep ==
  ASSUME IInv, EmitInst
  PROVE  StepOK
<1>0. /\ TypeOK /\ FramesSeparate /\ CodeInv /\ EntryInv /\ EmitterInv /\ FramesBalanced
      /\ AtInst
  BY DEF IInv, EmitInst
<1>1. /\ stage = "emit" /\ cur \in Funcs /\ pos \in Nat \ {0} /\ ThisInst \in Physical
  BY <1>0, AtInstFacts
<1>2. CASE Abort
  BY <1>1, <1>2, AbortStep
<1>3. CASE ~Abort
  <2>1. /\ prog' = prog /\ stage' = stage /\ cur' = cur /\ pos' = pos + 1
        /\ frame' = frame /\ asm' = asm /\ acc' = acc /\ ra_offset' = ra_offset
        /\ fp_offset' = fp_offset /\ reserved' = reserved /\ released' = released
        /\ out' = out \o Expand(ThisInst)
    BY <1>3 DEF EmitInst
  <2>2. Funcs' = Funcs /\ \A f \in Funcs : Grows(frame[f], frame'[f])
    BY <1>0, <2>1, FrameKept
  <2>3. out' \in Seq(Legal)
    BY <1>0, <1>1, <2>1, ExpandLegal, SeqConcat DEF CodeInv
  <2>4. pos # 2
    <3>1. Enters(asm[cur], NameOf(cur))
      BY <1>0, <1>1 DEF EntryInv
    <3>2. pos = 2 => ThisInst = Function(NameOf(cur))
      BY <3>1 DEF Enters, ThisInst
    <3>3. Function(NameOf(cur)).kind = "Function"
      BY DEF Function, Inst
    <3>4. ThisInst.kind # "Function"
      BY DEF EmitInst
    <3> QED
      BY <3>2, <3>3, <3>4
  <2>5. TypeOK'
    <3>1. Legal \subseteq InstSet
      BY DEF Legal, Physical
    <3>2. out' \in Seq(InstSet)
      BY <2>3, <3>1, SeqSubset
    <3>3. pos' \in Nat \ {0}
      BY <1>1, <2>1
    <3> QED
      BY <1>0, <2>1, <2>2, <3>2, <3>3 DEF TypeOK
  <2>6. FramesSeparate' /\ FramesBalanced'
    BY <1>0, <2>1, <2>2 DEF FramesSeparate, FramesBalanced
  <2>7. CodeInv'
    BY <1>0, <2>1, <2>2, <2>3 DEF CodeInv
  <2>8. EntryInv'
    BY <1>0, <1>1, <2>1, <2>2 DEF EntryInv, NameOf
  <2>9. EmitterInv'
    <3>1. pos' > 2 => pos > 2
      BY <1>1, <2>1, <2>4
    <3> QED
      BY <1>0, <1>1, <2>1, <2>2, <3>1 DEF EmitterInv
  <2> QED
    BY <2>2, <2>5, <2>6, <2>7, <2>8, <2>9 DEF StepOK, IInv
<1> QED
  BY <1>2, <1>3

LEMMA EmitEpilogueStep ==
  ASSUME IInv, EmitEpilogue
  PROVE  StepOK
<1> DEFINE size == StackSize(frame[cur])
           saved == [size |-> size, ra |-> ra_offset, fp |-> fp_offset]
           code == Epilogue(prog[cur].exit, prog[cur].ret, size, ra_offset, fp_offset)
<1>0. /\ TypeOK /\ FramesSeparate /\ CodeInv /\ EntryInv /\ EmitterInv /\ FramesBalanced
      /\ stage = "emit" /\ cur \in Funcs /\ pos \in Nat \ {0} /\ pos > Len(asm[cur])
      /\ ra_offset \in Int /\ fp_offset \in Int /\ IsFrame(frame[cur], Regs)
      /\ asm \in [Funcs -> Seq(InstSet)]
  BY DEF IInv, EmitEpilogue, TypeOK
<1>1. /\ prog' = prog /\ frame' = frame /\ asm' = asm /\ acc' = acc
      /\ ra_offset' = ra_offset /\ fp_offset' = fp_offset /\ reserved' = reserved
      /\ out' = out \o code /\ released' = [released EXCEPT ![cur] = saved]
      /\ NextFunction("done")
  BY DEF EmitEpilogue
<1>2. /\ pos' = 1 /\ cur' \in Funcs
      /\ \/ cur < Len(prog) /\ cur' = cur + 1 /\ stage' = stage
         \/ cur = Len(prog) /\ cur' = 1 /\ stage' = "done"
  BY <1>0, <1>1, NextFunctionFacts
<1>3. Funcs' = Funcs /\ \A f \in Funcs : Grows(frame[f], frame'[f])
  BY <1>0, <1>1, FrameKept
<1>4. size \in Int
  <2>1. frame[cur].temp_stack_size \in Nat /\ frame[cur].reg_stack_size \in Nat
    BY <1>0 DEF IsFrame
  <2> QED
    BY <2>1 DEF StackSize
<1>5. out' \in Seq(Legal)
  <2>1. prog[cur].exit \in Labels /\ prog[cur].ret \in {"", "a0"}
    BY <1>0, ProgramFacts
  <2>2. out \in Seq(Legal)
    BY <1>0 DEF CodeInv
  <2> HIDE DEF size
  <2>3. code \in Seq(Legal)
    BY <1>0, <1>4, <2>1, EpilogueLegal
  <2> HIDE DEF code
  <2> QED
    BY <1>1, <2>2, <2>3, SeqConcat
<1>6. /\ reserved[cur] # NotYet /\ reserved[cur].ra = ra_offset
      /\ reserved[cur].fp = fp_offset
  <2>1. Len(asm[cur]) >= 2
    BY <1>0 DEF EntryInv, Enters
  <2>2. Len(asm[cur]) \in Nat
    BY <1>0
  <2>3. pos > 2
    BY <1>0, <2>1, <2>2
  <2> QED
    BY <1>0, <2>3 DEF EmitterInv
<1>7. saved = reserved[cur] /\ saved \in Saved
  <2>1. reserved[cur] \in Saved /\ reserved[cur].size = size
    BY <1>0, <1>6 DEF TypeOK, FramesBalanced
  <2>2. reserved[cur] = [size |-> reserved[cur].size, ra |-> reserved[cur].ra,
                         fp |-> reserved[cur].fp]
    BY <2>1 DEF Saved
  <2> QED
    BY <1>6, <2>1, <2>2
<1> HIDE DEF saved, code, size
<1>8. /\ released' \in [Funcs -> Saved] /\ released'[cur] = reserved[cur]
      /\ \A f \in Funcs : f # cur => released'[f] = released[f]
  BY <1>0, <1>1, <1>7 DEF TypeOK
<1>9. stage' \in {"emit", "done"}
  BY <1>0, <1>2
<1>10. TypeOK'
  <2>1. Legal \subseteq InstSet
    BY DEF Legal, Physical
  <2>2. out' \in Seq(InstSet)
    BY <1>5, <2>1, SeqSubset
  <2>3. pos' \in Nat \ {0}
    BY <1>2
  <2> QED
    BY <1>0, <1>1, <1>2, <1>3, <1>8, <1>9, <2>2, <2>3 DEF TypeOK
<1>11. FramesSeparate'
  BY <1>0, <1>1, <1>3 DEF FramesSeparate
<1>12. CodeInv'
  <2>1. acc = << >>
    BY <1>0 DEF CodeInv
  <2> QED
    BY <1>0, <1>1, <1>3, <1>5, <1>9, <2>1, SeqTuples DEF CodeInv
<1>13. EntryInv'
  <2>1. \A f \in Funcs : Enters(asm'[f], NameOf(f)')
    BY <1>0, <1>1 DEF EntryInv, NameOf
  <2> QED
    BY <1>3, <1>9, <2>1 DEF EntryInv
<1>14. EmitterInv'
  <2>1. CASE cur < Len(prog) /\ cur' = cur + 1 /\ stage' = stage
    <3>1. cur \in Nat /\ cur' = cur + 1 /\ \A f \in Funcs : f \in Nat
      <4>1. cur \in Nat /\ Funcs = 1 .. Len(prog) /\ Len(prog) \in Nat
        BY <1>0, ProgramFacts
      <4> QED
        BY <2>1, <4>1
    <3>2. \A f \in Funcs : cur < f => released[f] = NotYet
      <4>1. \A f \in Funcs : cur < f => cur <= f
        BY <3>1
      <4> QED
        BY <1>0, <4>1 DEF EmitterInv
    <3>3. ASSUME NEW f \in Funcs, cur' < f PROVE reserved'[f] = NotYet
      <4>1. cur < f
        BY <3>1, <3>3
      <4> QED
        BY <1>0, <1>1, <4>1 DEF EmitterInv
    <3>4. ASSUME NEW f \in Funcs, cur' <= f PROVE released'[f] = NotYet
      <4>1. cur < f /\ f # cur
        BY <3>1, <3>4
      <4>2. released[f] = NotYet
        BY <3>2, <4>1
      <4> QED
        BY <1>8, <4>1, <4>2
    <3>5. ~(pos' > 2)
      BY <1>2
    <3> QED
      BY <1>0, <1>3, <2>1, <3>3, <3>4, <3>5 DEF EmitterInv
  <2>2. CASE stage' = "done"
    BY <2>2 DEF EmitterInv
  <2> QED
    BY <1>2, <2>1, <2>2
<1>15. FramesBalanced'
  BY <1>0, <1>1, <1>3, <1>8 DEF FramesBalanced
<1> QED
  BY <1>3, <1>10, <1>11, <1>12, <1>13, <1>14, <1>15 DEF StepOK, IInv

\* A step that changes nothing.
LEMMA IdleStep ==
  ASSUME IInv, UNCHANGED vars
  PROVE  StepOK
<1>1. /\ prog' = prog /\ stage' = stage /\ cur' = cur /\ pos' = pos /\ frame' = frame
      /\ asm' = asm /\ acc' = acc /\ ra_offset' = ra_offset /\ fp_offset' = fp_offset
      /\ out' = out /\ reserved' = reserved /\ released' = released
  BY DEF vars, passVars, emitVars
<1>2. Funcs' = Funcs /\ \A f \in Funcs : Grows(frame[f], frame'[f])
  BY <1>1, FrameKept DEF IInv
<1>3. TypeOK' /\ FramesSeparate' /\ FramesBalanced'
  BY <1>1, <1>2 DEF IInv, TypeOK, FramesSeparate, FramesBalanced
<1>4. CodeInv'
  BY <1>1, <1>2 DEF IInv, CodeInv
<1>5. EntryInv' /\ EmitterInv'
  BY <1>1, <1>2 DEF IInv, EntryInv, EmitterInv, NameOf
<1> QED
  BY <1>2, <1>3, <1>4, <1>5 DEF StepOK, IInv

-----------------------------------------------------------------------------
(* Theorems.                                                               *)

LEMMA InitOK == Init => IInv
<1> SUFFICES ASSUME Init PROVE IInv
  OBVIOUS
<1>1. /\ prog \in Programs /\ stage = "select" /\ cur = 1 /\ pos = 1
      /\ frame = [f \in Funcs |-> NewFrame] /\ asm = [f \in Funcs |-> << >>]
      /\ acc = << >> /\ out = << >> /\ ra_offset = 0 /\ fp_offset = 0
      /\ reserved = [f \in Funcs |-> NotYet] /\ released = [f \in Funcs |-> NotYet]
  BY DEF Init
<1>2. IsFrame(NewFrame, Regs) /\ FrameSeparate(NewFrame)
  BY NewFrameSeparate
<1>3. Len(prog) \in Nat /\ Len(prog) > 0
  <2>1. prog \in Seq(IRFunction) /\ Len(prog) > 0
    BY <1>1, BackendAssumption
  <2> QED
    BY <2>1
<1>4. cur \in Funcs /\ \A f \in Funcs : ~(f < cur)
  BY <1>1, <1>3 DEF Funcs
<1>5. \A S : << >> \in Seq(S)
  BY SeqTuples
<1>6. NotYet \in Saved
  BY DEF NotYet, Saved
<1>7. TypeOK
  <2>1. pos \in Nat \ {0} /\ ra_offset \in Int /\ fp_offset \in Int
    BY <1>1
  <2>2. reserved \in [Funcs -> Saved] /\ released \in [Funcs -> Saved]
    BY <1>1, <1>6
  <2>3. asm \in [Funcs -> Seq(InstSet)]
    BY <1>1, <1>5
  <2> QED
    BY <1>1, <1>2, <1>4, <1>5, <2>1, <2>2, <2>3 DEF TypeOK
<1>8. FramesSeparate /\ FramesBalanced
  BY <1>1, <1>2 DEF FramesSeparate, FramesBalanced
<1>9. CodeInv
  BY <1>1, <1>4, <1>5 DEF CodeInv
<1>10. EntryInv /\ EmitterInv
  BY <1>1, <1>4 DEF EntryInv, EmitterInv
<1> QED
  BY <1>7, <1>8, <1>9, <1>10 DEF IInv

LEMMA NextOK == IInv /\ [Next]_vars => StepOK
<1> SUFFICES ASSUME IInv, [Next]_vars PROVE StepOK
  OBVIOUS
<1>1. CASE Select
  BY <1>1, SelectStep
<1>2. CASE Allocate
  <2>1. CASE \E kind : AllocateKind(kind)
    BY <2>1, AllocateKindStep
  <2>2. CASE AllocatedFunction
    BY <2>2, AllocatedFunctionStep
  <2> QED
    BY <1>2, <2>1, <2>2
    DEF Allocate, AllocateArith, AllocateArithImm, AllocateMv, AllocateLi, AllocateLa,
        AllocateLoad, AllocateStore, AllocateBranch, AllocateOther
<1>3. CASE Emit
  BY <1>3, EmitFunctionStep, EmitInstStep, EmitEpilogueStep DEF Emit
<1>4. CASE UNCHANGED vars
  BY <1>4, IdleStep
<1> QED
  BY <1>1, <1>2, <1>3, <1>4 DEF Next, Finished

\* The passes read the program and write none of it.
LEMMA ProgramKept == [Next]_vars => prog' = prog
<1>1. Select => prog' = prog
  BY DEF Select, LoadImmNode, AssignNode, BinaryNode, UnaryNode, LabelNode, GotoNode,
         FunctionNode, CallNode, ArgNode, ParamNode, IfNode, DecNode, LoadAddrNode,
         StoreNode, LoadNode, SelectedFunction, Appends, Abort
<1>2. Allocate => prog' = prog
  BY DEF Allocate, AllocateArith, AllocateArithImm, AllocateMv, AllocateLi, AllocateLa,
         AllocateLoad, AllocateStore, AllocateBranch, AllocateOther, AllocateKind,
         AllocatedFunction
<1>3. Emit => prog' = prog
  BY DEF Emit, EmitFunction, EmitInst, EmitEpilogue, Abort
<1> QED
  BY <1>1, <1>2, <1>3 DEF Next, Finished, vars

LEMMA Invariant == Spec => []IInv
<1>1. Init => IInv
  BY InitOK
<1>2. IInv /\ [Next]_vars => IInv'
  BY NextOK DEF StepOK
<1> QED
  BY <1>1, <1>2, PTL DEF Spec

\* What the invariant says of accesses and of the output.
LEMMA InvariantSays ==
  ASSUME IInv
  PROVE  AccessesOwned /\ OutputLegal
<1>1. AccessesOwned
  BY OwnedIsCodeOwned DEF IInv, CodeInv, TypeOK, AccessesOwned
<1>2. ASSUME NEW i \in 1 .. Len(out)
      PROVE  /\ RegsOf(out[i]) \subseteq PhysReg
             /\ out[i].kind \in {"ArithImm", "Load", "Store"} => Fits(out[i].imm)
  <2>1. out \in Seq(Legal)
    BY DEF IInv, CodeInv
  <2>2. out[i] \in Legal
    BY <2>1, ElementsOf
  <2> QED
    BY <2>2 DEF Legal, Physical
<1> QED
  BY <1>1, <1>2 DEF OutputLegal

\* All three passes keep their data well-typed: frames are frames, code is a
\* sequence of instructions over known registers, positions are in range.
THEOREM TypeCorrect == Spec => []TypeOK
<1>1. IInv => TypeOK
  BY DEF IInv
<1> QED
  BY <1>1, Invariant, PTL

\* No slot of a frame ever overlaps another slot or an array, and no array
\* another, whatever the functions and however the passes extend the frames.
THEOREM FramesStaySeparate == Spec => []FramesSeparate
<1>1. IInv => FramesSeparate
  BY DEF IInv
<1> QED
  BY <1>1, Invariant, PTL

\* Every load or store with base sp that selection or allocation wrote names the
\* slot of some register of its function, every address it took from sp the first
\* byte of an array, then and whatever the passes allocate afterwards.
THEOREM EveryAccessOwned == Spec => []AccessesOwned
<1>1. IInv => AccessesOwned
  BY InvariantSays
<1> QED
  BY <1>1, Invariant, PTL

\* What is emitted has physical registers and immediates that fit, for every
\* range of immediates that holds 0 and every size of frame.
THEOREM OutputAlwaysLegal == Spec => []OutputLegal
<1>1. IInv => OutputLegal
  BY InvariantSays
<1> QED
  BY <1>1, Invariant, PTL

\* The prologue reserves what the function ends up using, and the epilogue
\* releases and restores what the prologue reserved and saved.
THEOREM PrologueEpilogueBalanced == Spec => []FramesBalanced
<1>1. IInv => FramesBalanced
  BY DEF IInv
<1> QED
  BY <1>1, Invariant, PTL

\* No step of any pass moves a slot or an array handed out earlier.
THEOREM SlotsNeverMove == Spec => SlotsFixed
<1>1. IInv /\ [Next]_vars => [\A f \in Funcs : Grows(frame[f], frame'[f])]_vars
  BY NextOK DEF StepOK
<1> QED
  BY <1>1, Invariant, PTL DEF Spec, SlotsFixed

-----------------------------------------------------------------------------
(* Transfers of control from pass to pass.                                 *)

LEMMA NodeTyped ==
  ASSUME NEW node \in IRNode
  PROVE  NodeControl(node) \in Seq(Transfers)
<1>1. PICK kind, op, label : NodeControl(node) \in {<< >>, << Transfer(kind, op, label) >>}
                             /\ Transfer(kind, op, label) \in Transfers
  <2>0. {"Label", "Function", "Jump", "Branch", "Call", "La"} \subseteq Kinds
    BY DEF Kinds
  <2>1. CASE node.ir \in {"Label", "Goto"}
    <3>1. node.label \in Labels
      BY <2>1 DEF IRNode
    <3>2. /\ Transfer("Label", Unused, node.label) \in Transfers
          /\ Transfer("Jump", Unused, node.label) \in Transfers
      BY <2>0, <3>1 DEF Transfers, Transfer
    <3> QED
      BY <2>1, <3>2 DEF NodeControl
  <2>2. CASE node.ir = "Function"
    <3>1. node.name \in Labels
      BY <2>2 DEF IRNode
    <3>2. Transfer("Function", Unused, node.name) \in Transfers
      BY <2>0, <3>1 DEF Transfers, Transfer
    <3> QED
      BY <2>2, <3>2 DEF NodeControl
  <2>3. CASE node.ir = "If"
    <3>1. node.label \in Labels /\ node.op \in BinaryOps
      BY <2>3 DEF IRNode
    <3>2. Transfer("Branch", node.op, node.label) \in Transfers
      BY <2>0, <3>1 DEF Transfers, Transfer
    <3> QED
      BY <2>3, <3>2 DEF NodeControl
  <2>4. CASE node.ir = "Call"
    <3>1. node.func \in Labels
      BY <2>4 DEF IRNode
    <3>2. Transfer("Call", Unused, node.func) \in Transfers
      BY <2>0, <3>1 DEF Transfers, Transfer
    <3> QED
      BY <2>4, <3>2 DEF NodeControl
  <2>5. CASE node.ir = "LoadAddr"
    <3>1. node.label \in Labels
      BY <2>5 DEF IRNode
    <3>2. Transfer("La", Unused, node.label) \in Transfers
      BY <2>0, <3>1 DEF Transfers, Transfer
    <3> QED
      BY <2>5, <3>2 DEF NodeControl
  <2>6. CASE node.ir \notin {"Label", "Goto", "Function", "If", "Call", "LoadAddr"}
    <3>1. NodeControl(node) = << >>
      BY <2>6 DEF NodeControl
    <3>2. Transfer("Label", Unused, Unused) \in Transfers
      BY <2>0 DEF Transfers, Transfer
    <3> QED
      BY <3>1, <3>2
  <2> QED
    BY <2>1, <2>2, <2>3, <2>4, <2>5, <2>6
<1> QED
  BY <1>1, SeqTuples

LEMMA NodesParts ==
  ASSUME NEW c \in Seq(IRNode)
  PROVE  /\ [i \in DOMAIN c |-> NodeControl(c[i])] \in Seq(Seq(Transfers))
         /\ [i \in DOMAIN c |-> NodeControl(c[i])] \in [1 .. Len(c) -> Seq(Transfers)]
         /\ Len([i \in DOMAIN c |-> NodeControl(c[i])]) = Len(c)
<1>1. DOMAIN c = 1 .. Len(c) /\ Len(c) \in Nat
  OBVIOUS
<1>2. \A i \in 1 .. Len(c) : NodeControl(c[i]) \in Seq(Transfers)
  BY ElementsOf, NodeTyped
<1>3. [i \in DOMAIN c |-> NodeControl(c[i])] \in [1 .. Len(c) -> Seq(Transfers)]
  BY <1>1, <1>2
<1> QED
  BY <1>1, <1>3

LEMMA NodesCode ==
  ASSUME NEW c \in Seq(IRNode)
  PROVE  NodesControl(c) \in Seq(Transfers)
<1>1. PICK m \in Seq(Seq(Transfers)) : m = [i \in DOMAIN c |-> NodeControl(c[i])]
  BY NodesParts
<1>2. FlattenSeq(m) \in Seq(Transfers)
  BY <1>1, FlattenAppend
<1> QED
  BY <1>1, <1>2 DEF NodesControl

LEMMA NodesAppend ==
  ASSUME NEW c \in Seq(IRNode), NEW node \in IRNode
  PROVE  NodesControl(Append(c, node)) = NodesControl(c) \o NodeControl(node)
<1>1. PICK d : d = Append(c, node)
  OBVIOUS
<1>2. PICK n \in Nat : n = Len(c)
  OBVIOUS
<1>3. /\ d \in Seq(IRNode) /\ Len(d) = n + 1 /\ d[n + 1] = node
      /\ \A i \in 1 .. n : d[i] = c[i]
  BY <1>1, <1>2
<1>4. PICK m : m = [i \in DOMAIN c |-> NodeControl(c[i])]
  OBVIOUS
<1>5. PICK u : u = [i \in DOMAIN d |-> NodeControl(d[i])]
  OBVIOUS
<1>6. m \in [1 .. n -> Seq(Transfers)] /\ u \in [1 .. n + 1 -> Seq(Transfers)]
  BY <1>2, <1>3, <1>4, <1>5, NodesParts
<1>7. DOMAIN c = 1 .. n /\ DOMAIN d = 1 .. n + 1
  BY <1>2, <1>3
<1>8. n + 1 \in 1 .. n + 1 /\ \A i \in 1 .. n : i \in 1 .. n + 1
  OBVIOUS
<1>9. u[n + 1] = NodeControl(node) /\ \A i \in 1 .. n : u[i] = m[i]
  BY <1>3, <1>4, <1>5, <1>7, <1>8
<1>10. OneMore(Transfers, n, m, u)
  BY <1>6, <1>9 DEF OneMore
<1>11. FlattenSeq(u) = FlattenSeq(m) \o u[n + 1]
  BY <1>10, FlattenMapped
<1> QED
  BY <1>1, <1>4, <1>5, <1>9, <1>11 DEF NodesControl

LEMMA NodesEmpty == NodesControl(<< >>) = << >>
<1>1. PICK m : m = [i \in DOMAIN << >> |-> NodeControl(<< >>[i])]
  OBVIOUS
<1>2. << >> \in Seq(IRNode) /\ Len(<< >>) = 0
  BY SeqTuples
<1>3. m \in Seq(Seq(Transfers)) /\ Len(m) = 0
  BY <1>1, <1>2, NodesParts
<1>4. m = << >>
  BY <1>3
<1> QED
  BY <1>1, <1>4, FlattenEmpty DEF NodesControl

\* Position k of what a pass works through, of length n.
LEMMA NodesFront ==
  ASSUME NEW c \in Seq(IRNode), NEW k \in Nat \ {0}
  PROVE  /\ k <= Len(c) => /\ NodesControl(SubSeq(c, 1, (k + 1) - 1))
                                = NodesControl(SubSeq(c, 1, k - 1)) \o NodeControl(c[k])
                           /\ k + 1 <= Len(c) + 1
         /\ k > Len(c) /\ k <= Len(c) + 1
              => NodesControl(SubSeq(c, 1, k - 1)) = NodesControl(c)
         /\ NodesControl(SubSeq(c, 1, 1 - 1)) = << >> /\ 1 <= Len(c) + 1
<1>0. Len(c) \in Nat
  OBVIOUS
<1>1. ASSUME k <= Len(c)
      PROVE  /\ NodesControl(SubSeq(c, 1, (k + 1) - 1))
                  = NodesControl(SubSeq(c, 1, k - 1)) \o NodeControl(c[k])
             /\ k + 1 <= Len(c) + 1
  <2>1. PICK j \in 0 .. Len(c) : j = k - 1 /\ j + 1 <= Len(c) /\ k = j + 1
    BY <1>0, <1>1
  <2>2. /\ SubSeq(c, 1, j + 1) = Append(SubSeq(c, 1, j), c[j + 1])
        /\ SubSeq(c, 1, j) \in Seq(IRNode) /\ c[j + 1] \in IRNode
    BY <2>1, FrontLonger
  <2>3. NodesControl(SubSeq(c, 1, j + 1)) = NodesControl(SubSeq(c, 1, j)) \o NodeControl(c[j + 1])
    BY <2>2, NodesAppend
  <2>4. (k + 1) - 1 = j + 1 /\ k + 1 <= Len(c) + 1
    BY <1>0, <1>1, <2>1
  <2> QED
    BY <2>1, <2>3, <2>4
<1>2. ASSUME k > Len(c), k <= Len(c) + 1
      PROVE  NodesControl(SubSeq(c, 1, k - 1)) = NodesControl(c)
  <2>1. k - 1 = Len(c)
    BY <1>0, <1>2
  <2>2. SubSeq(c, 1, Len(c)) = c
    OBVIOUS
  <2> QED
    BY <2>1, <2>2
<1>3. NodesControl(SubSeq(c, 1, 1 - 1)) = << >> /\ 1 <= Len(c) + 1
  <2>1. PICK d : d = SubSeq(c, 1, 1 - 1)
    OBVIOUS
  <2>2. d = << >>
    BY <2>1
  <2>3. NodesControl(d) = << >>
    BY <2>2, NodesEmpty
  <2>4. 1 <= Len(c) + 1
    BY <1>0
  <2> QED
    BY <2>1, <2>3, <2>4, Zenon
<1> QED
  BY <1>1, <1>2, <1>3

LEMMA ControlFront ==
  ASSUME NEW c \in Seq(InstSet), NEW k \in Nat \ {0}
  PROVE  /\ k <= Len(c) => /\ Control(SubSeq(c, 1, (k + 1) - 1))
                                = Control(SubSeq(c, 1, k - 1)) \o ControlOf(c[k])
                           /\ k + 1 <= Len(c) + 1
         /\ k > Len(c) /\ k <= Len(c) + 1 => Control(SubSeq(c, 1, k - 1)) = Control(c)
         /\ Control(SubSeq(c, 1, 1 - 1)) = << >> /\ 1 <= Len(c) + 1
         /\ k <= Len(c) + 1 => Control(SubSeq(c, 1, k - 1)) \in Seq(Transfers)
<1>0. Len(c) \in Nat
  OBVIOUS
<1>1. ASSUME k <= Len(c)
      PROVE  /\ Control(SubSeq(c, 1, (k + 1) - 1))
                  = Control(SubSeq(c, 1, k - 1)) \o ControlOf(c[k])
             /\ k + 1 <= Len(c) + 1
  <2>1. PICK j \in 0 .. Len(c) : j = k - 1 /\ j + 1 <= Len(c) /\ k = j + 1
    BY <1>0, <1>1
  <2>2. /\ SubSeq(c, 1, j + 1) = Append(SubSeq(c, 1, j), c[j + 1])
        /\ SubSeq(c, 1, j) \in Seq(InstSet) /\ c[j + 1] \in InstSet
    BY <2>1, FrontLonger
  <2>3. Control(SubSeq(c, 1, j + 1)) = Control(SubSeq(c, 1, j)) \o ControlOf(c[j + 1])
    BY <2>2, ControlAppend
  <2>4. (k + 1) - 1 = j + 1 /\ k + 1 <= Len(c) + 1
    BY <1>0, <1>1, <2>1
  <2> QED
    BY <2>1, <2>3, <2>4
<1>2. ASSUME k > Len(c), k <= Len(c) + 1
      PROVE  Control(SubSeq(c, 1, k - 1)) = Control(c)
  <2>1. k - 1 = Len(c)
    BY <1>0, <1>2
  <2>2. SubSeq(c, 1, Len(c)) = c
    OBVIOUS
  <2> QED
    BY <2>1, <2>2
<1>3. Control(SubSeq(c, 1, 1 - 1)) = << >> /\ 1 <= Len(c) + 1
  <2>1. PICK d : d = SubSeq(c, 1, 1 - 1)
    OBVIOUS
  <2>2. d = << >>
    BY <2>1
  <2>3. Control(d) = << >>
    BY <2>2, ControlEmpty
  <2>4. 1 <= Len(c) + 1
    BY <1>0
  <2> QED
    BY <2>1, <2>3, <2>4, Zenon
<1>4. ASSUME k <= Len(c) + 1
      PROVE  Control(SubSeq(c, 1, k - 1)) \in Seq(Transfers)
  <2>1. PICK j \in 0 .. Len(c) : j = k - 1
    BY <1>0, <1>4
  <2>2. SubSeq(c, 1, j) \in Seq(InstSet)
    BY FrontElements
  <2> QED
    BY <2>1, <2>2, ControlCode
<1> QED
  BY <1>1, <1>2, <1>3, <1>4

\* The transfers of the first n functions.
ControlUpto(n) == FlattenSeq([f \in 1 .. n |-> FunctionControl(prog[f])])

\* The code of a block has the transfers of the nodes it is selected from.
Faithful(f) == Control(asm[f]) = NodesControl(prog[f].entry)

SelectInv ==
  stage = "select" =>
    /\ \A f \in Funcs : f < cur => Faithful(f)
    /\ pos <= Len(prog[cur].entry) + 1
    /\ Control(asm[cur]) = NodesControl(SubSeq(prog[cur].entry, 1, pos - 1))
    /\ out = << >>

AllocateInv ==
  stage = "allocate" =>
    /\ \A f \in Funcs : Faithful(f)
    /\ pos <= Len(asm[cur]) + 1
    /\ Control(acc) = Control(SubSeq(asm[cur], 1, pos - 1))
    /\ out = << >>

EmitInv ==
  stage = "emit" =>
    /\ \A f \in Funcs : Faithful(f)
    /\ pos <= Len(asm[cur]) + 1
    /\ Control(out) = ControlUpto(cur - 1) \o Control(SubSeq(asm[cur], 1, pos - 1))

\* At each position of a pass, what it has made so far has the transfers of what
\* it has worked through.
ControlInv == SelectInv /\ AllocateInv /\ EmitInv /\ ControlKept

LEMMA ControlTypes ==
  ASSUME IInv
  PROVE  /\ TypeOK /\ CodeInv /\ EntryInv /\ cur \in Funcs /\ pos \in Nat \ {0}
         /\ \A f \in Funcs : asm[f] \in Seq(InstSet) /\ prog[f].entry \in Seq(IRNode)
         /\ acc \in Seq(InstSet) /\ out \in Seq(InstSet)
         /\ DOMAIN asm = Funcs /\ DOMAIN frame = Funcs
         /\ \A f \in Funcs : IsFrame(frame[f], Regs) /\ FrameSeparate(frame[f])
<1>1. TypeOK /\ CodeInv /\ EntryInv /\ FramesSeparate
  BY DEF IInv
<1>2. \A f \in Funcs : prog[f].entry \in Seq(IRNode)
  BY <1>1, ProgramFacts
<1> QED
  BY <1>1, <1>2 DEF TypeOK, FramesSeparate

\* Before anything is emitted there are no transfers.
LEMMA NoneBefore == ControlUpto(0) = << >>
<1>1. PICK m : m = [f \in 1 .. 0 |-> FunctionControl(prog[f])]
  OBVIOUS
<1>2. m = << >>
  BY <1>1
<1> QED
  BY <1>1, <1>2, FlattenEmpty DEF ControlUpto

LEMMA FunctionControlTyped ==
  ASSUME TypeOK
  PROVE  \A f \in Funcs : FunctionControl(prog[f]) \in Seq(Transfers)
<1> SUFFICES ASSUME NEW f \in Funcs PROVE FunctionControl(prog[f]) \in Seq(Transfers)
  OBVIOUS
<1>1. prog[f].entry \in Seq(IRNode) /\ prog[f].exit \in Labels
  BY ProgramFacts
<1>2. NodesControl(prog[f].entry) \in Seq(Transfers)
  BY <1>1, NodesCode
<1>3. {"Label", "Ret"} \subseteq Kinds
  BY DEF Kinds
<1>4. /\ Transfer("Label", Unused, prog[f].exit) \in Transfers
      /\ Transfer("Ret", Unused, Unused) \in Transfers
  BY <1>1, <1>3 DEF Transfers, Transfer
<1>5. << Transfer("Label", Unused, prog[f].exit), Transfer("Ret", Unused, Unused) >>
        \in Seq(Transfers)
  BY <1>4, SeqTuples
<1> QED
  BY <1>2, <1>5, SeqConcat DEF FunctionControl

LEMMA ControlUptoNext ==
  ASSUME TypeOK, NEW n \in 0 .. Len(prog), n + 1 <= Len(prog)
  PROVE  /\ ControlUpto(n) \in Seq(Transfers)
         /\ ControlUpto(n + 1) = ControlUpto(n) \o FunctionControl(prog[n + 1])
<1>0. Len(prog) \in Nat /\ Funcs = 1 .. Len(prog)
  BY ProgramFacts
<1>1. PICK m : m = [f \in 1 .. n |-> FunctionControl(prog[f])]
  OBVIOUS
<1>2. PICK u : u = [f \in 1 .. n + 1 |-> FunctionControl(prog[f])]
  OBVIOUS
<1>3. n \in Nat /\ n + 1 \in 1 .. n + 1 /\ \A i \in 1 .. n : i \in 1 .. n + 1
  BY <1>0
<1>4. \A i \in 1 .. n + 1 : i \in Funcs
  BY <1>0
<1>5. \A i \in 1 .. n + 1 : FunctionControl(prog[i]) \in Seq(Transfers)
  BY <1>4, FunctionControlTyped
<1>6. m \in [1 .. n -> Seq(Transfers)] /\ u \in [1 .. n + 1 -> Seq(Transfers)]
  BY <1>1, <1>2, <1>3, <1>5
<1>7. u[n + 1] = FunctionControl(prog[n + 1]) /\ \A i \in 1 .. n : u[i] = m[i]
  BY <1>1, <1>2, <1>3
<1>8. OneMore(Transfers, n, m, u)
  BY <1>6, <1>7 DEF OneMore
<1>9. FlattenSeq(m) \in Seq(Transfers) /\ FlattenSeq(u) = FlattenSeq(m) \o u[n + 1]
  BY <1>3, <1>8, FlattenMapped
<1> QED
  BY <1>1, <1>2, <1>7, <1>9 DEF ControlUpto

LEMMA AppendsControl ==
  ASSUME IInv, ControlInv, NEW ir, AtNode(ir), NEW sel, sel.code \in Seq(InstSet),
         Control(sel.code) = NodeControl(Node), Appends(sel)
  PROVE  ControlInv'
<1>0. /\ stage = "select" /\ stage' = "select" /\ prog' = prog /\ cur' = cur
      /\ pos' = pos + 1 /\ out' = out /\ asm' = [asm EXCEPT ![cur] = @ \o sel.code]
      /\ pos <= Len(prog[cur].entry)
  BY DEF AtNode, Appends, emitVars
<1>1. /\ cur \in Funcs /\ pos \in Nat \ {0} /\ TypeOK /\ DOMAIN asm = Funcs
      /\ \A f \in Funcs : asm[f] \in Seq(InstSet) /\ prog[f].entry \in Seq(IRNode)
  BY ControlTypes
<1>2. PICK entry \in Seq(IRNode) : entry = prog[cur].entry
  BY <1>1
<1>3. /\ asm'[cur] = asm[cur] \o sel.code
      /\ \A f \in Funcs : f # cur => asm'[f] = asm[f]
  BY <1>0, <1>1
<1>4. Control(asm[cur]) = NodesControl(SubSeq(entry, 1, pos - 1))
  BY <1>0, <1>2 DEF ControlInv, SelectInv
<1>5. Control(asm'[cur]) = Control(asm[cur]) \o NodeControl(Node)
  <2>1. PICK c \in Seq(InstSet) : c = asm[cur]
    BY <1>1
  <2>2. PICK d \in Seq(InstSet) : d = sel.code
    OBVIOUS
  <2>3. Control(c \o d) = Control(c) \o Control(d)
    BY ControlConcat
  <2> QED
    BY <1>3, <2>1, <2>2, <2>3
<1>6. /\ NodesControl(SubSeq(entry, 1, (pos + 1) - 1))
           = NodesControl(SubSeq(entry, 1, pos - 1)) \o NodeControl(entry[pos])
      /\ pos + 1 <= Len(entry) + 1
  BY <1>0, <1>1, <1>2, NodesFront
<1>7. Node = entry[pos]
  BY <1>2 DEF Node
<1>8. Control(asm'[cur]) = NodesControl(SubSeq(entry, 1, (pos + 1) - 1))
  BY <1>4, <1>5, <1>6, <1>7
<1>9. \A f \in Funcs : f < cur => Faithful(f)'
  <2>1. \A f \in Funcs : f < cur => Faithful(f) /\ f # cur
    BY <1>0, <1>1, OtherFunctions DEF ControlInv, SelectInv
  <2> QED
    BY <1>0, <1>3, <2>1 DEF Faithful
<1>10. Funcs' = Funcs
  BY <1>0 DEF Funcs
<1>11. /\ pos' <= Len(prog'[cur'].entry) + 1
       /\ Control(asm'[cur']) = NodesControl(SubSeq(prog'[cur'].entry, 1, pos' - 1))
       /\ out' = << >>
  <2>1. prog'[cur'].entry = entry /\ pos' = pos + 1 /\ cur' = cur
    BY <1>0, <1>2
  <2>2. out' = << >>
    BY <1>0 DEF ControlInv, SelectInv
  <2> QED
    BY <1>6, <1>8, <2>1, <2>2
<1>12. SelectInv'
  <2>1. \A f \in Funcs' : f < cur' => Faithful(f)'
    BY <1>0, <1>9, <1>10
  <2> QED
    BY <1>11, <2>1 DEF SelectInv
<1> QED
  BY <1>0, <1>12 DEF ControlInv, AllocateInv, EmitInv, ControlKept

\* A function whose nodes have all been selected is faithful.
LEMMA SelectedControl ==
  ASSUME IInv, ControlInv, SelectedFunction
  PROVE  ControlInv'
<1>0. /\ stage = "select" /\ prog' = prog /\ asm' = asm /\ acc' = acc /\ out' = out
      /\ pos > Len(prog[cur].entry) /\ NextFunction("allocate")
  BY DEF SelectedFunction, emitVars
<1>1. /\ cur \in Funcs /\ pos \in Nat \ {0} /\ TypeOK
      /\ \A f \in Funcs : asm[f] \in Seq(InstSet) /\ prog[f].entry \in Seq(IRNode)
      /\ EntryInv /\ CodeInv
  BY ControlTypes
<1>2. /\ pos' = 1 /\ cur' \in Funcs
      /\ \/ cur < Len(prog) /\ cur' = cur + 1 /\ stage' = stage
         \/ cur = Len(prog) /\ cur' = 1 /\ stage' = "allocate"
  BY <1>0, <1>1, NextFunctionFacts
<1>3. Faithful(cur)
  <2>1. PICK entry \in Seq(IRNode) : entry = prog[cur].entry
    BY <1>1
  <2>2. /\ pos <= Len(entry) + 1 /\ pos > Len(entry)
        /\ Control(asm[cur]) = NodesControl(SubSeq(entry, 1, pos - 1))
    BY <1>0, <2>1 DEF ControlInv, SelectInv
  <2>3. NodesControl(SubSeq(entry, 1, pos - 1)) = NodesControl(entry)
    BY <1>1, <2>2, NodesFront
  <2> QED
    BY <2>1, <2>2, <2>3 DEF Faithful
<1>4. \A f \in Funcs : f < cur \/ f = cur => Faithful(f)'
  BY <1>0, <1>3 DEF ControlInv, SelectInv, Faithful
<1>5. Funcs' = Funcs /\ out' = << >>
  BY <1>0 DEF Funcs, ControlInv, SelectInv
<1>6. CASE cur < Len(prog) /\ cur' = cur + 1 /\ stage' = stage
  <2>1. \A f \in Funcs : f < cur' => f < cur \/ f = cur
    BY <1>1, <1>6, OtherFunctions
  <2>2. asm'[cur'] = << >>
    <3>1. cur < cur'
      <4>1. cur \in Nat
        BY <1>1, ProgramFacts
      <4> QED
        BY <1>6, <4>1
    <3> QED
      BY <1>0, <1>1, <1>2, <3>1 DEF EntryInv
  <2>3. PICK entry \in Seq(IRNode) : entry = prog'[cur'].entry
    BY <1>0, <1>1, <1>2
  <2>4. NodesControl(SubSeq(entry, 1, 1 - 1)) = << >> /\ 1 <= Len(entry) + 1
    BY <1>1, NodesFront
  <2>5. /\ pos' <= Len(prog'[cur'].entry) + 1
        /\ Control(asm'[cur']) = NodesControl(SubSeq(prog'[cur'].entry, 1, pos' - 1))
    BY <1>2, <2>2, <2>3, <2>4, ControlEmpty
  <2>6. \A f \in Funcs' : f < cur' => Faithful(f)'
    BY <1>4, <1>5, <2>1
  <2> QED
    BY <1>0, <1>5, <1>6, <2>5, <2>6 DEF ControlInv, SelectInv, AllocateInv, EmitInv, ControlKept
<1>7. CASE cur = Len(prog) /\ cur' = 1 /\ stage' = "allocate"
  <2>1. \A f \in Funcs : f < cur \/ f = cur
    BY <1>1, <1>7, OtherFunctions
  <2>2. \A f \in Funcs' : Faithful(f)'
    BY <1>4, <1>5, <2>1
  <2>3. acc' = << >>
    BY <1>0, <1>1 DEF CodeInv
  <2>4. PICK c \in Seq(InstSet) : c = asm'[cur']
    BY <1>0, <1>1, <1>2
  <2>5. Control(SubSeq(c, 1, 1 - 1)) = << >> /\ 1 <= Len(c) + 1
    BY <1>1, ControlFront
  <2>6. /\ pos' <= Len(asm'[cur']) + 1
        /\ Control(acc') = Control(SubSeq(asm'[cur'], 1, pos' - 1))
    BY <1>2, <2>3, <2>4, <2>5, ControlEmpty
  <2> QED
    BY <1>5, <1>7, <2>2, <2>6 DEF ControlInv, SelectInv, AllocateInv, EmitInv, ControlKept
<1> QED
  BY <1>2, <1>6, <1>7

LEMMA AllocateKindControl ==
  ASSUME IInv, ControlInv, NEW kind, AllocateKind(kind)
  PROVE  ControlInv'
<1>0. /\ stage = "allocate" /\ stage' = "allocate" /\ prog' = prog /\ cur' = cur
      /\ pos' = pos + 1 /\ out' = out /\ asm' = asm /\ pos <= Len(asm[cur])
      /\ frame' = [frame EXCEPT ![cur] = WithSlots(@, ThisInst)]
      /\ acc' = acc \o Allocated(ThisInst, frame'[cur])
  BY DEF AllocateKind, emitVars
<1>1. /\ cur \in Funcs /\ pos \in Nat \ {0} /\ CodeInv /\ DOMAIN frame = Funcs
      /\ asm[cur] \in Seq(InstSet) /\ acc \in Seq(InstSet)
      /\ IsFrame(frame[cur], Regs) /\ FrameSeparate(frame[cur])
  BY ControlTypes
<1>2. PICK c : c = asm[cur]
  OBVIOUS
<1>3. ThisInst \in Owned(frame[cur]) /\ ThisInst = c[pos]
  <2>1. c \in Seq(Owned(frame[cur])) /\ pos <= Len(c)
    BY <1>0, <1>1, <1>2 DEF CodeInv
  <2>2. pos \in 1 .. Len(c)
    BY <1>1, <2>1
  <2>3. c[pos] \in Owned(frame[cur])
    BY <2>1, <2>2, ElementsOf
  <2> QED
    BY <1>2, <2>3 DEF ThisInst
<1>4. frame'[cur] = WithSlots(frame[cur], ThisInst)
  BY <1>0, <1>1
<1>5. PICK code \in Seq(InstSet) : code = Allocated(ThisInst, frame'[cur])
                                   /\ Control(code) = ControlOf(ThisInst)
  BY <1>1, <1>3, <1>4, AllocatedControl
<1>6. Control(acc') = Control(acc) \o ControlOf(c[pos])
  <2>1. Control(acc \o code) = Control(acc) \o Control(code)
    BY <1>1, ControlConcat
  <2>2. acc' = acc \o code
    BY <1>0, <1>5
  <2> QED
    BY <1>3, <1>5, <2>1, <2>2
<1>7. /\ Control(SubSeq(c, 1, (pos + 1) - 1)) = Control(SubSeq(c, 1, pos - 1)) \o ControlOf(c[pos])
      /\ pos + 1 <= Len(c) + 1
  BY <1>0, <1>1, <1>2, ControlFront
<1>8. Control(acc) = Control(SubSeq(c, 1, pos - 1))
  BY <1>0, <1>2 DEF ControlInv, AllocateInv
<1>9. /\ pos' <= Len(asm'[cur']) + 1
      /\ Control(acc') = Control(SubSeq(asm'[cur'], 1, pos' - 1))
  BY <1>0, <1>2, <1>6, <1>7, <1>8
<1>10. \A f \in Funcs' : Faithful(f)'
  BY <1>0 DEF Funcs, ControlInv, AllocateInv, Faithful
<1>11. out' = << >>
  BY <1>0 DEF ControlInv, AllocateInv
<1> QED
  BY <1>0, <1>9, <1>10, <1>11 DEF ControlInv, SelectInv, AllocateInv, EmitInv, ControlKept

LEMMA AllocatedFunctionControl ==
  ASSUME IInv, ControlInv, AllocatedFunction
  PROVE  ControlInv'
<1>0. /\ stage = "allocate" /\ prog' = prog /\ asm' = [asm EXCEPT ![cur] = acc]
      /\ acc' = << >> /\ out' = out /\ pos > Len(asm[cur]) /\ NextFunction("emit")
  BY DEF AllocatedFunction, emitVars
<1>1. /\ cur \in Funcs /\ pos \in Nat \ {0} /\ TypeOK /\ DOMAIN asm = Funcs
      /\ \A f \in Funcs : asm[f] \in Seq(InstSet)
      /\ acc \in Seq(InstSet)
  BY ControlTypes
<1>2. /\ pos' = 1 /\ cur' \in Funcs
      /\ \/ cur < Len(prog) /\ cur' = cur + 1 /\ stage' = stage
         \/ cur = Len(prog) /\ cur' = 1 /\ stage' = "emit"
  BY <1>0, <1>1, NextFunctionFacts
<1>3. asm'[cur] = acc /\ \A f \in Funcs : f # cur => asm'[f] = asm[f]
  BY <1>0, <1>1
<1>4. Control(acc) = Control(asm[cur])
  <2>1. PICK c \in Seq(InstSet) : c = asm[cur]
    BY <1>1
  <2>2. pos <= Len(c) + 1 /\ pos > Len(c) /\ Control(acc) = Control(SubSeq(c, 1, pos - 1))
    BY <1>0, <2>1 DEF ControlInv, AllocateInv
  <2>3. Control(SubSeq(c, 1, pos - 1)) = Control(c)
    BY <1>1, <2>2, ControlFront
  <2> QED
    BY <2>1, <2>2, <2>3
<1>5. \A f \in Funcs' : Faithful(f)'
  <2>1. \A f \in Funcs : Faithful(f)
    BY <1>0 DEF ControlInv, AllocateInv
  <2>2. \A f \in Funcs : Control(asm'[f]) = Control(asm[f])
    BY <1>3, <1>4
  <2> QED
    BY <1>0, <2>1, <2>2 DEF Faithful, Funcs
<1>6. out' = << >>
  BY <1>0 DEF ControlInv, AllocateInv
<1>7. PICK c \in Seq(InstSet) : c = asm'[cur']
  BY <1>1, <1>2, <1>3
<1>8. /\ Control(SubSeq(c, 1, pos' - 1)) = << >> /\ pos' <= Len(c) + 1
  <2>1. Control(SubSeq(c, 1, 1 - 1)) = << >> /\ 1 <= Len(c) + 1
    BY <1>1, ControlFront
  <2> QED
    BY <1>2, <2>1
<1>9. CASE cur < Len(prog) /\ cur' = cur + 1 /\ stage' = stage
  <2>1. Control(acc') = Control(SubSeq(asm'[cur'], 1, pos' - 1))
    BY <1>0, <1>7, <1>8, ControlEmpty
  <2>2. pos' <= Len(asm'[cur']) + 1
    BY <1>7, <1>8
  <2>3. stage' = "allocate"
    BY <1>0, <1>9
  <2> QED
    BY <1>5, <1>6, <2>1, <2>2, <2>3 DEF ControlInv, SelectInv, AllocateInv, EmitInv, ControlKept
<1>10. CASE cur = Len(prog) /\ cur' = 1 /\ stage' = "emit"
  <2>1. ControlUpto(0)' = << >>
    <3>1. ControlUpto(0)' = ControlUpto(0)
      BY <1>0 DEF ControlUpto
    <3> QED
      BY <3>1, NoneBefore
  <2>2. ControlUpto(cur - 1)' = << >>
    <3>1. cur' - 1 = 0
      BY <1>10
    <3>2. ControlUpto(cur - 1)' = ControlUpto(0)'
      BY <3>1 DEF ControlUpto
    <3> QED
      BY <2>1, <3>2
  <2>3. Control(out') = << >>
    BY <1>6, ControlEmpty
  <2>4. << >> \o << >> = << >>
    OBVIOUS
  <2>5. Control(out') = ControlUpto(cur - 1)' \o Control(SubSeq(asm'[cur'], 1, pos' - 1))
    BY <1>7, <1>8, <2>2, <2>3, <2>4
  <2>6. pos' <= Len(asm'[cur']) + 1
    BY <1>7, <1>8
  <2> QED
    BY <1>5, <1>10, <2>5, <2>6 DEF ControlInv, SelectInv, AllocateInv, EmitInv, ControlKept
<1> QED
  BY <1>2, <1>9, <1>10

\* The transfers of what is emitted for one instruction follow those emitted.
LEMMA EmittedControl ==
  ASSUME IInv, ControlInv, AtInst, NEW code \in Seq(InstSet),
         Control(code) = ControlOf(ThisInst),
         prog' = prog, stage' = stage, cur' = cur, pos' = pos + 1, asm' = asm,
         out' = out \o code
  PROVE  ControlInv'
<1>0. stage = "emit" /\ pos <= Len(asm[cur])
  BY DEF AtInst
<1>1. /\ cur \in Funcs /\ pos \in Nat \ {0} /\ TypeOK
      /\ asm[cur] \in Seq(InstSet) /\ out \in Seq(InstSet)
  BY ControlTypes
<1>2. PICK c \in Seq(InstSet) : c = asm[cur]
  BY <1>1
<1>3. PICK done \in Seq(Transfers) : done = ControlUpto(cur - 1)
  <2>1. cur - 1 \in 0 .. Len(prog) /\ (cur - 1) + 1 <= Len(prog)
    <3>1. Len(prog) \in Nat /\ cur \in Nat /\ 1 <= cur /\ cur <= Len(prog)
      BY <1>1, ProgramFacts
    <3> QED
      BY <3>1
  <2> QED
    BY <1>1, <2>1, ControlUptoNext
<1>4. PICK front \in Seq(Transfers) : front = Control(SubSeq(c, 1, pos - 1))
  <2>1. pos <= Len(c) + 1
    BY <1>0, <1>1, <1>2
  <2> QED
    BY <1>1, <2>1, ControlFront
<1>5. PICK last \in Seq(Transfers) : last = ControlOf(c[pos])
  <2>1. pos \in 1 .. Len(c)
    BY <1>0, <1>1, <1>2
  <2> QED
    BY <2>1, ElementsOf, ControlTyped
<1>6. Control(out) = done \o front
  BY <1>0, <1>2, <1>3, <1>4 DEF ControlInv, EmitInv
<1>7. Control(out') = Control(out) \o last
  <2>1. Control(out \o code) = Control(out) \o Control(code)
    BY <1>1, ControlConcat
  <2> QED
    BY <1>2, <1>5, <2>1 DEF ThisInst
<1>8. (done \o front) \o last = done \o (front \o last)
  BY ConcatAssociates
<1>9. Control(SubSeq(c, 1, (pos + 1) - 1)) = front \o last /\ pos + 1 <= Len(c) + 1
  BY <1>0, <1>1, <1>2, <1>4, <1>5, ControlFront
<1>10. Control(out') = done \o Control(SubSeq(c, 1, (pos + 1) - 1))
  BY <1>6, <1>7, <1>8, <1>9
<1>11. ControlUpto(cur - 1)' = done
  BY <1>3 DEF ControlUpto
<1>12. /\ pos' <= Len(asm'[cur']) + 1
       /\ Control(out') = ControlUpto(cur - 1)' \o Control(SubSeq(asm'[cur'], 1, pos' - 1))
  <2>1. asm'[cur'] = c /\ pos' = pos + 1
    BY <1>2
  <2> QED
    BY <1>9, <1>10, <1>11, <2>1
<1>13. \A f \in Funcs' : Faithful(f)'
  BY <1>0 DEF Funcs, ControlInv, EmitInv, Faithful
<1> QED
  BY <1>0, <1>12, <1>13 DEF ControlInv, SelectInv, AllocateInv, EmitInv, ControlKept

LEMMA EmitFunctionControl ==
  ASSUME IInv, ControlInv, EmitFunction
  PROVE  ControlInv'
<1>0. IInv'
  BY EmitFunctionStep DEF StepOK
<1>1. ra_offset' \in Int /\ fp_offset' \in Int
  BY <1>0 DEF IInv, TypeOK
<1>2. AtInst /\ ThisInst \in Physical /\ ThisInst.kind = "Function" /\ out \in Seq(InstSet)
  BY ControlTypes, AtInstFacts DEF EmitFunction
<1>3. PICK fr : fr = PrologueFrame(frame[cur])
  OBVIOUS
<1>4. PICK size : size = StackSize(fr)
  OBVIOUS
<1>5. size \in Int
  <2>1. IsFrame(frame[cur], Regs) /\ FrameSeparate(frame[cur]) /\ "fp" \in Regs /\ "ra" \in Regs
    BY ControlTypes, Registers DEF Regs
  <2>2. IsFrame(fr, Regs)
    BY <1>3, <2>1, TwoSlots DEF PrologueFrame
  <2>3. fr.temp_stack_size \in Nat /\ fr.reg_stack_size \in Nat
    BY <2>2 DEF IsFrame
  <2> QED
    BY <1>4, <2>3 DEF StackSize
<1>6. /\ prog' = prog /\ stage' = stage /\ cur' = cur /\ pos' = pos + 1 /\ asm' = asm
      /\ out' = out \o << ThisInst >> \o Prologue(size, ra_offset', fp_offset')
  BY <1>3, <1>4 DEF EmitFunction
<1>7. PICK rest \in Seq(InstSet) : rest = Prologue(size, ra_offset', fp_offset')
                                   /\ Control(rest) = << >>
  <2>1. Legal \subseteq InstSet
    BY DEF Legal, Physical
  <2>2. Prologue(size, ra_offset', fp_offset') \in Seq(InstSet)
    BY <1>1, <1>5, <2>1, PrologueLegal, SeqSubset
  <2> QED
    BY <1>1, <1>5, <2>2, PrologueControl
<1>8. PICK first \in Seq(InstSet) : first = << ThisInst >>
                                    /\ Control(first) = ControlOf(ThisInst)
  <2>1. ThisInst \in InstSet
    BY <1>2 DEF Physical
  <2>2. << ThisInst >> \in Seq(InstSet)
    BY <2>1, SeqTuples
  <2> QED
    BY <2>2, TupleControl
<1>9. first \o rest \in Seq(InstSet) /\ Control(first \o rest) = ControlOf(ThisInst)
  <2>1. Control(first \o rest) = Control(first) \o << >> /\ first \o rest \in Seq(InstSet)
    BY <1>7, <1>8, ControlConcat
  <2>2. Control(first) \in Seq(Transfers)
    BY ControlCode
  <2> QED
    BY <1>8, <2>1, <2>2, ConcatAssociates
<1>10. out' = out \o (first \o rest)
  BY <1>2, <1>6, <1>7, <1>8, ConcatAssociates
<1> QED
  BY <1>2, <1>6, <1>9, <1>10, EmittedControl

LEMMA EmitInstControl ==
  ASSUME IInv, ControlInv, EmitInst, ~Abort
  PROVE  ControlInv'
<1>1. AtInst /\ ThisInst \in Physical
  BY ControlTypes, AtInstFacts DEF EmitInst
<1>2. /\ prog' = prog /\ stage' = stage /\ cur' = cur /\ pos' = pos + 1 /\ asm' = asm
      /\ out' = out \o Expand(ThisInst)
  BY DEF EmitInst
<1>3. Expand(ThisInst) \in Seq(InstSet) /\ Control(Expand(ThisInst)) = ControlOf(ThisInst)
  BY <1>1, ExpandControl
<1> QED
  BY <1>1, <1>2, <1>3, EmittedControl

\* The exit block completes the transfers of the function.
LEMMA EmitEpilogueControl ==
  ASSUME IInv, ControlInv, EmitEpilogue
  PROVE  ControlInv'
<1>0. /\ stage = "emit" /\ pos > Len(asm[cur]) /\ prog' = prog /\ asm' = asm
      /\ NextFunction("done")
      /\ out' = out \o Epilogue(prog[cur].exit, prog[cur].ret, StackSize(frame[cur]),
                                ra_offset, fp_offset)
  BY DEF EmitEpilogue
<1>1. /\ cur \in Funcs /\ pos \in Nat \ {0} /\ TypeOK /\ out \in Seq(InstSet)
      /\ \A f \in Funcs : asm[f] \in Seq(InstSet)
      /\ IsFrame(frame[cur], Regs)
  BY ControlTypes
<1>2. /\ pos' = 1 /\ cur' \in Funcs
      /\ \/ cur < Len(prog) /\ cur' = cur + 1 /\ stage' = stage
         \/ cur = Len(prog) /\ cur' = 1 /\ stage' = "done"
  BY <1>0, <1>1, NextFunctionFacts
<1>3. /\ prog[cur].exit \in Labels /\ prog[cur].ret \in {"", "a0"}
      /\ prog[cur].entry \in Seq(IRNode)
  BY <1>1, ProgramFacts
<1>4. PICK n \in 0 .. Len(prog) : n = cur - 1 /\ n + 1 = cur /\ n + 1 <= Len(prog)
  <2>1. Len(prog) \in Nat /\ cur \in Nat /\ 1 <= cur /\ cur <= Len(prog)
    BY <1>1, ProgramFacts
  <2> QED
    BY <2>1
<1>5. PICK done \in Seq(Transfers) : done = ControlUpto(n)
  BY <1>1, <1>4, ControlUptoNext
<1>6. PICK nodes \in Seq(Transfers) : nodes = NodesControl(prog[cur].entry)
  BY <1>3, NodesCode
<1>7. PICK exit \in Seq(Transfers) :
        exit = << Transfer("Label", Unused, prog[cur].exit), Transfer("Ret", Unused, Unused) >>
  <2>1. {"Label", "Ret"} \subseteq Kinds
    BY DEF Kinds
  <2>2. /\ Transfer("Label", Unused, prog[cur].exit) \in Transfers
        /\ Transfer("Ret", Unused, Unused) \in Transfers
    BY <1>3, <2>1 DEF Transfers, Transfer
  <2> QED
    BY <2>2, SeqTuples
<1>8. Control(out) = done \o nodes
  <2>1. PICK c \in Seq(InstSet) : c = asm[cur]
    BY <1>1
  <2>2. /\ pos <= Len(c) + 1 /\ pos > Len(c)
        /\ Control(out) = ControlUpto(cur - 1) \o Control(SubSeq(c, 1, pos - 1))
    BY <1>0, <2>1 DEF ControlInv, EmitInv
  <2>3. Control(SubSeq(c, 1, pos - 1)) = Control(c)
    BY <1>1, <2>2, ControlFront
  <2>4. Control(c) = nodes
    BY <1>0, <1>1, <1>6, <2>1 DEF ControlInv, EmitInv, Faithful
  <2> QED
    BY <1>4, <1>5, <2>2, <2>3, <2>4
<1>9. Control(out') = Control(out) \o exit
  <2>1. PICK size : size = StackSize(frame[cur])
    OBVIOUS
  <2>2. size \in Int
    <3>1. frame[cur].temp_stack_size \in Nat /\ frame[cur].reg_stack_size \in Nat
      BY <1>1 DEF IsFrame
    <3> QED
      BY <2>1, <3>1 DEF StackSize
  <2>3. ra_offset \in Int /\ fp_offset \in Int
    BY <1>1 DEF TypeOK
  <2>4. PICK code : code = Epilogue(prog[cur].exit, prog[cur].ret, size, ra_offset, fp_offset)
    OBVIOUS
  <2>5. code \in Seq(InstSet)
    <3>1. Legal \subseteq InstSet
      BY DEF Legal, Physical
    <3>2. code \in Seq(Legal)
      BY <1>3, <2>2, <2>3, <2>4, EpilogueLegal
    <3> QED
      BY <3>1, <3>2, SeqSubset
  <2>6. Control(code) = exit
    BY <1>3, <1>7, <2>2, <2>3, <2>4, EpilogueControl
  <2>7. Control(out \o code) = Control(out) \o Control(code)
    BY <1>1, <2>5, ControlConcat
  <2> QED
    BY <1>0, <2>1, <2>4, <2>6, <2>7
<1>10. Control(out') = ControlUpto(cur)
  <2>1. ControlUpto(n + 1) = done \o FunctionControl(prog[n + 1])
    BY <1>1, <1>4, <1>5, ControlUptoNext
  <2>2. FunctionControl(prog[cur]) = nodes \o exit
    BY <1>6, <1>7 DEF FunctionControl
  <2>3. (done \o nodes) \o exit = done \o (nodes \o exit)
    BY ConcatAssociates
  <2> QED
    BY <1>4, <1>8, <1>9, <2>1, <2>2, <2>3
<1>11. Funcs' = Funcs /\ \A k : ControlUpto(k)' = ControlUpto(k)
  BY <1>0 DEF Funcs, ControlUpto
<1>12. CASE cur < Len(prog) /\ cur' = cur + 1 /\ stage' = stage
  <2>1. PICK c \in Seq(InstSet) : c = asm'[cur']
    BY <1>0, <1>1, <1>2
  <2>2. Control(SubSeq(c, 1, pos' - 1)) = << >> /\ pos' <= Len(c) + 1
    <3>1. Control(SubSeq(c, 1, 1 - 1)) = << >> /\ 1 <= Len(c) + 1
      BY <1>1, ControlFront
    <3> QED
      BY <1>2, <3>1
  <2>3. ControlUpto(cur - 1)' = ControlUpto(cur)
    <3>1. cur' = cur + 1 /\ cur \in Nat
      BY <1>1, <1>12, ProgramFacts
    <3>2. cur' - 1 = cur
      BY <3>1
    <3> QED
      BY <1>0, <3>2 DEF ControlUpto
  <2>4. Control(out') = Control(out') \o << >>
    <3>1. Control(out') \in Seq(Transfers)
      <4>1. out' \in Seq(InstSet)
        <5>1. IInv'
          BY EmitEpilogueStep DEF StepOK
        <5> QED
          BY <5>1 DEF IInv, TypeOK
      <4> QED
        BY <4>1, ControlCode
    <3> QED
      BY <3>1, ConcatAssociates
  <2>5. Control(out') = ControlUpto(cur - 1)' \o Control(SubSeq(asm'[cur'], 1, pos' - 1))
    BY <1>10, <2>1, <2>2, <2>3, <2>4
  <2>6. pos' <= Len(asm'[cur']) + 1
    BY <2>1, <2>2
  <2>7. \A f \in Funcs' : Faithful(f)'
    BY <1>0, <1>11 DEF ControlInv, EmitInv, Faithful
  <2>8. stage' = "emit"
    BY <1>0, <1>12
  <2> QED
    BY <2>5, <2>6, <2>7, <2>8 DEF ControlInv, SelectInv, AllocateInv, EmitInv, ControlKept
<1>13. CASE cur = Len(prog) /\ cur' = 1 /\ stage' = "done"
  <2>1. ControlUpto(cur) = FlattenSeq([f \in Funcs' |-> FunctionControl(prog'[f])])
    BY <1>0, <1>13 DEF ControlUpto, Funcs
  <2>2. ControlKept'
    BY <1>10, <2>1 DEF ControlKept
  <2> QED
    BY <1>13, <2>2 DEF ControlInv, SelectInv, AllocateInv, EmitInv
<1> QED
  BY <1>2, <1>12, <1>13

LEMMA AbortControl ==
  ASSUME Abort
  PROVE  ControlInv'
BY DEF Abort, ControlInv, SelectInv, AllocateInv, EmitInv, ControlKept

LEMMA SelectStepControl ==
  ASSUME IInv, ControlInv, Select
  PROVE  ControlInv'
<1> DEFINE fr == frame[cur]
<1>0. TypeOK /\ IsFrame(fr, Regs) /\ FrameSeparate(fr)
  BY DEF IInv, TypeOK, FramesSeparate
<1>1. CASE LoadImmNode
  <2>1. AtNode("LoadImm") /\ Appends(SelectLoadImm(Node, fr))
    BY <1>1 DEF LoadImmNode
  <2>2. Node \in IRNode /\ Node.ir = "LoadImm"
    BY <1>0, <2>1, AtNodeFacts
  <2>3. SelectLoadImm(Node, fr).code \in Seq(InstSet)
    BY <2>2, SpFreeCode, SpFreeInstSet
  <2>4. Control(SelectLoadImm(Node, fr).code) = NodeControl(Node)
    BY <2>2, SelectControl
  <2> QED
    BY <2>1, <2>3, <2>4, AppendsControl
<1>2. CASE AssignNode
  <2>1. AtNode("Assign") /\ Appends(SelectAssign(Node, fr))
    BY <1>2 DEF AssignNode
  <2>2. Node \in IRNode /\ Node.ir = "Assign"
    BY <1>0, <2>1, AtNodeFacts
  <2>3. SelectAssign(Node, fr).code \in Seq(InstSet)
    BY <2>2, SpFreeCode, SpFreeInstSet
  <2>4. Control(SelectAssign(Node, fr).code) = NodeControl(Node)
    BY <2>2, SelectControl
  <2> QED
    BY <2>1, <2>3, <2>4, AppendsControl
<1>3. CASE BinaryNode
  <2>1. AtNode("Binary") /\ Appends(SelectBinary(Node, fr))
    BY <1>3 DEF BinaryNode
  <2>2. Node \in IRNode /\ Node.ir = "Binary"
    BY <1>0, <2>1, AtNodeFacts
  <2>3. SelectBinary(Node, fr).code \in Seq(InstSet)
    BY <2>2, SpFreeCode, SpFreeInstSet
  <2>4. Control(SelectBinary(Node, fr).code) = NodeControl(Node)
    BY <2>2, SelectControl
  <2> QED
    BY <2>1, <2>3, <2>4, AppendsControl
<1>4. CASE UnaryNode
  <2>1. AtNode("Unary") /\ Appends(SelectUnary(Node, fr))
    BY <1>4 DEF UnaryNode
  <2>2. Node \in IRNode /\ Node.ir = "Unary"
    BY <1>0, <2>1, AtNodeFacts
  <2>3. SelectUnary(Node, fr).code \in Seq(InstSet)
    BY <2>2, SpFreeCode, SpFreeInstSet
  <2>4. Control(SelectUnary(Node, fr).code) = NodeControl(Node)
    BY <2>2, SelectControl
  <2> QED
    BY <2>1, <2>3, <2>4, AppendsControl
<1>5. CASE LabelNode
  <2>1. AtNode("Label") /\ Appends(SelectLabel(Node, fr))
    BY <1>5 DEF LabelNode
  <2>2. Node \in IRNode /\ Node.ir = "Label"
    BY <1>0, <2>1, AtNodeFacts
  <2>3. SelectLabel(Node, fr).code \in Seq(InstSet)
    BY <2>2, SpFreeCode, SpFreeInstSet
  <2>4. Control(SelectLabel(Node, fr).code) = NodeControl(Node)
    BY <2>2, SelectControl
  <2> QED
    BY <2>1, <2>3, <2>4, AppendsControl
<1>6. CASE GotoNode
  <2>1. AtNode("Goto") /\ Appends(SelectGoto(Node, fr))
    BY <1>6 DEF GotoNode
  <2>2. Node \in IRNode /\ Node.ir = "Goto"
    BY <1>0, <2>1, AtNodeFacts
  <2>3. SelectGoto(Node, fr).code \in Seq(InstSet)
    BY <2>2, SpFreeCode, SpFreeInstSet
  <2>4. Control(SelectGoto(Node, fr).code) = NodeControl(Node)
    BY <2>2, SelectControl
  <2> QED
    BY <2>1, <2>3, <2>4, AppendsControl
<1>7. CASE FunctionNode
  <2>1. AtNode("Function") /\ Appends(SelectFunction(Node, fr))
    BY <1>7 DEF FunctionNode
  <2>2. Node \in IRNode /\ Node.ir = "Function"
    BY <1>0, <2>1, AtNodeFacts
  <2>3. SelectFunction(Node, fr).code \in Seq(InstSet)
    BY <2>2, FunctionCode, OwnedIsCodeOwned
  <2>4. Control(SelectFunction(Node, fr).code) = NodeControl(Node)
    BY <2>2, SelectControl
  <2> QED
    BY <2>1, <2>3, <2>4, AppendsControl
<1>8. CASE ParamNode
  <2>1. AtNode("Param") /\ Appends(SelectParam(Node, fr))
    BY <1>8 DEF ParamNode
  <2>2. Node \in IRNode /\ Node.ir = "Param"
    BY <1>0, <2>1, AtNodeFacts
  <2>3. SelectParam(Node, fr).code \in Seq(InstSet)
    BY <2>2, SpFreeCode, SpFreeInstSet
  <2>4. Control(SelectParam(Node, fr).code) = NodeControl(Node)
    BY <2>2, SelectControl
  <2> QED
    BY <2>1, <2>3, <2>4, AppendsControl
<1>9. CASE LoadAddrNode
  <2>1. AtNode("LoadAddr") /\ Appends(SelectLoadAddr(Node, fr))
    BY <1>9 DEF LoadAddrNode
  <2>2. Node \in IRNode /\ Node.ir = "LoadAddr"
    BY <1>0, <2>1, AtNodeFacts
  <2>3. SelectLoadAddr(Node, fr).code \in Seq(InstSet)
    BY <2>2, SpFreeCode, SpFreeInstSet
  <2>4. Control(SelectLoadAddr(Node, fr).code) = NodeControl(Node)
    BY <2>2, SelectControl
  <2> QED
    BY <2>1, <2>3, <2>4, AppendsControl
<1>10. CASE StoreNode
  <2>1. AtNode("Store") /\ Appends(SelectStore(Node, fr))
    BY <1>10 DEF StoreNode
  <2>2. Node \in IRNode /\ Node.ir = "Store"
    BY <1>0, <2>1, AtNodeFacts
  <2>3. SelectStore(Node, fr).code \in Seq(InstSet)
    BY <2>2, SpFreeCode, SpFreeInstSet
  <2>4. Control(SelectStore(Node, fr).code) = NodeControl(Node)
    BY <2>2, SelectControl
  <2> QED
    BY <2>1, <2>3, <2>4, AppendsControl
<1>11. CASE LoadNode
  <2>1. AtNode("Load") /\ Appends(SelectLoad(Node, fr))
    BY <1>11 DEF LoadNode
  <2>2. Node \in IRNode /\ Node.ir = "Load"
    BY <1>0, <2>1, AtNodeFacts
  <2>3. SelectLoad(Node, fr).code \in Seq(InstSet)
    BY <2>2, SpFreeCode, SpFreeInstSet
  <2>4. Control(SelectLoad(Node, fr).code) = NodeControl(Node)
    BY <2>2, SelectControl
  <2> QED
    BY <2>1, <2>3, <2>4, AppendsControl
<1>12. CASE CallNode
  <2>1. AtNode("Call") /\ Appends(SelectCall(Node, fr))
    BY <1>12 DEF CallNode
  <2>2. Node \in IRNode /\ Node.ir = "Call"
    BY <1>0, <2>1, AtNodeFacts
  <2>3. SelectCall(Node, fr).code \in Seq(InstSet)
    BY <1>0, <2>2, SelectCallSound, SoundCode
  <2>4. Control(SelectCall(Node, fr).code) = NodeControl(Node)
    BY <1>0, <2>2, SelectFrameControl
  <2> QED
    BY <2>1, <2>3, <2>4, AppendsControl
<1>13. CASE ArgNode
  <2>1. AtNode("Arg") /\ Appends(SelectArg(Node, fr))
    BY <1>13 DEF ArgNode
  <2>2. Node \in IRNode /\ Node.ir = "Arg"
    BY <1>0, <2>1, AtNodeFacts
  <2>3. SelectArg(Node, fr).code \in Seq(InstSet)
    BY <1>0, <2>2, SelectArgSound, SoundCode
  <2>4. Control(SelectArg(Node, fr).code) = NodeControl(Node)
    BY <1>0, <2>2, SelectFrameControl
  <2> QED
    BY <2>1, <2>3, <2>4, AppendsControl
<1>14. CASE IfNode
  <2>1. AtNode("If") /\ (Appends(SelectIf(Node, fr)) \/ Abort)
    BY <1>14 DEF IfNode
  <2>2. Node \in IRNode /\ Node.ir = "If"
    BY <1>0, <2>1, AtNodeFacts
  <2>3. SelectIf(Node, fr).code \in Seq(InstSet)
    BY <2>2, SpFreeCode, SpFreeInstSet
  <2>4. Control(SelectIf(Node, fr).code) = NodeControl(Node)
    BY <2>2, SelectControl
  <2> QED
    BY <2>1, <2>3, <2>4, AppendsControl, AbortControl
<1>15. CASE DecNode
  <2>1. /\ AtNode("Dec")
        /\ \/ Abort
           \/ /\ Node.size > 0
              /\ Appends(SelectDec(Node, fr))
    BY <1>15 DEF DecNode
  <2>2. Node \in IRNode /\ Node.ir = "Dec"
    BY <1>0, <2>1, AtNodeFacts
  <2>3. ASSUME Node.size > 0 PROVE SelectDec(Node, fr).code \in Seq(InstSet)
    BY <1>0, <2>2, <2>3, SelectDecSound, SoundCode
  <2>4. ASSUME Node.size > 0 PROVE Control(SelectDec(Node, fr).code) = NodeControl(Node)
    BY <1>0, <2>2, <2>4, SelectFrameControl
  <2> QED
    BY <2>1, <2>3, <2>4, AppendsControl, AbortControl
<1>16. CASE SelectedFunction
  BY <1>16, SelectedControl
<1> QED
  BY <1>1, <1>2, <1>3, <1>4, <1>5, <1>6, <1>7, <1>8, <1>9, <1>10, <1>11, <1>12, <1>13, <1>14, <1>15, <1>16 DEF Select

LEMMA IdleControl ==
  ASSUME ControlInv, UNCHANGED vars
  PROVE  ControlInv'
<1>1. /\ prog' = prog /\ stage' = stage /\ cur' = cur /\ pos' = pos
      /\ asm' = asm /\ acc' = acc /\ out' = out
  BY DEF vars, passVars, emitVars
<1>2. Funcs' = Funcs /\ \A f : Faithful(f)' = Faithful(f)
  BY <1>1 DEF Funcs, Faithful
<1>3. SelectInv' /\ AllocateInv'
  BY <1>1, <1>2 DEF ControlInv, SelectInv, AllocateInv
<1>4. EmitInv' /\ ControlKept'
  BY <1>1, <1>2 DEF ControlInv, EmitInv, ControlKept, ControlUpto
<1> QED
  BY <1>3, <1>4 DEF ControlInv

LEMMA ControlInitially == Init => ControlInv
<1> SUFFICES ASSUME Init PROVE ControlInv
  OBVIOUS
<1>1. IInv /\ stage = "select" /\ cur = 1 /\ pos = 1 /\ out = << >>
      /\ asm = [f \in Funcs |-> << >>]
  BY InitOK DEF Init
<1>2. TypeOK /\ cur \in Funcs /\ prog[cur].entry \in Seq(IRNode)
  BY <1>1, ControlTypes
<1>3. NodesControl(SubSeq(prog[cur].entry, 1, 1 - 1)) = << >> /\ 1 <= Len(prog[cur].entry) + 1
  BY <1>2, NodesFront
<1>4. Control(asm[cur]) = << >>
  BY <1>1, <1>2, ControlEmpty
<1>5. \A f \in Funcs : ~(f < cur)
  <2>1. Funcs = 1 .. Len(prog) /\ Len(prog) \in Nat
    BY <1>2, ProgramFacts
  <2>2. \A f \in Funcs : ~(f < 1)
    BY <2>1
  <2> QED
    BY <1>1, <2>2
<1>6. SelectInv
  BY <1>1, <1>3, <1>4, <1>5 DEF SelectInv
<1> QED
  BY <1>1, <1>6 DEF ControlInv, AllocateInv, EmitInv, ControlKept

LEMMA ControlNext == IInv /\ ControlInv /\ [Next]_vars => ControlInv'
<1> SUFFICES ASSUME IInv, ControlInv, [Next]_vars PROVE ControlInv'
  OBVIOUS
<1>1. CASE Select
  BY <1>1, SelectStepControl
<1>2. CASE Allocate
  <2>1. CASE \E kind : AllocateKind(kind)
    BY <2>1, AllocateKindControl
  <2>2. CASE AllocatedFunction
    BY <2>2, AllocatedFunctionControl
  <2> QED
    BY <1>2, <2>1, <2>2
    DEF Allocate, AllocateArith, AllocateArithImm, AllocateMv, AllocateLi, AllocateLa,
        AllocateLoad, AllocateStore, AllocateBranch, AllocateOther
<1>3. CASE Emit
  BY <1>3, EmitFunctionControl, EmitInstControl, EmitEpilogueControl, AbortControl DEF Emit
<1>4. CASE UNCHANGED vars
  BY <1>4, IdleControl
<1> QED
  BY <1>1, <1>2, <1>3, <1>4 DEF Next, Finished

\* The emitted code has exactly the labels, jumps, branches, calls, addresses
\* taken and returns of the module it was compiled from, in order, whatever the
\* three passes put around them.
THEOREM ControlStaysWhole == Spec => []ControlKept
<1>1. Spec => []ControlInv
  <2>1. Init => ControlInv
    BY ControlInitially
  <2>2. IInv /\ ControlInv /\ [Next]_vars => ControlInv'
    BY ControlNext
  <2> QED
    BY <2>1, <2>2, Invariant, PTL DEF Spec
<1>2. ControlInv => ControlKept
  BY DEF ControlInv
<1> QED
  BY <1>1, <1>2, PTL

-----------------------------------------------------------------------------
(* The layout of what is emitted: pieces of code, one behind the other.     *)

LEMMA ShapeFacts ==
  ASSUME NEW f \in Nat, NEW p \in 0 .. 7
  PROVE  /\ At(f, p) \in Shapes /\ Outside \in Shapes /\ Body(f) \in Shapes
         /\ At(f, p).f = f /\ At(f, p).p = p /\ At(f, p).t4 = "any"
         /\ Body(f) = At(f, 4)
BY DEF At, Outside, Body, Shapes

LEMMA BodyFacts ==
  ASSUME NEW f \in Nat
  PROVE  /\ Body(f) \in Shapes /\ Body(f).f = f /\ Body(f).p = 4 /\ Body(f).t4 = "any"
         /\ Body(f) = At(f, 4) /\ Outside \in Shapes
BY DEF At, Outside, Body, Shapes

LEMMA ShapeChanges ==
  ASSUME NEW s \in Shapes, NEW k \in Int
  PROVE  /\ Constant(s, k) \in Shapes /\ Address(s) \in Shapes
         /\ Constant(s, k).f = s.f /\ Constant(s, k).p = s.p
         /\ Constant(s, k).t4 = "const" /\ Constant(s, k).k = k
         /\ Address(s).f = s.f /\ Address(s).p = s.p
         /\ Address(s).t4 = "slot" /\ Address(s).k = s.k
BY DEF Shapes, Constant, Address

LEMMA LaidEmpty ==
  ASSUME NEW G, NEW s \in Shapes
  PROVE  Laid(G, << >>, s, s)
<1>1. PICK sh : sh = << s >>
  OBVIOUS
<1>2. sh \in Seq(Shapes) /\ Len(sh) = 1 /\ sh[1] = s
  BY <1>1
<1>3. Len(<< >>) = 0 /\ 1 .. 0 = {}
  OBVIOUS
<1>4. Annotates(G, << >>, sh)
  BY <1>2, <1>3 DEF Annotates
<1> QED
  BY <1>2, <1>3, <1>4 DEF Laid

LEMMA LaidOne ==
  ASSUME NEW G, NEW inst, NEW s \in Shapes, NEW t \in Shapes, Follows(G, inst, s, t)
  PROVE  Laid(G, << inst >>, s, t)
<1>1. PICK sh : sh = << s, t >>
  OBVIOUS
<1>2. sh \in Seq(Shapes) /\ Len(sh) = 2 /\ sh[1] = s /\ sh[2] = t
  BY <1>1
<1>3. PICK code : code = << inst >>
  OBVIOUS
<1>4. Len(code) = 1 /\ code[1] = inst
  BY <1>3
<1>5. \A i \in 1 .. 1 : i = 1 /\ i + 1 = 2
  OBVIOUS
<1>6. Annotates(G, code, sh)
  BY <1>2, <1>4, <1>5 DEF Annotates
<1> QED
  BY <1>2, <1>3, <1>4, <1>6 DEF Laid

LEMMA LaidTwo ==
  ASSUME NEW G, NEW a, NEW b, NEW s \in Shapes, NEW t \in Shapes, NEW u \in Shapes,
         Follows(G, a, s, t), Follows(G, b, t, u)
  PROVE  Laid(G, << a, b >>, s, u)
<1>1. PICK sh : sh = << s, t, u >>
  OBVIOUS
<1>2. sh \in Seq(Shapes) /\ Len(sh) = 3 /\ sh[1] = s /\ sh[2] = t /\ sh[3] = u
  BY <1>1
<1>3. PICK code : code = << a, b >>
  OBVIOUS
<1>4. Len(code) = 2 /\ code[1] = a /\ code[2] = b
  BY <1>3
<1>5. \A i \in 1 .. 2 : i = 1 \/ i = 2
  OBVIOUS
<1>6. Annotates(G, code, sh)
  BY <1>2, <1>4, <1>5 DEF Annotates
<1> QED
  BY <1>2, <1>3, <1>4, <1>6 DEF Laid

LEMMA LaidThree ==
  ASSUME NEW G, NEW a, NEW b, NEW c,
         NEW s \in Shapes, NEW t \in Shapes, NEW u \in Shapes, NEW v \in Shapes,
         Follows(G, a, s, t), Follows(G, b, t, u), Follows(G, c, u, v)
  PROVE  Laid(G, << a, b, c >>, s, v)
<1>1. PICK sh : sh = << s, t, u, v >>
  OBVIOUS
<1>2. sh \in Seq(Shapes) /\ Len(sh) = 4 /\ sh[1] = s /\ sh[2] = t /\ sh[3] = u /\ sh[4] = v
  BY <1>1
<1>3. PICK code : code = << a, b, c >>
  OBVIOUS
<1>4. Len(code) = 3 /\ code[1] = a /\ code[2] = b /\ code[3] = c
  BY <1>3
<1>5. \A i \in 1 .. 3 : i = 1 \/ i = 2 \/ i = 3
  OBVIOUS
<1>6. Annotates(G, code, sh)
  BY <1>2, <1>4, <1>5 DEF Annotates
<1> QED
  BY <1>2, <1>3, <1>4, <1>6 DEF Laid

LEMMA LaidConcat ==
  ASSUME NEW G, NEW S, NEW c \in Seq(S), NEW d \in Seq(S), NEW s, NEW t, NEW u,
         Laid(G, c, s, t), Laid(G, d, t, u)
  PROVE  Laid(G, c \o d, s, u)
<1>1. PICK m \in Nat : m = Len(c)
  OBVIOUS
<1>2. PICK n \in Nat : n = Len(d)
  OBVIOUS
<1>3. PICK a \in Seq(Shapes) : Annotates(G, c, a) /\ a[1] = s /\ a[m + 1] = t
  BY <1>1 DEF Laid
<1>4. PICK b \in Seq(Shapes) : Annotates(G, d, b) /\ b[1] = t /\ b[n + 1] = u
  BY <1>2 DEF Laid
<1>5. Len(a) = m + 1 /\ Len(b) = n + 1
  BY <1>1, <1>2, <1>3, <1>4 DEF Annotates
<1>6. PICK e : e = c \o d
  OBVIOUS
<1>7. /\ e \in Seq(S) /\ Len(e) = m + n /\ \A i \in 1 .. m : e[i] = c[i]
      /\ \A i \in m + 1 .. m + n : e[i] = d[i - m]
  BY <1>1, <1>2, <1>6
<1> DEFINE h(i) == IF i <= m THEN a[i] ELSE b[i - m]
<1>8. PICK sh : sh = [i \in 1 .. m + n + 1 |-> h(i)]
  OBVIOUS
<1>9. \A i \in 1 .. m + n + 1 : h(i) \in Shapes
  <2> TAKE i \in 1 .. m + n + 1
  <2>1. CASE i <= m
    <3>1. i \in 1 .. Len(a)
      BY <1>5, <2>1
    <3> QED
      BY <2>1, <3>1, ElementsOf
  <2>2. CASE ~(i <= m)
    <3>1. i - m \in 1 .. Len(b)
      BY <1>5, <2>2
    <3> QED
      BY <2>2, <3>1, ElementsOf
  <2> QED
    BY <2>1, <2>2
<1>10. sh \in Seq(Shapes) /\ Len(sh) = m + n + 1 /\ \A i \in 1 .. m + n + 1 : sh[i] = h(i)
  <2> HIDE DEF h
  <2>1. m + n + 1 \in Nat
    OBVIOUS
  <2> QED
    BY <1>8, <1>9, <2>1
<1>11. \A i \in 1 .. m + n : Follows(G, e[i], sh[i], sh[i + 1])
  <2> TAKE i \in 1 .. m + n
  <2>1. i \in 1 .. m + n + 1 /\ i + 1 \in 1 .. m + n + 1 /\ sh[i] = h(i) /\ sh[i + 1] = h(i + 1)
    <3>1. i \in 1 .. m + n + 1 /\ i + 1 \in 1 .. m + n + 1
      OBVIOUS
    <3> QED
      BY <1>10, <3>1
  <2>2. CASE i <= m
    <3>1. i \in 1 .. m /\ Follows(G, c[i], a[i], a[i + 1])
      BY <1>1, <1>3, <2>2 DEF Annotates
    <3>2. h(i) = a[i] /\ h(i + 1) = a[i + 1]
      <4>1. i + 1 <= m \/ (i = m /\ (i + 1) - m = 1 /\ ~(i + 1 <= m))
        BY <2>2
      <4> QED
        BY <1>3, <1>4, <2>2, <4>1
    <3> QED
      BY <1>7, <2>1, <3>1, <3>2
  <2>3. CASE ~(i <= m)
    <3>1. /\ i - m \in 1 .. n /\ i \in m + 1 .. m + n /\ (i - m) + 1 = (i + 1) - m
          /\ ~(i + 1 <= m)
      BY <2>3
    <3>2. Follows(G, d[i - m], b[i - m], b[(i - m) + 1])
      BY <1>2, <1>4, <3>1 DEF Annotates
    <3>3. h(i) = b[i - m] /\ h(i + 1) = b[(i - m) + 1]
      BY <2>3, <3>1
    <3> QED
      BY <1>7, <2>1, <3>1, <3>2, <3>3
  <2> QED
    BY <2>2, <2>3
<1>12. sh[1] = s /\ sh[m + n + 1] = u
  <2>1. 1 \in 1 .. m + n + 1 /\ m + n + 1 \in 1 .. m + n + 1
    OBVIOUS
  <2>2. h(1) = s
    <3>1. CASE m = 0
      <4>1. ~(1 <= m) /\ 1 - m = 1
        BY <3>1
      <4> QED
        BY <1>3, <1>4, <3>1, <4>1
    <3>2. CASE m # 0
      BY <1>3, <3>2
    <3> QED
      BY <3>1, <3>2
  <2>3. h(m + n + 1) = u
    <3>1. ~(m + n + 1 <= m) /\ (m + n + 1) - m = n + 1
      OBVIOUS
    <3> QED
      BY <1>4, <3>1
  <2> HIDE DEF h
  <2> QED
    BY <1>10, <2>1, <2>2, <2>3
<1> HIDE DEF h
<1>13. Annotates(G, e, sh)
  BY <1>7, <1>10, <1>11 DEF Annotates
<1> QED
  BY <1>6, <1>7, <1>10, <1>12, <1>13 DEF Laid

\* Code stays laid out when functions are added.
LEMMA LaidMore ==
  ASSUME NEW G, NEW H, NEW code, NEW s, NEW t, Laid(G, code, s, t),
         DOMAIN G \subseteq DOMAIN H, \A f \in DOMAIN G : H[f] = G[f]
  PROVE  Laid(H, code, s, t)
<1>1. ASSUME NEW inst, NEW a, NEW b, Follows(G, inst, a, b)
      PROVE  Follows(H, inst, a, b)
  BY <1>1 DEF Follows, Within
<1>2. PICK sh \in Seq(Shapes) : Annotates(G, code, sh) /\ sh[1] = s /\ sh[Len(code) + 1] = t
  BY DEF Laid
<1>3. Annotates(H, code, sh)
  BY <1>1, <1>2 DEF Annotates
<1> QED
  BY <1>2, <1>3 DEF Laid

\* From p on, an instruction that makes rd sp + by leads to q, however wide by is.
LEMMA LaidMove ==
  ASSUME NEW G, NEW f \in Nat, f \in DOMAIN G, NEW p \in 0 .. 6, NEW q \in 0 .. 7,
         NEW rd, NEW by \in Int,
         \A inst : \A s \in Shapes :
           s.f = f /\ s.p = p /\ Moves(inst, s, rd, by) => Follows(G, inst, s, At(f, q))
  PROVE  Laid(G, Expand(ArithImm("Add", rd, "sp", by)), At(f, p), At(f, q))
<1>0. p \in 0 .. 7 /\ p < 7
  OBVIOUS
<1>1. PICK inst : inst = ArithImm("Add", rd, "sp", by)
  OBVIOUS
<1>2. /\ inst.kind = "ArithImm" /\ inst.op = "Add" /\ inst.rd = rd /\ inst.rs1 = "sp"
      /\ inst.imm = by
  BY <1>1 DEF ArithImm, Inst
<1>3. PICK s \in Shapes : s = At(f, p) /\ s.f = f /\ s.p = p
  BY <1>0, ShapeFacts
<1>4. PICK e \in Shapes : e = At(f, q)
  BY ShapeFacts
<1>5. CASE Fits(by)
  <2>1. Expand(inst) = << inst >>
    BY <1>2, <1>5 DEF Expand
  <2>2. Moves(inst, s, rd, by)
    BY <1>2 DEF Moves
  <2>3. Follows(G, inst, s, e)
    BY <1>3, <1>4, <2>2
  <2> QED
    BY <1>1, <1>3, <1>4, <2>1, <2>3, LaidOne
<1>6. CASE ~Fits(by)
  <2>1. PICK li : li = Li("t4", by)
    OBVIOUS
  <2>2. PICK add : add = Arith("Add", rd, "sp", "t4")
    OBVIOUS
  <2>3. Expand(inst) = << li, add >>
    BY <1>2, <1>6, <2>1, <2>2 DEF Expand
  <2>4. li.kind = "Li" /\ li.rd = "t4" /\ li.imm = by
    BY <2>1 DEF Li, Inst
  <2>5. add.kind = "Arith" /\ add.op = "Add" /\ add.rd = rd /\ add.rs1 = "sp" /\ add.rs2 = "t4"
    BY <2>2 DEF Arith, Inst
  <2>6. PICK t : t = Constant(s, by)
    OBVIOUS
  <2>7. t \in Shapes /\ t.f = f /\ t.p = p /\ t.t4 = "const" /\ t.k = by
    BY <1>3, <2>6, ShapeChanges
  <2>8. Follows(G, li, s, t)
    BY <1>0, <1>3, <2>4, <2>6 DEF Follows, Within, Builds
  <2>9. Follows(G, add, t, e)
    <3>1. Moves(add, t, rd, by)
      BY <2>5, <2>7 DEF Moves
    <3> QED
      BY <1>4, <2>7, <3>1
  <2>10. Laid(G, << li, add >>, s, e)
    BY <2>7, <2>8, <2>9, LaidTwo
  <2> QED
    BY <1>1, <1>3, <1>4, <2>3, <2>10
<1> QED
  BY <1>5, <1>6

\* The same of a store to, and of a load from, sp + offset.
Accesses(inst, kind, reg) ==
  inst.kind = kind /\ IF kind = "Store" THEN inst.rs2 = reg ELSE inst.rd = reg

LEMMA LaidAccess ==
  ASSUME NEW G, NEW f \in Nat, f \in DOMAIN G, NEW p \in 1 .. 6, NEW q \in 0 .. 7,
         NEW kind \in {"Store", "Load"}, NEW reg, NEW offset \in Int,
         \A inst : \A s \in Shapes :
           s.f = f /\ s.p = p /\ Accesses(inst, kind, reg) /\ Reaches(inst, s, offset)
             => Follows(G, inst, s, At(f, q)),
         NEW inst, inst.kind = kind, inst.rs1 = "sp", inst.imm = offset,
         Accesses(inst, kind, reg)
  PROVE  Laid(G, Expand(inst), At(f, p), At(f, q))
<1>0. p \in 0 .. 7 /\ p < 7
  OBVIOUS
<1>3. PICK s \in Shapes : s = At(f, p) /\ s.f = f /\ s.p = p
  BY <1>0, ShapeFacts
<1>4. PICK e \in Shapes : e = At(f, q)
  BY ShapeFacts
<1>5. CASE Fits(offset)
  <2>1. Expand(inst) = << inst >>
    BY <1>5 DEF Expand
  <2>2. Reaches(inst, s, offset)
    BY DEF Reaches
  <2>3. Follows(G, inst, s, e)
    BY <1>3, <1>4, <2>2
  <2> QED
    BY <1>3, <1>4, <2>1, <2>3, LaidOne
<1>6. CASE ~Fits(offset)
  <2>1. PICK li : li = Li("t4", offset)
    OBVIOUS
  <2>2. PICK add : add = Arith("Add", "t4", "sp", "t4")
    OBVIOUS
  <2>3. PICK last : last = IF kind = "Store" THEN Store("t4", inst.rs2, 0)
                                             ELSE Load(inst.rd, "t4", 0)
    OBVIOUS
  <2>4. Expand(inst) = << li, add, last >>
    <3>1. CASE kind = "Store"
      BY <1>6, <2>1, <2>2, <2>3, <3>1 DEF Expand
    <3>2. CASE kind = "Load"
      BY <1>6, <2>1, <2>2, <2>3, <3>2 DEF Expand
    <3> QED
      BY <3>1, <3>2
  <2>5. li.kind = "Li" /\ li.rd = "t4" /\ li.imm = offset
    BY <2>1 DEF Li, Inst
  <2>6. add.kind = "Arith" /\ add.op = "Add" /\ add.rd = "t4" /\ add.rs1 = "sp" /\ add.rs2 = "t4"
    BY <2>2 DEF Arith, Inst
  <2>7. last.rs1 = "t4" /\ last.imm = 0 /\ Accesses(last, kind, reg)
    <3>1. CASE kind = "Store"
      BY <2>3, <3>1 DEF Accesses, Store, Inst
    <3>2. CASE kind = "Load"
      BY <2>3, <3>2 DEF Accesses, Load, Inst
    <3> QED
      BY <3>1, <3>2
  <2>8. PICK t : t = Constant(s, offset)
    OBVIOUS
  <2>9. t \in Shapes /\ t.f = f /\ t.p = p /\ t.t4 = "const" /\ t.k = offset
    BY <1>3, <2>8, ShapeChanges
  <2>10. PICK u : u = Address(t)
    OBVIOUS
  <2>11. u \in Shapes /\ u.f = f /\ u.p = p /\ u.t4 = "slot" /\ u.k = offset
    BY <2>9, <2>10, ShapeChanges
  <2>12. Follows(G, li, s, t)
    BY <1>0, <1>3, <2>5, <2>8 DEF Follows, Within, Builds
  <2>13. Follows(G, add, t, u)
    BY <2>6, <2>9, <2>10 DEF Follows, Within, Builds
  <2>14. Follows(G, last, u, e)
    <3>1. Reaches(last, u, offset)
      BY <2>7, <2>11 DEF Reaches
    <3> QED
      BY <1>4, <2>7, <2>11, <3>1
  <2>15. Laid(G, << li, add, last >>, s, e)
    BY <2>9, <2>11, <2>12, <2>13, <2>14, LaidThree
  <2> QED
    BY <1>3, <1>4, <2>4, <2>15
<1> QED
  BY <1>5, <1>6

LEMMA LaidPrologue ==
  ASSUME NEW G, NEW f \in Nat, f \in DOMAIN G, NEW size \in Int, NEW ra \in Int, NEW fp \in Int,
         size = G[f].size, ra = G[f].slots["ra"], fp = G[f].slots["fp"]
  PROVE  Laid(G, Prologue(size, ra, fp), At(f, 0), Body(f))
<1>1. PICK a : a = Expand(ArithImm("Add", "sp", "sp", -size))
  OBVIOUS
<1>2. PICK b : b = Expand(Store("sp", "ra", ra))
  OBVIOUS
<1>3. PICK c : c = Expand(Store("sp", "fp", fp))
  OBVIOUS
<1>4. PICK d : d = Expand(ArithImm("Add", "fp", "sp", size))
  OBVIOUS
<1>5. -size \in Int /\ 0 \in 0 .. 6 /\ 3 \in 0 .. 6 /\ {1, 2} \subseteq 1 .. 6
      /\ {1, 2, 3, 4} \subseteq 0 .. 7
  OBVIOUS
<1>6. Laid(G, a, At(f, 0), At(f, 1))
  <2>1. \A inst : \A s \in Shapes :
          s.f = f /\ s.p = 0 /\ Moves(inst, s, "sp", -size) => Follows(G, inst, s, At(f, 1))
    BY DEF Follows, Within, Frames
  <2> QED
    BY <1>1, <1>5, <2>1, LaidMove
<1>7. Laid(G, b, At(f, 1), At(f, 2))
  <2>1. \A inst : \A s \in Shapes :
          s.f = f /\ s.p = 1 /\ Accesses(inst, "Store", "ra") /\ Reaches(inst, s, ra)
            => Follows(G, inst, s, At(f, 2))
    BY DEF Follows, Within, Frames, Saves, Accesses
  <2>2. PICK inst : inst = Store("sp", "ra", ra)
    OBVIOUS
  <2>3. inst.kind = "Store" /\ inst.rs1 = "sp" /\ inst.imm = ra /\ Accesses(inst, "Store", "ra")
    BY <2>2 DEF Store, Inst, Accesses
  <2> QED
    BY <1>2, <1>5, <2>1, <2>2, <2>3, LaidAccess
<1>8. Laid(G, c, At(f, 2), At(f, 3))
  <2>1. \A inst : \A s \in Shapes :
          s.f = f /\ s.p = 2 /\ Accesses(inst, "Store", "fp") /\ Reaches(inst, s, fp)
            => Follows(G, inst, s, At(f, 3))
    BY DEF Follows, Within, Frames, Saves, Accesses
  <2>2. PICK inst : inst = Store("sp", "fp", fp)
    OBVIOUS
  <2>3. inst.kind = "Store" /\ inst.rs1 = "sp" /\ inst.imm = fp /\ Accesses(inst, "Store", "fp")
    BY <2>2 DEF Store, Inst, Accesses
  <2> QED
    BY <1>3, <1>5, <2>1, <2>2, <2>3, LaidAccess
<1>9. Laid(G, d, At(f, 3), At(f, 4))
  <2>1. \A inst : \A s \in Shapes :
          s.f = f /\ s.p = 3 /\ Moves(inst, s, "fp", size) => Follows(G, inst, s, At(f, 4))
    BY DEF Follows, Within, Frames, Body
  <2> QED
    BY <1>4, <1>5, <2>1, LaidMove
<1>10. a \in Seq(Legal) /\ b \in Seq(Legal) /\ c \in Seq(Legal) /\ d \in Seq(Legal)
  BY <1>1, <1>2, <1>3, <1>4, <1>5, FrameInsts, ExpandLegal
<1>11. a \o b \in Seq(Legal) /\ (a \o b) \o c \in Seq(Legal)
  BY <1>10, SeqConcat
<1>12. Laid(G, a \o b, At(f, 0), At(f, 2))
  BY <1>6, <1>7, <1>10, LaidConcat
<1>13. Laid(G, (a \o b) \o c, At(f, 0), At(f, 3))
  BY <1>8, <1>10, <1>11, <1>12, LaidConcat
<1>14. Laid(G, ((a \o b) \o c) \o d, At(f, 0), At(f, 4))
  BY <1>9, <1>10, <1>11, <1>13, LaidConcat
<1> QED
  BY <1>1, <1>2, <1>3, <1>4, <1>14 DEF Prologue, Body

LEMMA EpilogueShapes ==
  /\ 6 \in 0 .. 6 /\ 4 \in 1 .. 6 /\ 5 \in 1 .. 6
  /\ 4 \in 0 .. 7 /\ 5 \in 0 .. 7 /\ 6 \in 0 .. 7 /\ 7 \in 0 .. 7
OBVIOUS

LEMMA LaidEpilogue ==
  ASSUME NEW G, NEW f \in Nat, f \in DOMAIN G, NEW size \in Int, NEW ra \in Int, NEW fp \in Int,
         size = G[f].size, ra = G[f].slots["ra"], fp = G[f].slots["fp"],
         NEW label \in Labels, NEW ret \in {"", "a0"},
         Transfer("Label", Unused, label) \in G[f].control
  PROVE  Laid(G, Epilogue(label, ret, size, ra, fp), Body(f), Outside)
<1>1. PICK a : a = << Label(label) >>
  OBVIOUS
<1>2. PICK b : b = IF ret = "" THEN << >> ELSE << Mv("a0", ret) >>
  OBVIOUS
<1>3. PICK c : c = Expand(Load("ra", "sp", ra))
  OBVIOUS
<1>4. PICK d : d = Expand(Load("fp", "sp", fp))
  OBVIOUS
<1>5. PICK e : e = Expand(ArithImm("Add", "sp", "sp", size))
  OBVIOUS
<1>6. PICK g : g = << Ret >>
  OBVIOUS
<1>7. /\ 6 \in 0 .. 6 /\ 4 \in 1 .. 6 /\ 5 \in 1 .. 6
      /\ 4 \in 0 .. 7 /\ 5 \in 0 .. 7 /\ 6 \in 0 .. 7
      /\ Body(f) \in Shapes /\ Body(f).f = f /\ Body(f).p = 4 /\ Body(f) = At(f, 4)
      /\ Outside \in Shapes /\ At(f, 7) \in Shapes /\ At(f, 7).f = f /\ 7 \in 0 .. 7
  <2>1. At(f, 7) \in Shapes /\ At(f, 7).f = f
    BY EpilogueShapes, ShapeFacts
  <2> QED
    BY <2>1, EpilogueShapes, BodyFacts
<1>8. Laid(G, a, Body(f), Body(f))
  <2>1. PICK inst : inst = Label(label)
    OBVIOUS
  <2>2. inst.kind = "Label" /\ inst.op = Unused /\ inst.label = label
    BY <2>1 DEF Label, Inst
  <2>3. Works(G[f], inst, Body(f), Body(f))
    BY <1>7, <2>2 DEF Works, Transfer
  <2>4. Follows(G, inst, Body(f), Body(f))
    BY <1>7, <2>3 DEF Follows, Within
  <2> QED
    BY <1>1, <1>7, <2>1, <2>4, LaidOne
<1>9. Laid(G, b, Body(f), Body(f))
  <2>1. CASE ret = ""
    BY <1>2, <1>7, <2>1, LaidEmpty
  <2>2. CASE ret # ""
    <3>1. PICK inst : inst = Mv("a0", ret)
      OBVIOUS
    <3>2. inst.kind = "Mv" /\ inst.rd = "a0"
      BY <3>1 DEF Mv, Inst
    <3>3. Works(G[f], inst, Body(f), Body(f))
      BY <1>7, <3>2 DEF Works, Critical
    <3>4. Follows(G, inst, Body(f), Body(f))
      BY <1>7, <3>3 DEF Follows, Within
    <3> QED
      BY <1>2, <1>7, <2>2, <3>1, <3>4, LaidOne
  <2> QED
    BY <2>1, <2>2
<1>10. Laid(G, c, Body(f), At(f, 5))
  <2>1. \A inst : \A s \in Shapes :
          s.f = f /\ s.p = 4 /\ Accesses(inst, "Load", "ra") /\ Reaches(inst, s, ra)
            => Follows(G, inst, s, At(f, 5))
    BY DEF Follows, Within, Frames, Restores, Accesses
  <2>2. PICK inst : inst = Load("ra", "sp", ra)
    OBVIOUS
  <2>3. inst.kind = "Load" /\ inst.rs1 = "sp" /\ inst.imm = ra /\ Accesses(inst, "Load", "ra")
    BY <2>2 DEF Load, Inst, Accesses
  <2> QED
    BY <1>3, <1>7, <2>1, <2>2, <2>3, LaidAccess
<1>11. Laid(G, d, At(f, 5), At(f, 6))
  <2>1. \A inst : \A s \in Shapes :
          s.f = f /\ s.p = 5 /\ Accesses(inst, "Load", "fp") /\ Reaches(inst, s, fp)
            => Follows(G, inst, s, At(f, 6))
    BY DEF Follows, Within, Frames, Restores, Accesses
  <2>2. PICK inst : inst = Load("fp", "sp", fp)
    OBVIOUS
  <2>3. inst.kind = "Load" /\ inst.rs1 = "sp" /\ inst.imm = fp /\ Accesses(inst, "Load", "fp")
    BY <2>2 DEF Load, Inst, Accesses
  <2> QED
    BY <1>4, <1>7, <2>1, <2>2, <2>3, LaidAccess
<1>12. Laid(G, e, At(f, 6), At(f, 7))
  <2>1. \A inst : \A s \in Shapes :
          s.f = f /\ s.p = 6 /\ Moves(inst, s, "sp", size) => Follows(G, inst, s, At(f, 7))
    BY DEF Follows, Within, Frames
  <2> QED
    BY <1>5, <1>7, <2>1, LaidMove
<1>13. Laid(G, g, At(f, 7), Outside)
  <2>1. PICK inst : inst = Ret
    OBVIOUS
  <2>2. inst.kind = "Ret"
    BY <2>1 DEF Ret, Inst
  <2>3. Follows(G, inst, At(f, 7), Outside)
    BY <1>7, <2>2 DEF Follows, Within, Frames
  <2> QED
    BY <1>6, <1>7, <2>1, <2>3, LaidOne
<1>14. /\ a \in Seq(InstSet) /\ b \in Seq(InstSet) /\ c \in Seq(InstSet)
       /\ d \in Seq(InstSet) /\ e \in Seq(InstSet) /\ g \in Seq(InstSet)
  <2>1. c \in Seq(Legal) /\ d \in Seq(Legal) /\ e \in Seq(Legal) /\ Legal \subseteq InstSet
    BY <1>3, <1>4, <1>5, FrameInsts, ExpandLegal DEF Legal, Physical
  <2>a. 0 \in Int
    BY ZeroFits
  <2>2. "a0" \in PhysReg /\ {"Label", "Mv", "Ret"} \subseteq Kinds
    BY Registers DEF Kinds
  <2>3. Label(label) \in Physical /\ Ret \in Physical /\ Mv("a0", "a0") \in Physical
    BY <2>a, <2>2, PhysicalInst DEF Label, Ret, Mv
  <2>4. Label(label) \in InstSet /\ Ret \in InstSet /\ Mv("a0", "a0") \in InstSet
    BY <2>3 DEF Physical
  <2> QED
    BY <1>1, <1>2, <1>6, <2>1, <2>4, SeqSubset, SeqTuples
<1>15. /\ a \o b \in Seq(InstSet) /\ (a \o b) \o c \in Seq(InstSet)
       /\ ((a \o b) \o c) \o d \in Seq(InstSet) /\ (((a \o b) \o c) \o d) \o e \in Seq(InstSet)
  BY <1>14, SeqConcat
<1>16. Laid(G, a \o b, Body(f), Body(f))
  BY <1>8, <1>9, <1>14, LaidConcat
<1>17. Laid(G, (a \o b) \o c, Body(f), At(f, 5))
  BY <1>10, <1>14, <1>15, <1>16, LaidConcat
<1>18. Laid(G, ((a \o b) \o c) \o d, Body(f), At(f, 6))
  BY <1>11, <1>14, <1>15, <1>17, LaidConcat
<1>19. Laid(G, (((a \o b) \o c) \o d) \o e, Body(f), At(f, 7))
  BY <1>12, <1>14, <1>15, <1>18, LaidConcat
<1>20. Laid(G, ((((a \o b) \o c) \o d) \o e) \o g, Body(f), Outside)
  BY <1>13, <1>14, <1>15, <1>19, LaidConcat
<1> QED
  BY <1>1, <1>2, <1>3, <1>4, <1>5, <1>6, <1>20 DEF Epilogue

\* What is emitted for an instruction of the body stays in the body.
LEMMA LaidInst ==
  ASSUME NEW G, NEW f \in Nat, f \in DOMAIN G, NEW fr, fr.temp_offset = G[f].slots,
         NEW inst \in Owned(fr) \cap Physical \cap Inner,
         ControlOf(inst) # << >>
           => Transfer(inst.kind, inst.op, inst.label) \in G[f].control
  PROVE  Laid(G, Expand(inst), Body(f), Body(f))
<1>1. /\ inst.rd \notin Critical /\ inst.rs1 # "t4" /\ inst.kind \notin {"Ret", "GlobalLabel", "Function"}
      /\ inst.kind = "Store" /\ inst.rs1 # "sp" => Fits(inst.imm)
      /\ inst.kind \in {"Load", "Store"} /\ inst.rs1 = "sp" => AtOwnSlot(inst, fr)
      /\ inst.kind \in Kinds /\ inst.imm \in Int
  BY PhysicalFields DEF Inner, Plain, Owned
<1>2. PICK s \in Shapes : s = Body(f) /\ s.f = f /\ s.p = 4 /\ Body(f) = At(f, 4)
  BY ShapeFacts
<1>3. \A i : \A t \in Shapes : t.f = f /\ Works(G[f], i, t, s) => Follows(G, i, t, s)
  BY <1>2 DEF Follows, Within
<1>4. CASE inst.kind = "Store" /\ inst.rs1 = "sp"
  <2>1. PICK r \in DOMAIN G[f].slots \ {"ra", "fp"} : G[f].slots[r] = inst.imm
    BY <1>1, <1>4 DEF AtOwnSlot
  <2>2. \A i : \A t \in Shapes :
          t.f = f /\ t.p = 4 /\ Accesses(i, "Store", inst.rs2) /\ Reaches(i, t, inst.imm)
            => Follows(G, i, t, At(f, 4))
    BY <1>2, <1>3, <2>1 DEF Works, Accesses
  <2>3. Accesses(inst, "Store", inst.rs2) /\ 4 \in 1 .. 6 /\ 4 \in 0 .. 7
    BY <1>4 DEF Accesses
  <2> QED
    BY <1>1, <1>2, <1>4, <2>2, <2>3, LaidAccess
<1>5. CASE inst.kind = "ArithImm" /\ ~Fits(inst.imm)
  <2>1. PICK li : li = Li("t4", inst.imm)
    OBVIOUS
  <2>2. PICK add : add = Arith(inst.op, inst.rd, inst.rs1, "t4")
    OBVIOUS
  <2>3. Expand(inst) = << li, add >>
    BY <1>5, <2>1, <2>2 DEF Expand
  <2>4. li.kind = "Li" /\ li.rd = "t4" /\ li.imm = inst.imm /\ add.kind = "Arith" /\ add.rd = inst.rd
    BY <2>1, <2>2 DEF Li, Arith, Inst
  <2>0. PICK t : t = Constant(s, inst.imm)
    OBVIOUS
  <2>5. t \in Shapes /\ t = Constant(s, inst.imm) /\ t.f = f /\ t.p = 4
    BY <1>1, <1>2, <2>0, ShapeChanges
  <2>6. Follows(G, li, s, t)
    BY <1>2, <2>4, <2>5 DEF Follows, Within, Builds
  <2>7. Follows(G, add, t, s)
    <3>1. Works(G[f], add, t, s)
      BY <1>1, <1>2, <2>4, <2>5 DEF Works, Critical
    <3> QED
      BY <1>3, <2>5, <3>1
  <2> QED
    BY <1>2, <2>3, <2>5, <2>6, <2>7, LaidTwo
<1>6. CASE inst.kind = "Load" /\ ~Fits(inst.imm)
  <2>1. PICK li : li = Li("t4", inst.imm)
    OBVIOUS
  <2>2. PICK add : add = Arith("Add", "t4", inst.rs1, "t4")
    OBVIOUS
  <2>3. PICK last : last = Load(inst.rd, "t4", 0)
    OBVIOUS
  <2>4. Expand(inst) = << li, add, last >>
    BY <1>6, <2>1, <2>2, <2>3 DEF Expand
  <2>5. /\ li.kind = "Li" /\ li.rd = "t4" /\ li.imm = inst.imm
        /\ add.kind = "Arith" /\ add.rd = "t4" /\ last.kind = "Load" /\ last.rd = inst.rd
    BY <2>1, <2>2, <2>3 DEF Li, Arith, Load, Inst
  <2>0. PICK t : t = Constant(s, inst.imm)
    OBVIOUS
  <2>6. t \in Shapes /\ t = Constant(s, inst.imm) /\ t.f = f /\ t.p = 4
    BY <1>1, <1>2, <2>0, ShapeChanges
  <2>7. Follows(G, li, s, t)
    BY <1>2, <2>5, <2>6 DEF Follows, Within, Builds
  <2>8. Follows(G, add, t, s)
    <3>1. Works(G[f], add, t, s)
      BY <1>2, <2>5, <2>6 DEF Works, Critical
    <3> QED
      BY <1>3, <2>6, <3>1
  <2>9. Follows(G, last, s, s)
    <3>1. Works(G[f], last, s, s)
      BY <1>1, <1>2, <2>5 DEF Works, Critical
    <3> QED
      BY <1>2, <1>3, <3>1
  <2> QED
    BY <1>2, <2>4, <2>6, <2>7, <2>8, <2>9, LaidThree
<1>7. CASE /\ inst.kind \in {"ArithImm", "Load"} => Fits(inst.imm)
           /\ ~(inst.kind = "Store" /\ inst.rs1 = "sp")
  <2>1. Expand(inst) = << inst >>
    BY <1>1, <1>7 DEF Expand
  <2>2. Works(G[f], inst, s, s)
    <3>1. CASE inst.kind \in {"Arith", "ArithImm", "Mv", "Li", "La", "Load"}
      BY <1>1, <1>2, <3>1 DEF Works, Critical
    <3>2. CASE inst.kind = "Store"
      BY <1>1, <1>2, <1>7, <3>2 DEF Works
    <3>3. CASE inst.kind \in {"Label", "Jump", "Branch", "Call"}
      <4>1. ControlOf(inst) # << >>
        BY <3>3 DEF ControlOf
      <4> QED
        BY <1>2, <3>3, <4>1 DEF Works, Transfer
    <3> QED
      BY <1>1, <3>1, <3>2, <3>3 DEF Kinds
  <2>3. Follows(G, inst, s, s)
    BY <1>2, <1>3, <2>2
  <2> QED
    BY <1>2, <2>1, <2>3, LaidOne
<1> QED
  BY <1>4, <1>5, <1>6, <1>7

-----------------------------------------------------------------------------
(* The layout of the whole output.                                         *)

\* What the shapes of a function's code refer to.
FactsOf(function, fr) ==
  [name |-> function.entry[1].name, slots |-> fr.temp_offset, size |-> StackSize(fr),
   control |-> Range(FunctionControl(function))]

\* The first n functions.
FirstFunctions(functions, frames, n) == [f \in 1 .. n |-> FactsOf(functions[f], frames[f])]

\* What is emitted is one complete function behind the other.
LaidOut == stage = "done" => Laid(FirstFunctions(prog, frame, Len(prog)), out, Outside, Outside)

LayoutInv ==
  /\ stage = "emit" =>
       /\ pos = 1 => Laid(FirstFunctions(prog, frame, cur - 1), out, Outside, Outside)
       /\ pos = 2 =>
            \E code \in Seq(InstSet) :
              /\ out = code \o << GlobalLabel(NameOf(cur)) >>
              /\ Laid(FirstFunctions(prog, frame, cur - 1), code, Outside, Outside)
       /\ pos > 2 => Laid(FirstFunctions(prog, frame, cur), out, Outside, Body(cur))
  /\ LaidOut

LEMMA FirstFacts ==
  ASSUME NEW functions, NEW frames, NEW n
  PROVE  /\ DOMAIN FirstFunctions(functions, frames, n) = 1 .. n
         /\ \A f \in 1 .. n : FirstFunctions(functions, frames, n)[f] = FactsOf(functions[f], frames[f])
BY DEF FirstFunctions

LEMMA FactsFields ==
  ASSUME NEW function, NEW fr
  PROVE  /\ FactsOf(function, fr).name = function.entry[1].name
         /\ FactsOf(function, fr).slots = fr.temp_offset
         /\ FactsOf(function, fr).size = StackSize(fr)
         /\ FactsOf(function, fr).control = Range(FunctionControl(function))
BY DEF FactsOf

\* One function more, and the frames of the others as they were.
LEMMA FirstMore ==
  ASSUME NEW functions, NEW frames, NEW later, NEW n \in Nat \ {0}, NEW code, NEW s, NEW t,
         \A f \in 1 .. n : f # n => later[f] = frames[f],
         Laid(FirstFunctions(functions, frames, n - 1), code, s, t)
  PROVE  Laid(FirstFunctions(functions, later, n), code, s, t)
<1>1. PICK G : G = FirstFunctions(functions, frames, n - 1)
  OBVIOUS
<1>2. PICK H : H = FirstFunctions(functions, later, n)
  OBVIOUS
<1>3. /\ DOMAIN G = 1 .. n - 1 /\ DOMAIN H = 1 .. n
      /\ \A f \in 1 .. n - 1 : G[f] = FactsOf(functions[f], frames[f])
      /\ \A f \in 1 .. n : H[f] = FactsOf(functions[f], later[f])
  BY <1>1, <1>2, FirstFacts
<1>4. \A f \in 1 .. n - 1 : f \in 1 .. n /\ f # n
  OBVIOUS
<1>5. DOMAIN G \subseteq DOMAIN H /\ \A f \in DOMAIN G : H[f] = G[f]
  BY <1>3, <1>4
<1> QED
  BY <1>1, <1>2, <1>5, LaidMore

\* The transfers of the instructions of a piece of code are among those of it.
LEMMA ControlWithin ==
  ASSUME NEW c \in Seq(InstSet), NEW i \in 1 .. Len(c), ControlOf(c[i]) # << >>
  PROVE  Transfer(c[i].kind, c[i].op, c[i].label) \in Range(Control(c))
<1>1. PICK u : u = [k \in DOMAIN c |-> ControlOf(c[k])]
  OBVIOUS
<1>2. u \in Seq(Seq(Transfers)) /\ Len(u) = Len(c) /\ DOMAIN c = 1 .. Len(c)
  BY <1>1, ControlParts
<1>3. PICK x : x = Transfer(c[i].kind, c[i].op, c[i].label)
  OBVIOUS
<1>4. u[i] = << x >>
  <2>1. u[i] = ControlOf(c[i])
    BY <1>1, <1>2
  <2>2. ControlOf(c[i]) = << x >>
    BY <1>3 DEF ControlOf
  <2> QED
    BY <2>1, <2>2
<1>5. 1 \in 1 .. Len(u[i]) /\ u[i][1] = x
  BY <1>4
<1>6. PICK k \in 1 .. Len(FlattenSeq(u)) : FlattenSeq(u)[k] = x
  <2>1. i \in 1 .. Len(u)
    BY <1>2
  <2>2. \E k \in 1 .. Len(FlattenSeq(u)) : FlattenSeq(u)[k] = u[i][1]
    BY <1>2, <1>5, <2>1, JoinedInto
  <2> QED
    BY <1>5, <2>2
<1>7. PICK w \in Seq(Transfers) : w = FlattenSeq(u)
  BY <1>2, FlattenAppend
<1>8. k \in DOMAIN w /\ w[k] = x
  BY <1>6, <1>7
<1> QED
  BY <1>1, <1>3, <1>7, <1>8 DEF Control, Range

LEMMA FunctionControlRange ==
  ASSUME NEW function, function.entry \in Seq(IRNode), function.exit \in Labels
  PROVE  /\ Range(NodesControl(function.entry)) \subseteq Range(FunctionControl(function))
         /\ Transfer("Label", Unused, function.exit) \in Range(FunctionControl(function))
<1>1. PICK a \in Seq(Transfers) : a = NodesControl(function.entry)
  BY NodesCode
<1>2. PICK x : x = Transfer("Label", Unused, function.exit)
  OBVIOUS
<1>3. PICK y : y = Transfer("Ret", Unused, Unused)
  OBVIOUS
<1>4. x \in Transfers /\ y \in Transfers
  <2>1. {"Label", "Ret"} \subseteq Kinds
    BY DEF Kinds
  <2> QED
    BY <1>2, <1>3, <2>1 DEF Transfers, Transfer
<1>5. PICK b \in Seq(Transfers) : b = << x, y >> /\ Len(b) = 2 /\ b[1] = x
  <2>1. << x, y >> \in Seq(Transfers)
    BY <1>4, SeqTuples
  <2> QED
    BY <2>1
<1>6. PICK w : w = a \o b
  OBVIOUS
<1>7. /\ DOMAIN w = 1 .. Len(a) + Len(b) /\ DOMAIN a = 1 .. Len(a) /\ Len(a) \in Nat
      /\ \A i \in 1 .. Len(a) : w[i] = a[i]
      /\ w[Len(a) + 1] = x
  BY <1>5, <1>6, JoinedElements
<1>8. \A i \in DOMAIN a : i \in DOMAIN w /\ w[i] = a[i]
  BY <1>5, <1>7
<1>9. Range(a) \subseteq Range(w)
  BY <1>8 DEF Range
<1>10. x \in Range(w)
  <2>1. Len(a) + 1 \in DOMAIN w
    BY <1>5, <1>7
  <2> QED
    BY <1>7, <2>1 DEF Range
<1> QED
  BY <1>1, <1>2, <1>3, <1>5, <1>6, <1>9, <1>10 DEF FunctionControl

\* The instruction the emitter is at belongs to the body, with its transfers, unless
\* it is one of the two the function begins with.
LEMMA BodyInst ==
  ASSUME IInv, ControlInv, AtInst
  PROVE  /\ pos = 1 => ThisInst = GlobalLabel(NameOf(cur))
         /\ pos = 2 => ThisInst = Function(NameOf(cur))
         /\ pos > 2 => /\ ThisInst \in Owned(frame[cur]) \cap Physical \cap Inner
                       /\ ControlOf(ThisInst) # << >> =>
                            Transfer(ThisInst.kind, ThisInst.op, ThisInst.label)
                              \in Range(FunctionControl(prog[cur]))
<1>0. /\ TypeOK /\ CodeInv /\ EntryInv /\ cur \in Funcs /\ pos \in Nat \ {0}
      /\ stage = "emit" /\ pos <= Len(asm[cur]) /\ ThisInst \in Physical
  BY ControlTypes, AtInstFacts
<1>1. Enters(asm[cur], NameOf(cur))
  BY <1>0 DEF EntryInv
<1>2. PICK c \in Seq(InstSet) : c = asm[cur]
  BY <1>0, ControlTypes
<1>3. pos \in 1 .. Len(c) /\ ThisInst = c[pos]
  BY <1>0, <1>2 DEF ThisInst
<1>4. (pos = 1 => ThisInst = GlobalLabel(NameOf(cur))) /\ (pos = 2 => ThisInst = Function(NameOf(cur)))
  BY <1>1, <1>2, <1>3 DEF Enters
<1>5. ASSUME pos > 2
      PROVE  ThisInst \in Owned(frame[cur]) \cap Physical \cap Inner
  <2>1. pos \in 3 .. Len(c)
    BY <1>3, <1>5
  <2>2. ThisInst \in Inner
    BY <1>1, <1>2, <1>3, <2>1 DEF Enters
  <2>3. c \in Seq(Owned(frame[cur]))
    BY <1>0, <1>2 DEF CodeInv
  <2>4. ThisInst \in Owned(frame[cur])
    BY <1>3, <2>3, ElementsOf
  <2> QED
    BY <1>0, <2>2, <2>4
<1>6. ASSUME ControlOf(ThisInst) # << >>
      PROVE  Transfer(ThisInst.kind, ThisInst.op, ThisInst.label) \in Range(FunctionControl(prog[cur]))
  <2>1. Transfer(ThisInst.kind, ThisInst.op, ThisInst.label) \in Range(Control(c))
    BY <1>3, <1>6, ControlWithin
  <2>2. Control(c) = NodesControl(prog[cur].entry)
    BY <1>0, <1>2 DEF ControlInv, EmitInv, Faithful
  <2>3. prog[cur].entry \in Seq(IRNode) /\ prog[cur].exit \in Labels
    BY <1>0, ProgramFacts
  <2> QED
    BY <2>1, <2>2, <2>3, FunctionControlRange
<1> QED
  BY <1>4, <1>5, <1>6

\* The frame the function being emitted ends up with.
LEMMA EmittedFrame ==
  ASSUME IInv, stage = "emit", pos > 2
  PROVE  /\ cur \in Nat \ {0} /\ cur \in Funcs /\ cur <= Len(prog) /\ Len(prog) \in Nat
         /\ ra_offset \in Int /\ fp_offset \in Int /\ StackSize(frame[cur]) \in Int
         /\ ra_offset = frame[cur].temp_offset["ra"]
         /\ fp_offset = frame[cur].temp_offset["fp"]
<1>1. TypeOK /\ EmitterInv /\ FramesBalanced
  BY DEF IInv
<1>2. cur \in Funcs /\ cur \in Nat \ {0} /\ cur <= Len(prog) /\ Len(prog) \in Nat
  <2>1. cur \in Nat /\ 1 <= cur /\ cur <= Len(prog) /\ Len(prog) \in Nat
    BY <1>1, ProgramFacts
  <2> QED
    BY <1>1, <2>1 DEF TypeOK
<1>3. reserved[cur] # NotYet /\ reserved[cur].ra = ra_offset /\ reserved[cur].fp = fp_offset
  BY <1>1 DEF EmitterInv
<1>4. reserved[cur].ra = frame[cur].temp_offset["ra"] /\ reserved[cur].fp = frame[cur].temp_offset["fp"]
  BY <1>1, <1>2, <1>3 DEF FramesBalanced
<1>5. StackSize(frame[cur]) \in Int
  <2>1. frame[cur].temp_stack_size \in Nat /\ frame[cur].reg_stack_size \in Nat
    BY <1>1, <1>2 DEF TypeOK, IsFrame
  <2> QED
    BY <2>1 DEF StackSize
<1> QED
  BY <1>1, <1>2, <1>3, <1>4, <1>5 DEF TypeOK

LEMMA EmitFunctionLayout ==
  ASSUME IInv, ControlInv, LayoutInv, EmitFunction
  PROVE  LayoutInv'
<1>0. /\ AtInst /\ ThisInst.kind = "Function" /\ TypeOK /\ CodeInv
      /\ prog' = prog /\ stage' = stage /\ cur' = cur /\ pos' = pos + 1
  BY DEF EmitFunction, IInv
<1>1. /\ stage = "emit" /\ cur \in Funcs /\ pos \in Nat \ {0} /\ ThisInst \in Physical
      /\ DOMAIN frame = Funcs
  BY <1>0, AtInstFacts DEF TypeOK
<1>2. pos = 2
  <2>1. pos # 1
    <3>1. GlobalLabel(NameOf(cur)).kind # "Function"
      BY DEF GlobalLabel, Inst
    <3> QED
      BY <1>0, <3>1, BodyInst
  <2>2. ~(pos > 2)
    <3>1. ThisInst \notin Inner
      BY <1>0 DEF Inner
    <3> QED
      BY <1>0, <3>1, BodyInst
  <2> QED
    BY <1>1, <2>1, <2>2
<1>3. PICK name \in Labels : name = NameOf(cur)
  <2>1. prog[cur].entry \in Seq(IRNode) /\ Len(prog[cur].entry) > 0 /\ prog[cur].entry[1].ir = "Function"
    BY <1>0, <1>1, ProgramFacts
  <2>2. prog[cur].entry[1] \in IRNode
    BY <2>1, ElementsOf
  <2>3. prog[cur].entry[1].name \in Labels
    BY <2>1, <2>2 DEF IRNode
  <2> QED
    BY <2>3 DEF NameOf
<1>4. PICK code \in Seq(InstSet) :
        /\ out = code \o << GlobalLabel(name) >>
        /\ Laid(FirstFunctions(prog, frame, cur - 1), code, Outside, Outside)
  BY <1>1, <1>2, <1>3 DEF LayoutInv
<1>5. PICK g : g = PrologueFrame(frame[cur])
  OBVIOUS
<1>6. PICK size : size = StackSize(g)
  OBVIOUS
<1>7. /\ frame' = [frame EXCEPT ![cur] = g]
      /\ ra_offset' = g.temp_offset["ra"] /\ fp_offset' = g.temp_offset["fp"]
      /\ out' = out \o << ThisInst >> \o Prologue(size, ra_offset', fp_offset')
  BY <1>5, <1>6 DEF EmitFunction
<1>8. frame'[cur] = g /\ \A f \in Funcs : f # cur => frame'[f] = frame[f]
  BY <1>1, <1>7
<1>9. cur \in Nat \ {0} /\ 1 .. cur \subseteq Funcs
  <2>1. Funcs = 1 .. Len(prog) /\ Len(prog) \in Nat
    BY <1>0, ProgramFacts
  <2> QED
    BY <1>1, <2>1
<1>10. PICK H : H = FirstFunctions(prog, frame', cur)
  OBVIOUS
<1>11. Laid(H, code, Outside, Outside)
  BY <1>4, <1>8, <1>9, <1>10, FirstMore
<1>12. /\ cur \in DOMAIN H /\ H[cur].name = name /\ H[cur].slots = g.temp_offset
       /\ H[cur].size = size
  <2>1. cur \in 1 .. cur
    BY <1>9
  <2>2. cur \in DOMAIN H /\ H[cur] = FactsOf(prog[cur], g)
    BY <1>8, <1>10, <2>1, FirstFacts
  <2> QED
    BY <1>3, <1>6, <2>2, FactsFields DEF NameOf
<1>13. /\ At(cur, 0) \in Shapes /\ At(cur, 0).f = cur /\ Outside \in Shapes
  <2>1. 0 \in 0 .. 7
    OBVIOUS
  <2> QED
    BY <1>9, <2>1, ShapeFacts
<1>14. PICK first : first = GlobalLabel(name) /\ first.kind = "GlobalLabel"
  <2>1. GlobalLabel(name).kind = "GlobalLabel"
    BY DEF GlobalLabel, Inst
  <2> QED
    BY <2>1
<1>15. PICK second : second = ThisInst /\ second.kind = "Function" /\ second.label = name
  BY <1>0, <1>2, <1>3, BodyInst DEF Function, Inst
<1>16. Laid(H, << first >>, Outside, At(cur, 0)) /\ Laid(H, << second >>, At(cur, 0), At(cur, 0))
  <2>1. Follows(H, first, Outside, At(cur, 0))
    BY <1>12, <1>13, <1>14 DEF Follows
  <2>2. Follows(H, second, At(cur, 0), At(cur, 0))
    BY <1>12, <1>13, <1>15 DEF Follows, Within
  <2> QED
    BY <1>13, <2>1, <2>2, LaidOne
<1>17. ra_offset' \in Int /\ fp_offset' \in Int /\ size \in Int
  <2>1. IInv'
    BY EmitFunctionStep DEF StepOK
  <2>2. ra_offset' \in Int /\ fp_offset' \in Int /\ IsFrame(frame[cur]', Regs)
    BY <1>0, <1>1, <2>1 DEF IInv, TypeOK, Funcs
  <2>3. IsFrame(g, Regs)
    BY <1>0, <1>8, <2>2
  <2>4. g.temp_stack_size \in Nat /\ g.reg_stack_size \in Nat
    BY <2>3 DEF IsFrame
  <2> QED
    BY <1>6, <2>2, <2>4 DEF StackSize
<1>18. PICK rest \in Seq(InstSet) : rest = Prologue(size, ra_offset', fp_offset')
  <2>1. Legal \subseteq InstSet
    BY DEF Legal, Physical
  <2> QED
    BY <1>17, <2>1, PrologueLegal, SeqSubset
<1>19. Laid(H, rest, At(cur, 0), Body(cur))
  BY <1>7, <1>9, <1>12, <1>17, <1>18, LaidPrologue
<1>20. /\ << first >> \in Seq(InstSet) /\ << second >> \in Seq(InstSet)
       /\ code \o << first >> \in Seq(InstSet)
       /\ (code \o << first >>) \o << second >> \in Seq(InstSet)
  <2>1. first \in InstSet /\ second \in InstSet
    BY <1>1, <1>3, <1>14, <1>15, EntryOwned DEF Owned, Plain, Physical
  <2>2. << first >> \in Seq(InstSet) /\ << second >> \in Seq(InstSet)
    BY <2>1, SeqTuples
  <2> QED
    BY <2>2, SeqConcat
<1>21. Laid(H, code \o << first >>, Outside, At(cur, 0))
  BY <1>11, <1>16, <1>20, LaidConcat
<1>22. Laid(H, (code \o << first >>) \o << second >>, Outside, At(cur, 0))
  BY <1>16, <1>20, <1>21, LaidConcat
<1>23. Laid(H, ((code \o << first >>) \o << second >>) \o rest, Outside, Body(cur))
  BY <1>18, <1>19, <1>20, <1>22, LaidConcat
<1>24. Laid(FirstFunctions(prog', frame', cur'), out', Outside, Body(cur'))
  BY <1>0, <1>4, <1>7, <1>10, <1>14, <1>15, <1>18, <1>23
<1>25. pos' = 3
  BY <1>0, <1>2
<1> QED
  BY <1>0, <1>1, <1>24, <1>25 DEF LayoutInv, LaidOut

LEMMA EmitInstLayout ==
  ASSUME IInv, ControlInv, LayoutInv, EmitInst, ~Abort
  PROVE  LayoutInv'
<1>0. /\ AtInst /\ ThisInst.kind # "Function" /\ TypeOK /\ CodeInv
      /\ prog' = prog /\ stage' = stage /\ cur' = cur /\ pos' = pos + 1 /\ frame' = frame
      /\ out' = out \o Expand(ThisInst)
  BY DEF EmitInst, IInv
<1>1. /\ stage = "emit" /\ cur \in Funcs /\ pos \in Nat \ {0} /\ ThisInst \in Physical
      /\ out \in Seq(InstSet)
  BY <1>0, AtInstFacts DEF TypeOK
<1>2. pos # 2
  <2>1. Function(NameOf(cur)).kind = "Function"
    BY DEF Function, Inst
  <2> QED
    BY <1>0, <2>1, BodyInst
<1>3. CASE pos = 1
  <2>1. PICK first : first = GlobalLabel(NameOf(cur)) /\ first = ThisInst
    BY <1>0, <1>3, BodyInst
  <2>2. Expand(first) = << first >>
    BY <2>1 DEF Expand, GlobalLabel, Inst
  <2>3. out' = out \o << GlobalLabel(NameOf(cur)) >>
    BY <1>0, <2>1, <2>2
  <2>4. Laid(FirstFunctions(prog, frame, cur - 1), out, Outside, Outside)
    BY <1>1, <1>3 DEF LayoutInv
  <2>5. pos' = 2 /\ NameOf(cur)' = NameOf(cur)
    BY <1>0, <1>3 DEF NameOf
  <2> QED
    BY <1>0, <1>1, <2>3, <2>4, <2>5 DEF LayoutInv, LaidOut
<1>4. CASE pos > 2
  <2>1. PICK G : G = FirstFunctions(prog, frame, cur)
    OBVIOUS
  <2>2. cur \in Nat \ {0} /\ cur \in 1 .. cur
    BY <1>1, <1>4, EmittedFrame
  <2>3. cur \in DOMAIN G /\ frame[cur].temp_offset = G[cur].slots
        /\ G[cur].control = Range(FunctionControl(prog[cur]))
    BY <2>1, <2>2, FirstFacts, FactsFields
  <2>4. Laid(G, Expand(ThisInst), Body(cur), Body(cur))
    BY <1>0, <1>4, <2>2, <2>3, BodyInst, LaidInst
  <2>5. Laid(G, out, Outside, Body(cur))
    BY <1>1, <1>4, <2>1 DEF LayoutInv
  <2>6. Expand(ThisInst) \in Seq(InstSet)
    <3>1. Legal \subseteq InstSet
      BY DEF Legal, Physical
    <3> QED
      BY <1>1, <3>1, ExpandLegal, SeqSubset
  <2>7. Laid(G, out', Outside, Body(cur))
    BY <1>0, <1>1, <2>4, <2>5, <2>6, LaidConcat
  <2>8. pos' > 2 /\ ~(pos' = 1) /\ ~(pos' = 2)
    BY <1>0, <1>1, <1>4
  <2> QED
    BY <1>0, <1>1, <2>1, <2>7, <2>8 DEF LayoutInv, LaidOut
<1> QED
  BY <1>1, <1>2, <1>3, <1>4

\* The epilogue comes behind the two instructions a function begins with.
LEMMA BehindBody ==
  ASSUME IInv, EmitEpilogue
  PROVE  pos > 2
<1>1. stage = "emit" /\ pos > Len(asm[cur])
  BY DEF EmitEpilogue
<1>2. EntryInv /\ cur \in Funcs /\ pos \in Nat \ {0}
  BY ControlTypes
<1>3. PICK c \in Seq(InstSet) : c = asm[cur]
  BY <1>2, ControlTypes
<1>4. Len(c) \in Nat
  BY <1>3
<1>5. Len(c) >= 2
  BY <1>1, <1>2, <1>3 DEF EntryInv, Enters
<1> QED
  BY <1>1, <1>2, <1>3, <1>4, <1>5

LEMMA EmitEpilogueLayout ==
  ASSUME IInv, ControlInv, LayoutInv, EmitEpilogue
  PROVE  LayoutInv'
<1>0. /\ stage = "emit" /\ pos > Len(asm[cur]) /\ prog' = prog /\ frame' = frame
      /\ NextFunction("done")
      /\ out' = out \o Epilogue(prog[cur].exit, prog[cur].ret, StackSize(frame[cur]),
                                ra_offset, fp_offset)
  BY DEF EmitEpilogue
<1>1. TypeOK /\ EntryInv /\ cur \in Funcs /\ pos \in Nat \ {0} /\ out \in Seq(InstSet)
  BY ControlTypes
<1>2. pos > 2
  BY BehindBody
<1>3. PICK G : G = FirstFunctions(prog, frame, cur)
  OBVIOUS
<1>4. PICK size \in Int : size = StackSize(frame[cur])
  BY <1>0, <1>2, EmittedFrame
<1>5. /\ cur \in Nat \ {0} /\ cur \in 1 .. cur /\ ra_offset \in Int /\ fp_offset \in Int
      /\ ra_offset = frame[cur].temp_offset["ra"] /\ fp_offset = frame[cur].temp_offset["fp"]
  BY <1>0, <1>2, EmittedFrame
<1>6. /\ cur \in DOMAIN G /\ G[cur].slots = frame[cur].temp_offset /\ G[cur].size = size
      /\ G[cur].control = Range(FunctionControl(prog[cur]))
  BY <1>3, <1>4, <1>5, FirstFacts, FactsFields
<1>7. /\ prog[cur].exit \in Labels /\ prog[cur].ret \in {"", "a0"}
      /\ Transfer("Label", Unused, prog[cur].exit) \in G[cur].control
  BY <1>1, <1>6, ProgramFacts, FunctionControlRange
<1>8. PICK code : code = Epilogue(prog[cur].exit, prog[cur].ret, size, ra_offset, fp_offset)
  OBVIOUS
<1>9. Laid(G, code, Body(cur), Outside)
  BY <1>4, <1>5, <1>6, <1>7, <1>8, LaidEpilogue
<1>10. code \in Seq(InstSet)
  <2>1. Legal \subseteq InstSet
    BY DEF Legal, Physical
  <2> QED
    <3>1. code \in Seq(Legal)
      BY <1>4, <1>5, <1>7, <1>8, EpilogueLegal
    <3> QED
      BY <2>1, <3>1, SeqSubset
<1>11. Laid(G, out, Outside, Body(cur))
  BY <1>0, <1>2, <1>3 DEF LayoutInv
<1>12. Laid(G, out', Outside, Outside)
  BY <1>0, <1>1, <1>4, <1>8, <1>9, <1>10, <1>11, LaidConcat
<1>13. pos' = 1 /\ \/ cur' = cur + 1 /\ stage' = stage
                   \/ cur = Len(prog) /\ stage' = "done"
  BY <1>0, <1>1, NextFunctionFacts
<1>14. CASE cur' = cur + 1 /\ stage' = stage
  <2>1. cur' - 1 = cur
    BY <1>5, <1>14
  <2>2. Laid(FirstFunctions(prog', frame', cur' - 1), out', Outside, Outside)
    BY <1>0, <1>3, <1>12, <2>1
  <2> QED
    BY <1>0, <1>13, <1>14, <2>2 DEF LayoutInv, LaidOut
<1>15. CASE cur = Len(prog) /\ stage' = "done"
  <2>1. Laid(FirstFunctions(prog', frame', Len(prog')), out', Outside, Outside)
    BY <1>0, <1>3, <1>12, <1>15
  <2> QED
    BY <1>15, <2>1 DEF LayoutInv, LaidOut
<1> QED
  BY <1>13, <1>14, <1>15

\* When emission starts nothing has been emitted; before it nothing is claimed.
LEMMA EmissionStarts ==
  ASSUME IInv, ControlInv, Select \/ Allocate
  PROVE  stage' # "done" /\ (stage' = "emit" => pos' = 1 /\ cur' = 1 /\ out' = << >>)
<1>1. CASE stage' \in {"select", "allocate", "aborted"}
  BY <1>1
<1>2. CASE stage' \notin {"select", "allocate", "aborted"}
  <2>1. AllocatedFunction
    <3>1. Select => stage' \in {"select", "allocate", "aborted"}
      BY DEF Select, LoadImmNode, AssignNode, BinaryNode, UnaryNode, LabelNode, GotoNode,
             FunctionNode, CallNode, ArgNode, ParamNode, IfNode, DecNode, LoadAddrNode,
             StoreNode, LoadNode, SelectedFunction, AtNode, Appends, Abort, NextFunction
    <3>2. Allocate => AllocatedFunction \/ stage' = "allocate"
      BY DEF Allocate, AllocateArith, AllocateArithImm, AllocateMv, AllocateLi, AllocateLa,
             AllocateLoad, AllocateStore, AllocateBranch, AllocateOther, AllocateKind
    <3> QED
      BY <1>2, <3>1, <3>2
  <2>2. stage = "allocate" /\ out' = out /\ out = << >> /\ NextFunction("emit")
    BY <2>1 DEF AllocatedFunction, emitVars, ControlInv, AllocateInv
  <2>3. pos' = 1 /\ stage' = "emit" /\ cur' = 1
    BY <1>2, <2>2 DEF NextFunction
  <2> QED
    BY <2>2, <2>3
<1> QED
  BY <1>1, <1>2

LEMMA EarlierLayout ==
  ASSUME IInv, ControlInv, Select \/ Allocate
  PROVE  LayoutInv'
<1>2. stage' # "done" /\ (stage' = "emit" => pos' = 1 /\ cur' = 1 /\ out' = << >>)
  BY EmissionStarts
<1>3. Laid(FirstFunctions(prog', frame', 1 - 1), << >>, Outside, Outside)
  <2>1. Outside \in Shapes
    BY BodyFacts
  <2> QED
    BY <2>1, LaidEmpty
<1> QED
  BY <1>2, <1>3 DEF LayoutInv, LaidOut

LEMMA LayoutNext == IInv /\ ControlInv /\ LayoutInv /\ [Next]_vars => LayoutInv'
<1> SUFFICES ASSUME IInv, ControlInv, LayoutInv, [Next]_vars PROVE LayoutInv'
  OBVIOUS
<1>1. CASE Select \/ Allocate
  BY <1>1, EarlierLayout
<1>2. CASE Emit
  <2>1. CASE Abort
    BY <2>1 DEF Abort, LayoutInv, LaidOut
  <2>2. CASE ~Abort
    BY <1>2, <2>2, EmitFunctionLayout, EmitInstLayout, EmitEpilogueLayout DEF Emit
  <2> QED
    BY <2>1, <2>2
<1>3. CASE UNCHANGED vars
  BY <1>3 DEF vars, passVars, emitVars, LayoutInv, LaidOut, NameOf
<1> QED
  BY <1>1, <1>2, <1>3 DEF Next, Finished

\* The functions emitted so far have been through their prologues.
ReservedInv ==
  /\ stage = "emit" => \A f \in Funcs : f < cur => reserved[f] # NotYet
  /\ stage = "done" => \A f \in Funcs : reserved[f] # NotYet

LEMMA ReservedNext == IInv /\ ControlInv /\ ReservedInv /\ [Next]_vars => ReservedInv'
<1> SUFFICES ASSUME IInv, ControlInv, ReservedInv, [Next]_vars PROVE ReservedInv'
  OBVIOUS
<1>1. /\ TypeOK /\ EmitterInv /\ cur \in Nat /\ 1 <= cur /\ cur <= Len(prog)
      /\ Len(prog) \in Nat /\ Funcs = 1 .. Len(prog)
  BY ProgramFacts DEF IInv
<1>2. prog' = prog /\ Funcs' = Funcs
  <2>1. prog' = prog
    BY ProgramKept
  <2> QED
    BY <2>1 DEF Funcs
<1>3. CASE Select \/ Allocate
  <2>1. stage' # "done" /\ (stage' = "emit" => cur' = 1)
    BY <1>3, EmissionStarts
  <2>2. \A f \in Funcs : ~(f < 1)
    BY <1>1
  <2> QED
    BY <1>2, <2>1, <2>2 DEF ReservedInv
<1>4. CASE EmitFunction
  <2>1. /\ stage = "emit" /\ stage' = stage /\ cur' = cur
        /\ \E r : reserved' = [reserved EXCEPT ![cur] = r]
    BY <1>4 DEF EmitFunction, AtInst
  <2>2. \A f \in Funcs : f < cur => reserved'[f] = reserved[f]
    BY <1>1, <2>1 DEF TypeOK
  <2> QED
    BY <1>2, <2>1, <2>2 DEF ReservedInv
<1>5. CASE EmitInst
  BY <1>2, <1>5 DEF EmitInst, AtInst, Abort, emitVars, ReservedInv
<1>6. CASE EmitEpilogue
  <2>1. /\ stage = "emit" /\ reserved' = reserved
        /\ NextFunction("done")
    BY <1>6 DEF EmitEpilogue
  <2>2. reserved[cur] # NotYet
    BY <1>1, <1>6, <2>1, BehindBody DEF EmitterInv
  <2>3. \/ cur' = cur + 1 /\ stage' = stage
        \/ cur = Len(prog) /\ stage' = "done"
    BY <1>1, <1>2, <2>1, NextFunctionFacts
  <2>4. CASE cur' = cur + 1 /\ stage' = stage
    <3>1. \A f \in Funcs : f < cur + 1 => f < cur \/ f = cur
      BY <1>1
    <3> QED
      BY <1>2, <2>1, <2>2, <2>4, <3>1 DEF ReservedInv
  <2>5. CASE cur = Len(prog) /\ stage' = "done"
    <3>1. \A f \in Funcs : f < cur \/ f = cur
      BY <1>1, <2>5
    <3> QED
      BY <1>2, <2>1, <2>2, <2>5, <3>1 DEF ReservedInv
  <2> QED
    BY <2>3, <2>4, <2>5
<1>7. CASE UNCHANGED vars
  BY <1>7 DEF vars, passVars, emitVars, ReservedInv, Funcs
<1> QED
  BY <1>3, <1>4, <1>5, <1>6, <1>7 DEF Next, Emit, Finished

LEMMA ReservedInitially == Init => ReservedInv
BY DEF Init, ReservedInv

LEMMA LayoutInitially == Init => LayoutInv
BY DEF Init, LayoutInv, LaidOut

\* What a finished compilation leaves: frames that are what the code says of them.
LEMMA FinishedFrames ==
  ASSUME IInv, ReservedInv, stage = "done", NEW f \in Funcs
  PROVE  /\ IsFrame(frame[f], Regs) /\ FrameSeparate(frame[f])
         /\ {"ra", "fp"} \subseteq DOMAIN frame[f].temp_offset
<1>1. FramesBalanced /\ reserved[f] # NotYet
  BY DEF IInv, ReservedInv
<1> QED
  BY <1>1, ControlTypes DEF FramesBalanced

\* The emitted code is one complete function behind the other.  The prologue of each
\* lowers sp by the size of its frame, and saves ra and fp in slots of their own;
\* between that and its epilogue no instruction defines sp, fp or ra, none stores
\* from sp anywhere but in a slot of another register, and its labels, jumps,
\* branches and calls are those of its IR; the epilogue restores what was saved.
THEOREM OutputLaidOut == Spec => []LaidOut
<1>1. Spec => []LayoutInv
  <2>1. Init => IInv /\ ControlInv /\ LayoutInv
    BY InitOK, ControlInitially, LayoutInitially
  <2>2. /\ IInv /\ ControlInv /\ LayoutInv /\ [Next]_vars => (IInv /\ ControlInv /\ LayoutInv)'
    BY NextOK, ControlNext, LayoutNext DEF StepOK
  <2> QED
    BY <2>1, <2>2, PTL DEF Spec
<1>2. LayoutInv => LaidOut
  BY DEF LayoutInv
<1> QED
  BY <1>1, <1>2, PTL
=============================================================================
