---------------------------- MODULE DriverProofs ----------------------------
(***************************************************************************)
(* The compiler from the translator to the printed assembly, for every set *)
(* of programs whose translations are what TranslationAssumption says: the *)
(* invariants of CFGBuilder and of the back end hold where main.cpp runs   *)
(* them one behind the other, every transfer of control of the assembly    *)
(* has its place, and what is printed returns to its callers with their    *)
(* registers and leaves their frames alone.                                *)
(***************************************************************************)
EXTENDS Driver, SequenceFacts

-----------------------------------------------------------------------------
(* The passes, with the facts proved of them.                              *)

CBP == INSTANCE CFGBuilderProofs
         WITH Names <- FuncNames, Globals <- GlobalNodes, BodyNodes <- BodyNodes,
              Results <- Names \cup {""}

\* A function that begins at its one Function node.
Entered(function) ==
  /\ Len(function.entry) > 0
  /\ \A i \in 1 .. Len(function.entry) : function.entry[i].ir = "Function" <=> i = 1

\* What CFGBuilder hands over.
Modules ==
  {p \in Seq(BE!IRFunction) : Len(p) > 0 /\ \A f \in 1 .. Len(p) : Entered(p[f])}

BP == INSTANCE BackendProofs WITH VReg <- Names, Labels <- STRING, Programs <- Modules

\* What these modules assume holds here.
LEMMA BuilderAssumption ==
  /\ \A m, n \in FuncNames : RetLabel(m) = RetLabel(n) => m = n
  /\ \A node \in GlobalNodes : node.ir = "Global"
  /\ \A node \in BodyNodes :
       /\ node.ir \notin {"Function", "Global", "Return"}
       /\ node.ir \in {"Label", "Goto"} => \A n \in FuncNames : node.label # RetLabel(n)
<1>1. \A m, n \in FuncNames : RetLabel(m) = RetLabel(n) => m = n
  BY TranslationAssumption
<1>2. \A node \in GlobalNodes : node.ir = "Global"
  BY DEF GlobalNodes
<1>3. ASSUME NEW node \in BodyNodes
      PROVE  /\ node.ir \notin {"Function", "Global", "Return"}
             /\ node.ir \in {"Label", "Goto"} => \A n \in FuncNames : node.label # RetLabel(n)
  <2>1. /\ node \in BE!IRNode /\ node.ir # "Function"
        /\ node.ir \in {"Label", "Goto", "If"} => NoExit(node.label)
    BY DEF BodyNodes
  <2>2. node.ir \notin {"Global", "Return"}
    BY <2>1 DEF BE!IRNode
  <2> QED
    BY <2>1, <2>2 DEF NoExit
<1> QED
  BY <1>1, <1>2, <1>3

LEMMA SameFunctions == BE!IRNode = BP!IRNode /\ BE!IRFunction = BP!IRFunction
<1>1. BE!IRNode = BP!IRNode
  BY DEF BE!IRNode, BP!IRNode, BE!BinaryOps, BP!BinaryOps, BE!Literal, BP!Literal
<1> QED
  BY <1>1 DEF BE!IRFunction, BP!IRFunction

LEMMA ImmediateAssumption ==
  ImmMin \in Int /\ ImmMax \in Int /\ ImmMin <= 0 /\ 0 <= ImmMax
BY DriverAssumption

LEMMA ModuleAssumption ==
  /\ Names \cap (BP!PhysReg \cup {BP!Unused, BP!Literal, ""}) = {}
  /\ Modules \subseteq Seq(BP!IRFunction)
  /\ \A p \in Modules :
       /\ Len(p) > 0
       /\ \A f \in 1 .. Len(p) :
            /\ Len(p[f].entry) > 0
            /\ \A i \in 1 .. Len(p[f].entry) : p[f].entry[i].ir = "Function" <=> i = 1
<1>1. Names \cap (BP!PhysReg \cup {BP!Unused, BP!Literal, ""}) = {}
  BY DEF Names, RV!PhysReg, BP!PhysReg, BP!Unused, BP!Literal
<1>2. Modules \subseteq Seq(BP!IRFunction)
  BY SameFunctions DEF Modules
<1>3. \A p \in Modules :
        /\ Len(p) > 0
        /\ \A f \in 1 .. Len(p) :
             /\ Len(p[f].entry) > 0
             /\ \A i \in 1 .. Len(p[f].entry) : p[f].entry[i].ir = "Function" <=> i = 1
  BY DEF Modules, Entered
<1> QED
  BY <1>1, <1>2, <1>3

-----------------------------------------------------------------------------
(* The passes are the same.                                                *)

\* A pass of the compiler is a pass of the back end's own model.
LEMMA SameSelect == BE!Select => BP!Select
<1>1. BE!LoadImmNode => BP!LoadImmNode
  BY DEF BE!Unused, BP!Unused, BE!Inst, BP!Inst, BE!Node, BP!Node, BE!AtNode, BP!AtNode,
         BE!Appends, BP!Appends, BE!Selected, BP!Selected, BE!emitVars, BP!emitVars,
         BE!LoadImmNode, BP!LoadImmNode, BE!SelectLoadImm, BP!SelectLoadImm, BE!Li,
         BP!Li
<1>2. BE!AssignNode => BP!AssignNode
  BY DEF BE!Unused, BP!Unused, BE!Inst, BP!Inst, BE!Node, BP!Node, BE!AtNode, BP!AtNode,
         BE!Appends, BP!Appends, BE!Selected, BP!Selected, BE!emitVars, BP!emitVars,
         BE!AssignNode, BP!AssignNode, BE!SelectAssign, BP!SelectAssign, BE!Mv, BP!Mv
<1>3. BE!BinaryNode => BP!BinaryNode
  BY DEF BE!Unused, BP!Unused, BE!Inst, BP!Inst, BE!Node, BP!Node, BE!AtNode, BP!AtNode,
         BE!Appends, BP!Appends, BE!Selected, BP!Selected, BE!emitVars, BP!emitVars,
         BE!BinaryNode, BP!BinaryNode, BE!SelectBinary, BP!SelectBinary, BE!Literal,
         BP!Literal, BE!Arith, BP!Arith, BE!ArithImm, BP!ArithImm, BE!ArithOp,
         BP!ArithOp, BE!Li, BP!Li
<1>4. BE!UnaryNode => BP!UnaryNode
  BY DEF BE!Unused, BP!Unused, BE!Inst, BP!Inst, BE!Node, BP!Node, BE!AtNode, BP!AtNode,
         BE!Appends, BP!Appends, BE!Selected, BP!Selected, BE!emitVars, BP!emitVars,
         BE!UnaryNode, BP!UnaryNode, BE!SelectUnary, BP!SelectUnary, BE!Arith, BP!Arith,
         BE!ArithOp, BP!ArithOp
<1>5. BE!LabelNode => BP!LabelNode
  BY DEF BE!Unused, BP!Unused, BE!Inst, BP!Inst, BE!Node, BP!Node, BE!AtNode, BP!AtNode,
         BE!Appends, BP!Appends, BE!Selected, BP!Selected, BE!emitVars, BP!emitVars,
         BE!LabelNode, BP!LabelNode, BE!SelectLabel, BP!SelectLabel, BE!Label, BP!Label
<1>6. BE!GotoNode => BP!GotoNode
  BY DEF BE!Unused, BP!Unused, BE!Inst, BP!Inst, BE!Node, BP!Node, BE!AtNode, BP!AtNode,
         BE!Appends, BP!Appends, BE!Selected, BP!Selected, BE!emitVars, BP!emitVars,
         BE!GotoNode, BP!GotoNode, BE!SelectGoto, BP!SelectGoto, BE!Jump, BP!Jump
<1>7. BE!FunctionNode => BP!FunctionNode
  BY DEF BE!Unused, BP!Unused, BE!Inst, BP!Inst, BE!Node, BP!Node, BE!AtNode, BP!AtNode,
         BE!Appends, BP!Appends, BE!Selected, BP!Selected, BE!emitVars, BP!emitVars,
         BE!FunctionNode, BP!FunctionNode, BE!SelectFunction, BP!SelectFunction,
         BE!GlobalLabel, BP!GlobalLabel, BE!Function, BP!Function
<1>8. BE!CallNode => BP!CallNode
  BY DEF BE!Unused, BP!Unused, BE!Inst, BP!Inst, BE!Node, BP!Node, BE!AtNode, BP!AtNode,
         BE!Appends, BP!Appends, BE!Selected, BP!Selected, BE!emitVars, BP!emitVars,
         BE!CallNode, BP!CallNode, BE!SelectCall, BP!SelectCall, BE!Store, BP!Store,
         BE!Load, BP!Load, BE!Call, BP!Call, BE!Mv, BP!Mv, BE!AllocTemp, BP!AllocTemp,
         BE!Bind, BP!Bind, BE!WordSize, BP!WordSize
<1>9. BE!ArgNode => BP!ArgNode
  BY DEF BE!Unused, BP!Unused, BE!Inst, BP!Inst, BE!Node, BP!Node, BE!AtNode, BP!AtNode,
         BE!Appends, BP!Appends, BE!Selected, BP!Selected, BE!emitVars, BP!emitVars,
         BE!ArgNode, BP!ArgNode, BE!SelectArg, BP!SelectArg, BE!Mv, BP!Mv, BE!Store,
         BP!Store, BE!ArgReg, BP!ArgReg, BE!AllocTemp, BP!AllocTemp, BE!Bind, BP!Bind,
         BE!WordSize, BP!WordSize
<1>10. BE!ParamNode => BP!ParamNode
  BY DEF BE!Unused, BP!Unused, BE!Inst, BP!Inst, BE!Node, BP!Node, BE!AtNode, BP!AtNode,
         BE!Appends, BP!Appends, BE!Selected, BP!Selected, BE!emitVars, BP!emitVars,
         BE!ParamNode, BP!ParamNode, BE!SelectParam, BP!SelectParam, BE!Mv, BP!Mv,
         BE!Load, BP!Load, BE!ArgReg, BP!ArgReg
<1>11. BE!IfNode => BP!IfNode
  BY DEF BE!Unused, BP!Unused, BE!Inst, BP!Inst, BE!Node, BP!Node, BE!AtNode, BP!AtNode,
         BE!Appends, BP!Appends, BE!Selected, BP!Selected, BE!emitVars, BP!emitVars,
         BE!IfNode, BP!IfNode, BE!SelectIf, BP!SelectIf, BE!RelOps, BP!RelOps,
         BE!Branch, BP!Branch, BE!Abort, BP!Abort
<1>12. BE!DecNode => BP!DecNode
  BY DEF BE!Unused, BP!Unused, BE!Inst, BP!Inst, BE!Node, BP!Node, BE!AtNode, BP!AtNode,
         BE!Appends, BP!Appends, BE!Selected, BP!Selected, BE!emitVars, BP!emitVars,
         BE!DecNode, BP!DecNode, BE!SelectDec, BP!SelectDec, BE!ArithImm, BP!ArithImm,
         BE!AllocDec, BP!AllocDec, BE!AddBlock, BP!AddBlock, BE!Abort, BP!Abort
<1>13. BE!LoadAddrNode => BP!LoadAddrNode
  BY DEF BE!Unused, BP!Unused, BE!Inst, BP!Inst, BE!Node, BP!Node, BE!AtNode, BP!AtNode,
         BE!Appends, BP!Appends, BE!Selected, BP!Selected, BE!emitVars, BP!emitVars,
         BE!LoadAddrNode, BP!LoadAddrNode, BE!SelectLoadAddr, BP!SelectLoadAddr, BE!La,
         BP!La
<1>14. BE!StoreNode => BP!StoreNode
  BY DEF BE!Unused, BP!Unused, BE!Inst, BP!Inst, BE!Node, BP!Node, BE!AtNode, BP!AtNode,
         BE!Appends, BP!Appends, BE!Selected, BP!Selected, BE!emitVars, BP!emitVars,
         BE!StoreNode, BP!StoreNode, BE!SelectStore, BP!SelectStore, BE!Fits, BP!Fits,
         BE!Li, BP!Li, BE!Arith, BP!Arith, BE!Store, BP!Store
<1>15. BE!LoadNode => BP!LoadNode
  BY DEF BE!Unused, BP!Unused, BE!Inst, BP!Inst, BE!Node, BP!Node, BE!AtNode, BP!AtNode,
         BE!Appends, BP!Appends, BE!Selected, BP!Selected, BE!emitVars, BP!emitVars,
         BE!LoadNode, BP!LoadNode, BE!SelectLoad, BP!SelectLoad, BE!Fits, BP!Fits,
         BE!Li, BP!Li, BE!Arith, BP!Arith, BE!Load, BP!Load
<1>16. BE!SelectedFunction => BP!SelectedFunction
  BY DEF BE!SelectedFunction, BP!SelectedFunction, BE!NextFunction, BP!NextFunction,
         BE!emitVars, BP!emitVars
<1> QED
  BY <1>1, <1>2, <1>3, <1>4, <1>5, <1>6, <1>7, <1>8, <1>9, <1>10, <1>11, <1>12, <1>13,
     <1>14, <1>15, <1>16
  DEF BE!Select, BP!Select

LEMMA SameAllocate == BE!Allocate => BP!Allocate
<1>1. ASSUME NEW fr, NEW inst
      PROVE  /\ BE!WithSlots(fr, inst) = BP!WithSlots(fr, inst)
             /\ BE!Allocated(inst, fr) = BP!Allocated(inst, fr)
  <2>1. \A reg : BE!Virtual(reg) <=> BP!Virtual(reg)
    BY DEF BE!Virtual, BP!Virtual, BE!Unused, BP!Unused, BE!PhysReg, BP!PhysReg
  <2>2. \A g, reg : BE!WithSlot(g, reg) = BP!WithSlot(g, reg)
    BY <2>1 DEF BE!WithSlot, BP!WithSlot, BE!AllocTemp, BP!AllocTemp, BE!Bind, BP!Bind,
             BE!WordSize, BP!WordSize
  <2>3. BE!WithSlots(fr, inst) = BP!WithSlots(fr, inst)
    BY <2>2 DEF BE!WithSlots, BP!WithSlots
  <2>4. \A reg, scratch : /\ BE!LoadSource(reg, scratch, fr) = BP!LoadSource(reg, scratch, fr)
                          /\ BE!Phys(reg, scratch) = BP!Phys(reg, scratch)
                          /\ BE!StoreResult(reg, fr) = BP!StoreResult(reg, fr)
    BY <2>1
    DEF BE!LoadSource, BP!LoadSource, BE!Phys, BP!Phys, BE!StoreResult, BP!StoreResult,
        BE!Load, BP!Load, BE!Store, BP!Store, BE!Inst, BP!Inst, BE!Unused, BP!Unused
  <2>5. BE!Allocated(inst, fr) = BP!Allocated(inst, fr)
    BY <2>4 DEF BE!Allocated, BP!Allocated
  <2> QED
    BY <2>3, <2>5
<1>2. ASSUME NEW kind, BE!AllocateKind(kind)
      PROVE  BP!AllocateKind(kind)
  BY <1>1, <1>2
  DEF BE!AllocateKind, BP!AllocateKind, BE!ThisInst, BP!ThisInst, BE!emitVars, BP!emitVars
<1>3. BE!AllocatedFunction => BP!AllocatedFunction
  BY DEF BE!AllocatedFunction, BP!AllocatedFunction, BE!NextFunction, BP!NextFunction,
         BE!emitVars, BP!emitVars
<1> QED
  BY <1>2, <1>3
  DEF BE!Allocate, BP!Allocate, BE!AllocateArith, BP!AllocateArith, BE!AllocateArithImm,
      BP!AllocateArithImm, BE!AllocateMv, BP!AllocateMv, BE!AllocateLi, BP!AllocateLi,
      BE!AllocateLa, BP!AllocateLa, BE!AllocateLoad, BP!AllocateLoad, BE!AllocateStore,
      BP!AllocateStore, BE!AllocateBranch, BP!AllocateBranch, BE!AllocateOther,
      BP!AllocateOther

LEMMA SameEmit == BE!Emit => BP!Emit
<1>1. \A inst : BE!Expand(inst) = BP!Expand(inst)
  BY DEF BE!Expand, BP!Expand, BE!Fits, BP!Fits, BE!Li, BP!Li, BE!Arith, BP!Arith,
         BE!Load, BP!Load, BE!Store, BP!Store, BE!Inst, BP!Inst, BE!Unused, BP!Unused
<1>2. \A size, ra, fp : BE!Prologue(size, ra, fp) = BP!Prologue(size, ra, fp)
  BY <1>1 DEF BE!Prologue, BP!Prologue, BE!ArithImm, BP!ArithImm, BE!Store, BP!Store,
             BE!Inst, BP!Inst, BE!Unused, BP!Unused
<1>3. \A label, ret, size, ra, fp :
        BE!Epilogue(label, ret, size, ra, fp) = BP!Epilogue(label, ret, size, ra, fp)
  BY <1>1 DEF BE!Epilogue, BP!Epilogue, BE!ArithImm, BP!ArithImm, BE!Load, BP!Load,
             BE!Label, BP!Label, BE!Mv, BP!Mv, BE!Ret, BP!Ret, BE!Inst, BP!Inst,
             BE!Unused, BP!Unused
<1>4. \A fr : BE!PrologueFrame(fr) = BP!PrologueFrame(fr) /\ BE!StackSize(fr) = BP!StackSize(fr)
  BY DEF BE!PrologueFrame, BP!PrologueFrame, BE!StackSize, BP!StackSize, BE!AllocTemp,
         BP!AllocTemp, BE!Bind, BP!Bind, BE!WordSize, BP!WordSize
<1>5. BE!EmitFunction => BP!EmitFunction
  BY <1>2, <1>4
  DEF BE!EmitFunction, BP!EmitFunction, BE!AtInst, BP!AtInst, BE!ThisInst, BP!ThisInst
<1>6. BE!EmitInst => BP!EmitInst
  BY <1>1
  DEF BE!EmitInst, BP!EmitInst, BE!AtInst, BP!AtInst, BE!ThisInst, BP!ThisInst,
      BE!Mnemonics, BP!Mnemonics, BE!Abort, BP!Abort, BE!emitVars, BP!emitVars
<1>7. BE!EmitEpilogue => BP!EmitEpilogue
  BY <1>3, <1>4
  DEF BE!EmitEpilogue, BP!EmitEpilogue, BE!NextFunction, BP!NextFunction
<1> QED
  BY <1>5, <1>6, <1>7 DEF BE!Emit, BP!Emit

\* And what is proved of the passes is what is wanted of them.
LEMMA SameProperties ==
  ASSUME BP!IInv
  PROVE  BE!FramesSeparate /\ BE!AccessesOwned /\ BE!OutputLegal /\ BE!FramesBalanced
<1>1. BP!FramesSeparate /\ BP!AccessesOwned /\ BP!OutputLegal /\ BP!FramesBalanced
  BY ImmediateAssumption, ModuleAssumption, BP!InvariantSays DEF BP!IInv
<1>2. BE!Funcs = BP!Funcs
  BY DEF BE!Funcs, BP!Funcs
<1>3. BE!FramesSeparate
  BY <1>1, <1>2
  DEF BE!FramesSeparate, BP!FramesSeparate, BE!FrameSeparate, BP!FrameSeparate,
      BE!SlotsApart, BP!SlotsApart, BE!ArraysApart, BP!ArraysApart,
      BE!WithinTemps, BP!WithinTemps, BE!Apart, BP!Apart, BE!WordSize, BP!WordSize
<1>4. BE!AccessesOwned
  BY <1>1, <1>2
  DEF BE!AccessesOwned, BP!AccessesOwned, BE!CodeOwned, BP!CodeOwned,
      BE!SpAddressOwned, BP!SpAddressOwned
<1>5. BE!OutputLegal
  BY <1>1
  DEF BE!OutputLegal, BP!OutputLegal, BE!RegsOf, BP!RegsOf, BE!PhysReg, BP!PhysReg,
      BE!Unused, BP!Unused, BE!Fits, BP!Fits
<1>6. BE!FramesBalanced
  BY <1>1, <1>2
  DEF BE!FramesBalanced, BP!FramesBalanced, BE!NotYet, BP!NotYet,
      BE!StackSize, BP!StackSize
<1> QED
  BY <1>3, <1>4, <1>5, <1>6

LEMMA SameBuilder ==
  /\ CB!Init <=> CBP!Init
  /\ \A name : CB!TakeFunction(name) => CBP!TakeFunction(name)
  /\ \A node : CB!TakeGlobal(node) => CBP!TakeGlobal(node)
  /\ \A node : CB!TakeNode(node) => CBP!TakeNode(node)
  /\ CB!EndOfCode => CBP!EndOfCode
<1>1. \A s : /\ CB!FlattenSeq(s) = CBP!FlattenSeq(s) /\ CB!Range(s) = CBP!Range(s)
             /\ CB!Last(s) = CBP!Last(s)
  BY DEF CB!FlattenSeq, CBP!FlattenSeq, CB!Range, CBP!Range, CB!Last, CBP!Last
<1>2. \A node, name : CB!Lower(node, name) = CBP!Lower(node, name)
  BY DEF CB!Lower, CBP!Lower, CB!Goto, CBP!Goto, CB!Assign, CBP!Assign
<1>3. \A func : CB!BuildSingleFunc(func) = CBP!BuildSingleFunc(func)
  BY <1>1, <1>2
  DEF CB!BuildSingleFunc, CBP!BuildSingleFunc, CB!Label, CBP!Label, CB!Return, CBP!Return
<1>4. CB!Flushed = CBP!Flushed
  BY <1>3 DEF CB!Flushed, CBP!Flushed
<1>5. \A name : CB!TakeFunction(name) => CBP!TakeFunction(name)
  BY <1>1, <1>4
  DEF CB!TakeFunction, CBP!TakeFunction, CB!Takes, CBP!Takes, CB!Function, CBP!Function
<1>6. \A node : CB!TakeGlobal(node) => CBP!TakeGlobal(node)
  BY <1>1 DEF CB!TakeGlobal, CBP!TakeGlobal, CB!Takes, CBP!Takes
<1>7. \A node : CB!TakeNode(node) => CBP!TakeNode(node)
  BY <1>1 DEF CB!TakeNode, CBP!TakeNode, CB!Takes, CBP!Takes, CB!InBody, CBP!InBody
<1>8. CB!EndOfCode => CBP!EndOfCode
  BY <1>4 DEF CB!EndOfCode, CBP!EndOfCode
<1>9. CB!Init <=> CBP!Init
  BY DEF CB!Init, CBP!Init
<1> QED
  BY <1>5, <1>6, <1>7, <1>8, <1>9

-----------------------------------------------------------------------------
(* CFGBuilder behind the translator.                                       *)

\* The nodes a translation is made of.
TranslatedNodes == FunctionNodes \cup GlobalNodes \cup ReturnNodes \cup BodyNodes

LEMMA TranslatedKinds ==
  ASSUME NEW node \in TranslatedNodes
  PROVE  /\ node.ir = "Function" => node.name \in FuncNames /\ node = CBP!Function(node.name)
         /\ node.ir = "Global" => node \in GlobalNodes
         /\ node.ir = "Return" => \E x \in Names \cup {""} : node = CBP!Return(x)
         /\ node.ir \notin {"Function", "Global", "Return"} => node \in BodyNodes
<1>1. CASE node \in FunctionNodes
  BY <1>1 DEF FunctionNodes, CBP!Function
<1>2. CASE node \in GlobalNodes
  BY <1>2 DEF GlobalNodes
<1>3. CASE node \in ReturnNodes
  BY <1>3 DEF ReturnNodes, CBP!Return
<1>4. CASE node \in BodyNodes
  BY <1>4, BuilderAssumption
<1> QED
  BY <1>1, <1>2, <1>3, <1>4 DEF TranslatedNodes

LEMMA BuilderInit == CBP!Init => CBP!IInv
BY CBP!InitIInv, BuilderAssumption

LEMMA BuilderStep == CBP!IInv /\ [CBP!Next]_(CBP!vars) => CBP!IInv'
BY CBP!StepIInv, BuilderAssumption

LEMMA BuilderStays ==
  ASSUME CBP!IInv, UNCHANGED builderVars
  PROVE  CBP!IInv'
<1>1. UNCHANGED CBP!vars
  BY DEF builderVars, CBP!vars
<1> QED
  BY <1>1, BuilderStep

\* The IR of the source being compiled.
IRTyped ==
  /\ ir \in Seq(TranslatedNodes)
  /\ \E i \in 1 .. Len(ir) : ir[i].ir = "Function"

\* A node of the IR is one CFGBuilder may be given.
LEMMA BuildNodeStep ==
  ASSUME CBP!IInv, IRTyped, BuildNode
  PROVE  CBP!IInv' /\ code' = Append(code, NextNode) /\ built' = built
<1>1. /\ Len(code) < Len(ir)
      /\ CASE NextNode.ir = "Function" -> CB!TakeFunction(NextNode.name)
           [] NextNode.ir = "Global"   -> CB!TakeGlobal(NextNode)
           [] OTHER                    -> CB!TakeNode(NextNode)
  BY DEF BuildNode
<1>2. PICK node : node = NextNode
  OBVIOUS
<1>3. node \in TranslatedNodes
  <2>1. code \in Seq(CBP!Nodes)
    BY DEF CBP!IInv, CBP!Owned
  <2>2. Len(code) + 1 \in 1 .. Len(ir) /\ ir \in Seq(TranslatedNodes)
    BY <1>1, <2>1 DEF IRTyped
  <2>3. PICK k \in 1 .. Len(ir) : k = Len(code) + 1
    BY <2>2
  <2>4. ir[k] \in TranslatedNodes
    BY <2>2
  <2> QED
    BY <1>2, <2>3, <2>4 DEF NextNode
<1>4. CASE node.ir = "Function"
  <2>1. CBP!TakeFunction(node.name) /\ node.name \in FuncNames
    BY <1>1, <1>2, <1>3, <1>4, SameBuilder, TranslatedKinds
  <2>2. CBP!Next
    BY <2>1 DEF CBP!Next
  <2>3. code' = Append(code, CBP!Function(node.name)) /\ built' = built
    BY <2>1 DEF CBP!TakeFunction, CBP!Takes
  <2>4. node = CBP!Function(node.name)
    BY <1>3, <1>4, TranslatedKinds
  <2> QED
    BY <1>2, <2>2, <2>3, <2>4, BuilderStep
<1>5. CASE node.ir = "Global"
  <2>1. CBP!TakeGlobal(node) /\ node \in GlobalNodes
    BY <1>1, <1>2, <1>3, <1>5, SameBuilder, TranslatedKinds
  <2>2. CBP!Next
    BY <2>1 DEF CBP!Next
  <2>3. code' = Append(code, node) /\ built' = built
    BY <2>1 DEF CBP!TakeGlobal, CBP!Takes
  <2> QED
    BY <1>2, <2>2, <2>3, BuilderStep
<1>6. CASE node.ir \notin {"Function", "Global"}
  <2>1. CBP!TakeNode(node)
    BY <1>1, <1>2, <1>6, SameBuilder
  <2>2. node \in BodyNodes \/ \E x \in Names \cup {""} : node = CBP!Return(x)
    BY <1>3, <1>6, TranslatedKinds
  <2>3. CBP!Next
    BY <2>1, <2>2 DEF CBP!Next
  <2>4. code' = Append(code, node) /\ built' = built
    BY <2>1 DEF CBP!TakeNode, CBP!Takes
  <2> QED
    BY <1>2, <2>3, <2>4, BuilderStep
<1> QED
  BY <1>4, <1>5, <1>6

-----------------------------------------------------------------------------
(* What CFGBuilder hands over.                                             *)

LEMMA SameFlatten ==
  ASSUME NEW s
  PROVE  CBP!FlattenSeq(s) = FlattenSeq(s) /\ BP!FlattenSeq(s) = FlattenSeq(s)
BY DEF FlattenSeq, CBP!FlattenSeq, BP!FlattenSeq

LEMMA LoweredTyped ==
  ASSUME NEW node \in CBP!LoweredNodes, node.ir \notin {"Return", "Global"}
  PROVE  node \in BE!IRNode
<1>1. CASE node \in BodyNodes
  BY <1>1 DEF BodyNodes
<1>2. ASSUME NEW n \in FuncNames, node = CBP!Function(n)
      PROVE  node \in BE!IRNode
  <2>1. n \in STRING
    BY TranslationAssumption
  <2> QED
    BY <1>2, <2>1 DEF CBP!Function, BE!IRNode
<1>3. ASSUME NEW n \in FuncNames,
             node = CBP!Goto(RetLabel(n)) \/ node = CBP!Label(RetLabel(n))
      PROVE  node \in BE!IRNode
  <2>1. PICK label \in STRING : label = RetLabel(n)
    BY TranslationAssumption
  <2>2. \E kind \in {"Label", "Goto"} : node = [ir |-> kind, label |-> label]
    BY <1>3, <2>1 DEF CBP!Goto, CBP!Label
  <2>3. node \in [ir : {"Label", "Goto"}, label : STRING]
    BY <2>2
  <2> QED
    BY <2>3 DEF BE!IRNode
<1>4. ASSUME NEW x \in Names, node = CBP!Assign("a0", x)
      PROVE  node \in BE!IRNode
  BY <1>4 DEF CBP!Assign, BE!IRNode
<1>5. ASSUME NEW x, node = CBP!Return(x)
      PROVE  FALSE
  BY <1>5 DEF CBP!Return
<1>6. node \notin GlobalNodes
  BY BuilderAssumption
<1> QED
  BY <1>1, <1>2, <1>3, <1>4, <1>5, <1>6 DEF CBP!LoweredNodes, CBP!Nodes

LEMMA EntryTyped ==
  ASSUME NEW function, NEW c, CBP!IsBuilt(function, c)
  PROVE  /\ function.entry \in Seq(BE!IRNode) /\ Entered(function)
         /\ function.name \in FuncNames
         /\ function.exit[1].label = RetLabel(function.name)
         /\ Last(function.exit).x \in {"", "a0"}
<1>1. PICK e : e = function.entry
  OBVIOUS
<1>2. PICK cn \in FuncNames : cn = function.name
  BY DEF CBP!IsBuilt, CBP!BuiltSet
<1>3. /\ e \in Seq(CBP!LoweredNodes) /\ Len(e) > 0 /\ e[1] = CBP!Function(cn)
      /\ \A i \in 2 .. Len(e) : CBP!BodyElement(e[i], cn)
  BY <1>1, <1>2 DEF CBP!IsBuilt, CBP!IsEntry
<1>4. Len(e) \in Nat /\ \A i \in 1 .. Len(e) : e[i] \in CBP!LoweredNodes
  BY <1>3
<1>5. \A i \in 1 .. Len(e) : i = 1 \/ i \in 2 .. Len(e)
  BY <1>4
<1>6. \A i \in 2 .. Len(e) : e[i].ir \notin {"Function", "Return", "Global"} /\ i # 1
  BY <1>3 DEF CBP!BodyElement
<1>7. e[1].ir = "Function"
  BY <1>3 DEF CBP!Function
<1>8. \A i \in 1 .. Len(e) : e[i] \in BE!IRNode
  BY <1>4, <1>5, <1>6, <1>7, LoweredTyped
<1>9. e \in Seq(BE!IRNode)
  BY <1>3, <1>4, <1>8
<1>10. Entered(function)
  BY <1>1, <1>3, <1>5, <1>6, <1>7 DEF Entered
<1>11. PICK x \in {"", "a0"} : function.exit = CBP!ExitOf(cn, x)
  BY <1>2 DEF CBP!IsBuilt, CBP!ExitValues
<1>12. PICK label : label = RetLabel(cn)
  OBVIOUS
<1>13. PICK a : a = [ir |-> "Label", label |-> label]
  OBVIOUS
<1>14. PICK b : b = [ir |-> "Return", x |-> x]
  OBVIOUS
<1>15. function.exit = << a, b >>
  BY <1>11, <1>12, <1>13, <1>14 DEF CBP!ExitOf, CBP!Label, CBP!Return
<1>16. function.exit[1] = a /\ Last(function.exit) = b
  BY <1>15, PairParts
<1>17. function.exit[1].label = RetLabel(cn) /\ Last(function.exit).x = x
  <2>1. a.label = label /\ b.x = x
    BY <1>13, <1>14
  <2> QED
    BY <1>12, <1>16, <2>1
<1> QED
  BY <1>1, <1>2, <1>9, <1>10, <1>17

\* The functions of the module hold the code, one entry block after the other.
LEMMA BuiltFunctions ==
  ASSUME CBP!IInv, built
  PROVE  /\ mod.functions \in Seq(CBP!BuiltSet)
         /\ \A f \in 1 .. Len(mod.functions) : CBP!IsBuilt(mod.functions[f], code)
         /\ \A f, g \in 1 .. Len(mod.functions) :
              mod.functions[f].name = mod.functions[g].name => f = g
         /\ CBP!Entries(mod.functions) = CBP!LoweredOf(code)
         /\ mod.globals \in Seq(GlobalNodes) /\ mod.globals = CBP!GlobalsIn(code)
<1>1. PICK fs : fs = mod.functions
  OBVIOUS
<1>2. /\ CBP!AreFunctions(fs, code) /\ current_func = << >>
      /\ CBP!Entries(fs) \o CBP!LoweredCurrent = CBP!LoweredOf(code)
      /\ mod.globals \in Seq(GlobalNodes) /\ mod.globals = CBP!GlobalsIn(code)
  BY <1>1 DEF CBP!IInv
<1>3. CBP!LoweredCurrent = << >>
  BY <1>2 DEF CBP!LoweredCurrent
<1>4. /\ fs \in Seq(CBP!BuiltSet)
      /\ \A f \in 1 .. Len(fs) : CBP!IsBuilt(fs[f], code)
      /\ \A f, g \in 1 .. Len(fs) : fs[f].name = fs[g].name => f = g
      /\ CBP!Entries(fs) \in Seq(CBP!LoweredNodes)
  BY <1>2 DEF CBP!AreFunctions
<1>5. CBP!Entries(fs) \o << >> = CBP!Entries(fs)
  BY <1>4
<1> QED
  BY <1>1, <1>2, <1>3, <1>4, <1>5

\* As sequences of the parts that nodes and functions become.
LEMMA LoweredParts ==
  ASSUME CBP!IInv
  PROVE  /\ CBP!LoweredOf(code) = FlattenSeq([i \in 1 .. Len(code) |-> CBP!LoweredAt(code, i)])
         /\ [i \in 1 .. Len(code) |-> CBP!LoweredAt(code, i)]
              \in [1 .. Len(code) -> Seq(CBP!LoweredNodes)]
         /\ CBP!GlobalsIn(code) = FlattenSeq([i \in 1 .. Len(code) |-> CBP!GlobalAt(code, i)])
         /\ [i \in 1 .. Len(code) |-> CBP!GlobalAt(code, i)]
              \in [1 .. Len(code) -> Seq(GlobalNodes)]
         /\ Len(code) \in Nat
<1>1. CBP!Owned(code)
  BY DEF CBP!IInv
<1>2. \A i \in 1 .. Len(code) : /\ CBP!LoweredAt(code, i) \in Seq(CBP!LoweredNodes)
                                /\ CBP!GlobalAt(code, i) \in Seq(GlobalNodes)
  BY <1>1, BuilderAssumption, CBP!LoweredAtSeq
<1>3. /\ CBP!LoweredOf(code) = FlattenSeq([i \in 1 .. Len(code) |-> CBP!LoweredAt(code, i)])
      /\ CBP!GlobalsIn(code) = FlattenSeq([i \in 1 .. Len(code) |-> CBP!GlobalAt(code, i)])
  BY SameFlatten DEF CBP!LoweredOf, CBP!GlobalsIn
<1>4. Len(code) \in Nat
  BY <1>1 DEF CBP!Owned
<1> QED
  BY <1>2, <1>3, <1>4

LEMMA SomeFunction ==
  ASSUME CBP!IInv, built, code = ir, IRTyped
  PROVE  Len(mod.functions) > 0
<1>1. PICK u : u = [i \in 1 .. Len(code) |-> CBP!LoweredAt(code, i)]
  OBVIOUS
<1>2. PICK n \in Nat : n = Len(code)
  BY LoweredParts
<1>3. u \in [1 .. n -> Seq(CBP!LoweredNodes)] /\ CBP!LoweredOf(code) = FlattenSeq(u)
  BY <1>1, <1>2, LoweredParts
<1>4. PICK i \in 1 .. n : code[i].ir = "Function"
  BY <1>2 DEF IRTyped
<1>5. u[i] = << code[i] >>
  <2>1. u[i] = CBP!LoweredAt(code, i)
    BY <1>1, <1>2
  <2> QED
    BY <1>4, <2>1 DEF CBP!LoweredAt, CBP!Lower
<1>6. 1 \in 1 .. Len(u[i])
  BY <1>5
<1>7. FlattenSeq(u) # << >>
  <2>1. u \in Seq(Seq(CBP!LoweredNodes)) /\ Len(u) = n
    BY <1>3
  <2>2. \E k \in 1 .. Len(FlattenSeq(u)) : FlattenSeq(u)[k] = u[i][1]
    BY <2>1, <1>6, JoinedInto
  <2> QED
    BY <2>2
<1>8. PICK fs : fs = mod.functions
  OBVIOUS
<1>9. fs \in Seq(CBP!BuiltSet) /\ CBP!Entries(fs) = CBP!LoweredOf(code)
  BY <1>8, BuiltFunctions
<1>10. ASSUME Len(fs) = 0
       PROVE  FALSE
  <2>1. [f \in 1 .. Len(fs) |-> fs[f].entry] = << >>
    BY <1>10
  <2>2. CBP!Entries(fs) = << >>
    BY <2>1, SameFlatten, FlattenEmpty DEF CBP!Entries
  <2> QED
    BY <1>3, <1>7, <1>9, <2>2
<1> QED
  BY <1>8, <1>9, <1>10

\* What the back end starts with.
HandedOver ==
  /\ Len(prog) = Len(mod.functions) /\ DOMAIN prog = 1 .. Len(mod.functions)
  /\ \A f \in 1 .. Len(mod.functions) :
       /\ prog[f].entry = mod.functions[f].entry
       /\ prog[f].exit = RetLabel(mod.functions[f].name)

LEMMA StartModule ==
  ASSUME CBP!IInv, built, code = ir, IRTyped, StartBackend
  PROVE  prog' \in Modules /\ Len(prog') = Len(mod.functions)
         /\ DOMAIN prog' = 1 .. Len(mod.functions)
         /\ \A f \in 1 .. Len(mod.functions) :
              /\ prog'[f].entry = mod.functions[f].entry
              /\ prog'[f].exit = RetLabel(mod.functions[f].name)
<1>1. PICK fs : fs = mod.functions
  OBVIOUS
<1>2. fs \in Seq(CBP!BuiltSet) /\ Len(fs) > 0
      /\ \A f \in 1 .. Len(fs) : CBP!IsBuilt(fs[f], code)
  BY <1>1, BuiltFunctions, SomeFunction
<1>3. DOMAIN fs = 1 .. Len(fs) /\ Len(fs) \in Nat
  BY <1>2
<1>4. prog' = [f \in 1 .. Len(fs) |-> [entry |-> fs[f].entry,
                                       exit  |-> fs[f].exit[1].label,
                                       ret   |-> Last(fs[f].exit).x]]
  BY <1>1, <1>3 DEF StartBackend
<1>5. ASSUME NEW f \in 1 .. Len(fs)
      PROVE  /\ prog'[f] \in BE!IRFunction /\ Entered(prog'[f])
             /\ prog'[f].entry = fs[f].entry /\ prog'[f].exit = RetLabel(fs[f].name)
  <2>1. PICK function : function = fs[f]
    OBVIOUS
  <2>2. /\ function.entry \in Seq(BE!IRNode) /\ Entered(function)
        /\ function.name \in FuncNames
        /\ function.exit[1].label = RetLabel(function.name)
        /\ Last(function.exit).x \in {"", "a0"}
    BY <1>2, <2>1, EntryTyped
  <2>3. PICK label \in STRING : label = RetLabel(function.name)
    BY <2>2, TranslationAssumption
  <2>4. prog'[f] = [entry |-> function.entry, exit |-> label, ret |-> Last(function.exit).x]
    BY <1>4, <2>1, <2>2, <2>3
  <2>5. prog'[f] \in BE!IRFunction
    <3>1. PICK ret \in {"", "a0"} : ret = Last(function.exit).x
      BY <2>2
    <3>2. PICK entry \in Seq(BE!IRNode) : entry = function.entry
      BY <2>2
    <3>3. PICK p : p = prog'[f]
      OBVIOUS
    <3>4. p = [entry |-> entry, exit |-> label, ret |-> ret]
      BY <2>4, <3>1, <3>2, <3>3
    <3>5. p \in [entry : Seq(BE!IRNode), exit : STRING, ret : {"", "a0"}]
      BY <3>4
    <3> QED
      BY <3>3, <3>5 DEF BE!IRFunction
  <2>6. prog'[f].entry = function.entry
    BY <2>4
  <2>7. Entered(prog'[f])
    BY <2>2, <2>6 DEF Entered
  <2> QED
    BY <2>1, <2>3, <2>4, <2>5, <2>7
<1>6. DOMAIN prog' = 1 .. Len(fs) /\ Len(prog') = Len(fs)
  BY <1>3, <1>4
<1>7. prog' \in Seq(BE!IRFunction)
  BY <1>3, <1>4, <1>5
<1> QED
  BY <1>1, <1>2, <1>5, <1>6, <1>7 DEF Modules

-----------------------------------------------------------------------------
(* The back end behind CFGBuilder.                                         *)

BackendHolds == BP!IInv /\ BP!ControlInv /\ BP!LayoutInv /\ BP!ReservedInv

LEMMA BackendStarts == BP!Init => BackendHolds
BY BP!InitOK, BP!ControlInitially, BP!LayoutInitially, BP!ReservedInitially,
   ImmediateAssumption, ModuleAssumption
DEF BackendHolds

LEMMA BackendStep == BackendHolds /\ [BP!Next]_(BP!vars) => BackendHolds'
<1>1. BP!IInv /\ [BP!Next]_(BP!vars) => BP!IInv'
  BY BP!NextOK, ImmediateAssumption, ModuleAssumption DEF BP!StepOK
<1>2. BP!IInv /\ BP!ControlInv /\ [BP!Next]_(BP!vars) => BP!ControlInv'
  BY BP!ControlNext, ImmediateAssumption, ModuleAssumption
<1>3. BP!IInv /\ BP!ControlInv /\ BP!LayoutInv /\ [BP!Next]_(BP!vars) => BP!LayoutInv'
  BY BP!LayoutNext, ImmediateAssumption, ModuleAssumption
<1>4. BP!IInv /\ BP!ControlInv /\ BP!ReservedInv /\ [BP!Next]_(BP!vars) => BP!ReservedInv'
  BY BP!ReservedNext, ImmediateAssumption, ModuleAssumption
<1> QED
  BY <1>1, <1>2, <1>3, <1>4 DEF BackendHolds

-----------------------------------------------------------------------------
(* The invariant.                                                          *)

Typed ==
  /\ source \in Sources /\ request \subseteq {"--ir", "--venus"}
  /\ status \in {"arguments", "translate", "build", "select", "backend", "print",
                 "run", "failed"}
  /\ prog \in Modules \cup {<< >>}

\* CFGBuilder takes the IR of the source node by node.
Building ==
  /\ CBP!IInv
  /\ status \in {"arguments", "translate"} => code = << >> /\ ~built
  /\ status \in {"build", "select", "print", "backend"} =>
       IRTyped /\ Len(code) <= Len(ir) /\ \A i \in 1 .. Len(code) : code[i] = ir[i]
  /\ status = "build" => ~built
  /\ status \in {"select", "print", "backend"} => built /\ Len(code) = Len(ir)

\* Before it has started, the back end is as it is made.
Waiting ==
  status \in {"arguments", "translate", "build", "select"} =>
    /\ prog = << >> /\ stage = "select" /\ cur = 1 /\ pos = 1
    /\ acc = << >> /\ out = << >> /\ ra_offset = 0 /\ fp_offset = 0

\* Then it is in a state of the back end's own model, on the module it was given.
Compiling ==
  status = "backend" => prog \in Modules /\ HandedOver /\ (BP!Init \/ BackendHolds)

\* TypeOK and PassesSound say nothing of CFGBuilder, which has to give the back end
\* what the back end's invariant starts from.
IInv == Typed /\ Building /\ Waiting /\ Compiling

LEMMA InitOK == Init => IInv
<1> SUFFICES ASSUME Init PROVE IInv
  OBVIOUS
<1>1. /\ source \in Sources /\ request \in Requests[source] /\ status = "arguments"
      /\ CB!Init /\ prog = << >> /\ stage = "select" /\ cur = 1 /\ pos = 1
      /\ acc = << >> /\ out = << >> /\ ra_offset = 0 /\ fp_offset = 0
  BY DEF Init
<1>2. Typed
  <2>1. Requests[source] \in SUBSET SUBSET {"--ir", "--venus"}
    BY <1>1, DriverAssumption
  <2> QED
    BY <1>1, <2>1 DEF Typed
<1>3. CBP!IInv /\ code = << >> /\ ~built
  <2>1. CBP!Init
    BY <1>1, SameBuilder
  <2> QED
    BY <2>1, BuilderInit DEF CBP!Init
<1>4. Building
  BY <1>1, <1>3 DEF Building
<1>5. Waiting /\ Compiling
  BY <1>1 DEF Waiting, Compiling
<1> QED
  BY <1>2, <1>4, <1>5 DEF IInv

\* Before and after the passes, nothing of them changes.
LEMMA OutsideStep ==
  ASSUME IInv, UNCHANGED << source, request, builderVars, prog >>, status' \in {"failed", "run"}
  PROVE  IInv'
<1>1. Typed'
  BY DEF IInv, Typed
<1>2. Building'
  <2>1. CBP!IInv'
    BY BuilderStays DEF IInv, Building
  <2> QED
    BY <2>1 DEF Building
<1>3. Waiting' /\ Compiling'
  BY DEF Waiting, Compiling
<1> QED
  BY <1>1, <1>2, <1>3 DEF IInv

LEMMA ArgumentStep ==
  ASSUME IInv, Argument
  PROVE  IInv'
<1>1. /\ status = "arguments" /\ status' \in {"failed", "translate"}
      /\ UNCHANGED << source, request, ir, builderVars, backVars >>
  BY DEF Argument
<1>2. Typed'
  BY <1>1 DEF IInv, Typed, backVars
<1>3. Building'
  <2>1. CBP!IInv'
    BY <1>1, BuilderStays DEF IInv, Building
  <2> QED
    BY <1>1, <2>1 DEF IInv, Building, builderVars
<1>4. Waiting' /\ Compiling'
  BY <1>1 DEF IInv, Waiting, Compiling, backVars
<1> QED
  BY <1>2, <1>3, <1>4 DEF IInv

LEMMA TranslateRootStep ==
  ASSUME IInv, TranslateRoot
  PROVE  IInv'
<1>1. /\ status = "translate" /\ UNCHANGED << source, request, builderVars, backVars >>
      /\ \/ status' = "failed"
         \/ /\ status' = "build" /\ ir' = Translated[source].code
            /\ ~Translated[source].failed
  BY DEF TranslateRoot
<1>2. Typed'
  BY <1>1 DEF IInv, Typed, backVars
<1>3. CBP!IInv' /\ code' = << >> /\ ~built'
  <2>1. CBP!IInv'
    BY <1>1, BuilderStays DEF IInv, Building
  <2> QED
    BY <1>1, <2>1 DEF IInv, Building, builderVars
<1>4. ASSUME status' = "build"
      PROVE  IRTyped'
  <2>1. source \in Sources /\ ir' = Translated[source].code /\ ~Translated[source].failed
    BY <1>1, <1>4 DEF IInv, Typed
  <2>2. PICK c : c = Translated[source].code
    OBVIOUS
  <2>3. c \in Seq(TranslatedNodes) /\ FunctionsOf(c) # {}
    BY <2>1, <2>2, TranslationAssumption DEF TranslatedNodes
  <2>4. \E i \in DOMAIN c : c[i].ir = "Function"
    BY <2>3 DEF FunctionsOf
  <2>5. DOMAIN c = 1 .. Len(c)
    BY <2>3
  <2> QED
    BY <2>1, <2>2, <2>3, <2>4, <2>5 DEF IRTyped
<1>5. Building'
  <2>1. Len(code') = 0 /\ 1 .. 0 = {}
    BY <1>3
  <2>2. status' = "build" => Len(ir') \in Nat
    BY <1>4 DEF IRTyped
  <2> QED
    BY <1>1, <1>3, <1>4, <2>1, <2>2 DEF Building
<1>6. Waiting' /\ Compiling'
  BY <1>1 DEF IInv, Waiting, Compiling, backVars
<1> QED
  BY <1>2, <1>5, <1>6 DEF IInv

LEMMA BuildNodeKeeps ==
  ASSUME IInv, BuildNode
  PROVE  IInv'
<1>1. /\ status = "build" /\ status' = status /\ Len(code) < Len(ir)
      /\ UNCHANGED << source, request, ir, backVars >>
  BY DEF BuildNode
<1>2. /\ CBP!IInv /\ IRTyped /\ Len(code) <= Len(ir) /\ ~built
      /\ \A i \in 1 .. Len(code) : code[i] = ir[i]
  BY <1>1 DEF IInv, Building
<1>3. CBP!IInv' /\ code' = Append(code, NextNode) /\ built' = built
  BY <1>2, BuildNodeStep
<1>4. code \in Seq(CBP!Nodes) /\ code' \in Seq(CBP!Nodes) /\ Len(ir) \in Nat
  BY <1>2, <1>3 DEF CBP!IInv, CBP!Owned, IRTyped
<1>5. /\ Len(code') = Len(code) + 1 /\ code'[Len(code) + 1] = NextNode
      /\ \A i \in 1 .. Len(code) : code'[i] = code[i]
  <2>1. PICK node : node = NextNode
    OBVIOUS
  <2> QED
    BY <1>3, <1>4, <2>1
<1>6. \A i \in 1 .. Len(code') : code'[i] = ir[i]
  <2>1. \A i \in 1 .. Len(code') : i \in 1 .. Len(code) \/ i = Len(code) + 1
    BY <1>4, <1>5
  <2> QED
    BY <1>2, <1>5, <2>1 DEF NextNode
<1>7. Len(code') <= Len(ir)
  BY <1>1, <1>4, <1>5
<1>8. IRTyped'
  BY <1>1, <1>2 DEF IRTyped
<1>9. Building'
  BY <1>1, <1>2, <1>3, <1>6, <1>7, <1>8 DEF Building
<1>10. Typed'
  BY <1>1 DEF IInv, Typed, backVars
<1>11. Waiting' /\ Compiling'
  BY <1>1 DEF IInv, Waiting, Compiling, backVars
<1> QED
  BY <1>9, <1>10, <1>11 DEF IInv

LEMMA BuildStep ==
  ASSUME IInv, Build
  PROVE  IInv'
<1>1. /\ status = "build" /\ status' \in {"print", "select"} /\ Len(code) = Len(ir)
      /\ CB!EndOfCode /\ UNCHANGED << source, request, ir, backVars >>
  BY DEF Build
<1>2. CBP!IInv /\ IRTyped /\ \A i \in 1 .. Len(code) : code[i] = ir[i]
  BY <1>1 DEF IInv, Building
<1>3. CBP!EndOfCode
  BY <1>1, SameBuilder
<1>4. CBP!IInv' /\ built' /\ code' = code
  <2>1. CBP!Next
    BY <1>3 DEF CBP!Next
  <2> QED
    BY <1>2, <1>3, <2>1, BuilderStep DEF CBP!EndOfCode
<1>5. IRTyped' /\ Len(ir) \in Nat
  BY <1>1, <1>2 DEF IRTyped
<1>6. Building'
  BY <1>1, <1>2, <1>4, <1>5 DEF Building
<1>7. Typed'
  BY <1>1 DEF IInv, Typed, backVars
<1>8. Waiting' /\ Compiling'
  BY <1>1 DEF IInv, Waiting, Compiling, backVars
<1> QED
  BY <1>6, <1>7, <1>8 DEF IInv

\* Once CFGBuilder has returned, it has taken all of the IR.
LEMMA CodeIsIR ==
  ASSUME IInv, status \in {"select", "print", "backend"}
  PROVE  CBP!IInv /\ built /\ code = ir /\ IRTyped
<1>1. /\ CBP!IInv /\ built /\ IRTyped /\ Len(code) = Len(ir)
      /\ \A i \in 1 .. Len(code) : code[i] = ir[i]
  BY DEF IInv, Building
<1>2. code \in Seq(CBP!Nodes) /\ ir \in Seq(TranslatedNodes)
  BY <1>1 DEF CBP!IInv, CBP!Owned, IRTyped
<1>3. code = ir
  BY <1>1, <1>2
<1> QED
  BY <1>1, <1>3

LEMMA StartBackendStep ==
  ASSUME IInv, StartBackend
  PROVE  IInv'
<1>1. /\ status = "select" /\ status' = "backend"
      /\ UNCHANGED << source, request, ir, builderVars, stage, cur, pos, acc,
                      ra_offset, fp_offset, out >>
      /\ frame' = [f \in DOMAIN prog' |-> BE!NewFrame]
      /\ asm' = [f \in DOMAIN prog' |-> << >>]
      /\ reserved' = [f \in DOMAIN prog' |-> BE!NotYet]
      /\ released' = [f \in DOMAIN prog' |-> BE!NotYet]
  BY DEF StartBackend
<1>2. CBP!IInv /\ built /\ code = ir /\ IRTyped
  BY <1>1, CodeIsIR
<1>3. /\ prog' \in Modules /\ Len(prog') = Len(mod.functions)
      /\ DOMAIN prog' = 1 .. Len(mod.functions)
      /\ \A f \in 1 .. Len(mod.functions) :
           /\ prog'[f].entry = mod.functions[f].entry
           /\ prog'[f].exit = RetLabel(mod.functions[f].name)
  BY <1>2, StartModule
<1>4. HandedOver'
  BY <1>1, <1>3 DEF HandedOver, builderVars
<1>5. BP!Init'
  <2>1. BP!Funcs' = DOMAIN prog'
    BY <1>3 DEF BP!Funcs
  <2>2. BE!NewFrame = BP!NewFrame /\ BE!NotYet = BP!NotYet
    BY DEF BE!NewFrame, BP!NewFrame, BE!NotYet, BP!NotYet
  <2>3. /\ stage' = "select" /\ cur' = 1 /\ pos' = 1 /\ acc' = << >> /\ out' = << >>
        /\ ra_offset' = 0 /\ fp_offset' = 0
    BY <1>1 DEF IInv, Waiting
  <2> QED
    BY <1>1, <1>3, <2>1, <2>2, <2>3 DEF BP!Init
<1>6. Compiling'
  BY <1>3, <1>4, <1>5 DEF Compiling
<1>7. Building'
  <2>1. CBP!IInv'
    BY <1>1, <1>2, BuilderStays
  <2>2. IRTyped' /\ Len(ir) \in Nat
    BY <1>1, <1>2 DEF IRTyped
  <2> QED
    BY <1>1, <1>2, <2>1, <2>2 DEF Building, builderVars
<1>8. Typed'
  BY <1>1, <1>3 DEF IInv, Typed
<1>9. Waiting'
  BY <1>1 DEF Waiting
<1> QED
  BY <1>6, <1>7, <1>8, <1>9 DEF IInv

\* A step behind CFGBuilder that the back end's own model allows.
LEMMA CompilingStep ==
  ASSUME IInv, status = "backend", status' = "backend",
         UNCHANGED << source, request, ir, builderVars >>, [BP!Next]_(BP!vars)
  PROVE  IInv'
<1>1. prog \in Modules /\ HandedOver /\ BackendHolds
  BY BackendStarts DEF IInv, Compiling
<1>2. prog' = prog
  BY BP!ProgramKept, ImmediateAssumption, ModuleAssumption
<1>3. BackendHolds'
  BY <1>1, BackendStep
<1>4. HandedOver'
  BY <1>1, <1>2 DEF HandedOver, builderVars
<1>5. Compiling'
  BY <1>1, <1>2, <1>3, <1>4 DEF Compiling
<1>6. Building'
  <2>1. CBP!IInv'
    BY BuilderStays DEF IInv, Building
  <2>2. IRTyped'
    BY DEF IRTyped, IInv, Building
  <2> QED
    BY <2>1, <2>2 DEF IInv, Building, builderVars
<1>7. Typed' /\ Waiting'
  BY <1>2 DEF IInv, Typed, Waiting
<1> QED
  BY <1>5, <1>6, <1>7 DEF IInv

LEMMA RunBackendNext ==
  ASSUME RunBackend
  PROVE  BP!Next
BY SameSelect, SameAllocate, SameEmit DEF RunBackend, BP!Next

LEMMA RunBackendStep ==
  ASSUME IInv, RunBackend
  PROVE  IInv'
<1>1. /\ status = "backend" /\ status' \in {"failed", "backend"}
      /\ UNCHANGED << source, request, ir, builderVars >>
  BY DEF RunBackend
<1>2. BP!Next
  BY RunBackendNext
<1>3. CASE status' = "backend"
  BY <1>1, <1>2, <1>3, CompilingStep
<1>4. CASE status' = "failed"
  <2>1. prog' = prog
    BY <1>2, BP!ProgramKept, ImmediateAssumption, ModuleAssumption
  <2> QED
    BY <1>1, <1>4, <2>1, OutsideStep
<1> QED
  BY <1>1, <1>3, <1>4

LEMMA EmitGlobalStep ==
  ASSUME IInv, EmitGlobal
  PROVE  IInv'
<1>1. /\ status = "backend" /\ status' = "backend"
      /\ UNCHANGED << source, request, ir, builderVars, backVars >>
  BY DEF EmitGlobal
<1>2. UNCHANGED BP!vars
  BY <1>1 DEF backVars, BP!vars, BP!passVars, BP!emitVars
<1> QED
  BY <1>1, <1>2, CompilingStep

LEMMA UnchangedStep ==
  ASSUME IInv, UNCHANGED vars
  PROVE  IInv'
<1>1. /\ UNCHANGED << source, request, ir, builderVars, backVars >> /\ status' = status
  BY DEF vars
<1>2. CASE status = "backend"
  <2>1. UNCHANGED BP!vars
    BY <1>1 DEF backVars, BP!vars, BP!passVars, BP!emitVars
  <2> QED
    BY <1>1, <1>2, <2>1, CompilingStep
<1>3. CASE status # "backend"
  <2>1. CBP!IInv'
    BY <1>1, BuilderStays DEF IInv, Building
  <2>2. IRTyped => IRTyped'
    BY <1>1 DEF IRTyped
  <2>3. Building'
    BY <1>1, <2>1, <2>2 DEF IInv, Building, builderVars
  <2>4. Typed' /\ Waiting' /\ Compiling'
    BY <1>1, <1>3 DEF IInv, Typed, Waiting, Compiling, backVars
  <2> QED
    BY <2>3, <2>4 DEF IInv
<1> QED
  BY <1>2, <1>3

LEMMA NextOK == IInv /\ [Next]_vars => IInv'
<1> SUFFICES ASSUME IInv, [Next]_vars PROVE IInv'
  OBVIOUS
<1>1. CASE Argument
  BY <1>1, ArgumentStep
<1>2. CASE TranslateRoot
  BY <1>2, TranslateRootStep
<1>3. CASE BuildNode
  BY <1>3, BuildNodeKeeps
<1>4. CASE Build
  BY <1>4, BuildStep
<1>5. CASE StartBackend
  BY <1>5, StartBackendStep
<1>6. CASE EmitGlobal
  BY <1>6, EmitGlobalStep
<1>7. CASE RunBackend
  BY <1>7, RunBackendStep
<1>8. CASE PrintIR
  BY <1>8, OutsideStep DEF PrintIR, backVars
<1>9. CASE LoadAssembly
  BY <1>9, OutsideStep DEF LoadAssembly, backVars
<1>10. CASE RunIR
  BY <1>10, OutsideStep DEF RunIR, backVars
<1>11. CASE RunAssembly
  BY <1>11, OutsideStep DEF RunAssembly
<1>12. CASE UNCHANGED vars
  BY <1>12, UnchangedStep
<1> QED
  BY <1>1, <1>2, <1>3, <1>4, <1>5, <1>6, <1>7, <1>8, <1>9, <1>10, <1>11, <1>12
  DEF Next, Finished

LEMMA Invariant == Spec => []IInv
BY InitOK, NextOK, PTL DEF Spec

\* main.cpp gives the back end what it is made for, whatever the program: functions
\* that begin at their one Function node, without Return and Global nodes, whose
\* registers are not the machine's (TypeOK; main.cpp, build_single_func).
THEOREM TypeCorrect == Spec => []TypeOK
<1>1. IInv => TypeOK
  <2> SUFFICES ASSUME IInv PROVE TypeOK
    OBVIOUS
  <2>1. Typed
    BY DEF IInv
  <2>2. ASSUME NEW f \in DOMAIN prog
        PROVE  /\ prog[f] \in BE!IRFunction
               /\ \A i \in DOMAIN prog[f].entry : prog[f].entry[i].ir = "Function" <=> i = 1
    <3>1. prog \in Modules
      BY <2>1, <2>2 DEF Typed
    <3>2. prog \in Seq(BE!IRFunction) /\ \A g \in 1 .. Len(prog) : Entered(prog[g])
      BY <3>1 DEF Modules
    <3>3. f \in 1 .. Len(prog) /\ prog[f] \in BE!IRFunction
      BY <3>2
    <3>4. prog[f].entry \in Seq(BE!IRNode)
      BY <3>3 DEF BE!IRFunction
    <3> QED
      BY <3>2, <3>3, <3>4 DEF Entered
  <2> QED
    BY <2>1, <2>2 DEF TypeOK, Typed
<1> QED
  BY <1>1, Invariant, PTL

\* Behind CFGBuilder, and with the data section emitted in between, the passes keep
\* the frames apart, accesses in their slots, the output legal and prologues and
\* epilogues in balance, for every translation (PassesSound; main.cpp).
THEOREM PassesStaySound == Spec => []PassesSound
<1>1. IInv => PassesSound
  <2> SUFFICES ASSUME IInv, status = "backend" PROVE PassesSound
    BY DEF PassesSound
  <2>1. BP!IInv
    BY BackendStarts DEF IInv, Compiling, BackendHolds
  <2> QED
    BY <2>1, SameProperties DEF PassesSound
<1> QED
  BY <1>1, Invariant, PTL

-----------------------------------------------------------------------------
(* Labels and functions: how often code has a place for a label.           *)

IsPlace(node, label) ==
  \/ node.ir = "Label" /\ node.label = label
  \/ node.ir = "Function" /\ node.name = label

PlaceNodes(label) ==
  {node \in TranslatedNodes \cup CBP!LoweredNodes : IsPlace(node, label)}

PlaceTransfers(label) ==
  {t \in BP!Transfers : t.kind \in {"Label", "Function"} /\ t.label = label}

PlaceInsts(label) ==
  {inst \in BP!InstSet : inst.kind \in {"Label", "Function"} /\ inst.label = label}

\* The two nodes and the two transfers are each other's kind, with the same label.
Matches(t, node) ==
  /\ t.kind = "Label" <=> node.ir = "Label"
  /\ t.kind = "Function" <=> node.ir = "Function"
  /\ t.kind = "Jump" <=> node.ir = "Goto"
  /\ t.kind = "Branch" <=> node.ir = "If"
  /\ t.kind = "Call" <=> node.ir = "Call"
  /\ t.kind = "La" <=> node.ir = "LoadAddr"
  /\ node.ir \in {"Label", "Goto", "If", "LoadAddr"} => t.label = node.label
  /\ node.ir = "Function" => t.label = node.name
  /\ node.ir = "Call" => t.label = node.func

LEMMA NodeControlIs ==
  ASSUME NEW node \in BE!IRNode
  PROVE  \/ /\ BP!NodeControl(node) = << >>
            /\ node.ir \notin {"Label", "Function", "Goto", "If", "Call", "LoadAddr"}
         \/ \E t \in BP!Transfers : BP!NodeControl(node) = << t >> /\ Matches(t, node)
<1>1. BP!NodeControl(node) \in Seq(BP!Transfers)
  <2>1. node \in BP!IRNode
    BY SameFunctions
  <2> QED
    BY <2>1, BP!NodeTyped, ImmediateAssumption, ModuleAssumption
<1>2. ASSUME NEW t, BP!NodeControl(node) = << t >>
      PROVE  t \in BP!Transfers
  <2>1. << t >> \in Seq(BP!Transfers)
    BY <1>1, <1>2
  <2>2. \A s \in Seq(BP!Transfers) : \A i \in 1 .. Len(s) : s[i] \in BP!Transfers
    OBVIOUS
  <2>3. Len(<< t >>) = 1 /\ << t >>[1] = t
    OBVIOUS
  <2> QED
    BY <2>1, <2>2, <2>3
<1>3. CASE node.ir = "Label"
  <2>1. PICK t : t = BP!Transfer("Label", BP!Unused, node.label)
    OBVIOUS
  <2>2. BP!NodeControl(node) = << t >>
    BY <1>3, <2>1 DEF BP!NodeControl
  <2>3. Matches(t, node)
    BY <1>3, <2>1 DEF Matches, BP!Transfer
  <2> QED
    BY <1>2, <2>2, <2>3
<1>4. CASE node.ir = "Function"
  <2>1. PICK t : t = BP!Transfer("Function", BP!Unused, node.name)
    OBVIOUS
  <2>2. BP!NodeControl(node) = << t >>
    BY <1>4, <2>1 DEF BP!NodeControl
  <2>3. Matches(t, node)
    BY <1>4, <2>1 DEF Matches, BP!Transfer
  <2> QED
    BY <1>2, <2>2, <2>3
<1>5. CASE node.ir = "Goto"
  <2>1. PICK t : t = BP!Transfer("Jump", BP!Unused, node.label)
    OBVIOUS
  <2>2. BP!NodeControl(node) = << t >>
    BY <1>5, <2>1 DEF BP!NodeControl
  <2>3. Matches(t, node)
    BY <1>5, <2>1 DEF Matches, BP!Transfer
  <2> QED
    BY <1>2, <2>2, <2>3
<1>6. CASE node.ir = "If"
  <2>1. PICK t : t = BP!Transfer("Branch", node.op, node.label)
    OBVIOUS
  <2>2. BP!NodeControl(node) = << t >>
    BY <1>6, <2>1 DEF BP!NodeControl
  <2>3. Matches(t, node)
    BY <1>6, <2>1 DEF Matches, BP!Transfer
  <2> QED
    BY <1>2, <2>2, <2>3
<1>7. CASE node.ir = "Call"
  <2>1. PICK t : t = BP!Transfer("Call", BP!Unused, node.func)
    OBVIOUS
  <2>2. BP!NodeControl(node) = << t >>
    BY <1>7, <2>1 DEF BP!NodeControl
  <2>3. Matches(t, node)
    BY <1>7, <2>1 DEF Matches, BP!Transfer
  <2> QED
    BY <1>2, <2>2, <2>3
<1>8. CASE node.ir = "LoadAddr"
  <2>1. PICK t : t = BP!Transfer("La", BP!Unused, node.label)
    OBVIOUS
  <2>2. BP!NodeControl(node) = << t >>
    BY <1>8, <2>1 DEF BP!NodeControl
  <2>3. Matches(t, node)
    BY <1>8, <2>1 DEF Matches, BP!Transfer
  <2> QED
    BY <1>2, <2>2, <2>3
<1>9. CASE node.ir \notin {"Label", "Function", "Goto", "If", "Call", "LoadAddr"}
  BY <1>9 DEF BP!NodeControl
<1> QED
  BY <1>3, <1>4, <1>5, <1>6, <1>7, <1>8, <1>9

\* What a node of an entry block becomes has a place for a label if the node is one.
LEMMA NodePlaces ==
  ASSUME NEW node \in BE!IRNode, node \in CBP!LoweredNodes, NEW label
  PROVE  /\ Once(BP!NodeControl(node), PlaceTransfers(label)) <=> node \in PlaceNodes(label)
         /\ Never(BP!NodeControl(node), PlaceTransfers(label)) <=> node \notin PlaceNodes(label)
<1>1. PICK s : s = BP!NodeControl(node)
  OBVIOUS
<1>2. node \in PlaceNodes(label) <=> IsPlace(node, label)
  BY DEF PlaceNodes
<1>3. CASE /\ s = << >>
           /\ node.ir \notin {"Label", "Function", "Goto", "If", "Call", "LoadAddr"}
  <2>1. ~IsPlace(node, label)
    BY <1>3 DEF IsPlace
  <2> QED
    BY <1>1, <1>2, <1>3, <2>1, OnceTuples
<1>4. ASSUME NEW t \in BP!Transfers, s = << t >>, Matches(t, node)
      PROVE  /\ Once(s, PlaceTransfers(label)) <=> node \in PlaceNodes(label)
             /\ Never(s, PlaceTransfers(label)) <=> node \notin PlaceNodes(label)
  <2>1. t \in PlaceTransfers(label) <=> IsPlace(node, label)
    BY <1>4 DEF PlaceTransfers, IsPlace, Matches
  <2>2. /\ Never(<< t >>, PlaceTransfers(label)) <=> t \notin PlaceTransfers(label)
        /\ Once(<< t >>, PlaceTransfers(label)) <=> t \in PlaceTransfers(label)
    BY OnceTuples
  <2> QED
    BY <1>2, <1>4, <2>1, <2>2
<1> QED
  BY <1>1, <1>3, <1>4, NodeControlIs

\* The same of all of an entry block.
LEMMA EntryPlaces ==
  ASSUME NEW e \in Seq(BE!IRNode), \A i \in 1 .. Len(e) : e[i] \in CBP!LoweredNodes, NEW label
  PROVE  /\ BP!NodesControl(e) \in Seq(BP!Transfers)
         /\ Once(BP!NodesControl(e), PlaceTransfers(label)) <=> Once(e, PlaceNodes(label))
         /\ Never(BP!NodesControl(e), PlaceTransfers(label)) <=> Never(e, PlaceNodes(label))
<1>1. e \in Seq(BP!IRNode) /\ \A i \in 1 .. Len(e) : e[i] \in BE!IRNode
  BY SameFunctions
<1>2. PICK u : u = [i \in DOMAIN e |-> BP!NodeControl(e[i])]
  OBVIOUS
<1>3. u \in [1 .. Len(e) -> Seq(BP!Transfers)]
  BY <1>1, <1>2, BP!NodesParts, ImmediateAssumption, ModuleAssumption
<1>4. BP!NodesControl(e) = FlattenSeq(u)
  BY <1>2, SameFlatten DEF BP!NodesControl
<1>5. \A i \in 1 .. Len(e) : u[i] = BP!NodeControl(e[i])
  BY <1>2
<1>6. \A i \in 1 .. Len(e) :
        /\ Once(u[i], PlaceTransfers(label)) <=> e[i] \in PlaceNodes(label)
        /\ Never(u[i], PlaceTransfers(label)) <=> e[i] \notin PlaceNodes(label)
  BY <1>1, <1>5, NodePlaces
<1>7. /\ Once(FlattenSeq(u), PlaceTransfers(label)) <=> Once(e, PlaceNodes(label))
      /\ Never(FlattenSeq(u), PlaceTransfers(label)) <=> Never(e, PlaceNodes(label))
  BY <1>3, <1>6, MappedCounts
<1>8. BP!NodesControl(e) \in Seq(BP!Transfers)
  BY <1>1, BP!NodesCode, ImmediateAssumption, ModuleAssumption
<1> QED
  BY <1>4, <1>7, <1>8

\* The same of the code the emitter has put out.
LEMMA OutPlaces ==
  ASSUME NEW c \in Seq(BP!InstSet), NEW label
  PROVE  /\ Once(BP!Control(c), PlaceTransfers(label)) <=> Once(c, PlaceInsts(label))
         /\ Never(BP!Control(c), PlaceTransfers(label)) <=> Never(c, PlaceInsts(label))
<1>1. PICK u : u = [i \in DOMAIN c |-> BP!ControlOf(c[i])]
  OBVIOUS
<1>2. u \in [1 .. Len(c) -> Seq(BP!Transfers)]
  BY <1>1, BP!ControlParts, ImmediateAssumption, ModuleAssumption
<1>3. BP!Control(c) = FlattenSeq(u)
  BY <1>1, SameFlatten DEF BP!Control
<1>4. ASSUME NEW i \in 1 .. Len(c)
      PROVE  /\ Once(u[i], PlaceTransfers(label)) <=> c[i] \in PlaceInsts(label)
             /\ Never(u[i], PlaceTransfers(label)) <=> c[i] \notin PlaceInsts(label)
  <2>1. PICK inst \in BP!InstSet : inst = c[i]
    OBVIOUS
  <2>2. u[i] = BP!ControlOf(inst)
    BY <1>1, <2>1
  <2>3. PICK t : t = BP!Transfer(inst.kind, inst.op, inst.label)
    OBVIOUS
  <2>4. t \in BP!Transfers
    BY <2>3 DEF BP!InstSet, BP!Transfers, BP!Transfer
  <2>5. t.kind = inst.kind /\ t.label = inst.label
    BY <2>3 DEF BP!Transfer
  <2>6. t \in PlaceTransfers(label) <=> inst \in PlaceInsts(label)
    BY <2>1, <2>4, <2>5 DEF PlaceTransfers, PlaceInsts
  <2>7. CASE u[i] = << t >>
    BY <2>1, <2>6, <2>7, OnceTuples
  <2>8. CASE u[i] # << t >>
    <3>1. u[i] = << >> /\ inst.kind \notin {"Label", "Function"}
      BY <2>2, <2>3, <2>8 DEF BP!ControlOf
    <3>2. inst \notin PlaceInsts(label)
      BY <3>1 DEF PlaceInsts
    <3> QED
      BY <2>1, <3>1, <3>2, OnceTuples
  <2> QED
    BY <2>7, <2>8
<1>5. /\ Once(FlattenSeq(u), PlaceTransfers(label)) <=> Once(c, PlaceInsts(label))
      /\ Never(FlattenSeq(u), PlaceTransfers(label)) <=> Never(c, PlaceInsts(label))
  BY <1>2, <1>4, MappedCounts
<1> QED
  BY <1>3, <1>5

\* And of CFGBuilder's lowering, which adds no places and drops none.
LEMMA LoweringPlaces ==
  ASSUME CBP!IInv, NEW label
  PROVE  /\ Once(CBP!LoweredOf(code), PlaceNodes(label)) <=> Once(code, PlaceNodes(label))
         /\ Never(CBP!LoweredOf(code), PlaceNodes(label)) <=> Never(code, PlaceNodes(label))
<1>1. PICK u : u = [i \in 1 .. Len(code) |-> CBP!LoweredAt(code, i)]
  OBVIOUS
<1>2. /\ u \in [1 .. Len(code) -> Seq(CBP!LoweredNodes)]
      /\ CBP!LoweredOf(code) = FlattenSeq(u)
  BY <1>1, LoweredParts
<1>3. code \in Seq(CBP!Nodes)
  BY DEF CBP!IInv, CBP!Owned
<1>4. ASSUME NEW i \in 1 .. Len(code)
      PROVE  /\ Once(u[i], PlaceNodes(label)) <=> code[i] \in PlaceNodes(label)
             /\ Never(u[i], PlaceNodes(label)) <=> code[i] \notin PlaceNodes(label)
  <2>1. PICK node : node = code[i]
    OBVIOUS
  <2>2. PICK n : n = CBP!OwnerIn(code, i)
    OBVIOUS
  <2>3. u[i] = IF node.ir = "Global" THEN << >> ELSE CBP!Lower(node, n)
    BY <1>1, <2>1, <2>2 DEF CBP!LoweredAt
  <2>4. CASE node.ir = "Global"
    <3>1. u[i] = << >> /\ node \notin PlaceNodes(label)
      BY <2>3, <2>4 DEF PlaceNodes, IsPlace
    <3> QED
      BY <2>1, <3>1, OnceTuples
  <2>5. CASE node.ir = "Return"
    <3>1. node \notin PlaceNodes(label)
      BY <2>5 DEF PlaceNodes, IsPlace
    <3>2. PICK goto : goto = CBP!Goto(RetLabel(n))
      OBVIOUS
    <3>3. PICK assign : assign = CBP!Assign("a0", node.x)
      OBVIOUS
    <3>4. u[i] = << goto >> \/ u[i] = << assign, goto >>
      BY <2>3, <2>5, <3>2, <3>3 DEF CBP!Lower
    <3>5. goto \notin PlaceNodes(label) /\ assign \notin PlaceNodes(label)
      BY <3>2, <3>3 DEF PlaceNodes, IsPlace, CBP!Goto, CBP!Assign
    <3>6. Never(u[i], PlaceNodes(label)) /\ ~Once(u[i], PlaceNodes(label))
      <4>1. CASE u[i] = << goto >>
        BY <3>5, <4>1, OnceTuples
      <4>2. CASE u[i] = << assign, goto >>
        <5>1. /\ Never(<< assign, goto >>, PlaceNodes(label))
              /\ ~Once(<< assign, goto >>, PlaceNodes(label))
          BY <3>5, PairNever
        <5> QED
          BY <4>2, <5>1
      <4> QED
        BY <3>4, <4>1, <4>2
    <3> QED
      BY <2>1, <3>1, <3>6
  <2>6. CASE node.ir \notin {"Return", "Global"}
    <3>1. u[i] = << node >>
      BY <2>3, <2>6 DEF CBP!Lower
    <3> QED
      BY <2>1, <3>1, OnceTuples
  <2> QED
    BY <2>4, <2>5, <2>6
<1>5. Once(FlattenSeq(u), PlaceNodes(label)) <=> Once(code, PlaceNodes(label))
  BY <1>2, <1>3, <1>4, MappedCounts
<1>6. Never(FlattenSeq(u), PlaceNodes(label)) <=> Never(code, PlaceNodes(label))
  BY <1>2, <1>3, <1>4, MappedCounts
<1> QED
  BY <1>2, <1>5, <1>6

\* A function's transfers have the places of its entry block, and its exit block's.
LEMMA FunctionPlaces ==
  ASSUME NEW e \in Seq(BE!IRNode), \A i \in 1 .. Len(e) : e[i] \in CBP!LoweredNodes,
         NEW function, function.entry = e, function.exit \in STRING, NEW label
  PROVE  /\ BP!FunctionControl(function) \in Seq(BP!Transfers)
         /\ label # function.exit =>
              /\ Once(BP!FunctionControl(function), PlaceTransfers(label))
                   <=> Once(e, PlaceNodes(label))
              /\ Never(BP!FunctionControl(function), PlaceTransfers(label))
                   <=> Never(e, PlaceNodes(label))
         /\ label = function.exit /\ Never(e, PlaceNodes(label)) =>
              Once(BP!FunctionControl(function), PlaceTransfers(label))
<1>1. PICK a : a = BP!Transfer("Label", BP!Unused, function.exit)
  OBVIOUS
<1>2. PICK b : b = BP!Transfer("Ret", BP!Unused, BP!Unused)
  OBVIOUS
<1>3. /\ a \in BP!Transfers /\ b \in BP!Transfers
      /\ a.kind = "Label" /\ a.label = function.exit /\ b.kind = "Ret"
  <2>1. {"Label", "Ret"} \subseteq BP!Kinds
    BY DEF BP!Kinds
  <2> QED
    BY <1>1, <1>2, <2>1 DEF BP!Transfer, BP!Transfers
<1>4. PICK s : s = BP!NodesControl(e)
  OBVIOUS
<1>5. /\ s \in Seq(BP!Transfers)
      /\ Once(s, PlaceTransfers(label)) <=> Once(e, PlaceNodes(label))
      /\ Never(s, PlaceTransfers(label)) <=> Never(e, PlaceNodes(label))
  BY <1>4, EntryPlaces
<1>6. PICK t : t = << a, b >>
  OBVIOUS
<1>7. t \in Seq(BP!Transfers)
  BY <1>3, <1>6
<1>8. BP!FunctionControl(function) = s \o t
  BY <1>1, <1>2, <1>4, <1>6 DEF BP!FunctionControl
<1>9. /\ Never(s \o t, PlaceTransfers(label)) <=>
           Never(s, PlaceTransfers(label)) /\ Never(t, PlaceTransfers(label))
      /\ Once(s \o t, PlaceTransfers(label)) <=>
           \/ Once(s, PlaceTransfers(label)) /\ Never(t, PlaceTransfers(label))
           \/ Never(s, PlaceTransfers(label)) /\ Once(t, PlaceTransfers(label))
  BY <1>5, <1>7, OnceConcat
<1>10. b \notin PlaceTransfers(label) /\ (a \in PlaceTransfers(label) <=> label = function.exit)
  BY <1>3 DEF PlaceTransfers
<1>11. CASE label # function.exit
  <2>1. Never(t, PlaceTransfers(label)) /\ ~Once(t, PlaceTransfers(label))
    BY <1>6, <1>10, <1>11, PairNever
  <2>2. /\ Once(s \o t, PlaceTransfers(label)) <=> Once(e, PlaceNodes(label))
        /\ Never(s \o t, PlaceTransfers(label)) <=> Never(e, PlaceNodes(label))
    BY <1>5, <1>9, <2>1
  <2>3. s \o t \in Seq(BP!Transfers)
    BY <1>5, <1>7
  <2> QED
    BY <1>8, <1>11, <2>2, <2>3
<1>12. CASE label = function.exit
  <2>1. Once(t, PlaceTransfers(label))
    <3>1. Len(t) = 2 /\ t[1] = a /\ t[2] = b
      BY <1>6
    <3>2. 1 .. 2 = {1, 2}
      OBVIOUS
    <3>3. PICK D : D = PlaceTransfers(label)
      OBVIOUS
    <3>4. t[1] \in D /\ t[2] \notin D
      BY <1>10, <1>12, <3>1, <3>3
    <3> QED
      BY <3>1, <3>2, <3>3, <3>4 DEF Once
  <2>2. Never(e, PlaceNodes(label)) => Once(s \o t, PlaceTransfers(label))
    BY <1>5, <1>9, <2>1
  <2>3. s \o t \in Seq(BP!Transfers)
    BY <1>5, <1>7
  <2> QED
    BY <1>8, <1>12, <2>2, <2>3
<1> QED
  BY <1>11, <1>12

\* No entry block has a place for the label of an exit block.
LEMMA NoExitPlaces ==
  ASSUME NEW e, NEW cn \in FuncNames, CBP!IsEntry(e, cn), NEW n \in FuncNames
  PROVE  Never(e, PlaceNodes(RetLabel(n)))
<1>1. /\ e \in Seq(CBP!LoweredNodes) /\ e[1] = CBP!Function(cn)
      /\ \A i \in 2 .. Len(e) : CBP!BodyElement(e[i], cn)
  BY DEF CBP!IsEntry
<1>2. PICK label : label = RetLabel(n)
  OBVIOUS
<1>3. e[1] \notin PlaceNodes(label)
  <2>1. cn # label
    BY <1>2, TranslationAssumption DEF NoExit
  <2> QED
    BY <1>1, <2>1 DEF PlaceNodes, IsPlace, CBP!Function
<1>4. ASSUME NEW i \in 2 .. Len(e)
      PROVE  e[i] \notin PlaceNodes(label)
  <2>1. PICK node \in CBP!LoweredNodes : node = e[i]
    BY <1>1
  <2>2. /\ node.ir \notin {"Function", "Return", "Global"}
        /\ \A m \in FuncNames : node # CBP!Label(RetLabel(m))
    BY <1>1, <2>1 DEF CBP!BodyElement
  <2>3. CASE node.ir # "Label"
    BY <2>1, <2>2, <2>3 DEF PlaceNodes, IsPlace
  <2>4. CASE node.ir = "Label"
    <3>1. node \in BodyNodes
      <4>1. node \notin GlobalNodes
        BY <2>2, BuilderAssumption
      <4>2. \A x : /\ CBP!Function(x).ir = "Function" /\ CBP!Goto(x).ir = "Goto"
                   /\ CBP!Return(x).ir = "Return" /\ CBP!Assign("a0", x).ir = "Assign"
        BY DEF CBP!Function, CBP!Goto, CBP!Assign, CBP!Return
      <4> QED
        BY <2>1, <2>2, <2>4, <4>1, <4>2 DEF CBP!LoweredNodes, CBP!Nodes
    <3>2. NoExit(node.label)
      BY <2>4, <3>1 DEF BodyNodes
    <3>3. node.label # label
      BY <1>2, <3>2 DEF NoExit
    <3> QED
      BY <2>1, <2>4, <3>3 DEF PlaceNodes, IsPlace
  <2> QED
    BY <2>3, <2>4
<1>5. Never(e, PlaceNodes(label))
  <2>1. \A i \in 1 .. Len(e) : i = 1 \/ i \in 2 .. Len(e)
    BY <1>1
  <2> QED
    BY <1>3, <1>4, <2>1 DEF Never
<1> QED
  BY <1>2, <1>5

-----------------------------------------------------------------------------
(* The places of the assembly are those of the IR.                         *)

\* The back end has emitted what CFGBuilder handed over.
Emptied ==
  /\ CBP!IInv /\ built /\ code = ir /\ IRTyped
  /\ prog \in Modules /\ HandedOver /\ BackendHolds /\ stage = "done"

LEMMA WhenDone ==
  ASSUME IInv, status = "backend", stage = "done"
  PROVE  Emptied
<1>1. CBP!IInv /\ built /\ code = ir /\ IRTyped
  BY CodeIsIR
<1>2. prog \in Modules /\ HandedOver /\ BackendHolds
  BY BackendStarts DEF IInv, Compiling
<1> QED
  BY <1>1, <1>2 DEF Emptied

\* The f-th function, as the back end has it.
LEMMA FunctionFacts ==
  ASSUME Emptied
  PROVE  /\ Len(mod.functions) \in Nat
         /\ \A f \in 1 .. Len(mod.functions) :
              /\ mod.functions[f].name \in FuncNames
              /\ CBP!IsEntry(mod.functions[f].entry, mod.functions[f].name)
              /\ mod.functions[f].entry \in Seq(BE!IRNode)
              /\ \A i \in 1 .. Len(mod.functions[f].entry) :
                   mod.functions[f].entry[i] \in CBP!LoweredNodes
              /\ prog[f].entry = mod.functions[f].entry
              /\ prog[f].exit = RetLabel(mod.functions[f].name) /\ prog[f].exit \in STRING
<1>1. PICK fs : fs = mod.functions
  OBVIOUS
<1>2. /\ fs \in Seq(CBP!BuiltSet)
      /\ \A f \in 1 .. Len(fs) : CBP!IsBuilt(fs[f], code)
  BY <1>1, BuiltFunctions DEF Emptied
<1>3. \A f \in 1 .. Len(fs) : /\ prog[f].entry = fs[f].entry
                              /\ prog[f].exit = RetLabel(fs[f].name)
  BY <1>1 DEF Emptied, HandedOver
<1>4. ASSUME NEW f \in 1 .. Len(fs)
      PROVE  /\ fs[f].name \in FuncNames
             /\ CBP!IsEntry(fs[f].entry, fs[f].name)
             /\ fs[f].entry \in Seq(BE!IRNode)
             /\ \A i \in 1 .. Len(fs[f].entry) : fs[f].entry[i] \in CBP!LoweredNodes
             /\ prog[f].exit \in STRING
  <2>1. PICK function : function = fs[f]
    OBVIOUS
  <2>2. CBP!IsBuilt(function, code)
    BY <1>2, <2>1
  <2>3. function.entry \in Seq(BE!IRNode) /\ function.name \in FuncNames
    BY <2>2, EntryTyped
  <2>4. CBP!IsEntry(function.entry, function.name)
    BY <2>2 DEF CBP!IsBuilt
  <2>5. \A i \in 1 .. Len(function.entry) : function.entry[i] \in CBP!LoweredNodes
    BY <2>4 DEF CBP!IsEntry
  <2>6. RetLabel(function.name) \in STRING
    BY <2>3, TranslationAssumption
  <2> QED
    BY <1>3, <2>1, <2>3, <2>4, <2>5, <2>6
<1> QED
  BY <1>1, <1>2, <1>3, <1>4

\* The transfers of what is emitted, function by function.
LEMMA EmittedParts ==
  ASSUME Emptied
  PROVE  /\ out \in Seq(BP!InstSet)
         /\ BP!Control(out)
              = FlattenSeq([f \in 1 .. Len(mod.functions) |-> BP!FunctionControl(prog[f])])
         /\ [f \in 1 .. Len(mod.functions) |-> BP!FunctionControl(prog[f])]
              \in [1 .. Len(mod.functions) -> Seq(BP!Transfers)]
<1>1. BP!Funcs = 1 .. Len(mod.functions)
  BY DEF BP!Funcs, Emptied, HandedOver
<1>2. BP!Control(out) = FlattenSeq([f \in BP!Funcs |-> BP!FunctionControl(prog[f])])
  BY SameFlatten DEF Emptied, BackendHolds, BP!ControlInv, BP!ControlKept
<1>3. out \in Seq(BP!InstSet)
  BY BP!ControlTypes, ImmediateAssumption, ModuleAssumption DEF Emptied, BackendHolds
<1>4. \A f \in 1 .. Len(mod.functions) : BP!FunctionControl(prog[f]) \in Seq(BP!Transfers)
  BY FunctionFacts, FunctionPlaces
<1> QED
  BY <1>1, <1>2, <1>3, <1>4

LEMMA DefinedCount ==
  ASSUME Emptied, NEW label, NEW w,
         w = [f \in 1 .. Len(mod.functions) |-> BP!FunctionControl(prog[f])]
  PROVE  /\ Cardinality(Defined(label)) = 1 <=> Once(FlattenSeq(w), PlaceTransfers(label))
         /\ Cardinality(Defined(label)) = 0 <=> Never(FlattenSeq(w), PlaceTransfers(label))
<1>1. PICK c \in Seq(BP!InstSet) : c = out
  BY EmittedParts
<1>2. /\ Once(BP!Control(c), PlaceTransfers(label)) <=> Once(c, PlaceInsts(label))
      /\ Never(BP!Control(c), PlaceTransfers(label)) <=> Never(c, PlaceInsts(label))
  BY OutPlaces
<1>3. BP!Control(c) = FlattenSeq(w)
  BY <1>1, EmittedParts
<1>4. Defined(label) = Positions(c, PlaceInsts(label))
  <2>1. \A i \in DOMAIN c : c[i] \in BP!InstSet
    OBVIOUS
  <2> QED
    BY <1>1, <2>1 DEF Defined, Positions, PlaceInsts
<1>5. /\ Cardinality(Positions(c, PlaceInsts(label))) = 1 <=> Once(c, PlaceInsts(label))
      /\ Cardinality(Positions(c, PlaceInsts(label))) = 0 <=> Never(c, PlaceInsts(label))
  BY CountPositions
<1> QED
  BY <1>2, <1>3, <1>4, <1>5

LEMMA PlacesCount ==
  ASSUME IRTyped, NEW label
  PROVE  /\ Cardinality(Places(label)) = 1 <=> Once(ir, PlaceNodes(label))
         /\ Cardinality(Places(label)) = 0 <=> Never(ir, PlaceNodes(label))
<1>1. PICK c \in Seq(TranslatedNodes) : c = ir
  BY DEF IRTyped
<1>2. Places(label) = Positions(c, PlaceNodes(label))
  <2>1. \A i \in DOMAIN c : c[i] \in TranslatedNodes
    OBVIOUS
  <2> QED
    BY <1>1, <2>1 DEF Places, Positions, PlaceNodes, IsPlace
<1>3. /\ Cardinality(Positions(c, PlaceNodes(label))) = 1 <=> Once(c, PlaceNodes(label))
      /\ Cardinality(Positions(c, PlaceNodes(label))) = 0 <=> Never(c, PlaceNodes(label))
  BY CountPositions
<1> QED
  BY <1>1, <1>2, <1>3

\* A label that is not an exit block's has as many places in the assembly as in the
\* IR, if it has one or none.
LEMMA PlacesAgree ==
  ASSUME Emptied, NEW label, NoExit(label)
  PROVE  /\ Cardinality(Defined(label)) = 1 <=> Cardinality(Places(label)) = 1
         /\ Cardinality(Defined(label)) = 0 <=> Cardinality(Places(label)) = 0
<1>1. PICK n \in Nat : n = Len(mod.functions)
  BY FunctionFacts
<1>2. PICK w : w = [f \in 1 .. n |-> BP!FunctionControl(prog[f])]
  OBVIOUS
<1>3. PICK u : u = [f \in 1 .. n |-> mod.functions[f].entry]
  OBVIOUS
<1>4. w \in [1 .. n -> Seq(BP!Transfers)]
  BY <1>1, <1>2, EmittedParts
<1>5. u \in [1 .. n -> Seq(BE!IRNode)]
  BY <1>1, <1>3, FunctionFacts
<1>6. ASSUME NEW f \in 1 .. n
      PROVE  /\ Once(w[f], PlaceTransfers(label)) <=> Once(u[f], PlaceNodes(label))
             /\ Never(w[f], PlaceTransfers(label)) <=> Never(u[f], PlaceNodes(label))
  <2>1. PICK function : function = prog[f]
    OBVIOUS
  <2>2. PICK e : e = mod.functions[f].entry
    OBVIOUS
  <2>3. /\ e \in Seq(BE!IRNode) /\ \A i \in 1 .. Len(e) : e[i] \in CBP!LoweredNodes
        /\ function.entry = e /\ function.exit \in STRING
        /\ function.exit = RetLabel(mod.functions[f].name)
        /\ mod.functions[f].name \in FuncNames
    BY <1>1, <2>1, <2>2, FunctionFacts
  <2>4. label # function.exit
    BY <2>3 DEF NoExit
  <2>5. w[f] = BP!FunctionControl(function) /\ u[f] = e
    BY <1>2, <1>3, <2>1, <2>2
  <2> QED
    BY <2>3, <2>4, <2>5, FunctionPlaces
<1>7. /\ Once(FlattenSeq(w), PlaceTransfers(label)) <=> Once(FlattenSeq(u), PlaceNodes(label))
      /\ Never(FlattenSeq(w), PlaceTransfers(label)) <=> Never(FlattenSeq(u), PlaceNodes(label))
  <2>1. PICK D : D = PlaceTransfers(label)
    OBVIOUS
  <2>2. PICK E : E = PlaceNodes(label)
    OBVIOUS
  <2>3. \A f \in 1 .. n : /\ Once(w[f], D) <=> Once(u[f], E)
                          /\ Never(w[f], D) <=> Never(u[f], E)
    BY <1>6, <2>1, <2>2
  <2>4. /\ Once(FlattenSeq(w), D) <=> Once(FlattenSeq(u), E)
        /\ Never(FlattenSeq(w), D) <=> Never(FlattenSeq(u), E)
    <3>1. w \in Seq(Seq(BP!Transfers)) /\ Len(w) = n /\ u \in Seq(Seq(BE!IRNode)) /\ Len(u) = n
      BY <1>4, <1>5
    <3>2. /\ Never(FlattenSeq(w), D) <=> \A i \in 1 .. n : Never(w[i], D)
          /\ Once(FlattenSeq(w), D) <=>
               \E i \in 1 .. n : Once(w[i], D) /\ \A k \in 1 .. n : k # i => Never(w[k], D)
      BY <3>1, OnceFlatten
    <3>3. /\ Never(FlattenSeq(u), E) <=> \A i \in 1 .. n : Never(u[i], E)
          /\ Once(FlattenSeq(u), E) <=>
               \E i \in 1 .. n : Once(u[i], E) /\ \A k \in 1 .. n : k # i => Never(u[k], E)
      BY <3>1, OnceFlatten
    <3> QED
      BY <2>3, <3>2, <3>3
  <2> QED
    BY <2>1, <2>2, <2>4
<1>8. FlattenSeq(u) = CBP!LoweredOf(code)
  <2>1. FlattenSeq(u) = CBP!Entries(mod.functions)
    BY <1>1, <1>3, SameFlatten DEF CBP!Entries
  <2> QED
    BY <2>1, BuiltFunctions DEF Emptied
<1>9. CBP!IInv /\ code = ir /\ IRTyped
  BY DEF Emptied
<1>10. /\ Once(CBP!LoweredOf(code), PlaceNodes(label)) <=> Once(code, PlaceNodes(label))
       /\ Never(CBP!LoweredOf(code), PlaceNodes(label)) <=> Never(code, PlaceNodes(label))
  BY <1>9, LoweringPlaces
<1>11. /\ Cardinality(Defined(label)) = 1 <=> Once(FlattenSeq(w), PlaceTransfers(label))
       /\ Cardinality(Defined(label)) = 0 <=> Never(FlattenSeq(w), PlaceTransfers(label))
  BY <1>1, <1>2, DefinedCount
<1>12. /\ Cardinality(Places(label)) = 1 <=> Once(ir, PlaceNodes(label))
       /\ Cardinality(Places(label)) = 0 <=> Never(ir, PlaceNodes(label))
  BY <1>9, PlacesCount
<1> QED
  BY <1>7, <1>8, <1>9, <1>10, <1>11, <1>12

\* The label of an exit block has its one place in the epilogue.
LEMMA ExitDefined ==
  ASSUME Emptied, NEW f \in 1 .. Len(mod.functions)
  PROVE  Cardinality(Defined(RetLabel(mod.functions[f].name))) = 1
<1>1. PICK n \in Nat : n = Len(mod.functions)
  BY FunctionFacts
<1>2. PICK w : w = [g \in 1 .. n |-> BP!FunctionControl(prog[g])]
  OBVIOUS
<1>3. w \in [1 .. n -> Seq(BP!Transfers)]
  BY <1>1, <1>2, EmittedParts
<1>4. PICK label : label = RetLabel(mod.functions[f].name)
  OBVIOUS
<1>5. ASSUME NEW g \in 1 .. n
      PROVE  /\ g = f => Once(w[g], PlaceTransfers(label))
             /\ g # f => Never(w[g], PlaceTransfers(label))
  <2>1. PICK function : function = prog[g]
    OBVIOUS
  <2>2. PICK e : e = mod.functions[g].entry
    OBVIOUS
  <2>3. PICK cn : cn = mod.functions[g].name
    OBVIOUS
  <2>4. /\ e \in Seq(BE!IRNode) /\ \A i \in 1 .. Len(e) : e[i] \in CBP!LoweredNodes
        /\ function.entry = e /\ function.exit \in STRING
        /\ function.exit = RetLabel(cn) /\ cn \in FuncNames /\ CBP!IsEntry(e, cn)
        /\ mod.functions[f].name \in FuncNames
    BY <1>1, <2>1, <2>2, <2>3, FunctionFacts
  <2>5. Never(e, PlaceNodes(label))
    BY <1>4, <2>4, NoExitPlaces
  <2>6. w[g] = BP!FunctionControl(function)
    BY <1>2, <2>1
  <2>7. CASE g = f
    BY <1>4, <2>3, <2>4, <2>5, <2>6, <2>7, FunctionPlaces
  <2>8. CASE g # f
    <3>1. cn # mod.functions[f].name
      BY <1>1, <2>3, <2>8, BuiltFunctions DEF Emptied
    <3>2. label # function.exit
      BY <1>4, <2>4, <3>1, TranslationAssumption
    <3> QED
      BY <2>4, <2>5, <2>6, <2>8, <3>2, FunctionPlaces
  <2> QED
    BY <2>7, <2>8
<1>6. Once(FlattenSeq(w), PlaceTransfers(label))
  <2>1. w \in Seq(Seq(BP!Transfers)) /\ Len(w) = n
    BY <1>3
  <2>2. Once(FlattenSeq(w), PlaceTransfers(label)) <=>
          \E i \in 1 .. Len(w) :
            /\ Once(w[i], PlaceTransfers(label))
            /\ \A k \in 1 .. Len(w) : k # i => Never(w[k], PlaceTransfers(label))
    BY <2>1, OnceFlatten
  <2> QED
    BY <1>1, <1>5, <2>1, <2>2
<1>7. Cardinality(Defined(label)) = 1
  BY <1>1, <1>2, <1>6, DefinedCount
<1> QED
  BY <1>4, <1>7

-----------------------------------------------------------------------------
(* Where a transfer of control comes from.                                 *)

\* A transfer of a function is that of a node of its entry block, or one of those its
\* exit block adds.
LEMMA ControlFrom ==
  ASSUME Emptied, NEW f \in 1 .. Len(mod.functions), NEW t,
         t \in BP!Range(BP!FunctionControl(prog[f]))
  PROVE  \/ t = BP!Transfer("Label", BP!Unused, prog[f].exit)
         \/ t = BP!Transfer("Ret", BP!Unused, BP!Unused)
         \/ \E p \in 1 .. Len(mod.functions[f].entry) : Matches(t, mod.functions[f].entry[p])
<1>1. PICK e : e = mod.functions[f].entry
  OBVIOUS
<1>2. PICK function : function = prog[f]
  OBVIOUS
<1>3. e \in Seq(BE!IRNode) /\ function.entry = e
  BY <1>1, <1>2, FunctionFacts
<1>4. PICK s : s = BP!NodesControl(e)
  OBVIOUS
<1>5. s \in Seq(BP!Transfers)
  BY <1>3, <1>4, SameFunctions, BP!NodesCode, ImmediateAssumption, ModuleAssumption
<1>6. PICK a : a = BP!Transfer("Label", BP!Unused, function.exit)
  OBVIOUS
<1>7. PICK b : b = BP!Transfer("Ret", BP!Unused, BP!Unused)
  OBVIOUS
<1>8. BP!FunctionControl(function) = s \o << a, b >>
  BY <1>3, <1>4, <1>6, <1>7 DEF BP!FunctionControl
<1>9. ~Never(s, {t}) \/ ~Never(<< a, b >>, {t})
  <2>1. s \in Seq(BP!Transfers \cup {a, b}) /\ << a, b >> \in Seq(BP!Transfers \cup {a, b})
    BY <1>5
  <2>2. Never(s \o << a, b >>, {t}) <=> Never(s, {t}) /\ Never(<< a, b >>, {t})
    BY <2>1, OnceConcat
  <2>3. PICK w : w = s \o << a, b >>
    OBVIOUS
  <2>4. w \in Seq(BP!Transfers \cup {a, b}) /\ t \in BP!Range(w)
    BY <1>2, <1>8, <2>1, <2>3
  <2>5. PICK k \in 1 .. Len(w) : w[k] = t
    BY <2>4 DEF BP!Range
  <2>6. ~Never(w, {t})
    BY <2>5 DEF Never
  <2> QED
    BY <2>2, <2>3, <2>6
<1>10. CASE ~Never(<< a, b >>, {t})
  <2>1. a = t \/ b = t
    BY <1>10, PairNever
  <2> QED
    BY <1>2, <1>6, <1>7, <2>1
<1>11. CASE ~Never(s, {t})
  <2>1. e \in Seq(BP!IRNode)
    BY <1>3, SameFunctions
  <2>2. PICK u : u = [k \in DOMAIN e |-> BP!NodeControl(e[k])]
    OBVIOUS
  <2>3. u \in Seq(Seq(BP!Transfers)) /\ Len(u) = Len(e)
    BY <2>1, <2>2, BP!NodesParts, ImmediateAssumption, ModuleAssumption
  <2>4. s = FlattenSeq(u)
    BY <1>4, <2>2, SameFlatten DEF BP!NodesControl
  <2>5. Never(FlattenSeq(u), {t}) <=> \A k \in 1 .. Len(u) : Never(u[k], {t})
    BY <2>3, OnceFlatten
  <2>6. \A k \in 1 .. Len(e) : u[k] = BP!NodeControl(e[k])
    BY <1>3, <2>2
  <2>7. PICK p \in 1 .. Len(e) : ~Never(BP!NodeControl(e[p]), {t})
    BY <1>11, <2>3, <2>4, <2>5, <2>6
  <2>8. PICK node \in BE!IRNode : node = e[p]
    BY <1>3
  <2>9. BP!NodeControl(node) # << >>
    BY <2>7, <2>8, OnceTuples
  <2>10. PICK x \in BP!Transfers : BP!NodeControl(node) = << x >> /\ Matches(x, node)
    BY <2>9, NodeControlIs
  <2>11. x \in {t}
    BY <2>7, <2>8, <2>10, OnceTuples
  <2> QED
    BY <1>1, <2>8, <2>10, <2>11
<1> QED
  BY <1>9, <1>10, <1>11

\* From a node of the entry block of one of the functions.
LEMMA OutFrom ==
  ASSUME Emptied, NEW i \in 1 .. Len(out), out[i].kind \in {"Jump", "Branch", "Call", "La"}
  PROVE  \E f \in 1 .. Len(mod.functions) : \E p \in 1 .. Len(mod.functions[f].entry) :
           Matches(out[i], mod.functions[f].entry[p])
<1>1. PICK c \in Seq(BP!InstSet) : c = out
  BY EmittedParts
<1>2. PICK t : t = BP!Transfer(c[i].kind, c[i].op, c[i].label)
  OBVIOUS
<1>3. t.kind = out[i].kind /\ t.label = out[i].label
  BY <1>1, <1>2 DEF BP!Transfer
<1>4. PICK n \in Nat : n = Len(mod.functions)
  BY FunctionFacts
<1>5. PICK w : w = [g \in 1 .. n |-> BP!FunctionControl(prog[g])]
  OBVIOUS
<1>6. w \in [1 .. n -> Seq(BP!Transfers)] /\ BP!Control(c) = FlattenSeq(w)
  BY <1>1, <1>4, <1>5, EmittedParts
<1>7. ~Never(FlattenSeq(w), {t})
  <2>1. PICK u : u = [k \in DOMAIN c |-> BP!ControlOf(c[k])]
    OBVIOUS
  <2>2. u \in [1 .. Len(c) -> Seq(BP!Transfers)]
    BY <2>1, BP!ControlParts, ImmediateAssumption, ModuleAssumption
  <2>3. PICK m \in Nat : m = Len(c)
    OBVIOUS
  <2>4. BP!Control(c) = FlattenSeq(u)
    BY <2>1, SameFlatten DEF BP!Control
  <2>5. i \in 1 .. Len(c) /\ u[i] = << t >>
    <3>1. i \in DOMAIN c
      BY <1>1
    <3> QED
      BY <1>1, <1>2, <2>1, <3>1 DEF BP!ControlOf
  <2>6. 1 \in 1 .. Len(u[i]) /\ u[i][1] = t
    BY <2>5
  <2>7. PICK k \in 1 .. Len(FlattenSeq(u)) : FlattenSeq(u)[k] = t
    <3>1. u \in Seq(Seq(BP!Transfers)) /\ Len(u) = m /\ i \in 1 .. m
      BY <2>2, <2>3, <2>5
    <3>2. Never(FlattenSeq(u), {t}) <=> \A k \in 1 .. Len(u) : Never(u[k], {t})
      BY <3>1, OnceFlatten
    <3>3. ~Never(u[i], {t})
      BY <2>6 DEF Never
    <3> QED
      BY <3>1, <3>2, <3>3 DEF Never
  <2> QED
    BY <1>6, <2>4, <2>7 DEF Never
<1>8. PICK f \in 1 .. n : ~Never(w[f], {t})
  <2>1. w \in Seq(Seq(BP!Transfers)) /\ Len(w) = n
    BY <1>6
  <2>2. Never(FlattenSeq(w), {t}) <=> \A g \in 1 .. Len(w) : Never(w[g], {t})
    BY <2>1, OnceFlatten
  <2> QED
    BY <1>7, <2>1, <2>2
<1>9. w[f] = BP!FunctionControl(prog[f]) /\ w[f] \in Seq(BP!Transfers)
  BY <1>5, <1>6
<1>10. t \in BP!Range(BP!FunctionControl(prog[f]))
  <2>1. PICK s \in Seq(BP!Transfers) : s = w[f]
    BY <1>9
  <2>2. PICK k \in 1 .. Len(s) : s[k] = t
    BY <1>8, <2>1 DEF Never
  <2>3. t \in BP!Range(s)
    BY <2>1, <2>2 DEF BP!Range
  <2> QED
    BY <1>9, <2>1, <2>3
<1>11. \/ t = BP!Transfer("Label", BP!Unused, prog[f].exit)
       \/ t = BP!Transfer("Ret", BP!Unused, BP!Unused)
       \/ \E p \in 1 .. Len(mod.functions[f].entry) : Matches(t, mod.functions[f].entry[p])
  BY <1>4, <1>10, ControlFrom
<1>12. PICK p \in 1 .. Len(mod.functions[f].entry) : Matches(t, mod.functions[f].entry[p])
  BY <1>3, <1>11 DEF BP!Transfer
<1>13. PICK node : node = mod.functions[f].entry[p]
  OBVIOUS
<1>14. Matches(out[i], node)
  BY <1>3, <1>12, <1>13 DEF Matches
<1> QED
  BY <1>4, <1>12, <1>13, <1>14

\* Such a node is one of the IR, or a Return made a jump to its function's exit block.
LEMMA NodeFrom ==
  ASSUME Emptied, NEW f \in 1 .. Len(mod.functions),
         NEW p \in 1 .. Len(mod.functions[f].entry), NEW node,
         node = mod.functions[f].entry[p], node.ir \in {"Goto", "If", "Call", "LoadAddr"}
  PROVE  \/ \E k \in DOMAIN ir : ir[k] = node
         \/ node = CBP!Goto(RetLabel(mod.functions[f].name))
<1>1. CBP!IInv /\ built /\ code = ir
  BY DEF Emptied
<1>2. PICK n \in Nat : n = Len(mod.functions)
  BY FunctionFacts
<1>3. PICK m \in Nat : m = Len(code)
  BY <1>1, LoweredParts
<1>4. PICK u : u = [g \in 1 .. n |-> mod.functions[g].entry]
  OBVIOUS
<1>5. PICK v : v = [k \in 1 .. m |-> CBP!LoweredAt(code, k)]
  OBVIOUS
<1>6. u \in [1 .. n -> Seq(BE!IRNode)]
  BY <1>2, <1>4, FunctionFacts
<1>7. v \in [1 .. m -> Seq(CBP!LoweredNodes)] /\ CBP!LoweredOf(code) = FlattenSeq(v)
  BY <1>1, <1>3, <1>5, LoweredParts
<1>8. FlattenSeq(u) = FlattenSeq(v)
  <2>1. FlattenSeq(u) = CBP!Entries(mod.functions)
    BY <1>2, <1>4, SameFlatten DEF CBP!Entries
  <2> QED
    BY <1>1, <1>7, <2>1, BuiltFunctions
<1>9. PICK j \in 1 .. Len(FlattenSeq(u)) : FlattenSeq(u)[j] = node
  <2>1. f \in 1 .. n /\ p \in 1 .. Len(u[f]) /\ u[f][p] = node
    BY <1>2, <1>4
  <2>2. u \in Seq(Seq(BE!IRNode)) /\ Len(u) = n
    BY <1>6
  <2>3. Never(FlattenSeq(u), {node}) <=> \A k \in 1 .. Len(u) : Never(u[k], {node})
    BY <2>2, OnceFlatten
  <2>4. ~Never(u[f], {node})
    BY <2>1 DEF Never
  <2> QED
    BY <2>1, <2>2, <2>3, <2>4 DEF Never
<1>10. PICK k \in 1 .. m : \E q \in 1 .. Len(v[k]) : v[k][q] = node
  <2>1. j \in 1 .. Len(FlattenSeq(v)) /\ FlattenSeq(v)[j] = node
    BY <1>8, <1>9
  <2>2. \E k \in 1 .. m : \E q \in 1 .. Len(v[k]) : v[k][q] = FlattenSeq(v)[j]
    BY <1>7, <2>1, JoinedFrom
  <2> QED
    BY <2>1, <2>2
<1>11. PICK q \in 1 .. Len(v[k]) : v[k][q] = node
  BY <1>10
<1>12. PICK from : from = code[k]
  OBVIOUS
<1>13. PICK owner : owner = CBP!OwnerIn(code, k)
  OBVIOUS
<1>14. v[k] = IF from.ir = "Global" THEN << >> ELSE CBP!Lower(from, owner)
  BY <1>5, <1>12, <1>13 DEF CBP!LoweredAt
<1>15. CASE from.ir = "Global"
  BY <1>11, <1>14, <1>15
<1>16. CASE from.ir \notin {"Global", "Return"}
  <2>1. v[k] = << from >>
    BY <1>14, <1>16 DEF CBP!Lower
  <2>2. node = from
    BY <1>11, <2>1
  <2>3. k \in DOMAIN ir
    BY <1>1, <1>3 DEF CBP!IInv, CBP!Owned
  <2> QED
    BY <1>1, <1>12, <2>2, <2>3
<1>17. CASE from.ir = "Return"
  <2>1. PICK goto : goto = CBP!Goto(RetLabel(owner))
    OBVIOUS
  <2>2. PICK assign : assign = CBP!Assign("a0", from.x)
    OBVIOUS
  <2>3. v[k] = << goto >> \/ v[k] = << assign, goto >>
    BY <1>14, <1>17, <2>1, <2>2 DEF CBP!Lower
  <2>4. node \in {goto, assign}
    BY <1>11, <2>3
  <2>5. node = CBP!Goto(RetLabel(owner))
    BY <2>1, <2>2, <2>4 DEF CBP!Assign
  <2>6. owner \in FuncNames
    <3>1. code \in Seq(CBP!Nodes) /\ CBP!Starts(code, k) # {} /\ k \in 1 .. Len(code)
      BY <1>1, <1>3, <1>12, <1>17 DEF CBP!IInv, CBP!Owned
    <3> QED
      BY <1>13, <3>1, CBP!OwnerKnown, BuilderAssumption
  <2>7. PICK cn : cn = mod.functions[f].name
    OBVIOUS
  <2>8. CBP!BodyElement(node, cn)
    <3>1. PICK e : e = mod.functions[f].entry
      OBVIOUS
    <3>2. CBP!IsEntry(e, cn) /\ node = e[p] /\ p \in 1 .. Len(e)
      BY <2>7, <3>1, FunctionFacts
    <3>3. p # 1
      BY <3>2 DEF CBP!IsEntry, CBP!Function
    <3>4. p \in 2 .. Len(e)
      BY <3>2, <3>3
    <3> QED
      BY <3>2, <3>4 DEF CBP!IsEntry
  <2>9. owner = cn
    BY <2>5, <2>6, <2>8 DEF CBP!BodyElement
  <2> QED
    BY <2>5, <2>7, <2>9
<1> QED
  BY <1>15, <1>16, <1>17

-----------------------------------------------------------------------------
(* The data section.                                                       *)

DataItems == [directive : {"Label"}, label : STRING] \cup [directive : {"Word"}, value : Int]

LEMMA SelectGlobalIs ==
  ASSUME NEW node \in GlobalNodes
  PROVE  /\ DS!SelectGlobal(node) \in Seq(DataItems) /\ Len(DS!SelectGlobal(node)) > 0
         /\ DS!SelectGlobal(node)[1] = DS!Label(node.name)
         /\ \A i \in 2 .. Len(DS!SelectGlobal(node)) :
              DS!SelectGlobal(node)[i].directive = "Word"
<1> DEFINE Words == [directive : {"Word"}, value : Int]
<1>1. node.name \in STRING /\ node.size \in Nat /\ node.values \in Seq(Int)
  BY DEF GlobalNodes
<1>2. PICK label : label = DS!Label(node.name)
  OBVIOUS
<1>3. label \in DataItems
  BY <1>1, <1>2 DEF DataItems, DS!Label
<1>4. PICK words : DS!SelectGlobal(node) = << label >> \o words /\ words \in Seq(Words)
  <2>1. CASE \A i \in DOMAIN node.values : node.values[i] = 0
    <3>1. PICK n \in Nat : n = node.size \div 4
      BY <1>1
    <3>2. [i \in 1 .. n |-> DS!Word(0)] \in Seq(Words)
      BY DEF DS!Word
    <3> QED
      BY <1>2, <2>1, <3>1, <3>2 DEF DS!SelectGlobal
  <2>2. CASE ~ \A i \in DOMAIN node.values : node.values[i] = 0
    <3>1. PICK values \in Seq(Int) : values = node.values
      BY <1>1
    <3>2. [i \in DOMAIN values |-> DS!Word(values[i])] \in Seq(Words)
      <4>1. \A v \in Int : DS!Word(v) \in Words
        BY DEF DS!Word
      <4>2. DOMAIN values = 1 .. Len(values) /\ Len(values) \in Nat
        OBVIOUS
      <4>3. \A i \in 1 .. Len(values) : values[i] \in Int
        OBVIOUS
      <4> HIDE DEF Words
      <4> QED
        BY <4>1, <4>2, <4>3
    <3> QED
      BY <1>2, <2>2, <3>1, <3>2 DEF DS!SelectGlobal
  <2> QED
    BY <2>1, <2>2
<1>5. Words \subseteq DataItems
  BY DEF DataItems
<1>6. \A w \in Words : w.directive = "Word"
  OBVIOUS
<1> HIDE DEF Words
<1>7. words \in Seq(DataItems) /\ << label >> \in Seq(DataItems) /\ Len(<< label >>) = 1
  BY <1>3, <1>4, <1>5
<1>8. PICK s : s = << label >> \o words
  OBVIOUS
<1>9. /\ s \in Seq(DataItems) /\ Len(s) = 1 + Len(words) /\ s[1] = label
      /\ \A i \in 1 .. Len(words) : s[1 + i] = words[i]
  BY <1>7, <1>8
<1>10. ASSUME NEW i \in 2 .. Len(s)
       PROVE  s[i].directive = "Word"
  <2>1. PICK k \in 1 .. Len(words) : i = 1 + k
    <3>1. i - 1 \in 1 .. Len(words) /\ i = 1 + (i - 1)
      BY <1>4, <1>9
    <3> QED
      BY <3>1
  <2>2. words[k] \in Words
    BY <1>4
  <2> QED
    BY <1>6, <1>9, <2>1, <2>2
<1>11. Len(s) > 0
  BY <1>4, <1>9
<1> QED
  BY <1>2, <1>4, <1>8, <1>9, <1>10, <1>11

LabelsIn(d) == {i \in DOMAIN d : d[i].directive = "Label"}

\* A global more is one label more.
LEMMA LabelsGrow ==
  ASSUME NEW d \in Seq(DataItems), IsFiniteSet(LabelsIn(d)), NEW node \in GlobalNodes
  PROVE  /\ IsFiniteSet(LabelsIn(d \o DS!SelectGlobal(node)))
         /\ Cardinality(LabelsIn(d \o DS!SelectGlobal(node))) = Cardinality(LabelsIn(d)) + 1
<1>1. PICK s : s = DS!SelectGlobal(node)
  OBVIOUS
<1>2. /\ s \in Seq(DataItems) /\ Len(s) > 0 /\ s[1].directive = "Label"
      /\ \A i \in 2 .. Len(s) : s[i].directive = "Word"
  <2>1. DS!Label(node.name).directive = "Label"
    BY DEF DS!Label
  <2> QED
    BY <1>1, <2>1, SelectGlobalIs
<1>3. PICK n \in Nat : n = Len(d)
  OBVIOUS
<1>4. PICK m \in Nat : m = Len(s)
  BY <1>2
<1>5. PICK e : e = d \o s
  OBVIOUS
<1>6. /\ DOMAIN e = 1 .. n + m /\ DOMAIN d = 1 .. n
      /\ \A i \in 1 .. n : e[i] = d[i]
      /\ \A i \in 1 .. m : e[n + i] = s[i]
  BY <1>2, <1>3, <1>4, <1>5
<1>7. e[n + 1].directive = "Label" /\ \A i \in n + 2 .. n + m : e[i].directive = "Word"
  <2>1. e[n + 1] = s[1]
    BY <1>2, <1>4, <1>6
  <2>2. ASSUME NEW i \in n + 2 .. n + m
        PROVE  e[i].directive = "Word"
    <3>1. i - n \in 2 .. m /\ n + (i - n) = i
      OBVIOUS
    <3>2. e[i] = s[i - n]
      BY <1>6, <3>1
    <3> QED
      BY <1>2, <1>4, <3>1, <3>2
  <2> QED
    BY <1>2, <2>1, <2>2
<1>8. LabelsIn(e) = LabelsIn(d) \cup {n + 1}
  <2>1. \A i \in 1 .. n + m : i \in 1 .. n \/ i = n + 1 \/ i \in n + 2 .. n + m
    OBVIOUS
  <2>2. n + 1 \in 1 .. n + m /\ 1 .. n \subseteq 1 .. n + m
    BY <1>2, <1>4
  <2>3. \A i : i \in LabelsIn(e) <=> i \in LabelsIn(d) \/ i = n + 1
    BY <1>6, <1>7, <2>1, <2>2 DEF LabelsIn
  <2> QED
    BY <2>3
<1>9. n + 1 \notin LabelsIn(d)
  BY <1>6 DEF LabelsIn
<1>10. PICK L : L = LabelsIn(d)
  OBVIOUS
<1>11. IsFiniteSet(L \cup {n + 1}) /\ Cardinality(L \cup {n + 1}) = Cardinality(L) + 1
  BY <1>9, <1>10, FS_AddElement
<1> QED
  BY <1>1, <1>5, <1>8, <1>10, <1>11

\* The data section of the first n globals.
DataUpto(n) == FlattenSeq([g \in 1 .. n |-> DS!SelectGlobal(mod.globals[g])])

LEMMA DataUptoNext ==
  ASSUME mod.globals \in Seq(GlobalNodes), NEW n \in Nat, n < Len(mod.globals)
  PROVE  /\ DataUpto(n) \in Seq(DataItems)
         /\ DataUpto(n + 1) = DataUpto(n) \o DS!SelectGlobal(mod.globals[n + 1])
<1>1. PICK gs \in Seq(GlobalNodes) : gs = mod.globals
  OBVIOUS
<1>2. PICK m : m = [g \in 1 .. n |-> DS!SelectGlobal(gs[g])]
  OBVIOUS
<1>3. PICK u : u = [g \in 1 .. n + 1 |-> DS!SelectGlobal(gs[g])]
  OBVIOUS
<1>4. \A g \in 1 .. n + 1 : gs[g] \in GlobalNodes
  <2>1. 1 .. n + 1 \subseteq 1 .. Len(gs)
    BY <1>1
  <2> QED
    BY <2>1
<1>5. \A g \in 1 .. n + 1 : DS!SelectGlobal(gs[g]) \in Seq(DataItems)
  BY <1>4, SelectGlobalIs
<1>6. /\ n + 1 \in 1 .. n + 1 /\ 1 .. n \subseteq 1 .. n + 1
  OBVIOUS
<1>7. OneMore(DataItems, n, m, u)
  BY <1>2, <1>3, <1>5, <1>6 DEF OneMore
<1>8. FlattenSeq(m) \in Seq(DataItems) /\ FlattenSeq(u) = FlattenSeq(m) \o u[n + 1]
  BY <1>7, FlattenMapped
<1>9. u[n + 1] = DS!SelectGlobal(gs[n + 1])
  BY <1>3, <1>6
<1> QED
  BY <1>1, <1>2, <1>3, <1>8, <1>9 DEF DataUpto

LEMMA DataTyped ==
  ASSUME mod.globals \in Seq(GlobalNodes), NEW n \in 0 .. Len(mod.globals)
  PROVE  /\ DataUpto(n) \in Seq(DataItems)
         /\ DataUpto(n) = FlattenSeq([g \in 1 .. n |-> DS!SelectGlobal(mod.globals[g])])
         /\ [g \in 1 .. n |-> DS!SelectGlobal(mod.globals[g])] \in [1 .. n -> Seq(DataItems)]
<1>1. PICK gs \in Seq(GlobalNodes) : gs = mod.globals
  OBVIOUS
<1>2. PICK m : m = [g \in 1 .. n |-> DS!SelectGlobal(gs[g])]
  OBVIOUS
<1>3. \A g \in 1 .. n : gs[g] \in GlobalNodes
  BY <1>1
<1>4. m \in [1 .. n -> Seq(DataItems)]
  BY <1>2, <1>3, SelectGlobalIs
<1>5. m \in Seq(Seq(DataItems))
  BY <1>4
<1>6. FlattenSeq(m) \in Seq(DataItems)
  BY <1>5, FlattenAppend
<1> QED
  BY <1>1, <1>2, <1>4, <1>6 DEF DataUpto

-----------------------------------------------------------------------------
(* The globals are emitted one by one, and all of them before the end.     *)

DataHolds(n) ==
  /\ data = DataUpto(n) /\ IsFiniteSet(LabelsIn(data)) /\ Cardinality(LabelsIn(data)) = n
  /\ stage = "done" => n = Len(mod.globals)

DataInv ==
  /\ status \in {"arguments", "translate", "build", "select"} => data = << >>
  /\ status = "backend" => \E n \in 0 .. Len(mod.globals) : DataHolds(n)

LEMMA EmittedIs == Emitted = Cardinality(LabelsIn(data))
BY DEF Emitted, LabelsIn

LEMMA GlobalsTyped ==
  ASSUME IInv, status \in {"select", "print", "backend"}
  PROVE  mod.globals \in Seq(GlobalNodes) /\ mod.globals = CBP!GlobalsIn(code)
BY CodeIsIR, BuiltFunctions

LEMMA StageMoves ==
  /\ BE!Select => stage' # "done"
  /\ BE!Allocate => stage' # "done"
<1>1. BE!Select => stage' # "done"
  BY DEF BE!Select, BE!LoadImmNode, BE!AssignNode, BE!BinaryNode, BE!UnaryNode, BE!LabelNode,
         BE!GotoNode, BE!FunctionNode, BE!CallNode, BE!ArgNode, BE!ParamNode, BE!IfNode,
         BE!DecNode, BE!LoadAddrNode, BE!StoreNode, BE!LoadNode, BE!SelectedFunction,
         BE!Appends, BE!Abort, BE!AtNode, BE!NextFunction
<1>2. BE!Allocate => stage' # "done"
  BY DEF BE!Allocate, BE!AllocateArith, BE!AllocateArithImm, BE!AllocateMv, BE!AllocateLi,
         BE!AllocateLa, BE!AllocateLoad, BE!AllocateStore, BE!AllocateBranch,
         BE!AllocateOther, BE!AllocateKind, BE!AllocatedFunction, BE!NextFunction
<1> QED
  BY <1>1, <1>2

LEMMA EmitGlobalData ==
  ASSUME IInv, DataInv, EmitGlobal
  PROVE  DataInv'
<1>1. /\ status = "backend" /\ status' = "backend" /\ stage = "emit" /\ stage' = "emit"
      /\ Emitted < Len(mod.globals) /\ mod' = mod
      /\ data' = data \o DS!SelectGlobal(mod.globals[Emitted + 1])
  BY DEF EmitGlobal, builderVars, backVars
<1>2. PICK n \in 0 .. Len(mod.globals) : DataHolds(n)
  BY <1>1 DEF DataInv
<1>3. mod.globals \in Seq(GlobalNodes)
  BY <1>1, GlobalsTyped
<1>4. /\ data = DataUpto(n) /\ IsFiniteSet(LabelsIn(data)) /\ Cardinality(LabelsIn(data)) = n
      /\ Emitted = n
  BY <1>2, EmittedIs DEF DataHolds
<1>5. PICK node : node = mod.globals[n + 1]
  OBVIOUS
<1>6. n \in Nat /\ n < Len(mod.globals) /\ n + 1 \in 0 .. Len(mod.globals)
  BY <1>1, <1>3, <1>4
<1>7. node \in GlobalNodes
  BY <1>3, <1>5, <1>6
<1>8. /\ DataUpto(n) \in Seq(DataItems) /\ DataUpto(n + 1) = DataUpto(n) \o DS!SelectGlobal(node)
  BY <1>3, <1>5, <1>6, DataUptoNext
<1>9. PICK d \in Seq(DataItems) : d = data
  BY <1>4, <1>8
<1>10. PICK e : e = d \o DS!SelectGlobal(node)
  OBVIOUS
<1>11. IsFiniteSet(LabelsIn(e)) /\ Cardinality(LabelsIn(e)) = n + 1
  BY <1>4, <1>7, <1>9, <1>10, LabelsGrow
<1>12. data' = e /\ e = DataUpto(n + 1)
  BY <1>1, <1>4, <1>5, <1>8, <1>9, <1>10
<1>13. DataUpto(n + 1)' = DataUpto(n + 1)
  BY <1>1 DEF DataUpto
<1>14. DataHolds(n + 1)'
  <2>1. LabelsIn(data)' = LabelsIn(e)
    BY <1>12 DEF LabelsIn
  <2> QED
    BY <1>1, <1>11, <1>12, <1>13, <2>1 DEF DataHolds
<1> QED
  BY <1>1, <1>6, <1>14 DEF DataInv

\* The other steps leave the data section alone.
LEMMA DataStays ==
  ASSUME DataInv, data' = data,
         status' = "backend" =>
           /\ status = "backend" /\ mod' = mod
           /\ stage' = "done" => stage = "done" \/ Emitted = Len(mod.globals),
         status' \in {"arguments", "translate", "build", "select"} =>
           status \in {"arguments", "translate", "build", "select"}
  PROVE  DataInv'
<1>1. ASSUME status' = "backend"
      PROVE  \E n \in 0 .. Len(mod.globals)' : DataHolds(n)'
  <2>1. /\ status = "backend" /\ mod' = mod
        /\ stage' = "done" => stage = "done" \/ Emitted = Len(mod.globals)
    BY <1>1
  <2>2. PICK n \in 0 .. Len(mod.globals) : DataHolds(n)
    BY <2>1 DEF DataInv
  <2>3. DataUpto(n)' = DataUpto(n) /\ LabelsIn(data)' = LabelsIn(data)
    BY <2>1 DEF DataUpto, LabelsIn
  <2>4. DataHolds(n)'
    BY <2>1, <2>2, <2>3, EmittedIs DEF DataHolds
  <2> QED
    BY <2>1, <2>4
<1> QED
  BY <1>1 DEF DataInv

LEMMA DataInit == Init => DataInv
BY DEF Init, DataInv

LEMMA DataNext == IInv /\ DataInv /\ [Next]_vars => DataInv'
<1> SUFFICES ASSUME IInv, DataInv, [Next]_vars PROVE DataInv'
  OBVIOUS
<1>1. CASE Argument \/ TranslateRoot \/ BuildNode \/ Build
  <2>1. data' = data /\ status' # "backend"
        /\ status \in {"arguments", "translate", "build", "select"}
    BY <1>1 DEF Argument, TranslateRoot, BuildNode, Build
  <2> QED
    BY <2>1, DataStays
<1>2. CASE StartBackend
  <2>1. status = "select" /\ status' = "backend" /\ data' = data /\ stage' = stage /\ mod' = mod
    BY <1>2 DEF StartBackend, builderVars
  <2>2. data = << >> /\ stage = "select"
    BY <2>1 DEF DataInv, IInv, Waiting
  <2>3. mod.globals \in Seq(GlobalNodes)
    BY <2>1, GlobalsTyped
  <2>4. DataUpto(0)' = << >>
    <3>1. [g \in 1 .. 0 |-> DS!SelectGlobal(mod.globals[g])] = << >>
      OBVIOUS
    <3> QED
      BY <2>1, <3>1, FlattenEmpty DEF DataUpto
  <2>5. LabelsIn(data)' = {}
    BY <2>1, <2>2 DEF LabelsIn
  <2>6. DataHolds(0)'
    BY <2>1, <2>2, <2>4, <2>5, FS_EmptySet DEF DataHolds
  <2>7. 0 \in 0 .. Len(mod.globals)'
    BY <2>1, <2>3
  <2> QED
    BY <2>1, <2>6, <2>7 DEF DataInv
<1>3. CASE EmitGlobal
  BY <1>3, EmitGlobalData
<1>4. CASE RunBackend
  <2>1. data' = data /\ mod' = mod /\ status = "backend" /\ status' \in {"failed", "backend"}
    BY <1>4 DEF RunBackend, builderVars
  <2>2. stage' = "done" => Emitted = Len(mod.globals)
    BY <1>4, StageMoves DEF RunBackend
  <2> QED
    BY <2>1, <2>2, DataStays
<1>5. CASE PrintIR \/ LoadAssembly \/ RunIR \/ RunAssembly
  <2>1. data' = data /\ status' = "run"
    BY <1>5 DEF PrintIR, LoadAssembly, RunIR, RunAssembly
  <2> QED
    BY <2>1, DataStays
<1>6. CASE UNCHANGED vars
  BY <1>6, DataStays DEF vars, builderVars, backVars
<1> QED
  BY <1>1, <1>2, <1>3, <1>4, <1>5, <1>6 DEF Next, Finished

-----------------------------------------------------------------------------
(* The labels of addresses.                                                *)

GlobalNamed(label) == {node \in GlobalNodes : node.name = label}

LEMMA DataLabels ==
  ASSUME mod.globals \in Seq(GlobalNodes), data = DataUpto(Len(mod.globals)), NEW label
  PROVE  Cardinality({d \in DOMAIN data : data[d] = DS!Label(label)}) = 1
           <=> Once(mod.globals, GlobalNamed(label))
<1>1. PICK gs \in Seq(GlobalNodes) : gs = mod.globals
  OBVIOUS
<1>2. PICK n \in Nat : n = Len(gs)
  OBVIOUS
<1>3. PICK u : u = [g \in 1 .. n |-> DS!SelectGlobal(gs[g])]
  OBVIOUS
<1>4. n \in 0 .. Len(mod.globals)
  BY <1>1, <1>2
<1>5. /\ DataUpto(n) \in Seq(DataItems) /\ DataUpto(n) = FlattenSeq(u)
      /\ u \in [1 .. n -> Seq(DataItems)]
  BY <1>1, <1>3, <1>4, DataTyped
<1>6. PICK x : x = DS!Label(label)
  OBVIOUS
<1>7. ASSUME NEW g \in 1 .. n
      PROVE  /\ Once(u[g], {x}) <=> gs[g] \in GlobalNamed(label)
             /\ Never(u[g], {x}) <=> gs[g] \notin GlobalNamed(label)
  <2>1. PICK node \in GlobalNodes : node = gs[g]
    BY <1>2
  <2>2. PICK s : s = u[g]
    OBVIOUS
  <2>3. s = DS!SelectGlobal(node)
    BY <1>3, <2>1, <2>2
  <2>4. /\ Len(s) > 0 /\ Len(s) \in Nat /\ s[1] = DS!Label(node.name)
        /\ \A i \in 2 .. Len(s) : s[i].directive = "Word"
    BY <2>3, SelectGlobalIs
  <2>5. \A i \in 1 .. Len(s) : i = 1 \/ i \in 2 .. Len(s)
    BY <2>4
  <2>6. \A i \in 2 .. Len(s) : s[i] # x
    BY <1>6, <2>4 DEF DS!Label
  <2>7. s[1] = x <=> node.name = label
    BY <1>6, <2>4 DEF DS!Label
  <2>8. 1 \in 1 .. Len(s)
    BY <2>4
  <2>9. node \in GlobalNamed(label) <=> node.name = label
    BY DEF GlobalNamed
  <2>10. Once(s, {x}) <=> s[1] = x
    BY <2>5, <2>6, <2>8 DEF Once
  <2>11. Never(s, {x}) <=> s[1] # x
    BY <2>5, <2>6, <2>8 DEF Never
  <2> QED
    BY <2>1, <2>2, <2>7, <2>9, <2>10, <2>11
<1>8. Once(FlattenSeq(u), {x}) <=> Once(gs, GlobalNamed(label))
  BY <1>2, <1>5, <1>7, MappedCounts
<1>9. PICK d \in Seq(DataItems) : d = data
  BY <1>1, <1>2, <1>5
<1>10. {i \in DOMAIN d : d[i] = x} = Positions(d, {x})
  BY DEF Positions
<1>11. Cardinality(Positions(d, {x})) = 1 <=> Once(d, {x})
  BY CountPositions
<1> QED
  BY <1>1, <1>2, <1>5, <1>6, <1>8, <1>9, <1>10, <1>11

LEMMA GlobalsCount ==
  ASSUME CBP!IInv, IRTyped, code = ir, NEW label
  PROVE  Cardinality({g \in DOMAIN ir : ir[g].ir = "Global" /\ ir[g].name = label}) = 1
           <=> Once(CBP!GlobalsIn(code), GlobalNamed(label))
<1>1. PICK c \in Seq(TranslatedNodes) : c = ir
  BY DEF IRTyped
<1>2. PICK u : u = [i \in 1 .. Len(c) |-> CBP!GlobalAt(c, i)]
  OBVIOUS
<1>3. u \in [1 .. Len(c) -> Seq(GlobalNodes)] /\ CBP!GlobalsIn(code) = FlattenSeq(u)
  BY <1>1, <1>2, LoweredParts
<1>4. ASSUME NEW i \in 1 .. Len(c)
      PROVE  /\ Once(u[i], GlobalNamed(label)) <=> c[i] \in GlobalNamed(label)
             /\ Never(u[i], GlobalNamed(label)) <=> c[i] \notin GlobalNamed(label)
  <2>1. PICK node : node = c[i]
    OBVIOUS
  <2>2. u[i] = IF node.ir = "Global" THEN << node >> ELSE << >>
    BY <1>2, <2>1 DEF CBP!GlobalAt
  <2>3. node \in GlobalNamed(label) => node.ir = "Global"
    BY BuilderAssumption DEF GlobalNamed
  <2>4. CASE node.ir = "Global"
    BY <2>1, <2>2, <2>4, OnceTuples
  <2>5. CASE node.ir # "Global"
    <3>1. u[i] = << >>
      BY <2>2, <2>5
    <3> QED
      BY <2>1, <2>3, <2>5, <3>1, OnceTuples
  <2> QED
    BY <2>4, <2>5
<1>5. Once(FlattenSeq(u), GlobalNamed(label)) <=> Once(c, GlobalNamed(label))
  BY <1>3, <1>4, MappedCounts
<1>6. {g \in DOMAIN c : c[g].ir = "Global" /\ c[g].name = label}
        = Positions(c, GlobalNamed(label))
  <2>1. \A i \in DOMAIN c : c[i] \in TranslatedNodes
    OBVIOUS
  <2>2. ASSUME NEW i \in DOMAIN c
        PROVE  c[i] \in GlobalNamed(label) <=> c[i].ir = "Global" /\ c[i].name = label
    <3>1. PICK node \in TranslatedNodes : node = c[i]
      BY <2>1
    <3>2. node.ir = "Global" <=> node \in GlobalNodes
      BY TranslatedKinds, BuilderAssumption
    <3> QED
      BY <3>1, <3>2 DEF GlobalNamed
  <2> QED
    BY <2>2 DEF Positions
<1>7. Cardinality(Positions(c, GlobalNamed(label))) = 1 <=> Once(c, GlobalNamed(label))
  BY CountPositions
<1> QED
  BY <1>1, <1>3, <1>5, <1>6, <1>7

\* An address taken has its label once in the data section, if its global is in
\* the IR once.
LEMMA AddressesAgree ==
  ASSUME IInv, DataInv, status = "backend", stage = "done", NEW label
  PROVE  Cardinality({d \in DOMAIN data : data[d] = DS!Label(label)}) = 1
           <=> Cardinality({g \in DOMAIN ir : ir[g].ir = "Global" /\ ir[g].name = label}) = 1
<1>1. mod.globals \in Seq(GlobalNodes) /\ mod.globals = CBP!GlobalsIn(code)
  BY GlobalsTyped
<1>2. data = DataUpto(Len(mod.globals))
  BY DEF DataInv, DataHolds
<1>3. CBP!IInv /\ IRTyped /\ code = ir
  BY CodeIsIR
<1>4. Cardinality({d \in DOMAIN data : data[d] = DS!Label(label)}) = 1
        <=> Once(mod.globals, GlobalNamed(label))
  BY <1>1, <1>2, DataLabels
<1>5. Cardinality({g \in DOMAIN ir : ir[g].ir = "Global" /\ ir[g].name = label}) = 1
        <=> Once(CBP!GlobalsIn(code), GlobalNamed(label))
  BY <1>3, GlobalsCount
<1> QED
  BY <1>1, <1>4, <1>5

-----------------------------------------------------------------------------
(* Every transfer of control of the assembly has its place.                *)

LEMMA BodyNodeLabels ==
  ASSUME NEW node \in TranslatedNodes
  PROVE  /\ node.ir \in {"Label", "Goto", "If"} => NoExit(node.label)
         /\ node.ir = "Call" => NoExit(node.func)
<1>1. CASE node \in BodyNodes
  BY <1>1 DEF BodyNodes
<1>2. CASE node.ir \in {"Function", "Global", "Return"}
  BY <1>2
<1> QED
  BY <1>1, <1>2, TranslatedKinds

LEMMA Resolved ==
  ASSUME IInv, DataInv, IRResolves, status = "backend", stage = "done", NEW i \in DOMAIN out
  PROVE  /\ out[i].kind \in {"Jump", "Branch"} => Cardinality(Defined(out[i].label)) = 1
         /\ out[i].kind = "Call" =>
              Cardinality(Defined(out[i].label)) = (IF out[i].label \in RV!Library THEN 0 ELSE 1)
         /\ out[i].kind = "La" =>
              Cardinality({d \in DOMAIN data : data[d] = DS!Label(out[i].label)}) = 1
<1> SUFFICES ASSUME out[i].kind \in {"Jump", "Branch", "Call", "La"}
             PROVE  /\ out[i].kind \in {"Jump", "Branch"} => Cardinality(Defined(out[i].label)) = 1
                    /\ out[i].kind = "Call" =>
                         Cardinality(Defined(out[i].label))
                           = (IF out[i].label \in RV!Library THEN 0 ELSE 1)
                    /\ out[i].kind = "La" =>
                         Cardinality({d \in DOMAIN data : data[d] = DS!Label(out[i].label)}) = 1
  OBVIOUS
<1>1. Emptied
  BY WhenDone
<1>2. i \in 1 .. Len(out)
  BY <1>1, EmittedParts
<1>3. PICK f \in 1 .. Len(mod.functions) : \E p \in 1 .. Len(mod.functions[f].entry) :
        Matches(out[i], mod.functions[f].entry[p])
  BY <1>1, <1>2, OutFrom
<1>4. PICK p \in 1 .. Len(mod.functions[f].entry) : Matches(out[i], mod.functions[f].entry[p])
  BY <1>3
<1>5. PICK node : node = mod.functions[f].entry[p]
  OBVIOUS
<1>6. PICK label : label = out[i].label
  OBVIOUS
<1>7. /\ out[i].kind = "Jump" <=> node.ir = "Goto"
      /\ out[i].kind = "Branch" <=> node.ir = "If"
      /\ out[i].kind = "Call" <=> node.ir = "Call"
      /\ out[i].kind = "La" <=> node.ir = "LoadAddr"
      /\ node.ir \in {"Goto", "If", "LoadAddr"} => label = node.label
      /\ node.ir = "Call" => label = node.func
  BY <1>4, <1>5, <1>6 DEF Matches
<1>8. \/ \E k \in DOMAIN ir : ir[k] = node
      \/ node = CBP!Goto(RetLabel(mod.functions[f].name))
  BY <1>1, <1>5, <1>7, NodeFrom
<1>9. CASE node = CBP!Goto(RetLabel(mod.functions[f].name))
  <2>1. PICK exit : exit = RetLabel(mod.functions[f].name)
    OBVIOUS
  <2>2. node.ir = "Goto" /\ node.label = exit
    BY <1>9, <2>1 DEF CBP!Goto
  <2>3. Cardinality(Defined(exit)) = 1
    BY <1>1, <2>1, ExitDefined
  <2>4. out[i].kind = "Jump" /\ label = exit
    BY <1>7, <2>2
  <2> QED
    BY <1>6, <2>3, <2>4
<1>10. ASSUME NEW k \in DOMAIN ir, ir[k] = node
       PROVE  /\ node.ir \in {"Goto", "If"} => Cardinality(Defined(label)) = 1
              /\ node.ir = "Call" =>
                   Cardinality(Defined(label)) = (IF label \in RV!Library THEN 0 ELSE 1)
              /\ node.ir = "LoadAddr" =>
                   Cardinality({d \in DOMAIN data : data[d] = DS!Label(label)}) = 1
  <2>1. node \in TranslatedNodes
    <3>1. ir \in Seq(TranslatedNodes)
      BY <1>1 DEF Emptied, IRTyped
    <3> QED
      BY <1>10, <3>1
  <2>2. /\ node.ir \in {"Goto", "If"} => Cardinality(Places(node.label)) = 1
        /\ node.ir = "Call" =>
             Cardinality(Places(node.func)) = (IF node.func \in RV!Library THEN 0 ELSE 1)
        /\ node.ir = "LoadAddr" =>
             Cardinality({g \in DOMAIN ir : ir[g].ir = "Global" /\ ir[g].name = node.label}) = 1
    BY <1>10 DEF IRResolves
  <2>3. CASE node.ir \in {"Goto", "If"}
    <3>1. NoExit(label) /\ Cardinality(Places(label)) = 1
      BY <1>7, <2>1, <2>2, <2>3, BodyNodeLabels
    <3> QED
      BY <1>1, <2>3, <3>1, PlacesAgree
  <2>4. CASE node.ir = "Call"
    <3>1. NoExit(label) /\ Cardinality(Places(label)) = (IF label \in RV!Library THEN 0 ELSE 1)
      BY <1>7, <2>1, <2>2, <2>4, BodyNodeLabels
    <3>2. /\ Cardinality(Defined(label)) = 1 <=> Cardinality(Places(label)) = 1
          /\ Cardinality(Defined(label)) = 0 <=> Cardinality(Places(label)) = 0
      BY <1>1, <3>1, PlacesAgree
    <3> QED
      BY <2>4, <3>1, <3>2
  <2>5. CASE node.ir = "LoadAddr"
    <3>1. Cardinality({g \in DOMAIN ir : ir[g].ir = "Global" /\ ir[g].name = label}) = 1
      BY <1>7, <2>2, <2>5
    <3>2. Cardinality({d \in DOMAIN data : data[d] = DS!Label(label)}) = 1
      BY <3>1, AddressesAgree
    <3> QED
      BY <2>5, <3>2
  <2> QED
    BY <2>3, <2>4, <2>5
<1>11. CASE \E k \in DOMAIN ir : ir[k] = node
  BY <1>6, <1>7, <1>10, <1>11
<1> QED
  BY <1>8, <1>9, <1>11

LEMMA DataInvariant == Spec => []DataInv
BY Invariant, DataInit, DataNext, PTL DEF Spec

\* Where every jump, branch, call and address of the IR has its one place, so has
\* every one of the assembly: the passes add only the jumps to exit blocks, whose
\* labels the epilogues define once each, and they neither lose nor double a label
\* (LabelsResolve; cfg_builder.cpp, inst_selector.cpp, asm_emitter.cpp).
THEOREM LabelsStayResolved == Spec /\ []IRResolves => []LabelsResolve
<1>1. IInv /\ DataInv /\ IRResolves => LabelsResolve
  BY Resolved DEF LabelsResolve
<1> QED
  BY <1>1, Invariant, DataInvariant, PTL

-----------------------------------------------------------------------------
(* Where the jumps and calls of the assembly lead.                         *)

\* The IR's own node behind a transfer of the f-th function, if there is one.
Behind(t, f) ==
  \E k \in 1 .. Len(ir) :
    /\ Matches(t, ir[k])
    /\ CBP!Starts(ir, k) # {} /\ CBP!OwnerIn(ir, k) = mod.functions[f].name

LEMMA ControlSource ==
  ASSUME Emptied, NEW f \in 1 .. Len(mod.functions), NEW t,
         t \in BP!Range(BP!FunctionControl(prog[f])),
         t.kind \in {"Label", "Jump", "Branch", "Call"}
  PROVE  \/ t.label = RetLabel(mod.functions[f].name) /\ t.kind \in {"Label", "Jump"}
         \/ Behind(t, f)
<1>1. PICK fn : fn = mod.functions[f]
  OBVIOUS
<1>2. PICK name : name = fn.name
  OBVIOUS
<1>3. prog[f].exit = RetLabel(name)
  BY <1>1, <1>2, FunctionFacts
<1>4. CASE t = BP!Transfer("Label", BP!Unused, prog[f].exit)
  BY <1>1, <1>2, <1>3, <1>4 DEF BP!Transfer
<1>5. CASE t = BP!Transfer("Ret", BP!Unused, BP!Unused)
  BY <1>5 DEF BP!Transfer
<1>6. CASE \E p \in 1 .. Len(fn.entry) : Matches(t, fn.entry[p])
  <2>1. PICK p \in 1 .. Len(fn.entry) : Matches(t, fn.entry[p])
    BY <1>6
  <2>2. PICK node : node = fn.entry[p]
    OBVIOUS
  <2>3. Matches(t, node)
    BY <2>1, <2>2
  <2>4. CBP!From(node, ir, name)
    <3>1. CBP!IInv /\ built /\ code = ir
      BY DEF Emptied
    <3>2. PICK fs : fs = mod.functions
      OBVIOUS
    <3>3. \A g \in 1 .. Len(fs) : CBP!IsBuilt(fs[g], code)
      BY <3>1, <3>2, BuiltFunctions
    <3>4. CBP!IsBuilt(fn, ir)
      BY <1>1, <3>1, <3>2, <3>3
    <3>5. CBP!Sourced(fn.entry, ir, name)
      BY <1>2, <3>4 DEF CBP!IsBuilt
    <3> QED
      BY <2>2, <3>5 DEF CBP!Sourced
  <2>5. CASE node.ir = "Assign"
    BY <2>3, <2>5 DEF Matches
  <2>6. CASE node = CBP!Goto(RetLabel(name))
    <3>1. node.ir = "Goto" /\ node.label = RetLabel(name)
      BY <2>6 DEF CBP!Goto
    <3> QED
      BY <1>1, <1>2, <2>3, <3>1 DEF Matches
  <2>7. CASE \E k \in 1 .. Len(ir) : /\ ir[k] = node /\ CBP!Starts(ir, k) # {}
                                     /\ CBP!OwnerIn(ir, k) = name
    BY <1>1, <1>2, <2>3, <2>7 DEF Behind
  <2> QED
    BY <2>4, <2>5, <2>6, <2>7 DEF CBP!From
<1> QED
  BY <1>1, <1>4, <1>5, <1>6, ControlFrom

\* Two nodes with no Function in between have one owner.
LEMMA SameOwner ==
  ASSUME NEW c \in Seq(TranslatedNodes), NEW i \in 1 .. Len(c), NEW j \in 1 .. Len(c),
         \A k \in (i .. j) \cup (j .. i) : c[k].ir # "Function"
  PROVE  CBP!OwnerIn(c, i) = CBP!OwnerIn(c, j)
<1>1. i \in Nat /\ j \in Nat
  OBVIOUS
<1>2. CBP!Starts(c, i) = CBP!Starts(c, j)
  <2>1. ASSUME NEW a \in Nat, NEW b \in Nat, \A k \in a .. b : c[k].ir # "Function", a <= b
        PROVE  CBP!Starts(c, a) = CBP!Starts(c, b)
    <3>1. \A k \in 1 .. b : k \in 1 .. a \/ k \in a .. b
      BY <2>1
    <3>2. \A k \in 1 .. a : k \in 1 .. b
      BY <2>1
    <3> QED
      BY <2>1, <3>1, <3>2 DEF CBP!Starts
  <2>2. i <= j \/ j <= i
    BY <1>1
  <2> QED
    BY <1>1, <2>1, <2>2
<1> QED
  BY <1>2 DEF CBP!OwnerIn

-----------------------------------------------------------------------------
(* Which places a label has.                                               *)

NameIs(f) == mod.functions[f].name

LEMMA NamesOfFunctions ==
  ASSUME Emptied, NEW f \in 1 .. Len(mod.functions)
  PROVE  /\ NameIs(f) \in FuncNames /\ NameIs(f) = prog[f].entry[1].name
         /\ \E k \in 1 .. Len(ir) : ir[k] = CBP!Function(NameIs(f))
         /\ \A g \in 1 .. Len(mod.functions) : NameIs(f) = NameIs(g) => f = g
<1>1. CBP!IInv /\ built /\ code = ir
  BY DEF Emptied
<1>2. PICK fs : fs = mod.functions
  OBVIOUS
<1>3. /\ \A g \in 1 .. Len(fs) : CBP!IsBuilt(fs[g], code)
      /\ \A g, h \in 1 .. Len(fs) : fs[g].name = fs[h].name => g = h
  BY <1>1, <1>2, BuiltFunctions
<1>4. \E k \in 1 .. Len(ir) : ir[k] = CBP!Function(fs[f].name)
  BY <1>1, <1>2, <1>3 DEF CBP!IsBuilt
<1>5. /\ fs[f].name \in FuncNames /\ CBP!IsEntry(fs[f].entry, fs[f].name)
      /\ prog[f].entry = fs[f].entry
  BY <1>2, FunctionFacts
<1>6. prog[f].entry[1].name = fs[f].name
  BY <1>5 DEF CBP!IsEntry, CBP!Function
<1> QED
  BY <1>2, <1>3, <1>4, <1>5, <1>6 DEF NameIs

\* The g-th function defines label, as a label or as its name.
DefinesLabel(g, kind, label) ==
  \/ kind = "Function" /\ label = NameIs(g)
  \/ /\ kind = "Label"
     /\ \E t \in BP!Range(BP!FunctionControl(prog[g])) : t.kind = "Label" /\ t.label = label

LEMMA DefinedFrom ==
  ASSUME Emptied, NEW g \in 1 .. Len(mod.functions), NEW kind, NEW label,
         DefinesLabel(g, kind, label)
  PROVE  \/ kind = "Label" /\ label = RetLabel(NameIs(g))
         \/ /\ NoExit(label)
            /\ \E j \in Places(label) :
                 /\ j \in 1 .. Len(ir) /\ ir[j].ir = kind
                 /\ kind = "Label" => /\ CBP!Starts(ir, j) # {}
                                      /\ CBP!OwnerIn(ir, j) = NameIs(g)
<1>1. ir \in Seq(TranslatedNodes) /\ DOMAIN ir = 1 .. Len(ir)
  BY DEF Emptied, IRTyped
<1>2. CASE kind = "Function" /\ label = NameIs(g)
  <2>1. NameIs(g) \in FuncNames
    BY NamesOfFunctions
  <2>2. NoExit(label)
    BY <1>2, <2>1, TranslationAssumption
  <2>3. PICK j \in 1 .. Len(ir) : ir[j] = CBP!Function(label)
    BY <1>2, NamesOfFunctions
  <2>4. ir[j].ir = "Function" /\ ir[j].name = label
    BY <2>3 DEF CBP!Function
  <2>5. j \in Places(label)
    BY <1>1, <2>4 DEF Places
  <2> QED
    BY <1>2, <2>2, <2>4, <2>5
<1>3. CASE kind = "Label" /\ \E t \in BP!Range(BP!FunctionControl(prog[g])) :
                                t.kind = "Label" /\ t.label = label
  <2>1. PICK t \in BP!Range(BP!FunctionControl(prog[g])) : t.kind = "Label" /\ t.label = label
    BY <1>3
  <2>2. label = RetLabel(NameIs(g)) \/ Behind(t, g)
    BY <2>1, ControlSource DEF NameIs
  <2>3. CASE Behind(t, g)
    <3>1. PICK j \in 1 .. Len(ir) : /\ Matches(t, ir[j])
                                    /\ CBP!Starts(ir, j) # {} /\ CBP!OwnerIn(ir, j) = NameIs(g)
      BY <2>3 DEF Behind, NameIs
    <3>2. ir[j].ir = "Label" /\ ir[j].label = label
      BY <2>1, <3>1 DEF Matches
    <3>3. j \in Places(label)
      BY <1>1, <3>2 DEF Places
    <3>4. ir[j] \in TranslatedNodes
      BY <1>1
    <3>5. NoExit(label)
      BY <3>2, <3>4, BodyNodeLabels
    <3> QED
      BY <1>3, <3>1, <3>2, <3>3, <3>5
  <2> QED
    BY <1>3, <2>2, <2>3
<1> QED
  BY <1>2, <1>3 DEF DefinesLabel

LEMMA ExitOrNot ==
  ASSUME Emptied, NEW f \in 1 .. Len(mod.functions), NEW label, NoExit(label)
  PROVE  label # RetLabel(NameIs(f))
<1>1. NameIs(f) \in FuncNames
  BY NamesOfFunctions
<1> QED
  BY <1>1 DEF NoExit

\* A jump or a branch leads to a label of its own function.
LEMMA JumpsStay ==
  ASSUME Emptied, JumpsLocal, NEW f \in 1 .. Len(mod.functions),
         NEW g \in 1 .. Len(mod.functions), NEW kind, NEW t,
         t \in BP!Range(BP!FunctionControl(prog[f])), t.kind \in {"Jump", "Branch"},
         DefinesLabel(g, kind, t.label)
  PROVE  kind = "Label" /\ f = g
<1>1. PICK label : label = t.label
  OBVIOUS
<1>2. ir \in Seq(TranslatedNodes) /\ DOMAIN ir = 1 .. Len(ir) /\ ir # << >>
  BY DEF Emptied, IRTyped
<1>3. label = RetLabel(NameIs(f)) \/ Behind(t, f)
  BY <1>1, ControlSource DEF NameIs
<1>4. \/ kind = "Label" /\ label = RetLabel(NameIs(g))
      \/ /\ NoExit(label)
         /\ \E j \in Places(label) :
              /\ j \in 1 .. Len(ir) /\ ir[j].ir = kind
              /\ kind = "Label" => CBP!Starts(ir, j) # {} /\ CBP!OwnerIn(ir, j) = NameIs(g)
  BY <1>1, DefinedFrom
<1>5. CASE label = RetLabel(NameIs(f))
  <2>1. kind = "Label" /\ label = RetLabel(NameIs(g))
    BY <1>4, <1>5, ExitOrNot
  <2>2. NameIs(f) \in FuncNames /\ NameIs(g) \in FuncNames
    BY NamesOfFunctions
  <2>3. NameIs(f) = NameIs(g)
    BY <1>5, <2>1, <2>2, TranslationAssumption
  <2> QED
    BY <2>1, <2>3, NamesOfFunctions
<1>6. CASE Behind(t, f)
  <2>1. PICK i \in 1 .. Len(ir) : /\ Matches(t, ir[i])
                                  /\ CBP!Starts(ir, i) # {} /\ CBP!OwnerIn(ir, i) = NameIs(f)
    BY <1>6 DEF Behind, NameIs
  <2>2. ir[i].ir \in {"Goto", "If"} /\ ir[i].label = label
    BY <1>1, <2>1 DEF Matches
  <2>3. NoExit(label)
    <3>1. ir[i] \in TranslatedNodes
      BY <1>2
    <3> QED
      BY <2>2, <3>1, BodyNodeLabels
  <2>4. PICK j \in Places(label) :
          /\ j \in 1 .. Len(ir) /\ ir[j].ir = kind
          /\ kind = "Label" => CBP!Starts(ir, j) # {} /\ CBP!OwnerIn(ir, j) = NameIs(g)
    BY <1>4, <2>3, ExitOrNot
  <2>5. ir[j].ir = "Label" /\ \A k \in (i .. j) \cup (j .. i) : ir[k].ir # "Function"
    BY <1>2, <2>2, <2>4 DEF JumpsLocal
  <2>6. CBP!OwnerIn(ir, i) = CBP!OwnerIn(ir, j)
    BY <1>2, <2>4, <2>5, SameOwner
  <2> QED
    BY <2>1, <2>4, <2>5, <2>6, NamesOfFunctions
<1> QED
  BY <1>3, <1>5, <1>6

\* A call leads to the beginning of a function.
LEMMA CallsEnter ==
  ASSUME Emptied, JumpsLocal, NEW f \in 1 .. Len(mod.functions),
         NEW g \in 1 .. Len(mod.functions), NEW kind, NEW t,
         t \in BP!Range(BP!FunctionControl(prog[f])), t.kind = "Call",
         DefinesLabel(g, kind, t.label)
  PROVE  kind = "Function"
<1>1. PICK label : label = t.label
  OBVIOUS
<1>2. ir \in Seq(TranslatedNodes) /\ DOMAIN ir = 1 .. Len(ir) /\ ir # << >>
  BY DEF Emptied, IRTyped
<1>3. Behind(t, f)
  BY ControlSource
<1>4. PICK i \in 1 .. Len(ir) : Matches(t, ir[i])
  BY <1>3 DEF Behind
<1>5. ir[i].ir = "Call" /\ ir[i].func = label
  BY <1>1, <1>4 DEF Matches
<1>6. NoExit(label)
  <2>1. ir[i] \in TranslatedNodes
    BY <1>2
  <2> QED
    BY <1>5, <2>1, BodyNodeLabels
<1>7. PICK j \in Places(label) : j \in 1 .. Len(ir) /\ ir[j].ir = kind
  BY <1>1, <1>6, DefinedFrom, ExitOrNot
<1> QED
  BY <1>2, <1>5, <1>7 DEF JumpsLocal

\* main is the beginning of a function.
LEMMA MainEntered ==
  ASSUME Emptied, JumpsLocal
  PROVE  /\ Cardinality(Defined("main")) = 1
         /\ \A g \in 1 .. Len(mod.functions) : \A kind :
              DefinesLabel(g, kind, "main") => kind = "Function"
<1>1. ir \in Seq(TranslatedNodes) /\ DOMAIN ir = 1 .. Len(ir) /\ ir # << >>
  BY DEF Emptied, IRTyped
<1>2. PICK label : label = "main"
  OBVIOUS
<1>3. PICK i \in DOMAIN ir : Places(label) = {i} /\ ir[i].ir = "Function"
  BY <1>1, <1>2 DEF JumpsLocal
<1>4. NoExit(label)
  <2>1. i \in Places(label)
    BY <1>3
  <2>2. ir[i].name = label /\ ir[i] \in TranslatedNodes
    BY <1>1, <1>3, <2>1 DEF Places
  <2>3. label \in FuncNames
    BY <1>3, <2>2, TranslatedKinds
  <2> QED
    BY <2>3, TranslationAssumption
<1>5. Cardinality(Defined(label)) = 1
  BY <1>3, <1>4, PlacesAgree, FS_Singleton
<1>6. ASSUME NEW g \in 1 .. Len(mod.functions), NEW kind, DefinesLabel(g, kind, label)
      PROVE  kind = "Function"
  <2>1. PICK j \in Places(label) : j \in 1 .. Len(ir) /\ ir[j].ir = kind
    BY <1>4, <1>6, DefinedFrom, ExitOrNot
  <2> QED
    BY <1>3, <2>1
<1> QED
  BY <1>2, <1>5, <1>6

-----------------------------------------------------------------------------
(* The shape of a place, and of the places it leads to.                    *)

\* What a stretch of code says of a place that is in a function.
LEMMA InFunction ==
  ASSUME NEW G, NEW inst, NEW s, NEW t, BP!Follows(G, inst, s, t),
         inst.kind # "GlobalLabel" \/ s.f # 0
  PROVE  BP!Within(G, inst, s, t) /\ s.f \in DOMAIN G
<1>1. s = BP!Outside => s.f = 0
  BY DEF BP!Outside, BP!At
<1> QED
  BY <1>1 DEF BP!Follows, BP!Within

LEMMA EntryShape ==
  ASSUME NEW G, NEW inst, NEW s, NEW t, BP!Within(G, inst, s, t), inst.kind = "Function"
  PROVE  s = BP!At(s.f, 0) /\ inst.label = G[s.f].name
<1>1. ~BP!Builds(inst, s, t)
  BY DEF BP!Builds
<1>2. ~BP!Frames(G[s.f], inst, s, t)
  BY DEF BP!Frames, BP!Moves, BP!Saves, BP!Restores
<1>3. ~BP!Works(G[s.f], inst, s, t)
  BY DEF BP!Works
<1> QED
  BY <1>1, <1>2, <1>3 DEF BP!Within

\* A label, a jump, a branch or a call is in the body of its function.
LEMMA TransferShape ==
  ASSUME NEW G, NEW inst, NEW s, NEW t, BP!Within(G, inst, s, t),
         inst.kind \in {"Label", "Jump", "Branch", "Call"}
  PROVE  /\ s = t /\ t = BP!Body(s.f) /\ s.f \in DOMAIN G
         /\ \E x \in G[s.f].control :
              x.kind = inst.kind /\ x.op = inst.op /\ x.label = inst.label
<1>1. ~BP!Builds(inst, s, t)
  BY DEF BP!Builds
<1>2. ~BP!Frames(G[s.f], inst, s, t)
  BY DEF BP!Frames, BP!Moves, BP!Saves, BP!Restores
<1>3. inst.kind # "Function"
  OBVIOUS
<1>4. BP!Works(G[s.f], inst, s, t) /\ s.f \in DOMAIN G
  BY <1>1, <1>2, <1>3 DEF BP!Within
<1>5. PICK x : x = [kind |-> inst.kind, op |-> inst.op, label |-> inst.label]
  OBVIOUS
<1>6. x \in G[s.f].control /\ s = t /\ t = BP!Body(s.f)
  BY <1>4, <1>5 DEF BP!Works
<1> QED
  BY <1>4, <1>5, <1>6

-----------------------------------------------------------------------------
(* What does not change while the program runs.                            *)

\* The functions, as the shapes refer to them.
Facts == BP!FirstFunctions(prog, frame, Len(prog))

\* fn has a frame that is laid out like fr: the slots are words of their own, and
\* outside of the arrays.
Sound(fn, fr) ==
  /\ fn.slots = fr.temp_offset /\ fn.size \in Nat
  /\ {"ra", "fp"} \subseteq DOMAIN fn.slots
  /\ \A r \in DOMAIN fn.slots : fn.slots[r] \in Nat /\ fn.slots[r] < fn.size
  /\ \A r, q \in DOMAIN fn.slots : fn.slots[r] = fn.slots[q] => r = q
  /\ \A i \in DOMAIN fr.decs :
       /\ fr.decs[i].lo \in Nat /\ fr.decs[i].size \in Nat
       /\ fr.decs[i].lo + fr.decs[i].size <= fn.size
       /\ \A r \in DOMAIN fn.slots :
            fn.slots[r] < fr.decs[i].lo \/ fr.decs[i].lo + fr.decs[i].size <= fn.slots[r]

\* The place of label is the entry of the function of that name.
Entry(G, c, sh, label) ==
  LET j == RV!LabelIn(c, label)
  IN  /\ j \in 1 .. Len(c) /\ sh[j].f \in DOMAIN G
      /\ sh[j] = BP!At(sh[j].f, 0) /\ G[sh[j].f].name = label

\* A jump lands in the body it is in, a call at an entry.
Lands(G, c, sh, i) ==
  /\ c[i].kind \in {"Jump", "Branch"} =>
       RV!LabelIn(c, c[i].label) \in 1 .. Len(c) /\ sh[RV!LabelIn(c, c[i].label)] = sh[i]
  /\ c[i].kind = "Call" /\ c[i].label \notin RV!Library => Entry(G, c, sh, c[i].label)

Loaded(G, F, c, d, sh) ==
  /\ c \in Seq(BP!InstSet) /\ BP!Annotates(G, c, sh) /\ sh[Len(c) + 1] = BP!Outside
  /\ DOMAIN G \subseteq Nat \ {0}
  /\ \A f \in DOMAIN G : Sound(G[f], F[f])
  /\ \A i \in 1 .. Len(c) : Lands(G, c, sh, i)
  /\ Entry(G, c, sh, "main")
  /\ \A a \in DOMAIN RV!InitialData(d) : a \in Int /\ a > StackTop

LEMMA FactsAre ==
  ASSUME Emptied
  PROVE  /\ Len(prog) \in Nat /\ Len(prog) = Len(mod.functions)
         /\ DOMAIN Facts = 1 .. Len(prog)
         /\ \A f \in 1 .. Len(prog) :
              /\ Facts[f].name = NameIs(f) /\ Facts[f].slots = frame[f].temp_offset
              /\ Facts[f].size = BP!StackSize(frame[f])
              /\ Facts[f].control = BP!Range(BP!FunctionControl(prog[f]))
<1>1. Len(prog) = Len(mod.functions) /\ Len(prog) \in Nat
  BY FunctionFacts DEF Emptied, HandedOver
<1>2. /\ DOMAIN Facts = 1 .. Len(prog)
      /\ \A f \in 1 .. Len(prog) : Facts[f] = BP!FactsOf(prog[f], frame[f])
  <2>1. PICK p : p = prog
    OBVIOUS
  <2>2. PICK fs : fs = frame
    OBVIOUS
  <2>3. PICK n : n = Len(p)
    OBVIOUS
  <2>4. PICK G : G = BP!FirstFunctions(p, fs, n)
    OBVIOUS
  <2>5. DOMAIN G = 1 .. n /\ \A f \in 1 .. n : G[f] = BP!FactsOf(p[f], fs[f])
    BY <2>4 DEF BP!FirstFunctions
  <2>6. G = Facts
    BY <2>1, <2>2, <2>3, <2>4 DEF Facts
  <2> QED
    BY <2>1, <2>2, <2>3, <2>5, <2>6
<1>3. ASSUME NEW f \in 1 .. Len(prog)
      PROVE  /\ Facts[f].name = NameIs(f) /\ Facts[f].slots = frame[f].temp_offset
             /\ Facts[f].size = BP!StackSize(frame[f])
             /\ Facts[f].control = BP!Range(BP!FunctionControl(prog[f]))
  <2>1. PICK p : p = prog[f]
    OBVIOUS
  <2>2. PICK fr : fr = frame[f]
    OBVIOUS
  <2>3. Facts[f] = BP!FactsOf(p, fr)
    BY <1>2, <2>1, <2>2
  <2>4. NameIs(f) = p.entry[1].name
    BY <1>1, <2>1, NamesOfFunctions
  <2>5. /\ BP!FactsOf(p, fr).name = p.entry[1].name /\ BP!FactsOf(p, fr).slots = fr.temp_offset
        /\ BP!FactsOf(p, fr).size = BP!StackSize(fr)
        /\ BP!FactsOf(p, fr).control = BP!Range(BP!FunctionControl(p))
    BY BP!FactsFields, ImmediateAssumption, ModuleAssumption
  <2> QED
    BY <2>1, <2>2, <2>3, <2>4, <2>5
<1> QED
  BY <1>1, <1>2, <1>3

\* A place with a label is one of the function whose label it is.
LEMMA PlaceShape ==
  ASSUME Emptied, NEW c, c = out, NEW sh, BP!Annotates(Facts, c, sh), NEW j \in 1 .. Len(c),
         c[j].kind \in {"Label", "Function"}
  PROVE  /\ sh[j].f \in 1 .. Len(mod.functions)
         /\ DefinesLabel(sh[j].f, c[j].kind, c[j].label)
         /\ c[j].kind = "Label" => sh[j] = BP!Body(sh[j].f)
         /\ c[j].kind = "Function" => sh[j] = BP!At(sh[j].f, 0)
<1>1. PICK inst : inst = c[j]
  OBVIOUS
<1>2. PICK s : s = sh[j]
  OBVIOUS
<1>3. PICK t : t = sh[j + 1]
  OBVIOUS
<1>4. PICK G : G = Facts
  OBVIOUS
<1>5. BP!Follows(G, inst, s, t)
  BY <1>1, <1>2, <1>3, <1>4 DEF BP!Annotates
<1>6. BP!Within(G, inst, s, t) /\ s.f \in DOMAIN G
  BY <1>1, <1>5, InFunction
<1>7. /\ s.f \in 1 .. Len(mod.functions) /\ G[s.f].name = NameIs(s.f)
      /\ G[s.f].control = BP!Range(BP!FunctionControl(prog[s.f]))
  BY <1>4, <1>6, FactsAre
<1>8. CASE inst.kind = "Function"
  <2>1. s = BP!At(s.f, 0) /\ inst.label = G[s.f].name
    BY <1>6, <1>8, EntryShape
  <2> QED
    BY <1>1, <1>2, <1>7, <1>8, <2>1 DEF DefinesLabel
<1>9. CASE inst.kind = "Label"
  <2>1. /\ s = BP!Body(s.f)
        /\ \E x \in G[s.f].control : x.kind = inst.kind /\ x.label = inst.label
    BY <1>6, <1>9, TransferShape
  <2> QED
    BY <1>1, <1>2, <1>7, <1>9, <2>1 DEF DefinesLabel
<1> QED
  BY <1>1, <1>8, <1>9

\* The one place of a label.
LEMMA LabelPlace ==
  ASSUME NEW c, c = out, NEW label, Cardinality(Defined(label)) = 1,
         c \in Seq(BP!InstSet)
  PROVE  /\ RV!LabelIn(c, label) \in 1 .. Len(c)
         /\ c[RV!LabelIn(c, label)].kind \in {"Label", "Function"}
         /\ c[RV!LabelIn(c, label)].label = label
<1>1. Defined(label) # {}
  BY FS_EmptySet
<1>2. \E i \in DOMAIN c : c[i].kind \in {"Label", "Function"} /\ c[i].label = label
  BY <1>1 DEF Defined
<1> QED
  BY <1>2 DEF RV!LabelIn

\* Where the jumps, branches and calls lead.
LEMMA LandsThere ==
  ASSUME IInv, DataInv, IRResolves, JumpsLocal, status = "backend", stage = "done",
         NEW c, c = out, NEW sh, BP!Annotates(Facts, c, sh), c \in Seq(BP!InstSet),
         NEW i \in 1 .. Len(c)
  PROVE  Lands(Facts, c, sh, i)
<1>0. Emptied
  BY WhenDone
<1>1. PICK inst : inst = c[i]
  OBVIOUS
<1>2. PICK s : s = sh[i]
  OBVIOUS
<1>3. PICK label : label = inst.label
  OBVIOUS
<1>4. PICK j : j = RV!LabelIn(c, label)
  OBVIOUS
<1>5. ASSUME inst.kind \in {"Jump", "Branch"} \/ (inst.kind = "Call" /\ label \notin RV!Library)
      PROVE  Cardinality(Defined(label)) = 1
  <2>1. i \in DOMAIN out
    OBVIOUS
  <2>2. inst = out[i]
    BY <1>1
  <2> QED
    BY <1>3, <1>5, <2>1, <2>2, Resolved
<1>6. ASSUME inst.kind \in {"Jump", "Branch"} \/ (inst.kind = "Call" /\ label \notin RV!Library)
      PROVE  /\ j \in 1 .. Len(c) /\ c[j].kind \in {"Label", "Function"} /\ c[j].label = label
             /\ sh[j].f \in 1 .. Len(mod.functions)
             /\ DefinesLabel(sh[j].f, c[j].kind, label)
             /\ c[j].kind = "Label" => sh[j] = BP!Body(sh[j].f)
             /\ c[j].kind = "Function" => sh[j] = BP!At(sh[j].f, 0)
  <2>1. j \in 1 .. Len(c) /\ c[j].kind \in {"Label", "Function"} /\ c[j].label = label
    BY <1>4, <1>5, <1>6, LabelPlace
  <2> QED
    BY <1>0, <2>1, PlaceShape
<1>7. ASSUME inst.kind \in {"Jump", "Branch", "Call"}
      PROVE  /\ s.f \in 1 .. Len(mod.functions) /\ s = BP!Body(s.f)
             /\ \E x \in BP!Range(BP!FunctionControl(prog[s.f])) :
                  x.kind = inst.kind /\ x.label = label
  <2>1. PICK t : t = sh[i + 1]
    OBVIOUS
  <2>2. PICK G : G = Facts
    OBVIOUS
  <2>3. BP!Follows(G, inst, s, t)
    BY <1>1, <1>2, <2>1, <2>2 DEF BP!Annotates
  <2>4. BP!Within(G, inst, s, t)
    BY <1>7, <2>3, InFunction
  <2>5. /\ s = BP!Body(s.f) /\ s.f \in DOMAIN G
        /\ \E x \in G[s.f].control : x.kind = inst.kind /\ x.label = inst.label
    BY <1>7, <2>4, TransferShape
  <2>6. s.f \in 1 .. Len(mod.functions) /\ G[s.f].control = BP!Range(BP!FunctionControl(prog[s.f]))
    BY <1>0, <2>2, <2>5, FactsAre
  <2> QED
    BY <1>3, <2>5, <2>6
<1>8. ASSUME inst.kind \in {"Jump", "Branch"}
      PROVE  j \in 1 .. Len(c) /\ sh[j] = s
  <2>1. PICK x \in BP!Range(BP!FunctionControl(prog[s.f])) : x.kind = inst.kind /\ x.label = label
    BY <1>7, <1>8
  <2>2. s.f \in 1 .. Len(mod.functions) /\ s = BP!Body(s.f)
    BY <1>7, <1>8
  <2>3. /\ sh[j].f \in 1 .. Len(mod.functions) /\ j \in 1 .. Len(c)
        /\ DefinesLabel(sh[j].f, c[j].kind, label)
        /\ c[j].kind = "Label" => sh[j] = BP!Body(sh[j].f)
    <3>1. inst.kind \in {"Jump", "Branch"} \/ (inst.kind = "Call" /\ label \notin RV!Library)
      BY <1>8
    <3> QED
      BY <1>6, <3>1
  <2>4. c[j].kind = "Label" /\ s.f = sh[j].f
    BY <1>0, <1>8, <2>1, <2>2, <2>3, JumpsStay
  <2> QED
    BY <2>2, <2>3, <2>4
<1>9. ASSUME inst.kind = "Call", label \notin RV!Library
      PROVE  Entry(Facts, c, sh, label)
  <2>1. PICK x \in BP!Range(BP!FunctionControl(prog[s.f])) : x.kind = inst.kind /\ x.label = label
    BY <1>7, <1>9
  <2>2. s.f \in 1 .. Len(mod.functions)
    BY <1>7, <1>9
  <2>3. /\ sh[j].f \in 1 .. Len(mod.functions) /\ j \in 1 .. Len(c)
        /\ DefinesLabel(sh[j].f, c[j].kind, label)
        /\ c[j].kind = "Function" => sh[j] = BP!At(sh[j].f, 0)
    BY <1>6, <1>9
  <2>4. c[j].kind = "Function"
    BY <1>0, <1>9, <2>1, <2>2, <2>3, CallsEnter
  <2>5. label = NameIs(sh[j].f)
    BY <2>3, <2>4 DEF DefinesLabel
  <2>6. sh[j].f \in DOMAIN Facts /\ Facts[sh[j].f].name = label
    BY <1>0, <2>3, <2>5, FactsAre
  <2> QED
    BY <1>4, <2>3, <2>4, <2>6 DEF Entry
<1> QED
  BY <1>1, <1>2, <1>3, <1>4, <1>8, <1>9 DEF Lands

\* Where the program begins.
LEMMA MainThere ==
  ASSUME Emptied, JumpsLocal, NEW c, c = out, NEW sh, BP!Annotates(Facts, c, sh),
         c \in Seq(BP!InstSet)
  PROVE  Entry(Facts, c, sh, "main")
<1>1. PICK label : label = "main"
  OBVIOUS
<1>2. PICK j : j = RV!LabelIn(c, label)
  OBVIOUS
<1>3. /\ Cardinality(Defined(label)) = 1
      /\ \A g \in 1 .. Len(mod.functions) : \A kind : DefinesLabel(g, kind, label) => kind = "Function"
  BY <1>1, MainEntered
<1>4. j \in 1 .. Len(c) /\ c[j].kind \in {"Label", "Function"} /\ c[j].label = label
  BY <1>2, <1>3, LabelPlace
<1>5. /\ sh[j].f \in 1 .. Len(mod.functions)
      /\ DefinesLabel(sh[j].f, c[j].kind, label)
      /\ c[j].kind = "Function" => sh[j] = BP!At(sh[j].f, 0)
  BY <1>4, PlaceShape
<1>6. c[j].kind = "Function"
  BY <1>3, <1>5
<1>7. label = NameIs(sh[j].f)
  BY <1>5, <1>6 DEF DefinesLabel
<1>8. sh[j].f \in DOMAIN Facts /\ Facts[sh[j].f].name = label
  BY <1>5, <1>7, FactsAre
<1> QED
  BY <1>1, <1>2, <1>4, <1>5, <1>6, <1>8 DEF Entry

LEMMA SoundThere ==
  ASSUME Emptied, NEW f \in 1 .. Len(prog)
  PROVE  Sound(Facts[f], frame[f])
<1>1. PICK fr : fr = frame[f]
  OBVIOUS
<1>2. PICK fn : fn = Facts[f]
  OBVIOUS
<1>3. fn.slots = fr.temp_offset /\ fn.size = BP!StackSize(fr)
  BY <1>1, <1>2, FactsAre
<1>4. /\ BP!IsFrame(fr, BP!Regs) /\ BP!FrameSeparate(fr)
      /\ {"ra", "fp"} \subseteq DOMAIN fr.temp_offset
  <2>1. f \in BP!Funcs
    BY DEF BP!Funcs
  <2>2. BP!IInv /\ BP!ReservedInv /\ stage = "done"
    BY DEF Emptied, BackendHolds
  <2> QED
    BY <1>1, <2>1, <2>2, BP!FinishedFrames, ImmediateAssumption, ModuleAssumption
<1>5. fr.temp_stack_size \in Nat /\ fr.reg_stack_size \in Nat /\ fr.temp_stack_size <= fn.size
  BY <1>3, <1>4 DEF BP!IsFrame, BP!StackSize
<1>6. \A r \in DOMAIN fn.slots : fn.slots[r] \in Nat /\ fn.slots[r] + 4 <= fr.temp_stack_size
  BY <1>3, <1>4 DEF BP!IsFrame, BP!FrameSeparate, BP!WithinTemps, BP!WordSize
<1>7. \A r, q \in DOMAIN fn.slots : fn.slots[r] = fn.slots[q] => r = q
  BY <1>3, <1>4, <1>6 DEF BP!FrameSeparate, BP!SlotsApart, BP!Apart, BP!WordSize
<1>8. ASSUME NEW i \in DOMAIN fr.decs
      PROVE  /\ fr.decs[i].lo \in Nat /\ fr.decs[i].size \in Nat
             /\ fr.decs[i].lo + fr.decs[i].size <= fn.size
             /\ \A r \in DOMAIN fn.slots :
                  fn.slots[r] < fr.decs[i].lo \/ fr.decs[i].lo + fr.decs[i].size <= fn.slots[r]
  <2>1. i \in 1 .. Len(fr.decs)
    BY <1>4 DEF BP!IsFrame
  <2>2. PICK d : d = fr.decs[i]
    OBVIOUS
  <2>3. d.lo \in Nat /\ d.size \in Nat
    <3>1. d \in BP!ArrayBlock
      BY <1>4, <2>1, <2>2 DEF BP!IsFrame
    <3> QED
      BY <3>1 DEF BP!ArrayBlock
  <2>4. /\ d.lo + d.size <= fr.temp_stack_size
        /\ \A r \in DOMAIN fr.temp_offset : BP!Apart(fr.temp_offset[r], BP!WordSize, d.lo, d.size)
    BY <1>4, <2>1, <2>2 DEF BP!FrameSeparate, BP!WithinTemps, BP!ArraysApart
  <2>5. \A r \in DOMAIN fn.slots : fn.slots[r] < d.lo \/ d.lo + d.size <= fn.slots[r]
    BY <1>3, <1>6, <2>3, <2>4 DEF BP!Apart, BP!WordSize
  <2> QED
    BY <1>3, <1>4, <1>5, <2>2, <2>3, <2>4, <2>5 DEF BP!StackSize, BP!IsFrame
<1>9. fn.size \in Nat
  BY <1>3, <1>5 DEF BP!StackSize
<1> QED
  BY <1>1, <1>2, <1>3, <1>4, <1>5, <1>6, <1>7, <1>8, <1>9 DEF Sound

\* The data section is above the stack.
LEMMA DataAbove ==
  ASSUME NEW S, NEW d \in Seq(S), NEW a \in DOMAIN RV!InitialData(d)
  PROVE  a \in Int /\ a > StackTop
<1>1. PICK i \in DOMAIN d : a = DataFrom + 4 * RV!WordsBefore(d, i)
  BY DEF RV!InitialData
<1>2. RV!WordsBefore(d, i) \in Nat
  <2>1. PICK D : D = {j \in DOMAIN d : j < i /\ d[j].directive = "Word"}
    OBVIOUS
  <2>2. PICK n \in Nat : n = Len(d)
    OBVIOUS
  <2>3. D \subseteq 1 .. n
    BY <2>1, <2>2
  <2>4. IsFiniteSet(1 .. n)
    BY <2>2, FS_Interval
  <2>5. IsFiniteSet(D)
    BY <2>3, <2>4, FS_Subset
  <2>6. Cardinality(D) \in Nat
    BY <2>5, FS_CardinalityType
  <2>7. RV!Cardinality(D) = Cardinality(D)
    BY DEF RV!Cardinality, Cardinality
  <2>8. RV!WordsBefore(d, i) = RV!Cardinality(D)
    BY <2>1 DEF RV!WordsBefore
  <2> QED
    BY <2>6, <2>7, <2>8
<1>3. DataFrom > StackTop /\ DataFrom \in Int /\ StackTop \in Int
  BY DriverAssumption
<1> QED
  BY <1>1, <1>2, <1>3

-----------------------------------------------------------------------------
(* What holds while it runs: the activations on the stack, the first of    *)
(* them main's and the last of them the one that is running.  An           *)
(* activation a is of the function a.f; sp was a.top and fp a.fp at its    *)
(* entry, and it returns to a.back.                                        *)

\* The frame of a begins at Low and ends below a.top.
Low(G, a) == a.top - G[a.f].size

Keeps(G, m, a, r, v) ==
  LET w == Low(G, a) + G[a.f].slots[r] IN w \in DOMAIN m /\ m[w] = v

\* b was called from the body of a, whose frame keeps what a has to restore.
WaitsFor(G, sh, m, a, b) ==
  /\ b.top = Low(G, a) /\ b.back \in 1 .. Len(sh) /\ sh[b.back] = BP!Body(a.f)
  /\ Keeps(G, m, a, "ra", a.back) /\ Keeps(G, m, a, "fp", a.fp)

Stacked(G, sh, m, A, n) ==
  /\ n \in Nat \ {0} /\ A[1].back = RV!Environment
  /\ \A j \in 1 .. n : A[j].f \in DOMAIN G /\ A[j].top \in Int /\ A[j].top <= StackTop
  /\ \A j \in 1 .. n - 1 : WaitsFor(G, sh, m, A[j], A[j + 1])
  /\ \A i, j \in 1 .. n : i < j => A[j].top <= Low(G, A[i])

\* The registers r are what a place of shape s says of them in the activation a.
Here(G, s, r, m, a) ==
  /\ DOMAIN r = RV!PhysReg /\ s.f = a.f
  /\ r["sp"] = IF s.p \in {0, 7} THEN a.top ELSE Low(G, a)
  /\ s.p \in {0, 1, 5, 6, 7} => r["ra"] = a.back
  /\ s.p \in {0, 1, 2, 6, 7} => r["fp"] = a.fp
  /\ s.p \in 2 .. 6 => Keeps(G, m, a, "ra", a.back)
  /\ s.p \in 3 .. 6 => Keeps(G, m, a, "fp", a.fp)
  /\ s.t4 = "const" => r["t4"] = s.k
  /\ s.t4 = "slot" => s.p \in 1 .. 6 /\ r["t4"] = Low(G, a) + s.k

\* The calls the machine remembers are those of the activations.
Recorded(G, A, n, cs) ==
  /\ Len(cs) = n - 1 /\ \E S : cs \in Seq(S)
  /\ A[1].top = StackTop /\ G[A[1].f].name = "main"
  /\ \A j \in 1 .. n - 1 :
       /\ cs[j].func = G[A[j + 1].f].name
       /\ cs[j].sp = A[j + 1].top /\ cs[j].ra = A[j + 1].back /\ cs[j].fp = A[j + 1].fp

\* The place of the instruction that executes, and the one behind it.
Live(G, c, sh, A, n, i, r, m, cs) ==
  /\ i \in 1 .. Len(c) + 1 /\ Here(G, sh[i], r, m, A[n])
  /\ Stacked(G, sh, m, A, n) /\ Recorded(G, A, n, cs)

\* Facts about the frame of an activation.
LEMMA FrameNumbers ==
  ASSUME NEW fn, NEW fr, Sound(fn, fr)
  PROVE  /\ fn.size \in Nat /\ "ra" \in DOMAIN fn.slots /\ "fp" \in DOMAIN fn.slots
         /\ fn.slots["ra"] \in Nat /\ fn.slots["fp"] \in Nat
         /\ fn.slots["ra"] # fn.slots["fp"]
         /\ \A r \in DOMAIN fn.slots : /\ fn.slots[r] \in Nat /\ fn.slots[r] < fn.size
                                       /\ r \notin {"ra", "fp"} =>
                                            fn.slots[r] \notin {fn.slots["ra"], fn.slots["fp"]}
<1>1. "ra" \in DOMAIN fn.slots /\ "fp" \in DOMAIN fn.slots
  BY DEF Sound
<1> QED
  BY <1>1 DEF Sound

LEMMA SumOf ==
  ASSUME NEW x \in Int, NEW y \in Int
  PROVE  RV!Operate("Add", x, y) = x + y
BY DriverAssumption DEF RV!Operate, RV!Compute

\* The address inst uses, and the registers when it has defined one.
Addressed(inst, r) == r[inst.rs1] + inst.imm
Given(inst, r, v)  == [r EXCEPT ![inst.rd] = v]

\* inst defines a register to be v; what Mv, La and Load fetch may be anything, but
\* for what Load finds.
Gives(inst, r, m, v) ==
  \/ inst.kind = "Arith" /\ v = RV!Operate(inst.op, r[inst.rs1], r[inst.rs2])
  \/ inst.kind = "ArithImm" /\ v = RV!Operate(inst.op, r[inst.rs1], inst.imm)
  \/ inst.kind \in {"Mv", "La"}
  \/ inst.kind = "Li" /\ v = inst.imm
  \/ inst.kind = "Load" /\ (Addressed(inst, r) \in DOMAIN m => v = m[Addressed(inst, r)])

\* An instruction that defines a register.
LEMMA Moved ==
  ASSUME NEW G, NEW fr, NEW inst \in BP!InstSet, NEW s \in BP!Shapes, NEW t,
         BP!Within(G, inst, s, t),
         NEW a, a.top \in Int, Sound(G[a.f], fr), NEW r, NEW m, Here(G, s, r, m, a),
         NEW v, Gives(inst, r, m, v)
  PROVE  Here(G, t, Given(inst, r, v), m, a)
<1>0. PICK q : q = Given(inst, r, v)
  OBVIOUS
<1>1. PICK fn : fn = G[a.f]
  OBVIOUS
<1>2. PICK low \in Int : low = Low(G, a) /\ low = a.top - fn.size
  BY <1>1, FrameNumbers DEF Low
<1>3. /\ DOMAIN r = RV!PhysReg /\ s.f = a.f
      /\ r["sp"] = IF s.p \in {0, 7} THEN a.top ELSE low
      /\ s.p \in {0, 1, 5, 6, 7} => r["ra"] = a.back
      /\ s.p \in {0, 1, 2, 6, 7} => r["fp"] = a.fp
      /\ s.p \in 2 .. 6 => Keeps(G, m, a, "ra", a.back)
      /\ s.p \in 3 .. 6 => Keeps(G, m, a, "fp", a.fp)
      /\ s.t4 = "const" => r["t4"] = s.k
      /\ s.t4 = "slot" => s.p \in 1 .. 6 /\ r["t4"] = low + s.k
  BY <1>2 DEF Here
<1>4. SUFFICES
      /\ DOMAIN q = RV!PhysReg /\ t.f = a.f
      /\ q["sp"] = IF t.p \in {0, 7} THEN a.top ELSE low
      /\ t.p \in {0, 1, 5, 6, 7} => q["ra"] = a.back
      /\ t.p \in {0, 1, 2, 6, 7} => q["fp"] = a.fp
      /\ t.p \in 2 .. 6 => Keeps(G, m, a, "ra", a.back)
      /\ t.p \in 3 .. 6 => Keeps(G, m, a, "fp", a.fp)
      /\ t.t4 = "const" => q["t4"] = t.k
      /\ t.t4 = "slot" => t.p \in 1 .. 6 /\ q["t4"] = low + t.k
  BY <1>0, <1>2 DEF Here
<1>5. /\ DOMAIN q = RV!PhysReg /\ {"sp", "fp", "ra", "t4"} \subseteq RV!PhysReg
      /\ \A x \in RV!PhysReg : q[x] = IF x = inst.rd THEN v ELSE r[x]
  BY <1>0, <1>3 DEF RV!PhysReg, Given
<1>6. /\ inst.imm \in Int /\ s.f \in Nat /\ s.p \in 0 .. 7 /\ s.k \in Int
      /\ inst.kind \in {"Arith", "ArithImm", "Mv", "Li", "La", "Load"}
  BY DEF BP!Shapes, BP!InstSet, Gives
<1>7. CASE BP!Builds(inst, s, t)
  <2>1. inst.rd = "t4" /\ t.f = s.f /\ t.p = s.p
    <3>1. inst.rd = "t4" /\ (t = BP!Constant(s, inst.imm) \/ t = BP!Address(s))
      BY <1>7 DEF BP!Builds
    <3>2. /\ BP!Constant(s, inst.imm).f = s.f /\ BP!Constant(s, inst.imm).p = s.p
          /\ BP!Address(s).f = s.f /\ BP!Address(s).p = s.p
      BY <1>6, BP!ShapeChanges, ImmediateAssumption, ModuleAssumption
    <3> QED
      BY <3>1, <3>2
  <2>2. CASE inst.kind = "Li" /\ t = BP!Constant(s, inst.imm)
    <3>1. v = inst.imm /\ t.t4 = "const" /\ t.k = inst.imm
      BY <1>6, <2>2, BP!ShapeChanges, ImmediateAssumption, ModuleAssumption DEF Gives
    <3> QED
      BY <1>3, <1>5, <2>1, <3>1
  <2>3. CASE /\ inst.kind = "Arith" /\ inst.op = "Add" /\ inst.rs1 = "sp" /\ inst.rs2 = "t4"
             /\ s.t4 = "const" /\ s.p \in 1 .. 6 /\ t = BP!Address(s)
    <3>1. t.t4 = "slot" /\ t.k = s.k
      BY <1>6, <2>3, BP!ShapeChanges, ImmediateAssumption, ModuleAssumption
    <3>2. r["sp"] = low /\ r["t4"] = s.k
      BY <1>3, <2>3
    <3>3. v = low + s.k
      BY <1>2, <1>6, <2>3, <3>2, SumOf DEF Gives
    <3> QED
      BY <1>3, <1>5, <2>1, <2>3, <3>1, <3>3
  <2> QED
    BY <1>7, <2>2, <2>3 DEF BP!Builds
<1>8. CASE BP!Frames(G[s.f], inst, s, t)
  <2>1. s.f = a.f /\ G[s.f] = fn
    BY <1>1, <1>3
  <2>2. /\ fn.size \in Nat /\ fn.slots["ra"] \in Int /\ fn.slots["fp"] \in Int
    BY <1>1, FrameNumbers
  <2>3. \A p \in 0 .. 7 : /\ BP!At(s.f, p).f = s.f /\ BP!At(s.f, p).p = p
                          /\ BP!At(s.f, p).t4 = "any"
    BY DEF BP!At
  <2>4. ASSUME NEW rd, NEW by \in Int, BP!Moves(inst, s, rd, by), s.p \notin {0, 7} \/ by = -fn.size
        PROVE  inst.rd = rd /\ v = r["sp"] + by
    <3>1. r["sp"] \in Int
      BY <1>2, <1>3
    <3> QED
      BY <1>3, <1>6, <2>4, <3>1, SumOf DEF BP!Moves, Gives
  <2>5. ASSUME NEW reg \in {"ra", "fp"}, BP!Restores(fn, inst, s, reg), s.p \in 4 .. 5,
               NEW x, Keeps(G, m, a, reg, x)
        PROVE  inst.rd = reg /\ v = x
    <3>1. PICK w : w = low + fn.slots[reg]
      OBVIOUS
    <3>2. w \in DOMAIN m /\ m[w] = x
      BY <1>1, <1>2, <2>5, <3>1 DEF Keeps
    <3>3. r[inst.rs1] + inst.imm = w
      BY <1>2, <1>3, <1>6, <2>2, <2>5, <3>1 DEF BP!Restores, BP!Reaches
    <3> QED
      BY <2>5, <3>2, <3>3 DEF BP!Restores, Gives, Addressed
  <2>6. CASE s.p = 0 /\ BP!Moves(inst, s, "sp", -fn.size) /\ t = BP!At(s.f, 1)
    BY <1>2, <1>3, <1>5, <2>1, <2>2, <2>3, <2>4, <2>6
  <2>7. CASE s.p = 3 /\ BP!Moves(inst, s, "fp", fn.size) /\ t = BP!Body(s.f)
    BY <1>3, <1>5, <2>1, <2>2, <2>3, <2>4, <2>7 DEF BP!Body
  <2>8. CASE s.p = 4 /\ BP!Restores(fn, inst, s, "ra") /\ t = BP!At(s.f, 5)
    BY <1>3, <1>5, <2>1, <2>3, <2>5, <2>8
  <2>9. CASE s.p = 5 /\ BP!Restores(fn, inst, s, "fp") /\ t = BP!At(s.f, 6)
    BY <1>3, <1>5, <2>1, <2>3, <2>5, <2>9
  <2>10. CASE s.p = 6 /\ BP!Moves(inst, s, "sp", fn.size) /\ t = BP!At(s.f, 7)
    BY <1>2, <1>3, <1>5, <2>1, <2>2, <2>3, <2>4, <2>10
  <2> QED
    BY <1>6, <1>8, <2>1, <2>6, <2>7, <2>8, <2>9, <2>10 DEF BP!Frames, BP!Saves
<1>9. CASE BP!Works(G[s.f], inst, s, t)
  <2>1. /\ s.p = 4 /\ t = BP!Body(s.f) /\ inst.rd \notin {"sp", "fp", "ra"}
    BY <1>6, <1>9 DEF BP!Works, BP!Critical
  <2>2. t.f = s.f /\ t.p = 4 /\ t.t4 = "any"
    BY <2>1 DEF BP!Body, BP!At
  <2> QED
    BY <1>3, <1>5, <2>1, <2>2
<1> QED
  BY <1>6, <1>7, <1>8, <1>9 DEF BP!Within

-----------------------------------------------------------------------------
(* Stores.                                                                 *)

\* The memory m after v has been stored at w.
Written(m, w, v) == [x \in DOMAIN m \cup {w} |-> IF x = w THEN v ELSE m[x]]

LEMMA KeptElsewhere ==
  ASSUME NEW G, NEW m, NEW a, NEW reg, NEW x, NEW w, NEW v, Keeps(G, m, a, reg, x),
         w # Low(G, a) + G[a.f].slots[reg]
  PROVE  Keeps(G, Written(m, w, v), a, reg, x)
BY DEF Keeps, Written

LEMMA KeptThere ==
  ASSUME NEW G, NEW m, NEW a, NEW reg, NEW w, NEW v, w = Low(G, a) + G[a.f].slots[reg]
  PROVE  Keeps(G, Written(m, w, v), a, reg, v)
BY DEF Keeps, Written

LEMMA OffsetsDiffer ==
  ASSUME NEW low \in Int, NEW x \in Int, NEW y \in Int, x # y
  PROVE  low + x # low + y
OBVIOUS

\* The slots of the activation a.
SlotsOf(G, a) == {Low(G, a) + G[a.f].slots[reg] : reg \in DOMAIN G[a.f].slots}

\* A store in the prologue or in the body.
LEMMA Stored ==
  ASSUME NEW G, NEW fr, NEW inst \in BP!InstSet, inst.kind = "Store",
         NEW s \in BP!Shapes, NEW t, BP!Within(G, inst, s, t),
         NEW a, a.top \in Int, Sound(G[a.f], fr), NEW r, NEW m, Here(G, s, r, m, a),
         NEW w, w = Addressed(inst, r),
         inst.rs1 \notin {"sp", "t4"} => w \notin SlotsOf(G, a)
  PROVE  /\ inst.rs1 \in {"sp", "t4"} => w \in SlotsOf(G, a)
         /\ Here(G, t, r, Written(m, w, r[inst.rs2]), a)
<1>1. PICK fn : fn = G[a.f]
  OBVIOUS
<1>2. PICK low \in Int : low = Low(G, a) /\ low = a.top - fn.size
  BY <1>1, FrameNumbers DEF Low
<1>3. PICK after : after = Written(m, w, r[inst.rs2])
  OBVIOUS
<1>4. /\ DOMAIN r = RV!PhysReg /\ s.f = a.f
      /\ s.p \notin {0, 7} => r["sp"] = low
      /\ s.p \in {0, 1, 5, 6, 7} => r["ra"] = a.back
      /\ s.p \in {0, 1, 2, 6, 7} => r["fp"] = a.fp
      /\ s.p \in 2 .. 6 => Keeps(G, m, a, "ra", a.back)
      /\ s.p \in 3 .. 6 => Keeps(G, m, a, "fp", a.fp)
      /\ s.t4 = "slot" => r["t4"] = low + s.k
  BY <1>2 DEF Here
<1>5. inst.imm \in Int /\ s.k \in Int /\ s.p \in 0 .. 7
  BY DEF BP!Shapes, BP!InstSet
<1>6. ASSUME NEW reg \in DOMAIN fn.slots, BP!Reaches(inst, s, fn.slots[reg]), s.p \in 1 .. 4
      PROVE  w = low + fn.slots[reg] /\ w \in SlotsOf(G, a)
  <2>1. w = low + fn.slots[reg]
    <3>1. fn.slots[reg] \in Int
      BY <1>1, FrameNumbers
    <3>2. CASE inst.rs1 = "sp" /\ inst.imm = fn.slots[reg]
      BY <1>4, <1>6, <3>2 DEF Addressed
    <3>3. CASE inst.rs1 = "t4" /\ inst.imm = 0 /\ s.t4 = "slot" /\ s.k = fn.slots[reg]
      BY <1>2, <1>4, <3>1, <3>3 DEF Addressed
    <3> QED
      BY <1>6, <3>2, <3>3 DEF BP!Reaches
  <2> QED
    BY <1>1, <1>2, <2>1 DEF SlotsOf
<1>7. /\ "ra" \in DOMAIN fn.slots /\ "fp" \in DOMAIN fn.slots
      /\ fn.slots["ra"] \in Int /\ fn.slots["fp"] \in Int /\ fn.slots["ra"] # fn.slots["fp"]
      /\ \A reg \in DOMAIN fn.slots \ {"ra", "fp"} :
           /\ fn.slots[reg] \in Int
           /\ fn.slots[reg] # fn.slots["ra"] /\ fn.slots[reg] # fn.slots["fp"]
  BY <1>1, FrameNumbers
<1>8. BP!Frames(fn, inst, s, t) \/ BP!Works(fn, inst, s, t)
  <2>1. ~BP!Builds(inst, s, t)
    BY DEF BP!Builds
  <2>2. inst.kind # "Function" /\ G[s.f] = fn
    BY <1>1, <1>4
  <2> QED
    BY <2>1, <2>2 DEF BP!Within
<1>9. SUFFICES /\ inst.rs1 \in {"sp", "t4"} => w \in SlotsOf(G, a)
               /\ t.f = a.f /\ t.p \in 1 .. 4 /\ t.t4 = "any" /\ s.p \notin {0, 7}
               /\ t.p \in {0, 1, 5, 6, 7} => r["ra"] = a.back
               /\ t.p \in {0, 1, 2, 6, 7} => r["fp"] = a.fp
               /\ t.p \in 2 .. 6 => Keeps(G, after, a, "ra", a.back)
               /\ t.p \in 3 .. 6 => Keeps(G, after, a, "fp", a.fp)
  BY <1>2, <1>3, <1>4 DEF Here
<1>10. \A p \in 0 .. 7 : BP!At(s.f, p).f = s.f /\ BP!At(s.f, p).p = p /\ BP!At(s.f, p).t4 = "any"
  BY DEF BP!At
<1>11. ASSUME NEW reg \in {"ra", "fp"}, NEW x, Keeps(G, m, a, reg, x), w # low + fn.slots[reg]
       PROVE  Keeps(G, after, a, reg, x)
  BY <1>1, <1>2, <1>3, <1>11, KeptElsewhere
<1>12. CASE BP!Frames(fn, inst, s, t)
  <2>1. ~BP!Moves(inst, s, "sp", -fn.size) /\ ~BP!Moves(inst, s, "fp", fn.size)
        /\ ~BP!Moves(inst, s, "sp", fn.size)
    BY DEF BP!Moves
  <2>2. \/ s.p = 1 /\ BP!Saves(fn, inst, s, "ra") /\ t = BP!At(s.f, 2)
        \/ s.p = 2 /\ BP!Saves(fn, inst, s, "fp") /\ t = BP!At(s.f, 3)
    BY <1>12, <2>1 DEF BP!Frames, BP!Restores
  <2>3. CASE s.p = 1 /\ BP!Saves(fn, inst, s, "ra") /\ t = BP!At(s.f, 2)
    <3>1. inst.rs2 = "ra" /\ BP!Reaches(inst, s, fn.slots["ra"])
      BY <2>3 DEF BP!Saves
    <3>2. w = low + fn.slots["ra"] /\ w \in SlotsOf(G, a)
      BY <1>6, <1>7, <2>3, <3>1
    <3>3. r["ra"] = a.back /\ r["fp"] = a.fp
      BY <1>4, <2>3
    <3>4. Keeps(G, after, a, "ra", a.back)
      BY <1>1, <1>2, <1>3, <3>1, <3>2, <3>3, KeptThere
    <3>5. t.f = a.f /\ t.p = 2 /\ t.t4 = "any"
      BY <1>4, <1>10, <2>3
    <3> QED
      BY <2>3, <3>2, <3>3, <3>4, <3>5
  <2>4. CASE s.p = 2 /\ BP!Saves(fn, inst, s, "fp") /\ t = BP!At(s.f, 3)
    <3>1. inst.rs2 = "fp" /\ BP!Reaches(inst, s, fn.slots["fp"])
      BY <2>4 DEF BP!Saves
    <3>2. w = low + fn.slots["fp"] /\ w \in SlotsOf(G, a)
      BY <1>6, <1>7, <2>4, <3>1
    <3>3. r["fp"] = a.fp /\ Keeps(G, m, a, "ra", a.back)
      BY <1>4, <2>4
    <3>4. Keeps(G, after, a, "fp", a.fp)
      BY <1>1, <1>2, <1>3, <3>1, <3>2, <3>3, KeptThere
    <3>5. w # low + fn.slots["ra"]
      <4>1. low + fn.slots["fp"] # low + fn.slots["ra"]
        BY <1>2, <1>7, OffsetsDiffer
      <4> QED
        BY <3>2, <4>1
    <3>6. Keeps(G, after, a, "ra", a.back)
      BY <1>11, <3>3, <3>5
    <3>7. t.f = a.f /\ t.p = 3 /\ t.t4 = "any"
      BY <1>4, <1>10, <2>4
    <3> QED
      BY <2>4, <3>2, <3>4, <3>6, <3>7
  <2> QED
    BY <2>2, <2>3, <2>4
<1>13. CASE BP!Works(fn, inst, s, t)
  <2>1. /\ s.p = 4 /\ t = BP!At(s.f, 4)
        /\ \/ inst.rs1 \notin {"sp", "t4"}
           \/ \E reg \in DOMAIN fn.slots \ {"ra", "fp"} : BP!Reaches(inst, s, fn.slots[reg])
    BY <1>13 DEF BP!Works, BP!Body
  <2>2. /\ w # low + fn.slots["ra"] /\ w # low + fn.slots["fp"]
        /\ inst.rs1 \in {"sp", "t4"} => w \in SlotsOf(G, a)
    <3>1. CASE inst.rs1 \notin {"sp", "t4"}
      BY <1>1, <1>2, <1>7, <3>1 DEF SlotsOf
    <3>2. CASE \E reg \in DOMAIN fn.slots \ {"ra", "fp"} : BP!Reaches(inst, s, fn.slots[reg])
      <4>1. PICK reg \in DOMAIN fn.slots \ {"ra", "fp"} : BP!Reaches(inst, s, fn.slots[reg])
        BY <3>2
      <4>2. w = low + fn.slots[reg] /\ w \in SlotsOf(G, a)
        BY <1>6, <2>1, <4>1
      <4>3. /\ fn.slots[reg] \in Int
            /\ fn.slots[reg] # fn.slots["ra"] /\ fn.slots[reg] # fn.slots["fp"]
        BY <1>7
      <4>4. /\ low + fn.slots[reg] # low + fn.slots["ra"]
            /\ low + fn.slots[reg] # low + fn.slots["fp"]
        BY <1>2, <1>7, <4>3, OffsetsDiffer
      <4> QED
        BY <4>2, <4>4
    <3> QED
      BY <2>1, <3>1, <3>2
  <2>3. Keeps(G, after, a, "ra", a.back) /\ Keeps(G, after, a, "fp", a.fp)
    BY <1>4, <1>11, <2>1, <2>2
  <2>4. t.f = a.f /\ t.p = 4 /\ t.t4 = "any"
    BY <1>4, <1>10, <2>1
  <2> QED
    BY <2>1, <2>2, <2>3, <2>4
<1> QED
  BY <1>8, <1>12, <1>13

\* An address in the frame of one activation is in no slot of another.
LEMMA OtherFrames ==
  ASSUME NEW G, NEW F, \A f \in DOMAIN G : Sound(G[f], F[f]),
         NEW sh, NEW m, NEW A, NEW n, Stacked(G, sh, m, A, n),
         NEW i \in 1 .. n, NEW j \in 1 .. n, i # j,
         NEW w \in Int, Low(G, A[i]) <= w, w < A[i].top
  PROVE  w \notin SlotsOf(G, A[j])
<1>1. PICK a : a = A[i]
  OBVIOUS
<1>2. PICK b : b = A[j]
  OBVIOUS
<1>3. PICK fn : fn = G[b.f]
  OBVIOUS
<1>4. n \in Nat /\ b.f \in DOMAIN G /\ a.f \in DOMAIN G /\ b.top \in Int /\ a.top \in Int
  BY <1>1, <1>2 DEF Stacked
<1>5. Sound(fn, F[b.f]) /\ Sound(G[a.f], F[a.f])
  BY <1>3, <1>4
<1>6. PICK lowA \in Int : lowA = Low(G, a)
  <2>1. G[a.f].size \in Nat
    BY <1>5, FrameNumbers
  <2> QED
    BY <1>4, <2>1 DEF Low
<1>7. PICK lowB \in Int : lowB = Low(G, b) /\ lowB = b.top - fn.size
  <2>1. fn.size \in Nat
    BY <1>5, FrameNumbers
  <2> QED
    BY <1>3, <1>4, <2>1 DEF Low
<1>8. (i < j => b.top <= lowA) /\ (j < i => a.top <= lowB)
  BY <1>1, <1>2, <1>6, <1>7 DEF Stacked
<1>9. b.top <= w \/ w < lowB
  <2>1. i < j \/ j < i
    BY <1>4
  <2>2. lowA <= w /\ w < a.top
    BY <1>1, <1>6
  <2>3. CASE i < j
    BY <1>4, <1>6, <1>8, <2>2, <2>3
  <2>4. CASE j < i
    BY <1>4, <1>7, <1>8, <2>2, <2>4
  <2> QED
    BY <2>1, <2>3, <2>4
<1>10. ASSUME NEW reg \in DOMAIN fn.slots
       PROVE  w # lowB + fn.slots[reg]
  <2>1. PICK x \in Nat : x = fn.slots[reg] /\ x < fn.size /\ fn.size \in Nat
    BY <1>5, FrameNumbers
  <2>2. w # lowB + x
    BY <1>4, <1>7, <1>9, <2>1
  <2> QED
    BY <2>1, <2>2
<1> QED
  BY <1>2, <1>3, <1>7, <1>10 DEF SlotsOf

\* The slots of an activation are in its frame.
LEMMA OwnFrame ==
  ASSUME NEW G, NEW a, NEW fr, Sound(G[a.f], fr), a.top \in Int, NEW w \in SlotsOf(G, a)
  PROVE  w \in Int /\ Low(G, a) <= w /\ w < a.top
<1>1. PICK fn : fn = G[a.f]
  OBVIOUS
<1>2. PICK reg \in DOMAIN fn.slots : w = Low(G, a) + fn.slots[reg]
  BY <1>1 DEF SlotsOf
<1>3. PICK x \in Nat : x = fn.slots[reg] /\ x < fn.size /\ fn.size \in Nat
  BY <1>1, FrameNumbers
<1>4. PICK top \in Int : top = a.top
  OBVIOUS
<1>5. Low(G, a) = top - fn.size /\ w = (top - fn.size) + x
  BY <1>1, <1>2, <1>3, <1>4 DEF Low
<1> QED
  BY <1>3, <1>4, <1>5

\* A store outside of their slots leaves the activations that wait as they are.
LEMMA StackKept ==
  ASSUME NEW G, NEW F, \A f \in DOMAIN G : Sound(G[f], F[f]),
         NEW sh, NEW m, NEW A, NEW n, Stacked(G, sh, m, A, n), NEW w, NEW v,
         \A j \in 1 .. n - 1 : w \notin SlotsOf(G, A[j])
  PROVE  Stacked(G, sh, Written(m, w, v), A, n)
<1>1. n \in Nat \ {0}
  BY DEF Stacked
<1>2. ASSUME NEW j \in 1 .. n - 1
      PROVE  WaitsFor(G, sh, Written(m, w, v), A[j], A[j + 1])
  <2>1. PICK a : a = A[j]
    OBVIOUS
  <2>2. PICK b : b = A[j + 1]
    OBVIOUS
  <2>3. WaitsFor(G, sh, m, a, b)
    BY <2>1, <2>2 DEF Stacked
  <2>4. w \notin SlotsOf(G, a)
    BY <2>1
  <2>5. {"ra", "fp"} \subseteq DOMAIN G[a.f].slots
    <3>1. a.f \in DOMAIN G
      BY <1>1, <2>1 DEF Stacked
    <3> QED
      BY <3>1 DEF Sound
  <2>6. w # Low(G, a) + G[a.f].slots["ra"] /\ w # Low(G, a) + G[a.f].slots["fp"]
    BY <2>4, <2>5 DEF SlotsOf
  <2>7. Keeps(G, m, a, "ra", a.back) /\ Keeps(G, m, a, "fp", a.fp)
    BY <2>3 DEF WaitsFor
  <2>8. /\ Keeps(G, Written(m, w, v), a, "ra", a.back)
        /\ Keeps(G, Written(m, w, v), a, "fp", a.fp)
    BY <2>6, <2>7, KeptElsewhere
  <2>9. WaitsFor(G, sh, Written(m, w, v), a, b)
    BY <2>3, <2>8 DEF WaitsFor
  <2> QED
    BY <2>1, <2>2, <2>9
<1> QED
  BY <1>2 DEF Stacked

-----------------------------------------------------------------------------
(* The steps, at the place i of the code c.                                *)

\* The instruction at a place that is reached, and the shapes around it.
LEMMA Placed ==
  ASSUME NEW G, NEW F, NEW c, NEW d, NEW sh, Loaded(G, F, c, d, sh),
         NEW A, NEW n, NEW i, NEW r, NEW m, NEW cs, Live(G, c, sh, A, n, i, r, m, cs)
  PROVE  /\ Len(c) \in Nat /\ Len(sh) = Len(c) + 1 /\ i \in 1 .. Len(c)
         /\ i + 1 \in 1 .. Len(c) + 1 /\ c[i] \in BP!InstSet
         /\ sh[i] \in BP!Shapes /\ sh[i + 1] \in BP!Shapes
         /\ BP!Within(G, c[i], sh[i], sh[i + 1])
         /\ n \in Nat \ {0} /\ A[n].f \in DOMAIN G /\ sh[i].f = A[n].f /\ A[n].top \in Int
         /\ Sound(G[A[n].f], F[A[n].f])
<1>1. /\ c \in Seq(BP!InstSet) /\ BP!Annotates(G, c, sh) /\ sh[Len(c) + 1] = BP!Outside
      /\ DOMAIN G \subseteq Nat \ {0}
      /\ \A f \in DOMAIN G : Sound(G[f], F[f])
  BY DEF Loaded
<1>2. /\ i \in 1 .. Len(c) + 1 /\ Here(G, sh[i], r, m, A[n])
      /\ n \in Nat \ {0} /\ \A j \in 1 .. n : A[j].f \in DOMAIN G /\ A[j].top \in Int
  BY DEF Live, Stacked
<1>3. n \in 1 .. n
  BY <1>2
<1>4. A[n].f \in DOMAIN G /\ A[n].top \in Int /\ sh[i].f = A[n].f
  BY <1>2, <1>3 DEF Here
<1>5. sh \in Seq(BP!Shapes) /\ Len(sh) = Len(c) + 1
  BY <1>1 DEF BP!Annotates
<1>6. sh[i].f # 0
  BY <1>1, <1>4
<1>7. i # Len(c) + 1
  BY <1>1, <1>6 DEF BP!Outside, BP!At
<1>8. Len(c) \in Nat /\ i \in 1 .. Len(c) /\ i + 1 \in 1 .. Len(c) + 1
  BY <1>1, <1>2, <1>7
<1>9. c[i] \in BP!InstSet /\ sh[i] \in BP!Shapes /\ sh[i + 1] \in BP!Shapes
  BY <1>1, <1>5, <1>8
<1>10. BP!Within(G, c[i], sh[i], sh[i + 1])
  <2>1. PICK inst : inst = c[i]
    OBVIOUS
  <2>2. PICK s : s = sh[i]
    OBVIOUS
  <2>3. PICK t : t = sh[i + 1]
    OBVIOUS
  <2>4. BP!Follows(G, inst, s, t)
    BY <1>1, <1>8, <2>1, <2>2, <2>3 DEF BP!Annotates
  <2>5. BP!Within(G, inst, s, t)
    BY <1>6, <2>2, <2>4, InFunction
  <2> QED
    BY <2>1, <2>2, <2>3, <2>5
<1> QED
  BY <1>1, <1>2, <1>4, <1>5, <1>8, <1>9, <1>10

\* The same activations at another place.
LEMMA LiveThere ==
  ASSUME NEW G, NEW c, NEW sh, NEW A, NEW n, NEW i, NEW r, NEW m, NEW cs,
         Live(G, c, sh, A, n, i, r, m, cs),
         NEW j \in 1 .. Len(c) + 1, NEW q, NEW after,
         Here(G, sh[j], q, after, A[n]), Stacked(G, sh, after, A, n)
  PROVE  Live(G, c, sh, A, n, j, q, after, cs)
BY DEF Live

LEMMA RegisterStep ==
  ASSUME NEW G, NEW F, NEW c, NEW d, NEW sh, Loaded(G, F, c, d, sh),
         NEW A, NEW n, NEW i, NEW r, NEW m, NEW cs, Live(G, c, sh, A, n, i, r, m, cs),
         NEW inst, inst = c[i], NEW v, Gives(inst, r, m, v)
  PROVE  Live(G, c, sh, A, n, i + 1, Given(inst, r, v), m, cs)
<1>1. PICK a : a = A[n]
  OBVIOUS
<1>2. PICK s : s = sh[i]
  OBVIOUS
<1>3. PICK t : t = sh[i + 1]
  OBVIOUS
<1>4. PICK fr : fr = F[a.f]
  OBVIOUS
<1>5. /\ i + 1 \in 1 .. Len(c) + 1 /\ inst \in BP!InstSet /\ s \in BP!Shapes
      /\ BP!Within(G, inst, s, t) /\ a.top \in Int /\ Sound(G[a.f], fr)
  BY <1>1, <1>2, <1>3, <1>4, Placed
<1>6. Here(G, s, r, m, a) /\ Stacked(G, sh, m, A, n)
  BY <1>1, <1>2 DEF Live
<1>7. Here(G, t, Given(inst, r, v), m, a)
  BY <1>5, <1>6, Moved
<1> QED
  BY <1>1, <1>3, <1>5, <1>6, <1>7, LiveThere

LEMMA StoreStep ==
  ASSUME NEW G, NEW F, NEW c, NEW d, NEW sh, Loaded(G, F, c, d, sh),
         NEW A, NEW n, NEW i, NEW r, NEW m, NEW cs, Live(G, c, sh, A, n, i, r, m, cs),
         NEW inst, inst = c[i], inst.kind = "Store", NEW w, w = Addressed(inst, r),
         inst.rs1 \notin {"sp", "t4"} => \A j \in 1 .. n : w \notin SlotsOf(G, A[j])
  PROVE  /\ Live(G, c, sh, A, n, i + 1, r, Written(m, w, r[inst.rs2]), cs)
         /\ \A j \in 1 .. n - 1 : w \notin SlotsOf(G, A[j])
<1>1. PICK a : a = A[n]
  OBVIOUS
<1>2. PICK s : s = sh[i]
  OBVIOUS
<1>3. PICK t : t = sh[i + 1]
  OBVIOUS
<1>4. PICK fr : fr = F[a.f]
  OBVIOUS
<1>5. /\ i + 1 \in 1 .. Len(c) + 1 /\ inst \in BP!InstSet /\ s \in BP!Shapes
      /\ BP!Within(G, inst, s, t) /\ a.top \in Int /\ Sound(G[a.f], fr) /\ n \in Nat \ {0}
  BY <1>1, <1>2, <1>3, <1>4, Placed
<1>6. Here(G, s, r, m, a) /\ Stacked(G, sh, m, A, n)
  BY <1>1, <1>2 DEF Live
<1>7. PICK v : v = r[inst.rs2]
  OBVIOUS
<1>8. inst.rs1 \notin {"sp", "t4"} => w \notin SlotsOf(G, a)
  BY <1>1, <1>5
<1>9. /\ inst.rs1 \in {"sp", "t4"} => w \in SlotsOf(G, a)
      /\ Here(G, t, r, Written(m, w, v), a)
  BY <1>5, <1>6, <1>7, <1>8, Stored
<1>10. ASSUME NEW j \in 1 .. n - 1
       PROVE  w \notin SlotsOf(G, A[j])
  <2>1. j \in 1 .. n /\ n \in 1 .. n /\ j # n
    BY <1>5
  <2>2. CASE inst.rs1 \notin {"sp", "t4"}
    BY <2>1, <2>2
  <2>3. CASE w \in SlotsOf(G, a)
    <3>1. w \in Int /\ Low(G, a) <= w /\ w < a.top
      BY <1>5, <2>3, OwnFrame
    <3>2. \A f \in DOMAIN G : Sound(G[f], F[f])
      BY DEF Loaded
    <3> QED
      BY <1>1, <1>6, <2>1, <3>1, <3>2, OtherFrames
  <2> QED
    BY <1>9, <2>2, <2>3
<1>11. Stacked(G, sh, Written(m, w, v), A, n)
  <2>1. \A f \in DOMAIN G : Sound(G[f], F[f])
    BY DEF Loaded
  <2> QED
    BY <1>6, <1>10, <2>1, StackKept
<1>12. Live(G, c, sh, A, n, i + 1, r, Written(m, w, v), cs)
  BY <1>1, <1>3, <1>5, <1>9, <1>11, LiveThere
<1> QED
  BY <1>7, <1>10, <1>12

\* An instruction that has no effect but to go on.
LEMMA StayStep ==
  ASSUME NEW G, NEW F, NEW c, NEW d, NEW sh, Loaded(G, F, c, d, sh),
         NEW A, NEW n, NEW i, NEW r, NEW m, NEW cs, Live(G, c, sh, A, n, i, r, m, cs),
         NEW inst, inst = c[i], inst.kind \in {"Label", "GlobalLabel", "Function", "Branch"}
  PROVE  Live(G, c, sh, A, n, i + 1, r, m, cs)
<1>1. PICK s : s = sh[i]
  OBVIOUS
<1>2. PICK t : t = sh[i + 1]
  OBVIOUS
<1>3. i + 1 \in 1 .. Len(c) + 1 /\ BP!Within(G, inst, s, t)
  BY <1>1, <1>2, Placed
<1>4. s = t
  <2>1. CASE inst.kind \in {"Label", "Branch"}
    BY <1>3, <2>1, TransferShape
  <2>2. CASE inst.kind \in {"GlobalLabel", "Function"}
    <3>1. ~BP!Builds(inst, s, t)
      BY <2>2 DEF BP!Builds
    <3>2. ~BP!Frames(G[s.f], inst, s, t)
      BY <2>2 DEF BP!Frames, BP!Moves, BP!Saves, BP!Restores
    <3>3. ~BP!Works(G[s.f], inst, s, t)
      BY <2>2 DEF BP!Works
    <3> QED
      BY <1>3, <3>1, <3>2, <3>3 DEF BP!Within
  <2> QED
    BY <2>1, <2>2
<1>5. Here(G, sh[i + 1], r, m, A[n]) /\ Stacked(G, sh, m, A, n)
  BY <1>1, <1>2, <1>4 DEF Live
<1> QED
  BY <1>3, <1>5, LiveThere

LEMMA JumpStep ==
  ASSUME NEW G, NEW F, NEW c, NEW d, NEW sh, Loaded(G, F, c, d, sh),
         NEW A, NEW n, NEW i, NEW r, NEW m, NEW cs, Live(G, c, sh, A, n, i, r, m, cs),
         NEW inst, inst = c[i], inst.kind \in {"Jump", "Branch"}
  PROVE  Live(G, c, sh, A, n, RV!LabelIn(c, inst.label), r, m, cs)
<1>1. i \in 1 .. Len(c) /\ Len(c) \in Nat
  BY Placed
<1>2. PICK j : j = RV!LabelIn(c, inst.label)
  OBVIOUS
<1>3. Lands(G, c, sh, i)
  BY <1>1 DEF Loaded
<1>4. j \in 1 .. Len(c) /\ sh[j] = sh[i]
  BY <1>2, <1>3 DEF Lands
<1>5. j \in 1 .. Len(c) + 1
  BY <1>1, <1>4
<1>6. Here(G, sh[j], r, m, A[n]) /\ Stacked(G, sh, m, A, n)
  BY <1>4 DEF Live
<1> QED
  BY <1>2, <1>5, <1>6, LiveThere

\* A call of a library function.
LEMMA LibraryStep ==
  ASSUME NEW G, NEW F, NEW c, NEW d, NEW sh, Loaded(G, F, c, d, sh),
         NEW A, NEW n, NEW i, NEW r, NEW m, NEW cs, Live(G, c, sh, A, n, i, r, m, cs),
         NEW inst, inst = c[i], inst.kind = "Call",
         NEW q, DOMAIN q = RV!PhysReg, q["sp"] = r["sp"]
  PROVE  Live(G, c, sh, A, n, i + 1, q, m, cs)
<1>1. PICK s : s = sh[i]
  OBVIOUS
<1>2. PICK t : t = sh[i + 1]
  OBVIOUS
<1>3. i + 1 \in 1 .. Len(c) + 1 /\ BP!Within(G, inst, s, t)
  BY <1>1, <1>2, Placed
<1>4. s = t /\ t = BP!Body(s.f)
  BY <1>3, TransferShape
<1>5. t.p = 4 /\ t.t4 = "any"
  BY <1>4 DEF BP!Body, BP!At
<1>6. Here(G, t, r, m, A[n]) /\ Stacked(G, sh, m, A, n)
  BY <1>1, <1>4 DEF Live
<1>7. Here(G, t, q, m, A[n])
  BY <1>5, <1>6 DEF Here
<1> QED
  BY <1>2, <1>3, <1>6, <1>7, LiveThere

-----------------------------------------------------------------------------
(* Calls and returns.                                                      *)

LEMMA ElementsAppended ==
  ASSUME NEW S, NEW cs \in Seq(S), NEW e, NEW after, after = Append(cs, e)
  PROVE  /\ after \in Seq(S \cup {e}) /\ Len(after) = Len(cs) + 1 /\ after[Len(cs) + 1] = e
         /\ \A j \in 1 .. Len(cs) : after[j] = cs[j]
<1>1. cs \in Seq(S \cup {e}) /\ e \in S \cup {e}
  OBVIOUS
<1> QED
  BY <1>1

LEMMA LastDropped ==
  ASSUME NEW S, NEW cs \in Seq(S), Len(cs) > 0, NEW after, after = SubSeq(cs, 1, Len(cs) - 1)
  PROVE  /\ after \in Seq(S) /\ Len(after) = Len(cs) - 1
         /\ \A j \in 1 .. Len(cs) - 1 : after[j] = cs[j]
<1>1. PICK k \in Nat : k = Len(cs) - 1
  OBVIOUS
<1>2. SubSeq(cs, 1, k) = [j \in 1 .. k |-> cs[j]]
  BY <1>1
<1>3. \A j \in 1 .. k : cs[j] \in S
  BY <1>1
<1>4. after = [j \in 1 .. k |-> cs[j]]
  BY <1>1, <1>2
<1> QED
  BY <1>1, <1>3, <1>4

\* The activations when b is the last of n + 1.
Entering(A, n, b) == [k \in 1 .. n + 1 |-> IF k <= n THEN A[k] ELSE b]

LEMMA StackGrows ==
  ASSUME NEW G, NEW sh, NEW m, NEW A, NEW n, Stacked(G, sh, m, A, n),
         \A f \in DOMAIN G : G[f].size \in Nat,
         NEW b, b.f \in DOMAIN G, b.top = Low(G, A[n]), WaitsFor(G, sh, m, A[n], b)
  PROVE  Stacked(G, sh, m, Entering(A, n, b), n + 1)
<1>1. PICK B : B = Entering(A, n, b)
  OBVIOUS
<1>2. n \in Nat \ {0}
  BY DEF Stacked
<1>3. /\ \A k \in 1 .. n : B[k] = A[k]
      /\ B[n + 1] = b
  BY <1>1, <1>2 DEF Entering
<1>4. PICK a : a = A[n]
  OBVIOUS
<1>5. n \in 1 .. n /\ a.top \in Int /\ a.top <= StackTop
  BY <1>2, <1>4 DEF Stacked
<1>6. b.top \in Int /\ b.top <= a.top /\ b.top <= StackTop
  <2>1. G[a.f].size \in Nat
    BY <1>4, <1>5 DEF Stacked
  <2> QED
    BY <1>4, <1>5, <2>1, DriverAssumption DEF Low
<1>7. B[1].back = RV!Environment
  BY <1>2, <1>3 DEF Stacked
<1>8. ASSUME NEW j \in 1 .. n + 1
      PROVE  B[j].f \in DOMAIN G /\ B[j].top \in Int /\ B[j].top <= StackTop
  <2>1. j \in 1 .. n \/ j = n + 1
    BY <1>2
  <2>2. CASE j \in 1 .. n
    BY <1>3, <2>2 DEF Stacked
  <2> QED
    BY <1>3, <1>6, <2>1, <2>2
<1>9. ASSUME NEW j \in 1 .. n
      PROVE  WaitsFor(G, sh, m, B[j], B[j + 1])
  <2>1. CASE j = n
    BY <1>3, <1>5, <2>1
  <2>2. CASE j # n
    <3>1. j \in 1 .. n - 1 /\ j \in 1 .. n /\ j + 1 \in 1 .. n
      BY <1>2, <2>2
    <3>2. WaitsFor(G, sh, m, A[j], A[j + 1])
      BY <3>1 DEF Stacked
    <3> QED
      BY <1>3, <3>1, <3>2
  <2> QED
    BY <2>1, <2>2
<1>10. ASSUME NEW i \in 1 .. n + 1, NEW j \in 1 .. n + 1, i < j
       PROVE  B[j].top <= Low(G, B[i])
  <2>1. i \in 1 .. n
    BY <1>2, <1>10
  <2>2. CASE j \in 1 .. n
    <3>1. A[j].top <= Low(G, A[i])
      BY <1>10, <2>1, <2>2 DEF Stacked
    <3> QED
      BY <1>3, <2>1, <2>2, <3>1
  <2>3. CASE j = n + 1 /\ i = n
    <3>1. b.top <= Low(G, A[n])
      BY <1>6
    <3> QED
      BY <1>3, <1>5, <2>3, <3>1
  <2>4. CASE j = n + 1 /\ i # n
    <3>1. i < n /\ n \in 1 .. n
      BY <1>2, <2>1, <2>4
    <3>2. a.top <= Low(G, A[i])
      BY <1>4, <2>1, <3>1 DEF Stacked
    <3>3. Low(G, A[i]) \in Int
      <4>1. A[i].f \in DOMAIN G /\ A[i].top \in Int
        BY <2>1 DEF Stacked
      <4>2. G[A[i].f].size \in Nat
        BY <4>1
      <4> QED
        BY <4>1, <4>2 DEF Low
    <3>4. PICK low \in Int : low = Low(G, A[i])
      BY <3>3
    <3>5. a.top <= low /\ b.top <= a.top /\ a.top \in Int /\ b.top \in Int
      BY <1>5, <1>6, <3>2, <3>4
    <3> QED
      BY <1>3, <2>1, <2>4, <3>4, <3>5
  <2> QED
    BY <1>2, <2>1, <2>2, <2>3, <2>4
<1>11. n + 1 \in Nat \ {0} /\ (n + 1) - 1 = n
  BY <1>2
<1> QED
  BY <1>1, <1>7, <1>8, <1>9, <1>10, <1>11 DEF Stacked

LEMMA CallStep ==
  ASSUME NEW G, NEW F, NEW c, NEW d, NEW sh, Loaded(G, F, c, d, sh),
         NEW A, NEW n, NEW i, NEW r, NEW m, NEW cs, Live(G, c, sh, A, n, i, r, m, cs),
         NEW inst, inst = c[i], inst.kind = "Call", inst.label \notin RV!Library,
         NEW q, q = [r EXCEPT !["ra"] = i + 1],
         NEW after, after = Append(cs, [func |-> inst.label, sp |-> r["sp"], fp |-> r["fp"],
                                        ra |-> i + 1])
  PROVE  \E B : Live(G, c, sh, B, n + 1, RV!LabelIn(c, inst.label), q, m, after)
<1>1. PICK a : a = A[n]
  OBVIOUS
<1>2. PICK s : s = sh[i]
  OBVIOUS
<1>3. PICK j : j = RV!LabelIn(c, inst.label)
  OBVIOUS
<1>4. PICK b : b = [f |-> sh[j].f, top |-> r["sp"], back |-> i + 1, fp |-> r["fp"]]
  OBVIOUS
<1>5. PICK B : B = Entering(A, n, b)
  OBVIOUS
<1>6. /\ i \in 1 .. Len(c) /\ i + 1 \in 1 .. Len(c) + 1 /\ Len(sh) = Len(c) + 1
      /\ Len(c) \in Nat
      /\ BP!Within(G, inst, s, sh[i + 1]) /\ s.f = a.f /\ Sound(G[a.f], F[a.f])
      /\ n \in Nat \ {0}
  BY <1>1, <1>2, Placed
<1>7. sh[i + 1] = BP!Body(a.f) /\ s = BP!Body(a.f)
  BY <1>6, TransferShape
<1>8. s.p = 4
  BY <1>7 DEF BP!Body, BP!At
<1>9. Here(G, s, r, m, a) /\ Stacked(G, sh, m, A, n) /\ Recorded(G, A, n, cs)
  BY <1>1, <1>2 DEF Live
<1>10. /\ r["sp"] = Low(G, a) /\ DOMAIN r = RV!PhysReg
       /\ Keeps(G, m, a, "ra", a.back) /\ Keeps(G, m, a, "fp", a.fp)
  BY <1>8, <1>9 DEF Here
<1>11. /\ j \in 1 .. Len(c) /\ b.f \in DOMAIN G /\ sh[j] = BP!At(b.f, 0)
       /\ G[b.f].name = inst.label
  <2>1. Lands(G, c, sh, i)
    BY <1>6 DEF Loaded
  <2>2. Entry(G, c, sh, inst.label)
    BY <2>1 DEF Lands
  <2> QED
    BY <1>3, <1>4, <2>2 DEF Entry
<1>12. b.top = Low(G, a) /\ b.back = i + 1 /\ b.fp = r["fp"]
  BY <1>4, <1>10
<1>13. WaitsFor(G, sh, m, a, b)
  BY <1>6, <1>7, <1>10, <1>12 DEF WaitsFor
<1>14. Stacked(G, sh, m, B, n + 1)
  <2>1. \A f \in DOMAIN G : G[f].size \in Nat
    BY FrameNumbers DEF Loaded
  <2> QED
    BY <1>1, <1>5, <1>9, <1>11, <1>12, <1>13, <2>1, StackGrows
<1>15. /\ \A k \in 1 .. n : B[k] = A[k]
       /\ B[n + 1] = b
  BY <1>5, <1>6 DEF Entering
<1>16. Here(G, sh[j], q, m, B[n + 1])
  <2>1. sh[j].f = b.f /\ sh[j].p = 0 /\ sh[j].t4 = "any"
    BY <1>11 DEF BP!At
  <2>2. DOMAIN q = RV!PhysReg /\ q["sp"] = r["sp"] /\ q["ra"] = i + 1 /\ q["fp"] = r["fp"]
    BY <1>10 DEF RV!PhysReg
  <2> QED
    BY <1>10, <1>12, <1>15, <2>1, <2>2 DEF Here
<1>17. Recorded(G, B, n + 1, after)
  <2>1. PICK S : cs \in Seq(S)
    BY <1>9 DEF Recorded
  <2>2. PICK e : e = [func |-> inst.label, sp |-> r["sp"], fp |-> r["fp"], ra |-> i + 1]
    OBVIOUS
  <2>3. Len(cs) = n - 1
    BY <1>9 DEF Recorded
  <2>4. /\ after \in Seq(S \cup {e}) /\ Len(after) = Len(cs) + 1 /\ after[Len(cs) + 1] = e
        /\ \A k \in 1 .. Len(cs) : after[k] = cs[k]
    BY <2>1, <2>2, ElementsAppended
  <2>5. /\ Len(after) = n /\ after[n] = e
        /\ \A k \in 1 .. n - 1 : after[k] = cs[k]
    BY <1>6, <2>3, <2>4
  <2>6. ASSUME NEW k \in 1 .. n
        PROVE  /\ after[k].func = G[B[k + 1].f].name
               /\ after[k].sp = B[k + 1].top /\ after[k].ra = B[k + 1].back
               /\ after[k].fp = B[k + 1].fp
    <3>1. CASE k = n
      <4>1. /\ e.func = G[b.f].name /\ e.sp = b.top /\ e.ra = b.back /\ e.fp = b.fp
        BY <1>4, <1>11, <2>2
      <4> QED
        BY <1>15, <2>5, <3>1, <4>1
    <3>2. CASE k # n
      <4>1. k \in 1 .. n - 1 /\ k + 1 \in 1 .. n
        BY <1>6, <3>2
      <4>2. /\ cs[k].func = G[A[k + 1].f].name
            /\ cs[k].sp = A[k + 1].top /\ cs[k].ra = A[k + 1].back /\ cs[k].fp = A[k + 1].fp
        BY <1>9, <4>1 DEF Recorded
      <4> QED
        BY <1>15, <2>5, <4>1, <4>2
    <3> QED
      BY <3>1, <3>2
  <2>7. B[1] = A[1] /\ A[1].top = StackTop /\ G[A[1].f].name = "main"
    <3>1. 1 \in 1 .. n
      BY <1>6
    <3> QED
      BY <1>9, <1>15, <3>1 DEF Recorded
  <2>8. (n + 1) - 1 = n
    BY <1>6
  <2> QED
    BY <2>4, <2>5, <2>6, <2>7, <2>8 DEF Recorded
<1>18. j \in 1 .. Len(c) + 1
  BY <1>6, <1>11
<1>19. Live(G, c, sh, B, n + 1, j, q, m, after)
  BY <1>14, <1>16, <1>17, <1>18 DEF Live
<1> QED
  BY <1>3, <1>19

\* At a Ret the epilogue is complete.
LEMMA AtReturn ==
  ASSUME NEW G, NEW F, NEW c, NEW d, NEW sh, Loaded(G, F, c, d, sh),
         NEW A, NEW n, NEW i, NEW r, NEW m, NEW cs, Live(G, c, sh, A, n, i, r, m, cs),
         c[i].kind = "Ret"
  PROVE  r["sp"] = A[n].top /\ r["fp"] = A[n].fp /\ r["ra"] = A[n].back
<1>1. PICK inst : inst = c[i]
  OBVIOUS
<1>2. PICK s : s = sh[i]
  OBVIOUS
<1>3. PICK t : t = sh[i + 1]
  OBVIOUS
<1>4. BP!Within(G, inst, s, t)
  BY <1>1, <1>2, <1>3, Placed
<1>5. inst.kind = "Ret"
  BY <1>1
<1>6. ~BP!Builds(inst, s, t) /\ ~BP!Works(G[s.f], inst, s, t)
  BY <1>5 DEF BP!Builds, BP!Works
<1>7. BP!Frames(G[s.f], inst, s, t)
  BY <1>4, <1>5, <1>6 DEF BP!Within
<1>8. s = BP!At(s.f, 7)
  BY <1>5, <1>7 DEF BP!Frames, BP!Moves, BP!Saves, BP!Restores
<1>9. s.p = 7
  BY <1>8 DEF BP!At
<1>10. Here(G, s, r, m, A[n])
  BY <1>2 DEF Live
<1> QED
  BY <1>9, <1>10 DEF Here

LEMMA ReturnStep ==
  ASSUME NEW G, NEW F, NEW c, NEW d, NEW sh, Loaded(G, F, c, d, sh),
         NEW A, NEW n, NEW i, NEW r, NEW m, NEW cs, Live(G, c, sh, A, n, i, r, m, cs),
         c[i].kind = "Ret", n # 1, NEW after, after = SubSeq(cs, 1, Len(cs) - 1)
  PROVE  Live(G, c, sh, A, n - 1, r["ra"], r, m, after)
<1>1. PICK b : b = A[n]
  OBVIOUS
<1>2. PICK a : a = A[n - 1]
  OBVIOUS
<1>3. r["sp"] = b.top /\ r["fp"] = b.fp /\ r["ra"] = b.back
  BY <1>1, AtReturn
<1>4. n \in Nat \ {0} /\ Len(sh) = Len(c) + 1 /\ Len(c) \in Nat
  BY Placed
<1>5. PICK k \in Nat \ {0} : k = n - 1 /\ k + 1 = n
  BY <1>4
<1>6. Here(G, sh[i], r, m, b) /\ Stacked(G, sh, m, A, n) /\ Recorded(G, A, n, cs)
  BY <1>1 DEF Live
<1>7. WaitsFor(G, sh, m, a, b)
  <2>1. k \in 1 .. n - 1
    BY <1>5
  <2>2. WaitsFor(G, sh, m, A[k], A[k + 1])
    BY <1>6, <2>1 DEF Stacked
  <2> QED
    BY <1>1, <1>2, <1>5, <2>2
<1>8. PICK j : j = r["ra"]
  OBVIOUS
<1>9. /\ b.top = Low(G, a) /\ j \in 1 .. Len(c) + 1 /\ sh[j] = BP!Body(a.f)
      /\ Keeps(G, m, a, "ra", a.back) /\ Keeps(G, m, a, "fp", a.fp)
  BY <1>3, <1>4, <1>7, <1>8 DEF WaitsFor
<1>10. Here(G, sh[j], r, m, a)
  <2>1. sh[j].f = a.f /\ sh[j].p = 4 /\ sh[j].t4 = "any"
    BY <1>9 DEF BP!Body, BP!At
  <2>2. DOMAIN r = RV!PhysReg
    BY <1>6 DEF Here
  <2> QED
    BY <1>3, <1>9, <2>1, <2>2 DEF Here
<1>11. Stacked(G, sh, m, A, k)
  <2>1. \A l \in 1 .. k : l \in 1 .. n
    BY <1>5
  <2>2. \A l \in 1 .. k - 1 : l \in 1 .. n - 1
    BY <1>5
  <2> QED
    BY <1>5, <1>6, <2>1, <2>2 DEF Stacked
<1>12. Recorded(G, A, k, after)
  <2>1. PICK S : cs \in Seq(S)
    BY <1>6 DEF Recorded
  <2>2. Len(cs) = k
    BY <1>5, <1>6 DEF Recorded
  <2>3. /\ after \in Seq(S) /\ Len(after) = k - 1
        /\ \A l \in 1 .. k - 1 : after[l] = cs[l]
    BY <1>5, <2>1, <2>2, LastDropped
  <2>4. \A l \in 1 .. k - 1 : l \in 1 .. n - 1
    BY <1>5
  <2> QED
    BY <1>6, <2>3, <2>4 DEF Recorded
<1>13. Live(G, c, sh, A, k, j, r, m, after)
  BY <1>2, <1>5, <1>9, <1>10, <1>11, <1>12 DEF Live
<1> QED
  BY <1>5, <1>8, <1>13

-----------------------------------------------------------------------------
(* The program is loaded.                                                  *)

LEMMA Begins ==
  ASSUME NEW G, NEW F, NEW c, NEW d, NEW sh, Loaded(G, F, c, d, sh), NEW m, NEW r,
         r = [[x \in RV!PhysReg |-> Junk] EXCEPT !["sp"] = StackTop,
                                                 !["ra"] = RV!Environment, !["zero"] = 0]
  PROVE  \E A : Live(G, c, sh, A, 1, RV!LabelIn(c, "main"), r, m, << >>)
<1>1. PICK j : j = RV!LabelIn(c, "main")
  OBVIOUS
<1>2. PICK a : a = [f |-> sh[j].f, top |-> StackTop, back |-> RV!Environment, fp |-> Junk]
  OBVIOUS
<1>3. PICK A : A = [k \in 1 .. 1 |-> a]
  OBVIOUS
<1>4. A[1] = a
  BY <1>3
<1>5. /\ j \in 1 .. Len(c) /\ sh[j].f \in DOMAIN G
      /\ sh[j] = BP!At(sh[j].f, 0) /\ G[sh[j].f].name = "main"
  BY <1>1 DEF Loaded, Entry
<1>6. c \in Seq(BP!InstSet)
  BY DEF Loaded
<1>7. j \in 1 .. Len(c) + 1
  BY <1>5, <1>6
<1>8. sh[j].p = 0 /\ sh[j].t4 = "any"
  BY <1>5 DEF BP!At
<1>9. DOMAIN r = RV!PhysReg /\ r["sp"] = StackTop /\ r["ra"] = RV!Environment /\ r["fp"] = Junk
  BY DEF RV!PhysReg
<1>10. /\ a.f = sh[j].f /\ a.top = StackTop /\ a.back = RV!Environment /\ a.fp = Junk
  BY <1>2
<1>11. Here(G, sh[j], r, m, a)
  BY <1>8, <1>9, <1>10 DEF Here
<1>12. Stacked(G, sh, m, A, 1)
  <2>1. StackTop \in Int
    BY DriverAssumption
  <2>2. \A k \in 1 .. 1 : k = 1
    OBVIOUS
  <2> QED
    BY <1>4, <1>5, <1>10, <2>1, <2>2 DEF Stacked
<1>13. Recorded(G, A, 1, << >>)
  <2>1. << >> \in Seq({}) /\ Len(<< >>) = 1 - 1 /\ 1 .. 1 - 1 = {}
    OBVIOUS
  <2> QED
    BY <1>4, <1>5, <1>10, <2>1 DEF Recorded
<1>14. Live(G, c, sh, A, 1, j, r, m, << >>)
  BY <1>4, <1>7, <1>11, <1>12, <1>13 DEF Live
<1> QED
  BY <1>1, <1>14

-----------------------------------------------------------------------------
(* The run of the assembly.                                                *)

Named == \A f \in DOMAIN Facts : FunctionIndex(Facts[f].name) = f

\* What is printed is executed from one activation to the next.  IR is printed only
\* where it was asked for.
RunInv ==
  /\ status = "print" => "--ir" \in request
  /\ status = "run" /\ "--ir" \notin request =>
       /\ Named
       /\ \E sh : /\ Loaded(Facts, frame, out, data, sh)
                  /\ result = NoResult =>
                       \E A, n : Live(Facts, out, sh, A, n, ip, regs, mem, calls)

LEMMA NamedThere ==
  ASSUME Emptied
  PROVE  Named
<1> SUFFICES ASSUME NEW f \in DOMAIN Facts PROVE FunctionIndex(Facts[f].name) = f
  BY DEF Named
<1>1. f \in 1 .. Len(mod.functions) /\ Facts[f].name = NameIs(f)
  BY FactsAre
<1>2. \A g \in 1 .. Len(mod.functions) : NameIs(f) = NameIs(g) => f = g
  BY <1>1, NamesOfFunctions
<1>3. PICK fs : fs = mod.functions
  OBVIOUS
<1>4. DOMAIN fs = 1 .. Len(fs)
  <2>1. CBP!IInv /\ built /\ code = ir
    BY DEF Emptied
  <2>2. fs \in Seq(CBP!BuiltSet)
    BY <1>3, <2>1, BuiltFunctions
  <2> QED
    BY <2>2
<1>5. PICK name : name = NameIs(f)
  OBVIOUS
<1>6. f \in DOMAIN fs /\ fs[f].name = name /\ \A g \in DOMAIN fs : fs[g].name = name => g = f
  BY <1>1, <1>2, <1>3, <1>4, <1>5 DEF NameIs
<1>7. (CHOOSE g \in DOMAIN fs : fs[g].name = name) = f
  BY <1>6
<1> QED
  BY <1>1, <1>3, <1>5, <1>7 DEF FunctionIndex

LEMMA LoadedThere ==
  ASSUME IInv, DataInv, IRResolves, JumpsLocal, status = "backend", stage = "done"
  PROVE  \E sh : Loaded(Facts, frame, out, data, sh)
<1>1. Emptied
  BY WhenDone
<1>2. out \in Seq(BP!InstSet)
  BY <1>1, EmittedParts
<1>3. PICK sh \in Seq(BP!Shapes) : BP!Annotates(Facts, out, sh) /\ sh[Len(out) + 1] = BP!Outside
  <2>1. BP!LaidOut
    BY <1>1 DEF Emptied, BackendHolds, BP!LayoutInv
  <2>2. BP!Laid(Facts, out, BP!Outside, BP!Outside)
    BY <1>1, <2>1 DEF BP!LaidOut, Emptied, Facts
  <2> QED
    BY <2>2 DEF BP!Laid
<1>4. DOMAIN Facts = 1 .. Len(prog) /\ Len(prog) \in Nat
  BY <1>1, FactsAre
<1>5. \A f \in DOMAIN Facts : Sound(Facts[f], frame[f])
  BY <1>1, <1>4, SoundThere
<1>6. PICK c : c = out
  OBVIOUS
<1>7. \A i \in 1 .. Len(c) : Lands(Facts, c, sh, i)
  BY <1>2, <1>3, <1>6, LandsThere
<1>8. Entry(Facts, c, sh, "main")
  BY <1>1, <1>2, <1>3, <1>6, MainThere
<1>9. \A a \in DOMAIN RV!InitialData(data) : a \in Int /\ a > StackTop
  <2>1. PICK n \in 0 .. Len(mod.globals) : DataHolds(n)
    BY DEF DataInv
  <2>2. mod.globals \in Seq(GlobalNodes)
    BY <1>1, GlobalsTyped
  <2>3. data \in Seq(DataItems)
    BY <2>1, <2>2, DataTyped DEF DataHolds
  <2>4. PICK d \in Seq(DataItems) : d = data
    BY <2>3
  <2> QED
    BY <2>4, DataAbove
<1>10. DOMAIN Facts \subseteq Nat \ {0}
  BY <1>4
<1> QED
  BY <1>2, <1>3, <1>5, <1>6, <1>7, <1>8, <1>9, <1>10 DEF Loaded

LEMMA LoadStep ==
  ASSUME IInv, DataInv, IRResolves, JumpsLocal, LoadAssembly
  PROVE  RunInv'
<1>1. /\ status = "backend" /\ stage = "done" /\ status' = "run"
      /\ prog' = prog /\ frame' = frame /\ out' = out /\ data' = data /\ mod' = mod
      /\ RV!LoadAsm(out, data, Venus)
  BY DEF LoadAssembly, backVars, builderVars
<1>2. Facts' = Facts
  BY <1>1 DEF Facts
<1>3. PICK sh : Loaded(Facts, frame, out, data, sh)
  BY <1>1, LoadedThere
<1>4. Named'
  <2>1. Named
    BY <1>1, WhenDone, NamedThere
  <2> QED
    BY <1>1, <1>2, <2>1 DEF Named, FunctionIndex
<1>5. /\ ip' = RV!LabelIn(out, "main") /\ calls' = << >>
      /\ regs' = [[r \in RV!PhysReg |-> Junk] EXCEPT !["sp"] = StackTop,
                                !["ra"] = RV!Environment, !["zero"] = 0]
  BY <1>1 DEF RV!LoadAsm
<1>6. PICK G : G = Facts
  OBVIOUS
<1>7. PICK c : c = out
  OBVIOUS
<1>8. \E A : Live(G, c, sh, A, 1, ip', regs', mem', calls')
  <2>1. PICK r : r = regs'
    OBVIOUS
  <2>2. PICK m : m = mem'
    OBVIOUS
  <2>3. Loaded(G, frame, c, data, sh)
    BY <1>3, <1>6, <1>7
  <2>4. \E A : Live(G, c, sh, A, 1, RV!LabelIn(c, "main"), r, m, << >>)
    BY <1>5, <2>1, <2>3, Begins
  <2> QED
    BY <1>5, <1>7, <2>1, <2>2, <2>4
<1> QED
  BY <1>1, <1>2, <1>3, <1>4, <1>6, <1>7, <1>8 DEF RunInv

-----------------------------------------------------------------------------
(* The stack as the properties name it.                                    *)

LEMMA FrameIs ==
  ASSUME Named, NEW A, NEW n \in Nat \ {0}, NEW k \in 1 .. n, A[k].f \in DOMAIN Facts,
         Recorded(Facts, A, n, calls)
  PROVE  FrameOn(k) = frame[A[k].f]
<1>1. PICK name : name = IF k = 1 THEN "main" ELSE calls[k - 1].func
  OBVIOUS
<1>2. name = Facts[A[k].f].name
  <2>1. CASE k = 1
    BY <1>1, <2>1 DEF Recorded
  <2>2. CASE k # 1
    <3>1. PICK j \in 1 .. n - 1 : j = k - 1 /\ j + 1 = k
      BY <2>2
    <3>2. calls[j].func = Facts[A[j + 1].f].name
      BY <3>1 DEF Recorded
    <3> QED
      BY <1>1, <2>2, <3>1, <3>2
  <2> QED
    BY <2>1, <2>2
<1>3. FunctionIndex(name) = A[k].f
  BY <1>2 DEF Named
<1> QED
  BY <1>1, <1>3 DEF FrameOn

LEMMA BaseIs ==
  ASSUME NEW A, NEW n, NEW sh, NEW m, Stacked(Facts, sh, m, A, n),
         Recorded(Facts, A, n, calls), NEW k \in 1 .. n - 1
  PROVE  BaseOf(k) = Low(Facts, A[k])
<1>1. n \in Nat /\ Len(calls) = n - 1 /\ k <= Len(calls)
  BY DEF Stacked, Recorded
<1>2. calls[k].sp = A[k + 1].top
  BY DEF Recorded
<1>3. A[k + 1].top = Low(Facts, A[k])
  BY DEF Stacked, WaitsFor
<1> QED
  BY <1>1, <1>2, <1>3 DEF BaseOf

\* Every store through a computed address is in the body, where sp is at the bottom
\* of the frame.
LEMMA ComputedStore ==
  ASSUME NEW G, NEW F, NEW c, NEW d, NEW sh, Loaded(G, F, c, d, sh),
         NEW A, NEW n, NEW i, NEW r, NEW m, NEW cs, Live(G, c, sh, A, n, i, r, m, cs),
         NEW inst, inst = c[i], inst.kind = "Store", inst.rs1 \notin {"sp", "t4"}
  PROVE  r["sp"] = Low(G, A[n])
<1>1. PICK s : s = sh[i]
  OBVIOUS
<1>2. PICK t : t = sh[i + 1]
  OBVIOUS
<1>3. BP!Within(G, inst, s, t)
  BY <1>1, <1>2, Placed
<1>4. ~BP!Builds(inst, s, t) /\ inst.kind # "Function"
  BY DEF BP!Builds
<1>5. ~BP!Frames(G[s.f], inst, s, t)
  BY DEF BP!Frames, BP!Moves, BP!Saves, BP!Restores, BP!Reaches
<1>6. s.p = 4
  BY <1>3, <1>4, <1>5 DEF BP!Within, BP!Works
<1>7. Here(G, s, r, m, A[n])
  BY <1>1 DEF Live
<1> QED
  BY <1>6, <1>7 DEF Here

\* An address in an array of an activation is in no slot.
LEMMA ArraySpare ==
  ASSUME NEW G, NEW F, \A f \in DOMAIN G : Sound(G[f], F[f]),
         NEW sh, NEW m, NEW A, NEW n, Stacked(G, sh, m, A, n), NEW k \in 1 .. n,
         NEW x, x \in DOMAIN F[A[k].f].decs, NEW lo, lo = F[A[k].f].decs[x].lo,
         NEW size, size = F[A[k].f].decs[x].size,
         NEW w, w \in Low(G, A[k]) + lo .. Low(G, A[k]) + lo + size - 1,
         NEW j \in 1 .. n
  PROVE  w \notin SlotsOf(G, A[j])
<1>1. PICK a : a = A[k]
  OBVIOUS
<1>2. PICK fn : fn = G[a.f]
  OBVIOUS
<1>3. PICK fr : fr = F[a.f]
  OBVIOUS
<1>4. a.f \in DOMAIN G /\ a.top \in Int
  BY <1>1 DEF Stacked
<1>5. Sound(fn, fr)
  BY <1>2, <1>3, <1>4
<1>6. /\ fn.size \in Nat /\ lo \in Nat /\ size \in Nat /\ lo + size <= fn.size
      /\ \A reg \in DOMAIN fn.slots : /\ fn.slots[reg] \in Nat
                                      /\ fn.slots[reg] < lo \/ lo + size <= fn.slots[reg]
  BY <1>1, <1>3, <1>5 DEF Sound
<1>7. PICK low \in Int : low = Low(G, a) /\ low = a.top - fn.size
  BY <1>2, <1>4, <1>6 DEF Low
<1>8. w \in Int /\ low + lo <= w /\ w < low + lo + size
  BY <1>1, <1>6, <1>7
<1>9. low <= w /\ w < a.top
  BY <1>4, <1>6, <1>7, <1>8
<1>10. CASE j # k
  BY <1>1, <1>7, <1>8, <1>9, <1>10, OtherFrames
<1>11. CASE j = k
  <2>1. ASSUME NEW reg \in DOMAIN fn.slots
        PROVE  w # low + fn.slots[reg]
    <3>1. PICK y \in Nat : y = fn.slots[reg] /\ (y < lo \/ lo + size <= y)
      BY <1>6
    <3>2. w # low + y
      BY <1>6, <1>8, <3>1
    <3> QED
      BY <3>1, <3>2
  <2> QED
    BY <1>1, <1>2, <1>7, <1>11, <2>1 DEF SlotsOf
<1> QED
  BY <1>10, <1>11

\* What WritesInBounds says of a store through a computed address.
LEMMA BoundsSpare ==
  ASSUME status = "run", "--ir" \notin request, result = NoResult, WritesInBounds, Named,
         NEW sh, Loaded(Facts, frame, out, data, sh),
         NEW A, NEW n, Live(Facts, out, sh, A, n, ip, regs, mem, calls),
         out[ip].kind = "Store", out[ip].rs1 \notin {"sp", "t4"},
         NEW j \in 1 .. n
  PROVE  Addressed(out[ip], regs) \notin SlotsOf(Facts, A[j])
<1>1. PICK w : w = Addressed(out[ip], regs)
  OBVIOUS
<1>2. \/ \E k \in 1 .. Len(calls) + 1 : w \in ArrayBytes(k)
      \/ w \in DOMAIN RV!InitialData(data)
  BY <1>1 DEF WritesInBounds, RV!Address, RV!Instr, Addressed
<1>3. /\ \A f \in DOMAIN Facts : Sound(Facts[f], frame[f])
      /\ Stacked(Facts, sh, mem, A, n) /\ Recorded(Facts, A, n, calls)
      /\ \A a \in DOMAIN RV!InitialData(data) : a \in Int /\ a > StackTop
  BY DEF Loaded, Live
<1>4. /\ n \in Nat \ {0} /\ Len(calls) + 1 = n
      /\ \A k \in 1 .. n : A[k].f \in DOMAIN Facts /\ A[k].top \in Int /\ A[k].top <= StackTop
  BY <1>3 DEF Stacked, Recorded
<1>5. CASE \E k \in 1 .. Len(calls) + 1 : w \in ArrayBytes(k)
  <2>1. PICK k \in 1 .. n : w \in ArrayBytes(k)
    BY <1>4, <1>5
  <2>2. FrameOn(k) = frame[A[k].f]
    BY <1>3, <1>4, FrameIs
  <2>3. BaseOf(k) = Low(Facts, A[k])
    <3>1. CASE k \in 1 .. n - 1
      BY <1>3, <3>1, BaseIs
    <3>2. CASE k = n
      <4>1. PICK inst : inst = out[ip]
        OBVIOUS
      <4>2. regs["sp"] = Low(Facts, A[n])
        BY <4>1, ComputedStore
      <4>3. BaseOf(k) = regs["sp"]
        BY <1>4, <3>2 DEF BaseOf
      <4> QED
        BY <3>2, <4>2, <4>3
    <3> QED
      BY <1>4, <3>1, <3>2
  <2>4. PICK decs : decs = frame[A[k].f].decs
    OBVIOUS
  <2>5. PICK x \in DOMAIN decs : w \in Low(Facts, A[k]) + decs[x].lo
                                      .. Low(Facts, A[k]) + decs[x].lo + decs[x].size - 1
    BY <2>1, <2>2, <2>3, <2>4 DEF ArrayBytes, Range
  <2> QED
    BY <1>1, <1>3, <2>4, <2>5, ArraySpare
<1>6. CASE w \in DOMAIN RV!InitialData(data)
  <2>1. w \in Int /\ w > StackTop
    BY <1>3, <1>6
  <2>2. A[j].f \in DOMAIN Facts /\ A[j].top \in Int /\ A[j].top <= StackTop
    BY <1>4
  <2>3. ASSUME w \in SlotsOf(Facts, A[j])
        PROVE  FALSE
    <3>1. PICK a : a = A[j]
      OBVIOUS
    <3>2. PICK fr : fr = frame[a.f]
      OBVIOUS
    <3>3. Sound(Facts[a.f], fr)
      BY <1>3, <2>2, <3>1, <3>2
    <3>4. w < a.top
      BY <2>2, <2>3, <3>1, <3>3, OwnFrame
    <3> QED
      BY <2>1, <2>2, <3>1, <3>4, DriverAssumption
  <2> QED
    BY <1>1, <2>3
<1> QED
  BY <1>2, <1>5, <1>6

-----------------------------------------------------------------------------
(* One step of the machine.                                                *)

\* The state of a run that has not ended.
Going(sh, A, n) ==
  /\ status = "run" /\ "--ir" \notin request /\ result = NoResult /\ Named
  /\ Loaded(Facts, frame, out, data, sh) /\ Live(Facts, out, sh, A, n, ip, regs, mem, calls)

\* What a step has to leave.
Continues(sh) == \E A, n : Live(Facts, out, sh, A, n, ip', regs', mem', calls')

LEMMA DefiningStep ==
  ASSUME NEW sh, NEW A, NEW n, Going(sh, A, n),
         \/ RV!ExecArith \/ RV!ExecArithImm \/ RV!ExecMv \/ RV!ExecLi \/ RV!ExecLa
         \/ RV!ExecLoad
  PROVE  Continues(sh) /\ mem' = mem /\ calls' = calls
<1>1. PICK inst : inst = out[ip]
  OBVIOUS
<1>2. PICK v : /\ Gives(inst, regs, mem, v) /\ regs' = [regs EXCEPT ![inst.rd] = v]
               /\ ip' = ip + 1 /\ mem' = mem /\ calls' = calls
  <2>1. CASE RV!ExecArith
    BY <1>1, <2>1 DEF RV!ExecArith, RV!At, RV!Instr, RV!Defines, RV!Goes, RV!Quiet, Gives
  <2>2. CASE RV!ExecArithImm
    BY <1>1, <2>2 DEF RV!ExecArithImm, RV!At, RV!Instr, RV!Defines, RV!Goes, RV!Quiet, Gives
  <2>3. CASE RV!ExecMv
    BY <1>1, <2>3 DEF RV!ExecMv, RV!At, RV!Instr, RV!Defines, RV!Goes, RV!Quiet, Gives
  <2>4. CASE RV!ExecLi
    BY <1>1, <2>4 DEF RV!ExecLi, RV!At, RV!Instr, RV!Defines, RV!Goes, RV!Quiet, Gives
  <2>5. CASE RV!ExecLa
    BY <1>1, <2>5 DEF RV!ExecLa, RV!At, RV!Instr, RV!Defines, RV!Goes, RV!Quiet, Gives
  <2>6. CASE RV!ExecLoad
    BY <1>1, <2>6 DEF RV!ExecLoad, RV!At, RV!Instr, RV!Defines, RV!Goes, RV!Quiet, Gives,
                      RV!Cell, RV!Address, Addressed
  <2> QED
    BY <2>1, <2>2, <2>3, <2>4, <2>5, <2>6
<1>3. Live(Facts, out, sh, A, n, ip + 1, Given(inst, regs, v), mem, calls)
  BY <1>1, <1>2, RegisterStep DEF Going
<1>4. regs' = Given(inst, regs, v)
  BY <1>2 DEF Given
<1> QED
  BY <1>2, <1>3, <1>4 DEF Continues

LEMMA StoringStep ==
  ASSUME NEW sh, NEW A, NEW n, Going(sh, A, n), WritesInBounds, RV!ExecStore
  PROVE  /\ Continues(sh) /\ calls' = calls
         /\ \E w, v : /\ mem' = Written(mem, w, v)
                      /\ \A j \in 1 .. n - 1 : w \notin SlotsOf(Facts, A[j])
<1>1. PICK inst : inst = out[ip]
  OBVIOUS
<1>2. PICK w : w = Addressed(inst, regs)
  OBVIOUS
<1>3. /\ inst.kind = "Store" /\ ip' = ip + 1 /\ regs' = regs /\ calls' = calls
      /\ mem' = Written(mem, w, regs[inst.rs2])
  BY <1>1, <1>2 DEF RV!ExecStore, RV!At, RV!Instr, RV!Goes, RV!Address, Addressed, Written
<1>4. inst.rs1 \notin {"sp", "t4"} => \A j \in 1 .. n : w \notin SlotsOf(Facts, A[j])
  BY <1>1, <1>2, <1>3, BoundsSpare DEF Going
<1>5. /\ Live(Facts, out, sh, A, n, ip + 1, regs, Written(mem, w, regs[inst.rs2]), calls)
      /\ \A j \in 1 .. n - 1 : w \notin SlotsOf(Facts, A[j])
  BY <1>1, <1>2, <1>3, <1>4, StoreStep DEF Going
<1> QED
  BY <1>3, <1>5 DEF Continues

LEMMA LibrarySp ==
  ASSUME NEW a0, NEW a1, NEW q, q = RV!AfterLibrary(a0, a1)
  PROVE  DOMAIN q = RV!PhysReg /\ q["sp"] = regs["sp"]
<1>1. "sp" \in RV!PhysReg /\ "sp" \in RV!Preserved
  BY DEF RV!PhysReg, RV!Preserved
<1> QED
  BY <1>1 DEF RV!AfterLibrary

LEMMA ControlStep ==
  ASSUME NEW sh, NEW A, NEW n, Going(sh, A, n),
         \/ RV!ExecBranch \/ RV!ExecJump \/ RV!ExecLabel \/ RV!ExecWrite \/ RV!ExecRead
  PROVE  Continues(sh) /\ mem' = mem /\ calls' = calls
<1>1. PICK inst : inst = out[ip]
  OBVIOUS
<1>2. /\ Loaded(Facts, frame, out, data, sh)
      /\ Live(Facts, out, sh, A, n, ip, regs, mem, calls)
  BY DEF Going
<1>3. CASE RV!ExecBranch
  <2>1. /\ inst.kind = "Branch" /\ regs' = regs /\ mem' = mem /\ calls' = calls
        /\ ip' = ip + 1 \/ ip' = RV!LabelIn(out, inst.label)
    BY <1>1, <1>3 DEF RV!ExecBranch, RV!At, RV!Instr, RV!Goes, RV!JumpsTo, RV!Quiet
  <2>2. Live(Facts, out, sh, A, n, ip + 1, regs, mem, calls)
    BY <1>1, <1>2, <2>1, StayStep
  <2>3. Live(Facts, out, sh, A, n, RV!LabelIn(out, inst.label), regs, mem, calls)
    BY <1>1, <1>2, <2>1, JumpStep
  <2> QED
    BY <2>1, <2>2, <2>3 DEF Continues
<1>4. CASE RV!ExecJump
  <2>1. /\ inst.kind = "Jump" /\ regs' = regs /\ mem' = mem /\ calls' = calls
        /\ ip' = RV!LabelIn(out, inst.label)
    BY <1>1, <1>4 DEF RV!ExecJump, RV!At, RV!Instr, RV!Goes, RV!JumpsTo, RV!Quiet
  <2>2. Live(Facts, out, sh, A, n, RV!LabelIn(out, inst.label), regs, mem, calls)
    BY <1>1, <1>2, <2>1, JumpStep
  <2> QED
    BY <2>1, <2>2 DEF Continues
<1>5. CASE RV!ExecLabel
  <2>1. /\ inst.kind \in {"Label", "GlobalLabel", "Function"} /\ ip' = ip + 1
        /\ regs' = regs /\ mem' = mem /\ calls' = calls
    BY <1>1, <1>5 DEF RV!ExecLabel, RV!Instr, RV!Goes, RV!Quiet
  <2>2. Live(Facts, out, sh, A, n, ip + 1, regs, mem, calls)
    BY <1>1, <1>2, <2>1, StayStep
  <2> QED
    BY <2>1, <2>2 DEF Continues
<1>6. CASE RV!ExecWrite \/ RV!ExecRead
  <2>1. PICK a0, a1 : regs' = RV!AfterLibrary(a0, a1)
    <3>1. CASE RV!ExecWrite
      BY <3>1 DEF RV!ExecWrite
    <3>2. CASE RV!ExecRead
      BY <3>2 DEF RV!ExecRead
    <3> QED
      BY <1>6, <3>1, <3>2
  <2>2. inst.kind = "Call" /\ ip' = ip + 1 /\ mem' = mem /\ calls' = calls
    BY <1>1, <1>6 DEF RV!ExecWrite, RV!ExecRead, RV!At, RV!Instr, RV!Goes
  <2>3. PICK q : q = RV!AfterLibrary(a0, a1)
    OBVIOUS
  <2>4. DOMAIN q = RV!PhysReg /\ q["sp"] = regs["sp"]
    BY <2>3, LibrarySp
  <2>5. Live(Facts, out, sh, A, n, ip + 1, q, mem, calls)
    BY <1>1, <1>2, <2>2, <2>4, LibraryStep
  <2> QED
    BY <2>1, <2>2, <2>3, <2>5 DEF Continues
<1> QED
  BY <1>3, <1>4, <1>5, <1>6

LEMMA CallingStep ==
  ASSUME NEW sh, NEW A, NEW n, Going(sh, A, n), RV!ExecCall
  PROVE  Continues(sh) /\ mem' = mem
<1>1. PICK inst : inst = out[ip]
  OBVIOUS
<1>2. PICK q : q = [regs EXCEPT !["ra"] = ip + 1]
  OBVIOUS
<1>3. PICK after : after = Append(calls, [func |-> inst.label, sp |-> regs["sp"],
                                          fp |-> regs["fp"], ra |-> ip + 1])
  OBVIOUS
<1>4. /\ inst.kind = "Call" /\ inst.label \notin RV!Library
      /\ regs' = q /\ calls' = after /\ mem' = mem /\ ip' = RV!LabelIn(out, inst.label)
  BY <1>1, <1>2, <1>3 DEF RV!ExecCall, RV!At, RV!Instr, RV!JumpsTo
<1>5. \E B : Live(Facts, out, sh, B, n + 1, RV!LabelIn(out, inst.label), q, mem, after)
  BY <1>1, <1>2, <1>3, <1>4, CallStep DEF Going
<1> QED
  BY <1>4, <1>5 DEF Continues

\* What the caller recorded is there when its callee returns.
LEMMA Returning ==
  ASSUME NEW sh, NEW A, NEW n, Going(sh, A, n), out[ip].kind = "Ret"
  PROVE  /\ Len(calls) = n - 1 /\ n \in Nat \ {0}
         /\ calls = << >> <=> n = 1
         /\ regs["sp"] = A[n].top /\ regs["fp"] = A[n].fp /\ regs["ra"] = A[n].back
         /\ n = 1 => A[n].back = RV!Environment /\ A[n].top = StackTop
         /\ n # 1 => /\ A[n].back # RV!Environment
                     /\ Last(calls).sp = A[n].top /\ Last(calls).ra = A[n].back
                     /\ Last(calls).fp = A[n].fp
<1>1. /\ Loaded(Facts, frame, out, data, sh)
      /\ Live(Facts, out, sh, A, n, ip, regs, mem, calls)
  BY DEF Going
<1>2. regs["sp"] = A[n].top /\ regs["fp"] = A[n].fp /\ regs["ra"] = A[n].back
  BY <1>1, AtReturn
<1>3. Stacked(Facts, sh, mem, A, n) /\ Recorded(Facts, A, n, calls)
  BY <1>1 DEF Live
<1>4. n \in Nat \ {0} /\ A[1].back = RV!Environment
  BY <1>3 DEF Stacked
<1>5. Len(calls) = n - 1 /\ A[1].top = StackTop
  BY <1>3 DEF Recorded
<1>6. calls = << >> <=> n = 1
  <2>1. PICK S : calls \in Seq(S)
    BY <1>3 DEF Recorded
  <2> QED
    BY <1>4, <1>5, <2>1
<1>7. ASSUME n # 1
      PROVE  /\ A[n].back # RV!Environment
             /\ Last(calls).sp = A[n].top /\ Last(calls).ra = A[n].back
             /\ Last(calls).fp = A[n].fp
  <2>1. PICK k \in 1 .. n - 1 : k = n - 1 /\ k + 1 = n
    BY <1>4, <1>7
  <2>2. /\ calls[k].sp = A[k + 1].top /\ calls[k].ra = A[k + 1].back
        /\ calls[k].fp = A[k + 1].fp
    BY <1>3 DEF Recorded
  <2>3. Last(calls) = calls[k]
    BY <1>5, <2>1 DEF Last
  <2>4. A[k + 1].back \in 1 .. Len(sh)
    BY <1>3 DEF Stacked, WaitsFor
  <2>5. Len(sh) \in Nat
    BY <1>1 DEF Loaded, BP!Annotates
  <2>6. A[k + 1].back # 0
    BY <2>4, <2>5
  <2> QED
    BY <2>1, <2>2, <2>3, <2>6 DEF RV!Environment
<1> QED
  BY <1>2, <1>4, <1>5, <1>6, <1>7

LEMMA ReturningStep ==
  ASSUME NEW sh, NEW A, NEW n, Going(sh, A, n), RV!ExecRet
  PROVE  Continues(sh) /\ mem' = mem
<1>1. /\ out[ip].kind = "Ret" /\ regs["ra"] # RV!Environment /\ ip' = regs["ra"]
      /\ calls' = SubSeq(calls, 1, Len(calls) - 1) /\ regs' = regs /\ mem' = mem
  BY DEF RV!ExecRet, RV!At, RV!Instr
<1>2. n # 1
  BY <1>1, Returning
<1>3. PICK after : after = SubSeq(calls, 1, Len(calls) - 1)
  OBVIOUS
<1>4. Live(Facts, out, sh, A, n - 1, regs["ra"], regs, mem, after)
  BY <1>1, <1>2, <1>3, ReturnStep DEF Going
<1> QED
  BY <1>1, <1>3, <1>4 DEF Continues

LEMMA RunInit == Init => RunInv
BY DEF Init, RunInv

\* The program and what is known of it stay as they are while it runs.
LEMMA ProgramStays ==
  ASSUME RunAssembly
  PROVE  /\ Facts' = Facts /\ Named' = Named /\ frame' = frame /\ out' = out /\ data' = data
         /\ status' = status /\ request' = request
<1>1. /\ prog' = prog /\ frame' = frame /\ mod' = mod /\ data' = data
      /\ status' = status /\ request' = request
  BY DEF RunAssembly, builderVars
<1>2. out' = out
  <2>1. RV!Exec
    BY DEF RunAssembly
  <2> QED
    BY <2>1 DEF RV!Exec, RV!ExecArith, RV!ExecArithImm, RV!ExecMv, RV!ExecLi, RV!ExecLa,
                RV!ExecLoad, RV!ExecStore, RV!ExecBranch, RV!ExecJump, RV!ExecLabel,
                RV!ExecCall, RV!ExecWrite, RV!ExecRead, RV!ExecRet, RV!ExecHalt,
                RV!Defines, RV!Quiet
<1>3. Facts' = Facts
  BY <1>1 DEF Facts
<1> QED
  BY <1>1, <1>2, <1>3 DEF Named, FunctionIndex

LEMMA RunAssemblyStep ==
  ASSUME RunInv, WritesInBounds, RunAssembly
  PROVE  RunInv'
<1>1. status = "run" /\ "--ir" \notin request /\ result = NoResult /\ RV!Exec
  BY DEF RunAssembly
<1>2. /\ Facts' = Facts /\ Named' = Named /\ frame' = frame /\ out' = out /\ data' = data
      /\ status' = status /\ request' = request
  BY ProgramStays
<1>3. PICK sh : /\ Named /\ Loaded(Facts, frame, out, data, sh)
                /\ \E A, n : Live(Facts, out, sh, A, n, ip, regs, mem, calls)
  BY <1>1 DEF RunInv
<1>4. PICK A, n : Live(Facts, out, sh, A, n, ip, regs, mem, calls)
  BY <1>3
<1>5. Going(sh, A, n)
  BY <1>1, <1>3, <1>4 DEF Going
<1>6. result' = NoResult => Continues(sh)
  <2>1. CASE \/ RV!ExecArith \/ RV!ExecArithImm \/ RV!ExecMv \/ RV!ExecLi \/ RV!ExecLa
             \/ RV!ExecLoad
    BY <1>5, <2>1, DefiningStep
  <2>2. CASE RV!ExecStore
    BY <1>5, <2>2, StoringStep
  <2>3. CASE \/ RV!ExecBranch \/ RV!ExecJump \/ RV!ExecLabel \/ RV!ExecWrite \/ RV!ExecRead
    BY <1>5, <2>3, ControlStep
  <2>4. CASE RV!ExecCall
    BY <1>5, <2>4, CallingStep
  <2>5. CASE RV!ExecRet
    BY <1>5, <2>5, ReturningStep
  <2>6. CASE RV!ExecHalt
    <3>1. ip' = ip /\ regs' = regs /\ calls' = calls /\ mem' = mem
      BY <2>6 DEF RV!ExecHalt
    <3> QED
      BY <1>4, <3>1 DEF Continues
  <2> QED
    BY <1>1, <2>1, <2>2, <2>3, <2>4, <2>5, <2>6 DEF RV!Exec
<1>7. result' = NoResult =>
        \E B, k : Live(Facts', out', sh, B, k, ip', regs', mem', calls')
  BY <1>2, <1>6 DEF Continues
<1>8. Loaded(Facts', frame', out', data', sh) /\ Named' /\ status' # "print"
  BY <1>1, <1>2, <1>3
<1> QED
  BY <1>7, <1>8 DEF RunInv

LEMMA RunNext ==
  IInv /\ DataInv /\ IRResolves /\ JumpsLocal /\ WritesInBounds /\ RunInv /\ [Next]_vars => RunInv'
<1> SUFFICES ASSUME IInv, DataInv, IRResolves, JumpsLocal, WritesInBounds, RunInv, [Next]_vars
             PROVE  RunInv'
  OBVIOUS
<1>1. CASE Argument \/ TranslateRoot \/ BuildNode \/ StartBackend \/ EmitGlobal \/ RunBackend
  <2>1. status' \notin {"print", "run"}
    BY <1>1 DEF Argument, TranslateRoot, BuildNode, StartBackend, EmitGlobal, RunBackend
  <2> QED
    BY <2>1 DEF RunInv
<1>2. CASE Build
  BY <1>2 DEF Build, RunInv
<1>3. CASE PrintIR
  <2>1. status = "print" /\ status' = "run" /\ request' = request
    BY <1>3 DEF PrintIR
  <2> QED
    BY <2>1 DEF RunInv
<1>4. CASE LoadAssembly
  BY <1>4, LoadStep
<1>5. CASE RunIR
  <2>1. status = "run" /\ "--ir" \in request /\ status' = status /\ request' = request
    BY <1>5 DEF RunIR
  <2> QED
    BY <2>1 DEF RunInv
<1>6. CASE RunAssembly
  BY <1>6, RunAssemblyStep
<1>7. CASE Finished \/ UNCHANGED vars
  <2>1. UNCHANGED vars
    BY <1>7 DEF Finished
  <2>2. /\ status' = status /\ request' = request /\ frame' = frame /\ out' = out
        /\ data' = data /\ prog' = prog /\ mod' = mod /\ result' = result
        /\ ip' = ip /\ regs' = regs /\ mem' = mem /\ calls' = calls
    BY <2>1 DEF vars, builderVars, backVars, runVars
  <2>3. Facts' = Facts
    BY <2>2 DEF Facts
  <2>4. Named' = Named
    BY <2>2, <2>3 DEF Named, FunctionIndex
  <2> QED
    BY <2>2, <2>3, <2>4 DEF RunInv
<1> QED
  BY <1>1, <1>2, <1>3, <1>4, <1>5, <1>6, <1>7 DEF Next

LEMMA RunInvariant ==
  Spec /\ []IRResolves /\ []JumpsLocal /\ []WritesInBounds => []RunInv
BY Invariant, DataInvariant, RunInit, RunNext, PTL DEF Spec

\* Only RunAssembly is a step of a program that has not ended.
LEMMA Running ==
  ASSUME RunInv, Next, status = "run", "--ir" \notin request, result = NoResult
  PROVE  RunAssembly /\ RV!Exec /\ \E sh, A, n : Going(sh, A, n)
<1>1. RunAssembly
  BY DEF Next, Argument, TranslateRoot, BuildNode, Build, StartBackend, EmitGlobal, RunBackend,
         PrintIR, LoadAssembly, RunIR, Finished
<1>2. RV!Exec
  BY <1>1 DEF RunAssembly
<1> QED
  BY <1>1, <1>2 DEF RunInv, Going

\* The part of RegistersRestored that is about one step.
ReturnsRight ==
  AtRet =>
    IF calls # << >>
      THEN /\ ip' = Last(calls).ra
           /\ regs["sp"] = Last(calls).sp /\ regs["fp"] = Last(calls).fp
      ELSE regs["ra"] = RV!Environment /\ regs["sp"] = StackTop

LEMMA ReturnsAreRight ==
  ASSUME RunInv, Next
  PROVE  ReturnsRight
<1> SUFFICES ASSUME AtRet
             PROVE  IF calls # << >>
                      THEN /\ ip' = Last(calls).ra
                           /\ regs["sp"] = Last(calls).sp /\ regs["fp"] = Last(calls).fp
                      ELSE regs["ra"] = RV!Environment /\ regs["sp"] = StackTop
  BY DEF ReturnsRight
<1>1. status = "run" /\ "--ir" \notin request /\ result = NoResult /\ out[ip].kind = "Ret"
  BY DEF AtRet
<1>2. RV!Exec /\ \E sh, A, n : Going(sh, A, n)
  BY <1>1, Running
<1>3. PICK sh, A, n : Going(sh, A, n)
  BY <1>2
<1>4. /\ calls = << >> <=> n = 1
      /\ regs["sp"] = A[n].top /\ regs["fp"] = A[n].fp /\ regs["ra"] = A[n].back
      /\ n = 1 => A[n].back = RV!Environment /\ A[n].top = StackTop
      /\ n # 1 => /\ A[n].back # RV!Environment
                  /\ Last(calls).sp = A[n].top /\ Last(calls).ra = A[n].back
                  /\ Last(calls).fp = A[n].fp
  BY <1>1, <1>3, Returning
<1>5. RV!ExecRet \/ RV!ExecHalt
  BY <1>1, <1>2
     DEF RV!Exec, RV!ExecArith, RV!ExecArithImm, RV!ExecMv, RV!ExecLi, RV!ExecLa,
         RV!ExecLoad, RV!ExecStore, RV!ExecBranch, RV!ExecJump, RV!ExecLabel, RV!ExecCall,
         RV!ExecWrite, RV!ExecRead, RV!At, RV!Instr
<1>6. CASE calls = << >>
  BY <1>4, <1>6
<1>7. CASE calls # << >>
  <2>1. n # 1 /\ regs["ra"] # RV!Environment
    BY <1>4, <1>7
  <2>2. ip' = regs["ra"]
    BY <1>5, <2>1 DEF RV!ExecRet, RV!ExecHalt
  <2> QED
    BY <1>4, <1>7, <2>1, <2>2
<1> QED
  BY <1>6, <1>7

\* Where jumps stay in their functions, calls lead to the beginning of one, and stores
\* through computed addresses stay in arrays and globals, every function of every
\* program returns to behind its call with sp and fp as its caller has them, and main
\* with the stack as it found it, however deep the calls are nested and whichever way
\* through the body the program takes (RegistersRestored; inst_selector.cpp,
\* asm_emitter.cpp).
THEOREM ReturnsRestore ==
  Spec /\ []IRResolves /\ []JumpsLocal /\ []WritesInBounds => RegistersRestored
<1>1. RunInv /\ [Next]_vars =>
        [AtRet =>
           IF calls # << >>
             THEN /\ ip' = Last(calls).ra
                  /\ regs["sp"] = Last(calls).sp /\ regs["fp"] = Last(calls).fp
             ELSE regs["ra"] = RV!Environment /\ regs["sp"] = StackTop]_vars
  BY ReturnsAreRight DEF ReturnsRight
<1> QED
  BY <1>1, RunInvariant, PTL DEF Spec, RegistersRestored

\* The part of CallersFrameKept that is about one step.
FramesKept ==
  status = "run" /\ "--ir" \notin request =>
    \A i \in DOMAIN calls \cap DOMAIN calls' : \A a \in SlotsOfCaller(i) :
      a \in DOMAIN mem' => a \in DOMAIN mem /\ mem'[a] = mem[a]

\* The slots of an activation that waits are those the property names.
LEMMA CallersSlots ==
  ASSUME NEW sh, NEW A, NEW n, Going(sh, A, n), NEW i \in 1 .. n - 1
  PROVE  SlotsOfCaller(i) = SlotsOf(Facts, A[i])
<1>1. /\ Named /\ Loaded(Facts, frame, out, data, sh)
      /\ Stacked(Facts, sh, mem, A, n) /\ Recorded(Facts, A, n, calls)
  BY DEF Going, Live
<1>2. n \in Nat \ {0} /\ i \in 1 .. n
  BY <1>1 DEF Stacked
<1>3. A[i].f \in DOMAIN Facts
  BY <1>1, <1>2 DEF Stacked
<1>4. FrameOn(i) = frame[A[i].f]
  BY <1>1, <1>2, <1>3, FrameIs
<1>5. BaseOf(i) = Low(Facts, A[i])
  BY <1>1, BaseIs
<1>6. Facts[A[i].f].slots = frame[A[i].f].temp_offset
  BY <1>1, <1>3 DEF Loaded, Sound
<1> QED
  BY <1>4, <1>5, <1>6 DEF SlotsOfCaller, SlotsOf

LEMMA FramesAreKept ==
  ASSUME RunInv, WritesInBounds, Next
  PROVE  FramesKept
<1> SUFFICES ASSUME status = "run", "--ir" \notin request,
                    NEW i \in DOMAIN calls \cap DOMAIN calls', NEW a \in SlotsOfCaller(i),
                    a \in DOMAIN mem'
             PROVE  a \in DOMAIN mem /\ mem'[a] = mem[a]
  BY DEF FramesKept
<1>1. CASE mem' = mem
  BY <1>1
<1>2. CASE result # NoResult
  <2>1. Finished
    BY <1>2 DEF Next, Argument, TranslateRoot, BuildNode, Build, StartBackend, EmitGlobal,
                RunBackend, PrintIR, LoadAssembly, RunIR, RunAssembly
  <2>2. mem' = mem
    BY <2>1 DEF Finished, vars, runVars
  <2> QED
    BY <2>2
<1>3. CASE result = NoResult
  <2>1. RV!Exec /\ \E sh, A, n : Going(sh, A, n)
    BY <1>3, Running
  <2>2. PICK sh, A, n : Going(sh, A, n)
    BY <2>1
  <2>3. CASE RV!ExecStore
    <3>1. /\ calls' = calls
          /\ \E w, v : /\ mem' = Written(mem, w, v)
                       /\ \A j \in 1 .. n - 1 : w \notin SlotsOf(Facts, A[j])
      BY <2>2, <2>3, StoringStep
    <3>2. PICK w, v : /\ mem' = Written(mem, w, v)
                      /\ \A j \in 1 .. n - 1 : w \notin SlotsOf(Facts, A[j])
      BY <3>1
    <3>3. i \in 1 .. n - 1
      <4>1. Recorded(Facts, A, n, calls) /\ Stacked(Facts, sh, mem, A, n)
        BY <2>2 DEF Going, Live
      <4>2. Len(calls) = n - 1 /\ \E S : calls \in Seq(S)
        BY <4>1 DEF Recorded
      <4> QED
        BY <4>2
    <3>4. w # a
      BY <2>2, <3>2, <3>3, CallersSlots
    <3> QED
      BY <3>2, <3>4 DEF Written
  <2>4. CASE ~RV!ExecStore
    <3>1. mem' = mem
      BY <2>1, <2>4
         DEF RV!Exec, RV!ExecArith, RV!ExecArithImm, RV!ExecMv, RV!ExecLi, RV!ExecLa,
             RV!ExecLoad, RV!ExecBranch, RV!ExecJump, RV!ExecLabel, RV!ExecCall,
             RV!ExecWrite, RV!ExecRead, RV!ExecRet, RV!ExecHalt, RV!Defines, RV!Quiet
    <3> QED
      BY <3>1
  <2> QED
    BY <2>3, <2>4
<1> QED
  BY <1>2, <1>3

\* Under the same conditions no step changes a word where a function that waits for
\* the end of a call keeps its registers, whatever the functions called from there
\* store, and in however many frames (CallersFrameKept; reg_allocator.cpp,
\* inst_selector.cpp).
THEOREM CallersStayKept ==
  Spec /\ []IRResolves /\ []JumpsLocal /\ []WritesInBounds => CallersFrameKept
<1>1. RunInv /\ WritesInBounds /\ [Next]_vars =>
        [status = "run" /\ "--ir" \notin request =>
           \A i \in DOMAIN calls \cap DOMAIN calls' : \A a \in SlotsOfCaller(i) :
             a \in DOMAIN mem' => a \in DOMAIN mem /\ mem'[a] = mem[a]]_vars
  BY FramesAreKept DEF FramesKept
<1> QED
  BY <1>1, RunInvariant, PTL DEF Spec, CallersFrameKept
=============================================================================
