------------------------------ MODULE Backend ------------------------------
(***************************************************************************)
(* The back end of the compiler as main.cpp runs it: InstSelector over     *)
(* every function of the module, then RegAllocator over every function,    *)
(* then ASMEmitter over every function.  The three passes share one frame  *)
(* per function and extend it: selection takes words for calls and blocks  *)
(* for arrays, allocation a word for every virtual register, and emission  *)
(* one for fp and one for ra before it measures the frame for the          *)
(* prologue.  One step handles one IR node, or one instruction.            *)
(***************************************************************************)
EXTENDS InstSelector, RegAllocator, AsmEmitter, SequencesExt

CONSTANTS VReg,       \* virtual registers of the IR
          Labels,     \* labels and function names
          Programs    \* the modules CFGBuilder may hand over

BinaryOps == {"Add", "Sub", "Not", "Mul", "Div", "Mod", "And", "Or",
              "Eq", "Ne", "Lt", "Gt", "Le", "Ge"}

RelOps == {"Eq", "Ne", "Lt", "Gt", "Le", "Ge"}

\* The nodes of an entry block (CFGBuilder has replaced every Return).
IRNode ==
  [ir : {"LoadImm"}, x : VReg, k : Int]
  \cup [ir : {"Assign"}, x : VReg \cup {"a0"}, y : VReg]
  \cup [ir : {"Binary"}, x : VReg, y : VReg, z : VReg \cup {Literal},
        op : BinaryOps, num : Int]
  \cup [ir : {"Unary"}, x : VReg, y : VReg, op : BinaryOps]
  \cup [ir : {"Label", "Goto"}, label : Labels]
  \cup [ir : {"Function"}, name : Labels]
  \cup [ir : {"Call"}, x : VReg \cup {""}, func : Labels]
  \cup [ir : {"Arg", "Param"}, x : VReg, k : Nat]
  \cup [ir : {"If"}, op : BinaryOps, t1 : VReg, t2 : VReg, label : Labels]
  \cup [ir : {"Dec"}, x : VReg, size : Int]
  \cup [ir : {"LoadAddr"}, x : VReg, label : Labels]
  \cup [ir : {"Store"}, addr : VReg, value : VReg, offset : Int]
  \cup [ir : {"Load"}, x : VReg, addr : VReg, offset : Int]

\* A function: its entry block, which CFGBuilder starts at its one Function node,
\* and the label and result of its exit block.
IRFunction == [entry : Seq(IRNode), exit : Labels, ret : {"", "a0"}]

ASSUME BackendAssumption ==
  /\ VReg \cap (PhysReg \cup {Unused, Literal, ""}) = {}
  /\ Programs \subseteq Seq(IRFunction)
  /\ \A p \in Programs :
       /\ Len(p) > 0
       /\ \A f \in 1 .. Len(p) :
            /\ Len(p[f].entry) > 0
            /\ \A i \in 1 .. Len(p[f].entry) : p[f].entry[i].ir = "Function" <=> i = 1

NotYet == [size |-> -1, ra |-> -1, fp |-> -1]

VARIABLES prog,       \* the module being compiled
          stage,      \* the pass that runs
          cur,        \* the function it is at
          pos,        \* the node or instruction it is at
          frame,      \* the frame of every function
          asm,        \* the entry block's asm_code of every function
          acc,        \* asm_code_allocated of the block being allocated
          ra_offset,  \* members of the emitter, kept from one function
          fp_offset,  \*   to the next
          out,        \* what has been emitted
          reserved,   \* history: what each prologue reserved and saved,
          released    \*   and what each epilogue released and restored

passVars == << stage, cur, pos >>
emitVars == << ra_offset, fp_offset, out, reserved, released >>
vars == << prog, passVars, frame, asm, acc, emitVars >>

Funcs == 1 .. Len(prog)

Init ==
  /\ prog \in Programs
  /\ stage = "select" /\ cur = 1 /\ pos = 1
  /\ frame = [f \in Funcs |-> NewFrame]
  /\ asm = [f \in Funcs |-> << >>]
  /\ acc = << >> /\ out = << >>
  /\ ra_offset = 0 /\ fp_offset = 0
  /\ reserved = [f \in Funcs |-> NotYet]
  /\ released = [f \in Funcs |-> NotYet]

\* Mutant of NextFunction: one function too many.
NextFunctionPastEnd(next) ==
  /\ pos' = 1
  /\ IF cur <= Len(prog) THEN cur' = cur + 1 /\ UNCHANGED stage
                         ELSE cur' = 1 /\ stage' = next

\* The pass goes on with the next function, or the next pass starts.
NextFunction(next) ==
  /\ pos' = 1
  /\ IF cur < Len(prog) THEN cur' = cur + 1 /\ UNCHANGED stage
                        ELSE cur' = 1 /\ stage' = next

-----------------------------------------------------------------------------
(* InstSelector                                                            *)

Node == prog[cur].entry[pos]

AtNode(ir) ==
  stage = "select" /\ pos <= Len(prog[cur].entry) /\ Node.ir = ir

Appends(sel) ==
  /\ asm' = [asm EXCEPT ![cur] = @ \o sel.code]
  /\ frame' = [frame EXCEPT ![cur] = sel.frame]
  /\ pos' = pos + 1
  /\ UNCHANGED << prog, stage, cur, acc, emitVars >>

LoadImmNode  == AtNode("LoadImm")  /\ Appends(SelectLoadImm(Node, frame[cur]))
AssignNode   == AtNode("Assign")   /\ Appends(SelectAssign(Node, frame[cur]))
BinaryNode   == AtNode("Binary")   /\ Appends(SelectBinary(Node, frame[cur]))
UnaryNode    == AtNode("Unary")    /\ Appends(SelectUnary(Node, frame[cur]))
LabelNode    == AtNode("Label")    /\ Appends(SelectLabel(Node, frame[cur]))
GotoNode     == AtNode("Goto")     /\ Appends(SelectGoto(Node, frame[cur]))
FunctionNode == AtNode("Function") /\ Appends(SelectFunction(Node, frame[cur]))
CallNode     == AtNode("Call")     /\ Appends(SelectCall(Node, frame[cur]))
ArgNode      == AtNode("Arg")      /\ Appends(SelectArg(Node, frame[cur]))
ParamNode    == AtNode("Param")    /\ Appends(SelectParam(Node, frame[cur]))
LoadAddrNode == AtNode("LoadAddr") /\ Appends(SelectLoadAddr(Node, frame[cur]))
StoreNode    == AtNode("Store")    /\ Appends(SelectStore(Node, frame[cur]))
LoadNode     == AtNode("Load")     /\ Appends(SelectLoad(Node, frame[cur]))

Abort ==
  /\ stage' = "aborted"
  /\ UNCHANGED << prog, cur, pos, frame, asm, acc, emitVars >>

\* alloc_dec throws when the array has no bytes.
DecNode ==
  /\ AtNode("Dec")
  /\ IF Node.size > 0 THEN Appends(SelectDec(Node, frame[cur])) ELSE Abort

\* selectIf asserts that the operator compares.
IfNode ==
  /\ AtNode("If")
  /\ IF Node.op \in RelOps THEN Appends(SelectIf(Node, frame[cur])) ELSE Abort

\* The exit block selects to its label, which the epilogue emits instead.
SelectedFunction ==
  /\ stage = "select" /\ pos > Len(prog[cur].entry)
  /\ NextFunction("allocate")
  /\ UNCHANGED << prog, frame, asm, acc, emitVars >>

Select ==
  \/ LoadImmNode \/ AssignNode \/ BinaryNode \/ UnaryNode \/ LabelNode
  \/ GotoNode \/ FunctionNode \/ CallNode \/ ArgNode \/ ParamNode \/ IfNode
  \/ DecNode \/ LoadAddrNode \/ StoreNode \/ LoadNode \/ SelectedFunction

-----------------------------------------------------------------------------
(* RegAllocator                                                            *)

ThisInst == asm[cur][pos]

AllocateKind(kind) ==
  /\ stage = "allocate" /\ pos <= Len(asm[cur]) /\ ThisInst.kind = kind
  /\ frame' = [frame EXCEPT ![cur] = WithSlots(@, ThisInst)]
  /\ acc' = acc \o Allocated(ThisInst, frame'[cur])
  /\ pos' = pos + 1
  /\ UNCHANGED << prog, stage, cur, asm, emitVars >>

AllocateArith    == AllocateKind("Arith")
AllocateArithImm == AllocateKind("ArithImm")
AllocateMv       == AllocateKind("Mv")
AllocateLi       == AllocateKind("Li")
AllocateLa       == AllocateKind("La")
AllocateLoad     == AllocateKind("Load")
AllocateStore    == AllocateKind("Store")
AllocateBranch   == AllocateKind("Branch")

\* Instructions without registers are kept.
AllocateOther ==
  \E kind \in {"Label", "GlobalLabel", "Function", "Call", "Jump"} :
    AllocateKind(kind)

\* Mutant of AllocatedFunction: the block is allocated again and again.
AllocatedFunctionAgain ==
  /\ stage = "allocate" /\ pos > Len(asm[cur])
  /\ acc' = << >> /\ pos' = 1
  /\ UNCHANGED << prog, stage, cur, frame, asm, emitVars >>

\* Mutant of AllocatedFunction: the next block is allocated behind this one.
AllocatedFunctionUncleared ==
  /\ stage = "allocate" /\ pos > Len(asm[cur])
  /\ asm' = [asm EXCEPT ![cur] = acc]
  /\ acc' = acc
  /\ NextFunction("emit")
  /\ UNCHANGED << prog, frame, emitVars >>

AllocatedFunction ==
  /\ stage = "allocate" /\ pos > Len(asm[cur])
  /\ asm' = [asm EXCEPT ![cur] = acc]
  /\ acc' = << >>
  /\ NextFunction("emit")
  /\ UNCHANGED << prog, frame, emitVars >>

Allocate ==
  \/ AllocateArith \/ AllocateArithImm \/ AllocateMv \/ AllocateLi \/ AllocateLa
  \/ AllocateLoad \/ AllocateStore \/ AllocateBranch \/ AllocateOther
  \/ AllocatedFunction

-----------------------------------------------------------------------------
(* ASMEmitter                                                              *)

AtInst == stage = "emit" /\ pos <= Len(asm[cur])

\* Mutant of EmitFunction: the frame is measured before fp and ra are in it.
EmitFunctionMeasuredEarly ==
  /\ AtInst /\ ThisInst.kind = "Function"
  /\ LET fr == PrologueFrame(frame[cur])
         size == StackSize(frame[cur])
     IN  /\ frame' = [frame EXCEPT ![cur] = fr]
         /\ fp_offset' = fr.temp_offset["fp"]
         /\ ra_offset' = fr.temp_offset["ra"]
         /\ out' = out \o << ThisInst >> \o Prologue(size, ra_offset', fp_offset')
         /\ reserved' = [reserved EXCEPT ![cur] =
                           [size |-> size, ra |-> ra_offset', fp |-> fp_offset']]
  /\ pos' = pos + 1
  /\ UNCHANGED << prog, stage, cur, asm, acc, released >>

EmitFunction ==
  /\ AtInst /\ ThisInst.kind = "Function"
  /\ LET fr == PrologueFrame(frame[cur])
         size == StackSize(fr)
     IN  /\ frame' = [frame EXCEPT ![cur] = fr]
         /\ fp_offset' = fr.temp_offset["fp"]
         /\ ra_offset' = fr.temp_offset["ra"]
         /\ out' = out \o << ThisInst >> \o Prologue(size, ra_offset', fp_offset')
         /\ reserved' = [reserved EXCEPT ![cur] =
                           [size |-> size, ra |-> ra_offset', fp |-> fp_offset']]
  /\ pos' = pos + 1
  /\ UNCHANGED << prog, stage, cur, asm, acc, released >>

EmitInst ==
  /\ AtInst /\ ThisInst.kind # "Function"
  /\ IF ThisInst.kind = "Arith" /\ ThisInst.op \notin Mnemonics
       THEN Abort
       ELSE /\ out' = out \o Expand(ThisInst)
            /\ pos' = pos + 1
            /\ UNCHANGED << prog, stage, cur, frame, asm, acc,
                            ra_offset, fp_offset, reserved, released >>

EmitEpilogue ==
  /\ stage = "emit" /\ pos > Len(asm[cur])
  /\ LET size == StackSize(frame[cur])
     IN  /\ out' = out \o Epilogue(prog[cur].exit, prog[cur].ret, size,
                                   ra_offset, fp_offset)
         /\ released' = [released EXCEPT ![cur] =
                           [size |-> size, ra |-> ra_offset, fp |-> fp_offset]]
  /\ NextFunction("done")
  /\ UNCHANGED << prog, frame, asm, acc, ra_offset, fp_offset, reserved >>

Emit == EmitFunction \/ EmitInst \/ EmitEpilogue

Finished == stage \in {"done", "aborted"} /\ UNCHANGED vars

Next == Select \/ Allocate \/ Emit \/ Finished

\* The compiler is one thread that never waits.
Spec == Init /\ [][Next]_vars /\ WF_vars(Next)

-----------------------------------------------------------------------------
(* Properties.                                                             *)

Regs == VReg \cup PhysReg

InstSet ==
  [kind : Kinds, op : BinaryOps \cup Mnemonics \cup {Unused},
   rd : Regs \cup {Unused}, rs1 : Regs \cup {Unused}, rs2 : Regs \cup {Unused},
   imm : Int, label : Labels \cup {Unused}]

Saved == [size : Int, ra : Int, fp : Int]

\* Every pass leaves what the next one takes: code over registers, labels and
\* operators of the right kinds, one frame and one entry block per function.
TypeOK ==
  /\ prog \in Programs
  /\ stage \in {"select", "allocate", "emit", "done", "aborted"}
  /\ cur \in Funcs /\ pos \in Nat \ {0}
  /\ DOMAIN frame = Funcs /\ \A f \in Funcs : IsFrame(frame[f], Regs)
  /\ asm \in [Funcs -> Seq(InstSet)]
  /\ acc \in Seq(InstSet) /\ out \in Seq(InstSet)
  /\ ra_offset \in Int /\ fp_offset \in Int
  /\ reserved \in [Funcs -> Saved] /\ released \in [Funcs -> Saved]

\* Whatever the order in which the three passes take space from a frame, no
\* slot overlaps another slot or an array, and no array another.
FramesSeparate == \A f \in Funcs : FrameSeparate(frame[f])

\* An instruction that addresses the frame from sp: a load or store goes to the
\* slot of some register and never into an array, an address taken is the
\* first byte of an array.
SpAddressOwned(inst, fr) ==
  inst.rs1 = "sp" =>
    CASE inst.kind \in {"Load", "Store"} ->
           \E r \in DOMAIN fr.temp_offset : fr.temp_offset[r] = inst.imm
      [] inst.kind = "ArithImm" ->
           \E i \in 1 .. Len(fr.decs) : fr.decs[i].lo = inst.imm
      [] OTHER -> FALSE

CodeOwned(code, fr) == \A i \in 1 .. Len(code) : SpAddressOwned(code[i], fr)

\* The offsets from sp that selection and allocation wrote into the code remain those
\* of a slot or of an array of the same function while later nodes, instructions and
\* passes extend the frame.
AccessesOwned ==
  /\ \A f \in Funcs : CodeOwned(asm[f], frame[f])
  /\ CodeOwned(acc, frame[cur])

\* Allocation leaves no virtual register behind, and emission no immediate an
\* instruction cannot hold, whatever the frame grew to.
OutputLegal ==
  \A i \in 1 .. Len(out) :
    /\ RegsOf(out[i]) \subseteq PhysReg
    /\ out[i].kind \in {"ArithImm", "Load", "Store"} => Fits(out[i].imm)

\* The prologue of a function reserves all the space its code and its epilogue
\* use, and the epilogue undoes what the prologue did: it restores ra and fp
\* from where they were saved and releases as much as was reserved, although
\* the emitter's offsets survive from one function to the next.
FramesBalanced ==
  \A f \in Funcs :
    /\ reserved[f] # NotYet =>
         /\ reserved[f].size = StackSize(frame[f])
         /\ {"ra", "fp"} \subseteq DOMAIN frame[f].temp_offset
         /\ reserved[f].ra = frame[f].temp_offset["ra"]
         /\ reserved[f].fp = frame[f].temp_offset["fp"]
    /\ released[f] # NotYet => released[f] = reserved[f]

\* No pass moves what an earlier pass, or an earlier node, was given.
SlotsFixed == [][\A f \in Funcs : Grows(frame[f], frame'[f])]_vars

\* What can be jumped or called to, and what jumps, branches, calls, returns or
\* takes an address: what it does and the label it names.
Transfer(kind, op, label) == [kind |-> kind, op |-> op, label |-> label]

ControlOf(inst) ==
  IF inst.kind \in {"Label", "Function", "Jump", "Branch", "Call", "La", "Ret"}
    THEN << Transfer(inst.kind, inst.op, inst.label) >> ELSE << >>

Control(asm_code) == FlattenSeq([i \in DOMAIN asm_code |-> ControlOf(asm_code[i])])

\* The same of IR nodes, and of a function with its exit block.
NodeControl(node) ==
  CASE node.ir = "Label"    -> << Transfer("Label", Unused, node.label) >>
    [] node.ir = "Function" -> << Transfer("Function", Unused, node.name) >>
    [] node.ir = "Goto"     -> << Transfer("Jump", Unused, node.label) >>
    [] node.ir = "If"       -> << Transfer("Branch", node.op, node.label) >>
    [] node.ir = "Call"     -> << Transfer("Call", Unused, node.func) >>
    [] node.ir = "LoadAddr" -> << Transfer("La", Unused, node.label) >>
    [] OTHER                -> << >>

NodesControl(nodes) == FlattenSeq([i \in DOMAIN nodes |-> NodeControl(nodes[i])])

FunctionControl(function) ==
  NodesControl(function.entry)
  \o << Transfer("Label", Unused, function.exit), Transfer("Ret", Unused, Unused) >>

\* Three passes, each of which makes several instructions of one or drops the
\* exit block until the epilogue, keep every label, jump, branch, call, address
\* taken and return of the IR: once, in its function and in order.
ControlKept ==
  stage = "done" => Control(out) = FlattenSeq([f \in Funcs |-> FunctionControl(prog[f])])

\* Every module is compiled or rejected.
Terminates == <>(stage \in {"done", "aborted"})

\* A stack argument is stored where the callee reads it: the callee's fp is the
\* caller's sp (inst_selector.cpp: parameters from the ninth on are "read from
\* the stack", where selectArg says it stored them for the call).
StackArgsMeetParams ==
  \A f \in Funcs : \A i \in 1 .. Len(prog[f].entry) :
    LET node == prog[f].entry[i] IN
    stage # "select" /\ node.ir = "Arg" /\ node.k >= 8 =>
      frame[f].temp_offset[node.x] = 4 * (node.k - 8)
=============================================================================
