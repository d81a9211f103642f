----------------------------- MODULE IRMachine -----------------------------
(***************************************************************************)
(* A machine for the IR that --ir prints, as the nodes of ir/ir.hpp are    *)
(* meant: every activation of a function has registers of its own, Arg     *)
(* hands a value to the next Call and Param takes it, Dec gives a register *)
(* the address of a new block.  One step executes one node.                *)
(***************************************************************************)
EXTENDS Word, TLC

CONSTANTS BlocksFrom,     \* where the blocks of Dec begin
          DataFrom        \* where the globals begin

VARIABLES ir,       \* the program
          ip,       \* the node that is next
          act,      \* the activation that runs
          calls,    \* the activations that wait, and where they go on
          mem,      \* addresses to words
          trace,    \* what has been written
          reads,    \* how many numbers have been read
          result    \* what main has returned, once it has

irVars == << ir, ip, act, calls, mem, trace, reads, result >>

\* registers, arguments for the next call, arguments it was called with, and
\* the address of the next block.
Activation(params, brk) ==
  [regs |-> << >>, args |-> << >>, params |-> params, brk |-> brk]

Globals(code) == SelectSeq(code, LAMBDA node : node.ir = "Global")

\* The address of the i-th global, behind those before it.
GlobalAddress(globals, i) ==
  LET address[j \in DOMAIN globals] ==
        IF j = 1 THEN DataFrom ELSE address[j - 1] + globals[j - 1].size
  IN  address[i]

AddressOf(name) ==
  LET globals == Globals(ir)
  IN  GlobalAddress(globals, CHOOSE i \in DOMAIN globals : globals[i].name = name)

InitialData(code) ==
  LET globals == Globals(code)
      words(i) == [a \in {GlobalAddress(globals, i) + 4 * (j - 1) : j \in DOMAIN globals[i].values} |->
                     globals[i].values[(a - GlobalAddress(globals, i)) \div 4 + 1]]
      all[i \in 0 .. Len(globals)] == IF i = 0 THEN << >> ELSE words(i) @@ all[i - 1]
  IN  all[Len(globals)]

FunctionAt(code, name) ==
  CHOOSE i \in DOMAIN code : code[i].ir = "Function" /\ code[i].name = name

LoadIR(code) ==
  /\ ir' = code
  /\ ip' = FunctionAt(code, "main")
  /\ act' = Activation(<< >>, BlocksFrom) /\ calls' = << >>
  /\ mem' = InitialData(code)

-----------------------------------------------------------------------------
Node == ir[ip]
At(class) == Node.ir = class

Reg(x) == IF x \in DOMAIN act.regs THEN act.regs[x] ELSE Junk
Cell(a) == IF a \in DOMAIN mem THEN mem[a] ELSE Junk
LabelAt(label) == CHOOSE i \in DOMAIN ir : ir[i] = [ir |-> "Label", label |-> label]

Next1 == ip' = ip + 1
Sets(x, value) == act' = [act EXCEPT !.regs = (x :> value) @@ @]
Quiet == UNCHANGED << ir, calls, mem, trace, reads, result >>

Defines(class, value) == At(class) /\ Sets(Node.x, value) /\ Next1 /\ Quiet

Operand == IF Node.z = "#" THEN Node.num ELSE Reg(Node.z)

StepLoadImm  == At("LoadImm") /\ Defines("LoadImm", Node.k)
StepAssign   == At("Assign") /\ Defines("Assign", Reg(Node.y))
StepBinary   == At("Binary") /\ Defines("Binary", Compute(Node.op, Reg(Node.y), Operand))
StepUnary    == At("Unary") /\ Defines("Unary",
                  Compute(IF Node.op = "Not" THEN "Eq" ELSE Node.op, 0, Reg(Node.y)))
StepParam    == At("Param") /\ Defines("Param", act.params[Node.k])
StepLoadAddr == At("LoadAddr") /\ Defines("LoadAddr", AddressOf(Node.label))
StepLoad     == At("Load") /\ Defines("Load", Cell(Reg(Node.addr) + Node.offset))

StepNothing == Node.ir \in {"Label", "Function"} /\ Next1 /\ Quiet /\ UNCHANGED act

StepGoto == At("Goto") /\ ip' = LabelAt(Node.label) /\ Quiet /\ UNCHANGED act

StepIf ==
  /\ At("If")
  /\ ip' = IF Compare(Node.op, Reg(Node.t1), Reg(Node.t2)) THEN LabelAt(Node.label) ELSE ip + 1
  /\ Quiet /\ UNCHANGED act

StepDec ==
  /\ At("Dec") /\ Next1 /\ Quiet
  /\ act' = [act EXCEPT !.regs = (Node.x :> act.brk) @@ @, !.brk = @ + Node.size]

StepStore ==
  /\ At("Store") /\ Next1
  /\ mem' = (Reg(Node.addr) + Node.offset :> Reg(Node.value)) @@ mem
  /\ UNCHANGED << ir, act, calls, trace, reads, result >>

StepArg ==
  /\ At("Arg") /\ Next1 /\ Quiet
  /\ act' = [act EXCEPT !.args = (Node.k :> Reg(Node.x)) @@ @]

StepCall ==
  /\ At("Call") /\ Node.func \notin Library
  /\ calls' = Append(calls, [act |-> [act EXCEPT !.args = << >>], ip |-> ip])
  /\ act' = Activation(act.args, act.brk)
  /\ ip' = FunctionAt(ir, Node.func)
  /\ UNCHANGED << ir, mem, trace, reads, result >>

Resumes(activation, x, value) ==
  act' = IF x = "" THEN activation ELSE [activation EXCEPT !.regs = (x :> value) @@ @]

StepLibrary ==
  /\ At("Call") /\ Node.func \in Library /\ Next1
  /\ trace' = IF Node.func = "write" THEN Append(trace, act.args[0]) ELSE trace
  /\ reads' = IF Node.func = "read" THEN reads + 1 ELSE reads
  /\ Resumes([act EXCEPT !.args = << >>], Node.x,
             IF Node.func = "read" THEN Input(reads) ELSE Junk)
  /\ UNCHANGED << ir, calls, mem, result >>

Returned == IF Node.x = "" THEN Junk ELSE Reg(Node.x)

StepReturn ==
  /\ At("Return") /\ calls # << >>
  /\ LET caller == calls[Len(calls)]
     IN  /\ Resumes(caller.act, ir[caller.ip].x, Returned)
         /\ ip' = caller.ip + 1
  /\ calls' = SubSeq(calls, 1, Len(calls) - 1)
  /\ UNCHANGED << ir, mem, trace, reads, result >>

StepHalt ==
  /\ At("Return") /\ calls = << >>
  /\ result' = Returned
  /\ UNCHANGED << ir, ip, act, calls, mem, trace, reads >>

Step ==
  \/ StepLoadImm \/ StepAssign \/ StepBinary \/ StepUnary \/ StepParam
  \/ StepLoadAddr \/ StepLoad \/ StepNothing \/ StepGoto \/ StepIf \/ StepDec
  \/ StepStore \/ StepArg \/ StepCall \/ StepLibrary \/ StepReturn \/ StepHalt
=============================================================================
