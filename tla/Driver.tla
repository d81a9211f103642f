------------------------------- MODULE Driver -------------------------------
(***************************************************************************)
(* main.cpp: a run of the compiler, and of the program it prints.  The     *)
(* translator makes flat IR of a tree, CFGBuilder cuts it into functions;  *)
(* with --ir that is printed, otherwise the back end goes on and prints    *)
(* assembly, for Venus with --venus.  What is printed is then executed by  *)
(* the machine it is meant for, so that what the source program means can  *)
(* be compared with what its translation does.                             *)
(***************************************************************************)
EXTENDS Integers, FiniteSets, SequencesExt

CONSTANTS Sources,        \* programs the parser and the type checker accept
          Translation(_), \* the IRTranslator that has translated one of them
          Means(_),       \* what it means
          Requests,       \* the options each of them is compiled with
          NoResult,       \* no result
          Junk,           \* the value of what is not set
          ImmMin, ImmMax,
          StackTop, DataFrom, BlocksFrom,
          MaxLength       \* bound on the length of the IR

ASSUME DriverAssumption ==
  /\ Requests \in [Sources -> SUBSET SUBSET {"--ir", "--venus"}]
  /\ {StackTop, DataFrom, BlocksFrom} \subseteq Nat
  /\ DataFrom > StackTop /\ BlocksFrom > DataFrom
  /\ ImmMin \in Int /\ ImmMax \in Int /\ ImmMin <= 0 /\ 0 <= ImmMax
  /\ Junk \notin Int

VARIABLES source,       \* the program
          request,      \* the options of the command line
          expected,     \* history: what the program means
          status,       \* what is being done
          ir,           \* the IR the translator returned
          code, current_func, mod, built,               \* CFGBuilder
          prog, stage, cur, pos, frame, asm, acc,       \* the back end
          ra_offset, fp_offset, out, reserved, released,
          data,                                         \* the data section
          loaded, act, regs,                            \* the machines
          ip, calls, mem, trace, reads, result

builderVars == << code, current_func, mod, built >>
backVars == << prog, stage, cur, pos, frame, asm, acc, ra_offset, fp_offset, out,
               reserved, released >>
runVars == << loaded, act, regs, ip, calls, mem, trace, reads, result >>
vars == << source, request, expected, status, ir, builderVars, backVars, data, runVars >>

\* What IRTranslator makes of every program.
Translated == [s \in Sources |-> Translation(s)]

RetLabel(name) == name \o ".ret"

Venus == "--venus" \in request

CB == INSTANCE CFGBuilder
        WITH Names <- {}, Globals <- {}, BodyNodes <- {}, Results <- {}

RV == INSTANCE Machine WITH venus <- Venus

\* Names of the program and of the translator.
Names == STRING \ (RV!PhysReg \cup {"", "#", "-"})

BE == INSTANCE Backend WITH VReg <- Names, Labels <- STRING, Programs <- {}

IRM == INSTANCE IRMachine WITH ir <- loaded

-----------------------------------------------------------------------------
(* The IR of a translation.                                                *)

FunctionsOf(nodes) == {nodes[i].name : i \in {j \in DOMAIN nodes : nodes[j].ir = "Function"}}

FuncNames ==
  UNION {FunctionsOf(Translated[s].code) : s \in {t \in Sources : ~Translated[t].failed}}

\* Identifiers and the translator's labels have no dot, those of exit blocks have.
NoExit(label) == \A n \in FuncNames : label # RetLabel(n)

FunctionNodes == [ir : {"Function"}, name : FuncNames]
GlobalNodes   == [ir : {"Global"}, name : STRING, size : Nat, values : Seq(Int)]
ReturnNodes   == [ir : {"Return"}, x : Names \cup {""}]
BodyNodes ==
  {node \in BE!IRNode :
     /\ node.ir # "Function"
     /\ node.ir \in {"Label", "Goto", "If"} => NoExit(node.label)
     /\ node.ir = "Call" => NoExit(node.func)}

\* What the translator leaves to the passes behind it: typed nodes, one of them a
\* Function, and names that do not collide with the labels of exit blocks.
ASSUME TranslationAssumption ==
  /\ \A n \in FuncNames : n \in STRING /\ RetLabel(n) \in STRING /\ NoExit(n)
  /\ \A m, n \in FuncNames : RetLabel(m) = RetLabel(n) => m = n
  /\ \A s \in Sources : ~Translated[s].failed =>
       /\ Translated[s].code \in
            Seq(FunctionNodes \cup GlobalNodes \cup ReturnNodes \cup BodyNodes)
       /\ FunctionsOf(Translated[s].code) # {}

Init ==
  /\ source \in Sources /\ expected = Means(source)
  /\ request \in Requests[source]
  /\ status = "arguments" /\ ir = << >>
  /\ CB!Init
  /\ prog = << >> /\ stage = "select" /\ cur = 1 /\ pos = 1
  /\ frame = << >> /\ asm = << >> /\ acc = << >> /\ out = << >>
  /\ ra_offset = 0 /\ fp_offset = 0 /\ reserved = << >> /\ released = << >>
  /\ data = << >> /\ loaded = << >> /\ act = << >> /\ regs = << >>
  /\ ip = 0 /\ calls = << >> /\ mem = << >>
  /\ trace = << >> /\ reads = 0 /\ result = NoResult

-----------------------------------------------------------------------------
(* The compiler.                                                           *)

Argument ==
  /\ status = "arguments"
  /\ status' = IF {"--ir", "--venus"} \subseteq request THEN "failed" ELSE "translate"
  /\ UNCHANGED << source, request, expected, ir, builderVars, backVars, data, runVars >>

\* A failed assertion of the translator ends the compiler.
TranslateRoot ==
  /\ status = "translate"
  /\ LET tr == Translated[source]
     IN  IF tr.failed THEN status' = "failed" /\ UNCHANGED ir
                      ELSE status' = "build" /\ ir' = tr.code
  /\ UNCHANGED << source, request, expected, builderVars, backVars, data, runVars >>

\* CFGBuilder takes the nodes in their order.
NextNode == ir[Len(code) + 1]

BuildNode ==
  /\ status = "build" /\ Len(code) < Len(ir)
  /\ CASE NextNode.ir = "Function" -> CB!TakeFunction(NextNode.name)
       [] NextNode.ir = "Global"   -> CB!TakeGlobal(NextNode)
       [] OTHER                    -> CB!TakeNode(NextNode)
  /\ UNCHANGED << source, request, expected, status, ir, backVars, data, runVars >>

Build ==
  /\ status = "build" /\ Len(code) = Len(ir)
  /\ CB!EndOfCode
  /\ status' = IF "--ir" \in request THEN "print" ELSE "select"
  /\ UNCHANGED << source, request, expected, ir, backVars, data, runVars >>

\* The back end gets the functions with frames of their own, still empty.
StartBackend ==
  /\ status = "select"
  /\ prog' = [f \in DOMAIN mod.functions |->
                [entry |-> mod.functions[f].entry,
                 exit  |-> mod.functions[f].exit[1].label,
                 ret   |-> Last(mod.functions[f].exit).x]]
  /\ frame' = [f \in DOMAIN prog' |-> BE!NewFrame]
  /\ asm' = [f \in DOMAIN prog' |-> << >>]
  /\ reserved' = [f \in DOMAIN prog' |-> BE!NotYet]
  /\ released' = [f \in DOMAIN prog' |-> BE!NotYet]
  /\ status' = "backend"
  /\ UNCHANGED << source, request, expected, ir, builderVars, stage, cur, pos, acc,
                  ra_offset, fp_offset, out, data, runVars >>

\* The globals that are in the data section.
Emitted == Cardinality({d \in DOMAIN data : data[d].directive = "Label"})

DS == INSTANCE DataSection

\* The data section comes before the first function.
EmitGlobal ==
  /\ status = "backend" /\ stage = "emit" /\ Emitted < Len(mod.globals)
  /\ data' = data \o DS!SelectGlobal(mod.globals[Emitted + 1])
  /\ UNCHANGED << source, request, expected, status, ir, builderVars, backVars, runVars >>

RunBackend ==
  /\ status = "backend"
  /\ \/ BE!Select
     \/ BE!Allocate
     \/ Emitted = Len(mod.globals) /\ BE!Emit
  /\ status' = IF stage' = "aborted" THEN "failed" ELSE status
  /\ UNCHANGED << source, request, expected, ir, builderVars, data, runVars >>

-----------------------------------------------------------------------------
(* The program it prints.                                                  *)

PrintIR ==
  /\ status = "print"
  /\ IRM!LoadIR(CB!GetIR)
  /\ status' = "run"
  /\ UNCHANGED << source, request, expected, ir, builderVars, backVars, data, regs,
                  trace, reads, result >>

LoadAssembly ==
  /\ status = "backend" /\ stage = "done"
  /\ UNCHANGED << source, request, expected, ir, builderVars, backVars, data, loaded, act,
                  trace, reads, result >>
  /\ RV!LoadAsm(out, data, Venus)
  /\ status' = "run"

RunIR ==
  /\ status = "run" /\ "--ir" \in request /\ result = NoResult
  /\ UNCHANGED << source, request, expected, status, ir, builderVars, backVars, data, regs >>
  /\ IRM!Step

RunAssembly ==
  /\ status = "run" /\ "--ir" \notin request /\ result = NoResult
  /\ UNCHANGED << source, request, expected, status, ir, builderVars, data, loaded, act,
                  prog, stage, cur, pos, frame, asm, acc, ra_offset, fp_offset,
                  reserved, released >>
  /\ RV!Exec

Finished == (status = "failed" \/ result # NoResult) /\ UNCHANGED vars

Next ==
  \/ Argument \/ TranslateRoot \/ BuildNode \/ Build \/ StartBackend \/ EmitGlobal
  \/ RunBackend \/ PrintIR \/ LoadAssembly \/ RunIR \/ RunAssembly \/ Finished

\* The compiler and the program are one thread each and never wait.
Spec == Init /\ [][Next]_vars /\ WF_vars(Next)

-----------------------------------------------------------------------------
(* Properties.                                                             *)

\* The back end gets what it is made for: functions that begin at their one
\* Function node and hold no Return and no Global, whose registers are no
\* physical ones but for the a0 of a result (main.cpp, between the passes).
TypeOK ==
  /\ request \subseteq {"--ir", "--venus"}
  /\ status \in {"arguments", "translate", "build", "select", "backend", "print",
                 "run", "failed"}
  /\ stage = "select" => \A f \in DOMAIN prog :
       /\ prog[f] \in BE!IRFunction
       /\ \A i \in DOMAIN prog[f].entry : prog[f].entry[i].ir = "Function" <=> i = 1

\* Whatever the translator returns is one of the programs of the back end's own
\* model: compiled behind CFGBuilder, and with the data section emitted between
\* allocation and emission, it keeps frames apart, accesses in their slots and
\* prologues and epilogues in balance.
PassesSound ==
  status = "backend" =>
    BE!FramesSeparate /\ BE!AccessesOwned /\ BE!OutputLegal /\ BE!FramesBalanced

\* The nodes of the IR that make a label.
Places(label) ==
  {i \in DOMAIN ir : \/ ir[i].ir = "Label" /\ ir[i].label = label
                     \/ ir[i].ir = "Function" /\ ir[i].name = label}

\* Every jump, branch and call of the IR has one place to go to, and every address
\* taken one global, though the labels of conditions are numbered and the names
\* of functions are the program's own.
IRResolves ==
  \A i \in DOMAIN ir :
    /\ ir[i].ir \in {"Goto", "If"} => Cardinality(Places(ir[i].label)) = 1
    /\ ir[i].ir = "Call" =>
         Cardinality(Places(ir[i].func)) = (IF ir[i].func \in RV!Library THEN 0 ELSE 1)
    /\ ir[i].ir = "LoadAddr" =>
         Cardinality({g \in DOMAIN ir : ir[g].ir = "Global" /\ ir[g].name = ir[i].label}) = 1

\* No jump or branch leaves the function it is in, a call leads to the beginning of
\* a function, and there is one main to begin with.
JumpsLocal ==
  ir # << >> =>
    /\ \A i \in DOMAIN ir : ir[i].ir \in {"Goto", "If"} =>
         \A j \in Places(ir[i].label) :
           /\ ir[j].ir = "Label"
           /\ \A k \in (i .. j) \cup (j .. i) : ir[k].ir # "Function"
    /\ \A i \in DOMAIN ir : ir[i].ir = "Call" =>
         \A j \in Places(ir[i].func) : ir[j].ir = "Function"
    /\ \E i \in DOMAIN ir : Places("main") = {i} /\ ir[i].ir = "Function"

Defined(label) == {i \in DOMAIN out : out[i].kind \in {"Label", "Function"} /\ out[i].label = label}

\* The same of the assembly, with the jumps to exit blocks that CFGBuilder adds and
\* the exit blocks that only the epilogue emits.
LabelsResolve ==
  status = "backend" /\ stage = "done" =>
    \A i \in DOMAIN out :
      /\ out[i].kind \in {"Jump", "Branch"} => Cardinality(Defined(out[i].label)) = 1
      /\ out[i].kind = "Call" =>
           Cardinality(Defined(out[i].label)) = (IF out[i].label \in RV!Library THEN 0 ELSE 1)
      /\ out[i].kind = "La" =>
           Cardinality({d \in DOMAIN data : data[d] = DS!Label(out[i].label)}) = 1

AtRet == status = "run" /\ "--ir" \notin request /\ result = NoResult /\ out[ip].kind = "Ret"

\* A function returns to behind its call with sp and fp as they were there, however
\* many calls were nested in it; main returns with the stack as it found it.
RegistersRestored ==
  [][AtRet =>
       IF calls # << >>
         THEN /\ ip' = Last(calls).ra
              /\ regs["sp"] = Last(calls).sp /\ regs["fp"] = Last(calls).fp
         ELSE regs["ra"] = RV!Environment /\ regs["sp"] = StackTop]_vars

FunctionIndex(name) == CHOOSE f \in DOMAIN mod.functions : mod.functions[f].name = name

\* The frames on the stack: one of main and one of every function called since, and
\* sp as it is where code of that function runs.
FrameOn(i) == frame[FunctionIndex(IF i = 1 THEN "main" ELSE calls[i - 1].func)]
BaseOf(i)  == IF i <= Len(calls) THEN calls[i].sp ELSE regs["sp"]

\* Where the registers of the function that made the i-th waiting call live.
SlotsOfCaller(i) ==
  LET slots == FrameOn(i).temp_offset IN {BaseOf(i) + slots[r] : r \in DOMAIN slots}

\* No function writes to the registers of a function that waits for it, however
\* large the frames and whatever addresses it is given.
CallersFrameKept ==
  [][status = "run" /\ "--ir" \notin request =>
       \A i \in DOMAIN calls \cap DOMAIN calls' : \A a \in SlotsOfCaller(i) :
         a \in DOMAIN mem' => a \in DOMAIN mem /\ mem'[a] = mem[a]]_vars

\* The bytes of the arrays that the i-th function on the stack has declared.
ArrayBytes(i) ==
  UNION {BaseOf(i) + d.lo .. BaseOf(i) + d.lo + d.size - 1 : d \in Range(FrameOn(i).decs)}

\* A store through an address the program has computed goes to an array of a
\* function that has not returned or to a global, whatever parameters the address
\* came through.  Stores from sp, and those the emitter expands through t4, go to
\* slots (AccessesOwned).
WritesInBounds ==
  status = "run" /\ "--ir" \notin request /\ result = NoResult =>
    (out[ip].kind = "Store" /\ out[ip].rs1 \notin {"sp", "t4"} =>
       \/ \E i \in 1 .. Len(calls) + 1 : RV!Address \in ArrayBytes(i)
       \/ RV!Address \in DOMAIN RV!InitialData(data))

Promise == INSTANCE SourceRun
             WITH written <- trace, returned <- result

\* Whatever is printed, IR or assembly, with or without Venus, does what the
\* source program does, and ends.
ImplementsSource == Promise!Spec
=============================================================================
