----------------------------- MODULE CFGBuilder -----------------------------
(***************************************************************************)
(* analysis/cfg_builder.cpp: the flat IR of the translator is cut into the *)
(* functions the back end works on.  A step takes one node of the IR, and  *)
(* the node is chosen as it is taken: a function's node when that function *)
(* is not there yet, a global wherever the program may declare one, and    *)
(* any other node in the body of a function.  An entry block keeps a       *)
(* function's code, with every Return made a jump to the exit block.       *)
(***************************************************************************)
EXTENDS IR, SequencesExt

CONSTANTS Names,           \* functions of the program
          Globals,         \* nodes of the program's global variables
          BodyNodes,       \* nodes of bodies other than Returns
          Results,         \* what a Return returns, "" for nothing
          RetLabel(_),     \* func_name + ".ret"
          MaxLength        \* bound on the length of the IR

\* Identifiers and the translator's labels have no dot.
ASSUME CFGBuilderAssumption ==
  /\ \A m, n \in Names : RetLabel(m) = RetLabel(n) => m = n
  /\ \A node \in Globals : node.ir = "Global"
  /\ \A node \in BodyNodes :
       /\ node.ir \notin {"Function", "Global", "Return"}
       /\ node.ir \in {"Label", "Goto"} => \A n \in Names : node.label # RetLabel(n)

VARIABLES code,          \* history: the IR taken so far
          current_func,  \* the code of the function being collected
          mod,           \* the module being built
          built          \* build() has returned

vars == << code, current_func, mod, built >>

Init ==
  /\ code = << >> /\ current_func = << >>
  /\ mod = [functions |-> << >>, globals |-> << >>]
  /\ built = FALSE

-----------------------------------------------------------------------------
(* build_single_func                                                       *)

Lower(node, func_name) ==
  CASE node.ir # "Return" -> << node >>
    [] node.ir = "Return" /\ node.x = "" -> << Goto(RetLabel(func_name)) >>
    [] OTHER -> << Assign("a0", node.x), Goto(RetLabel(func_name)) >>

\* Mutant of BuildSingleFunc: the last node decides what is returned.
BuildSingleFuncByLast(func) ==
  LET func_name == func[1].name
      node == Last(func)
      returns_value == node.ir = "Return" /\ node.x # ""
  IN  [name  |-> func_name,
       entry |-> FlattenSeq([i \in DOMAIN func |-> Lower(func[i], func_name)]),
       exit  |-> << Label(RetLabel(func_name)),
                    Return(IF returns_value THEN "a0" ELSE "") >>]

\* The first node of every function is its Function.
BuildSingleFunc(func) ==
  LET func_name == func[1].name
      returns_value == \E i \in DOMAIN func : func[i].ir = "Return" /\ func[i].x # ""
  IN  [name  |-> func_name,
       entry |-> FlattenSeq([i \in DOMAIN func |-> Lower(func[i], func_name)]),
       exit  |-> << Label(RetLabel(func_name)),
                    Return(IF returns_value THEN "a0" ELSE "") >>]

-----------------------------------------------------------------------------
(* build                                                                   *)

\* The module once the function collected so far, if any, is built.
Flushed ==
  IF current_func = << >> THEN mod
  ELSE [mod EXCEPT !.functions = Append(@, BuildSingleFunc(current_func))]

Takes(node) == ~built /\ Len(code) < MaxLength /\ code' = Append(code, node)

\* The nodes before one that belongs to a body: a global ends the body.
InBody == code # << >> /\ Last(code).ir # "Global"

\* Mutant of TakeFunction: the function before is not cleared.
TakeFunctionUncleared(name) ==
  /\ Takes(Function(name)) /\ Function(name) \notin Range(code)
  /\ mod' = Flushed
  /\ current_func' = Append(current_func, Function(name))
  /\ UNCHANGED built

TakeFunction(name) ==
  /\ Takes(Function(name)) /\ Function(name) \notin Range(code)
  /\ mod' = Flushed
  /\ current_func' = << Function(name) >>
  /\ UNCHANGED built

\* Mutant of TakeGlobal: the global stays in the code of the function before it.
TakeGlobalContinued(node) ==
  /\ Takes(node) /\ node \notin Range(code)
  /\ mod' = [mod EXCEPT !.globals = Append(@, node)]
  /\ current_func' = Append(current_func, node)
  /\ UNCHANGED built

TakeGlobal(node) ==
  /\ Takes(node) /\ node \notin Range(code)
  /\ mod' = [mod EXCEPT !.globals = Append(@, node)]
  /\ UNCHANGED << current_func, built >>

TakeNode(node) ==
  /\ Takes(node) /\ InBody
  /\ current_func' = Append(current_func, node)
  /\ UNCHANGED << mod, built >>

\* Nothing is left; current_func is a local variable and ends with build().
EndOfCode ==
  /\ ~built /\ code # << >>
  /\ built' = TRUE
  /\ mod' = Flushed /\ current_func' = << >>
  /\ UNCHANGED code

Next ==
  \/ \E name \in Names : TakeFunction(name)
  \/ \E node \in Globals : TakeGlobal(node)
  \/ \E node \in BodyNodes : TakeNode(node)
  \/ \E x \in Results : TakeNode(Return(x))
  \/ EndOfCode

Spec == Init /\ [][Next]_vars

\* Mutant of GetIR: a function's blocks in the wrong order.
GetIRExitFirst ==
  mod.globals
  \o FlattenSeq([f \in DOMAIN mod.functions |->
                   mod.functions[f].exit \o mod.functions[f].entry])

\* Module::get_ir, what --ir prints.
GetIR ==
  mod.globals
  \o FlattenSeq([f \in DOMAIN mod.functions |->
                   mod.functions[f].entry \o mod.functions[f].exit])

-----------------------------------------------------------------------------
(* Properties.                                                             *)

\* The blocks of a function start at its one Function node and end at the one
\* label of its exit block.  The passes of the back end rely on this: the
\* prologue is emitted at the Function node and the epilogue at that label.
WellFormed(function) ==
  /\ Head(function.entry) = Function(function.name)
  /\ \A i \in DOMAIN function.entry :
       LET node == function.entry[i] IN
       /\ node.ir = "Function" => i = 1
       /\ node.ir \notin {"Return", "Global"}
       /\ node # Label(RetLabel(function.name))
  /\ Head(function.exit) = Label(RetLabel(function.name))

\* The module being built has globals and well-formed functions only
\* (build_single_func).
TypeOK ==
  /\ built \in BOOLEAN
  /\ Range(mod.globals) \subseteq Globals
  /\ \A f \in DOMAIN mod.functions :
       mod.functions[f].name \in Names /\ WellFormed(mod.functions[f])

\* Whose code the i-th node of the IR is.
Owner(i) ==
  LET starts == {j \in 1 .. i : code[j].ir = "Function"}
  IN  code[CHOOSE j \in starts : \A k \in starts : k <= j].name

\* The IR without its globals, every Return replaced as its own function wants.
LoweredCode ==
  LET taken == [i \in DOMAIN code |->
                  IF code[i].ir = "Global" THEN << >> ELSE Lower(code[i], Owner(i))]
  IN  FlattenSeq(taken)

GlobalsOf ==
  FlattenSeq([i \in DOMAIN code |-> IF code[i].ir = "Global" THEN << code[i] >> ELSE << >>])

LoweredCurrent ==
  IF current_func = << >> THEN << >> ELSE BuildSingleFunc(current_func).entry

\* Wherever globals stand between functions, no node is lost, duplicated, moved
\* into another function or reordered, and no Return jumps to the exit block of
\* another function.
CodeKept ==
  LET entries == [f \in DOMAIN mod.functions |-> mod.functions[f].entry]
  IN  /\ FlattenSeq(entries) \o LoweredCurrent = LoweredCode
      /\ mod.globals = GlobalsOf

\* A function's exit block returns a0 exactly if one of its own Returns sets it.
ExitsMatchReturns ==
  \A f \in DOMAIN mod.functions :
    LET function == mod.functions[f] IN
    Last(function.exit).x = "a0" <=>
      \E i \in DOMAIN code :
        /\ code[i].ir = "Return" /\ code[i].x # ""
        /\ Owner(i) = function.name

\* Every jump out of a body has its label once in the IR, behind the jump, with
\* no other function in between.
Lands(ir) ==
  \A i \in DOMAIN ir, name \in Names :
    ir[i] = Goto(RetLabel(name)) =>
      \E j \in DOMAIN ir :
        /\ i < j /\ ir[j] = Label(RetLabel(name))
        /\ \A k \in DOMAIN ir \ {j} : ir[k] # ir[j]
        /\ \A k \in i .. j : ir[k].ir # "Function"

\* The IR of the finished module (Module::get_ir), in which functions follow
\* one another, takes every Return to the exit block of its own function.
ReturnsLand == built => Lands(GetIR)
=============================================================================
