--------------------------- MODULE SourceMeaning ---------------------------
(***************************************************************************)
(* What a program of the source language does, independently of the        *)
(* compiler: the numbers it writes and the value main returns, by walking  *)
(* the tree.  An array is an object of its own and an array variable a     *)
(* pointer into it, so that no address is computed.  Operands, arguments   *)
(* and statements are evaluated from left to right, the value of an        *)
(* assignment before its indexes.                                          *)
(***************************************************************************)
EXTENDS Word, Tree, SubArrays, TLC

\* The memory of a program: its variables, its objects, what it has written
\* and how much it has read, and what the function it is in has returned.
Fresh == [globals |-> << >>, locals |-> << >>, objects |-> << >>,
          trace |-> << >>, reads |-> 0, returned |-> FALSE, result |-> Junk]

Result(value, m) == [value |-> value, m |-> m]

Pointer(object, offset) == [object |-> object, offset |-> offset]

\* m with one more object, and a pointer to it.
Allocated(m, words) ==
  Result(Pointer(Len(m.objects) + 1, 0), [m EXCEPT !.objects = Append(@, words)])

\* A global scalar is an object of one word.
IsLocal(m, name) == name \in DOMAIN m.locals
Variable(m, name) == IF IsLocal(m, name) THEN m.locals[name] ELSE m.globals[name]

At(m, p) == m.objects[p.object][p.offset + 1]
Put(m, p, value) == [m EXCEPT !.objects[p.object][p.offset + 1] = value]
Bound(m, name, value) == [m EXCEPT !.locals = (name :> value) @@ @]

RECURSIVE ValueOf(_, _, _)      \* the value of an expression
RECURSIVE Call(_, _, _, _)      \* the value of a call

Also(values, v) == Result(Append(values, v.value), v.m)

\* The values of expressions, one after the other.
ValuesOf(prog, nodes, m) ==
  FoldLeft(LAMBDA r, node : Also(r.value, ValueOf(prog, node, r.m)), Result(<< >>, m), nodes)

\* How many words further an index goes.
Stride(dims, i) == Product(SubSeq(dims, i + 1, Len(dims)))

Forward(p, dims, indexes) ==
  Result([p EXCEPT !.offset =
            FoldLeft(LAMBDA n, i : n + indexes.value[i] * Stride(dims, i), @,
                     [i \in DOMAIN indexes.value |-> i])], indexes.m)

\* The pointer to the element or sub-array an LVal with indexes stands for.
Element(prog, node, m) ==
  Forward(Variable(m, node.symbol), node.dims, ValuesOf(prog, node.indexes, m))

Read(e, whole) == IF whole THEN Result(At(e.m, e.value), e.m) ELSE e

Computed(op, v) == Result(Compute(op, v.value[1], v.value[2]), v.m)

CalledWith(prog, name, v) == Call(prog, name, v.value, v.m)

ValueOf(prog, node, m) ==
  CASE node.node = "IntConst" -> Result(node.value, m)
    [] node.node = "BinaryExp" ->
         Computed(node.op, ValuesOf(prog, << node.left, node.right >>, m))
    [] node.node = "UnaryExp" ->
         Computed(IF node.op = "Not" THEN "Eq" ELSE node.op,
                  ValuesOf(prog, << IntConst(0), node.exp >>, m))
    [] node.node = "FuncCall" -> CalledWith(prog, node.name, ValuesOf(prog, node.args, m))
    [] node.node = "LVal" ->
         IF IsLocal(m, node.symbol) /\ node.dims = << >>
           THEN Result(m.locals[node.symbol], m)
           ELSE Read(Element(prog, node, m), Len(node.indexes) = Len(node.dims))

\* The truth of a condition: And and Or look at the right operand only if the
\* left one does not decide.
RECURSIVE Holds(_, _, _)

Decided(prog, node, l) ==
  IF l.value = (node.op = "Or") THEN l ELSE Holds(prog, node.right, l.m)

True(v) == Result(v.value # 0, v.m)

Holds(prog, node, m) ==
  IF node.node = "BinaryExp" /\ node.op \in {"And", "Or"}
    THEN Decided(prog, node, Holds(prog, node.left, m))
    ELSE True(ValueOf(prog, node, m))

-----------------------------------------------------------------------------
(* The words of an initialiser of an array, zeros where it says nothing.   *)

RECURSIVE Filled(_, _, _, _)

Joined(words, n) == Result(words \o n.value, n.m)

WithElement(prog, e, dims, r) ==
  IF e.node = "InitList"
    THEN Joined(r.value, Filled(prog, e, SubArray(dims, Len(r.value)), r.m))
    ELSE Also(r.value, ValueOf(prog, e, r.m))

Padded(dims, r) ==
  Result([i \in 1 .. Product(dims) |-> IF i <= Len(r.value) THEN r.value[i] ELSE 0], r.m)

Filled(prog, list, dims, m) ==
  Padded(dims, FoldLeft(LAMBDA r, e : WithElement(prog, e, dims, r), Result(<< >>, m),
                        list.elements))

\* What a declaration leaves in an array or scalar.
Words(prog, def, m, unset) ==
  CASE def.inits = Null -> Result([i \in 1 .. Product(def.dim) |-> unset], m)
    [] def.inits.node = "InitList" -> Filled(prog, def.inits, def.dim, m)
    [] OTHER -> ValuesOf(prog, << def.inits >>, m)

BoundGlobal(name, a) == [a.m EXCEPT !.globals = (name :> a.value) @@ @]
BoundLocal(name, a) == Bound(a.m, name, a.value)

DeclareGlobal(prog, def, m) ==
  LET declare(w) == BoundGlobal(def.symbol, Allocated(w.m, w.value))
  IN  declare(Words(prog, def, m, 0))

DeclareLocal(prog, def, m) ==
  LET declare(w) == IF def.dim = << >> THEN Bound(w.m, def.symbol, w.value[1])
                    ELSE BoundLocal(def.symbol, Allocated(w.m, w.value))
  IN  declare(Words(prog, def, m, Junk))

-----------------------------------------------------------------------------
RECURSIVE Run(_, _, _)

RunAll(prog, nodes, m) == FoldLeft(LAMBDA n, node : Run(prog, node, n), m, nodes)

PutValue(value, e) == Put(e.m, e.value, value)

Assigned(prog, lval, v) ==
  IF IsLocal(v.m, lval.symbol) /\ lval.indexes = << >>
    THEN Bound(v.m, lval.symbol, v.value)
    ELSE PutValue(v.value, Element(prog, lval, v.m))

Chosen(prog, node, c) ==
  Run(prog, IF c.value THEN node.true_stmt ELSE node.false_stmt, c.m)

Looped(prog, node, c) ==
  IF c.value THEN Run(prog, node, Run(prog, node.stmt, c.m)) ELSE c.m

Return(v) == [v.m EXCEPT !.returned = TRUE, !.result = v.value]

Run(prog, node, m) ==
  CASE m.returned -> m
    [] ~m.returned /\ node.node = "Block" -> RunAll(prog, node.stmts, m)
    [] ~m.returned /\ node.node = "VarDecl" ->
         FoldLeft(LAMBDA n, def : DeclareLocal(prog, def, n), m, node.defs)
    [] ~m.returned /\ node.node = "AssignStmt" ->
         Assigned(prog, node.lval, ValueOf(prog, node.exp, m))
    [] ~m.returned /\ node.node = "IfStmt" -> Chosen(prog, node, Holds(prog, node.cond, m))
    [] ~m.returned /\ node.node = "WhileStmt" -> Looped(prog, node, Holds(prog, node.cond, m))
    [] ~m.returned /\ node.node = "ReturnStmt" ->
         IF node.exp = Null THEN [m EXCEPT !.returned = TRUE]
                               ELSE Return(ValueOf(prog, node.exp, m))
    [] ~m.returned /\ node.node \in {"Null", "EmptyStmt"} -> m
    [] OTHER -> ValueOf(prog, node, m).m

FunctionNamed(prog, name) ==
  CHOOSE f \in Range(prog.units) : f.node = "FuncDef" /\ f.name = name

\* Back in the caller, whose memory was m.
Back(m, ended) ==
  Result(ended.result, [ended EXCEPT !.locals = m.locals, !.returned = FALSE,
                                     !.result = m.result])

Enter(prog, f, args, m) ==
  Run(prog, f.block,
      [m EXCEPT !.locals = [p \in Range(f.params) |->
                              args[CHOOSE i \in DOMAIN args : f.params[i] = p]],
                !.result = Junk])

Call(prog, name, args, m) ==
  CASE name = "write" -> Result(Junk, [m EXCEPT !.trace = Append(@, args[1])])
    [] name = "read"  -> Result(Input(m.reads), [m EXCEPT !.reads = @ + 1])
    [] OTHER -> Back(m, Enter(prog, FunctionNamed(prog, name), args, m))

Outcome(main) == [trace |-> main.m.trace, result |-> main.value]

\* What the program writes, and what main returns.
Meaning(prog) ==
  LET defs == FlattenSeq([i \in DOMAIN prog.units |->
                IF prog.units[i].node = "VarDecl" THEN prog.units[i].defs ELSE << >>])
  IN  Outcome(Call(prog, "main", << >>,
                   FoldLeft(LAMBDA m, def : DeclareGlobal(prog, def, m), Fresh, defs)))
=============================================================================
