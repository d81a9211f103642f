----------------------------- MODULE Translator -----------------------------
(***************************************************************************)
(* ir/ir_translator.cpp: the tree, as the type checker leaves it, becomes  *)
(* flat IR.  A translator is a record of its counters of temporaries and   *)
(* labels, its scope_depth, whether an assertion failed, and the code so   *)
(* far: every translate function returns the code of its node, and the     *)
(* pieces are joined in the order in which they were made.                 *)
(***************************************************************************)
EXTENDS IR, Tree, SubArrays, TLC

CONSTANT InZero     \* the unique names that contain "_in_0"

RelOps == {"Eq", "Ne", "Lt", "Gt", "Le", "Ge"}

NewTranslator ==
  [code |-> << >>, temps |-> 0, labels |-> 1, scope_depth |-> 0, failed |-> FALSE]

Emit(tr, nodes) == [tr EXCEPT !.code = @ \o nodes]

Fail(tr) == [tr EXCEPT !.failed = TRUE]

\* The temporary that is next, and the translator once it is taken.
Temp(tr) == "T" \o ToString(tr.temps)
NewTemp(tr) == [tr EXCEPT !.temps = @ + 1]

\* The i-th of the labels that are next, and the translator once n are taken.
LabelName(tr, i) == "label" \o ToString(tr.labels + i - 1)

\* Mutant of NewLabels: one label is counted, however many are taken.
NewLabelsOne(tr, n) == [tr EXCEPT !.labels = @ + 1]

NewLabels(tr, n) == [tr EXCEPT !.labels = @ + n]

-----------------------------------------------------------------------------
(* Expressions.  The value goes to place, or nowhere if that is empty.     *)

RECURSIVE TranslateExp(_, _, _)

TranslateIntConst(node, place, tr) ==
  Emit(tr, IF place = "" THEN << >> ELSE << LoadImm(place, node.value) >>)

TranslateBinaryExp(node, place, tr) ==
  LET left  == Temp(tr)
      right == Temp(NewTemp(tr))
  IN  Emit(TranslateExp(node.right, right,
             TranslateExp(node.left, left, NewTemp(NewTemp(tr)))),
           IF place = "" THEN << >> ELSE << Binary(place, left, node.op, right) >>)

TranslateUnaryExp(node, place, tr) ==
  Emit(TranslateExp(node.exp, Temp(tr), NewTemp(tr)),
       IF place = "" THEN << >> ELSE << Unary(place, node.op, Temp(tr)) >>)

\* A translator, and the temporary its code has put a value into.
At(place, tr) == [place |-> place, tr |-> tr]

Zero(tr) == At(Temp(tr), Emit(NewTemp(tr), << LoadImm(Temp(tr), 0) >>))

Sum(x, y, tr) == At(Temp(tr), Emit(NewTemp(tr), << Binary(Temp(tr), x, "Add", y) >>))

Scaled(at, width) ==
  At(Temp(at.tr), Emit(NewTemp(at.tr), << BinaryNum(Temp(at.tr), at.place, "Mul", width) >>))

Index(exp, tr) == At(Temp(tr), TranslateExp(exp, Temp(tr), NewTemp(tr)))

Plus(offset, bytes) == Sum(offset, bytes.place, bytes.tr)

\* The indexes from the i-th on, in bytes, added to the offset so far.
RECURSIVE TranslateIndexes(_, _, _)

\* Mutant of TranslateIndexes: an index counts whole arrays, not what is in them.
TranslateIndexesWhole(node, i, offset) ==
  IF i > Len(node.indexes) THEN offset
  ELSE LET widths == SubSeq(node.dims, i, Len(node.dims)) \o << 4 >>
       IN  TranslateIndexes(node, i + 1,
             Plus(offset.place, FoldLeft(Scaled, Index(node.indexes[i], offset.tr), widths)))

TranslateIndexes(node, i, offset) ==
  IF i > Len(node.indexes) THEN offset
  ELSE LET widths == SubSeq(node.dims, i + 1, Len(node.dims)) \o << 4 >>
       IN  TranslateIndexes(node, i + 1,
             Plus(offset.place, FoldLeft(Scaled, Index(node.indexes[i], offset.tr), widths)))

Address(base, offset) == Sum(base, offset.place, offset.tr)

\* The address an LVal with indexes stands for.
ElementAddress(node, tr) ==
  IF node.symbol \in InZero
    THEN Address(Temp(tr), TranslateIndexes(node, 1,
           Zero(Emit(NewTemp(tr), << LoadAddr(Temp(tr), node.symbol) >>))))
    ELSE Address(node.symbol, TranslateIndexes(node, 1, Zero(tr)))

\* A part of an array with dimensions of its own is its address.
ElementValue(node, place, at) ==
  Emit(at.tr, << IF Len(node.dims) = Len(node.indexes) THEN Load(place, at.place, 0)
                                                       ELSE Assign(place, at.place) >>)

TranslateLVal(node, place, tr) ==
  CASE place = "" -> tr
    [] place # "" /\ node.indexes # << >> ->
         ElementValue(node, place, ElementAddress(node, tr))
    [] place # "" /\ node.indexes = << >> /\ node.symbol \in InZero ->
         Emit(NewTemp(tr), << LoadAddr(Temp(tr), node.symbol), Load(place, Temp(tr), 0) >>)
    [] OTHER -> Emit(tr, << Assign(place, node.symbol) >>)

\* The arguments of a call from the i-th on; a global array is its address.
RECURSIVE TranslateArgs(_, _, _, _)
TranslateArgs(node, i, places, tr) ==
  IF i > Len(node.args) THEN [places |-> places, tr |-> tr]
  ELSE LET place == Temp(tr)
           arg   == node.args[i]
       IN  TranslateArgs(node, i + 1, Append(places, place),
             IF node.array_params[i] /\ arg.symbol \in InZero
               THEN Emit(NewTemp(tr), << LoadAddr(place, arg.symbol) >>)
               ELSE TranslateExp(arg, place, NewTemp(tr)))

WithCall(node, place, args) ==
  Emit(args.tr, [i \in DOMAIN args.places |-> Arg(args.places[i], i - 1)]
                \o << Call(place, node.name) >>)

TranslateFuncCall(node, place, tr) ==
  WithCall(node, place, TranslateArgs(node, 1, << >>, tr))

\* After a failed assertion nothing is translated any more.
TranslateExp(node, place, tr) ==
  CASE tr.failed -> tr
    [] node.node = "BinaryExp" -> TranslateBinaryExp(node, place, tr)
    [] node.node = "UnaryExp"  -> TranslateUnaryExp(node, place, tr)
    [] node.node = "FuncCall"  -> TranslateFuncCall(node, place, tr)
    [] node.node = "IntConst"  -> TranslateIntConst(node, place, tr)
    [] node.node = "LVal"      -> TranslateLVal(node, place, tr)
    [] OTHER -> Fail(tr)

-----------------------------------------------------------------------------
(* Conditions jump to one of two labels.                                   *)

RECURSIVE TranslateCond(_, _, _, _)

Tested(t1, label_true, label_false, tr) ==
  Emit(NewTemp(tr), << LoadImm(Temp(tr), 0), If("Ne", t1, Temp(tr), label_true),
                       Goto(label_false) >>)

TranslateCondOther(node, label_true, label_false, tr) ==
  Tested(Temp(tr), label_true, label_false, TranslateExp(node, Temp(tr), NewTemp(tr)))

\* For any other sign the code of translateCondOther is dropped.
TranslateCondUnaryExp(node, label_true, label_false, tr) ==
  IF node.op = "Not"
    THEN TranslateCond(node.exp, label_false, label_true, tr)
    ELSE [TranslateCondOther(node, label_true, label_false, tr) EXCEPT !.code = tr.code]

\* The right operand is tried behind a label of its own.
Behind(left, label, node, label_true, label_false) ==
  TranslateCond(node.right, label_true, label_false, Emit(left, << Label(label) >>))

TranslateAnd(node, label_true, label_false, tr) ==
  LET label1 == LabelName(tr, 1)
      left   == TranslateCond(node.left, label1, label_false, NewLabels(tr, 1))
  IN  Behind(left, label1, node, label_true, label_false)


TranslateOr(node, label_true, label_false, tr) ==
  LET label1 == LabelName(tr, 1)
      left   == TranslateCond(node.left, label_true, label1, NewLabels(tr, 1))
  IN  Behind(left, label1, node, label_true, label_false)

TranslateRelation(node, label_true, label_false, tr) ==
  LET t1 == Temp(tr)
      t2 == Temp(NewTemp(tr))
  IN  Emit(TranslateExp(node.right, t2, TranslateExp(node.left, t1, NewTemp(NewTemp(tr)))),
           << If(node.op, t1, t2, label_true), Goto(label_false) >>)

\* There is no branch for arithmetic.
TranslateCondBinaryExp(node, label_true, label_false, tr) ==
  CASE node.op = "And"    -> TranslateAnd(node, label_true, label_false, tr)
    [] node.op = "Or"     -> TranslateOr(node, label_true, label_false, tr)
    [] node.op \in RelOps -> TranslateRelation(node, label_true, label_false, tr)
    [] OTHER -> tr

TranslateCond(node, label_true, label_false, tr) ==
  CASE tr.failed -> tr
    [] node.node = "BinaryExp" -> TranslateCondBinaryExp(node, label_true, label_false, tr)
    [] node.node = "UnaryExp"  -> TranslateCondUnaryExp(node, label_true, label_false, tr)
    [] OTHER -> TranslateCondOther(node, label_true, label_false, tr)

-----------------------------------------------------------------------------
(* Initialisers.                                                           *)

Words(elements) ==
  FlattenSeq([i \in DOMAIN elements |->
                IF elements[i].node = "IntConst" THEN << elements[i].value >> ELSE << >>])

\* A nested list of a global array is padded to one row.
Row(list, width) ==
  LET words == Words(list.elements)
  IN  words \o [i \in 1 .. width - Len(words) |-> 0]

\* The values of a global variable.
Data(node) ==
  CASE node.inits.node = "IntConst" -> << node.inits.value >>
    [] node.inits.node = "InitList" ->
         LET elements == node.inits.elements
         IN  FlattenSeq([i \in DOMAIN elements |->
                           IF elements[i].node = "InitList"
                             THEN Row(elements[i], Last(node.dim))
                             ELSE Words(<< elements[i] >>)])
    [] OTHER -> << >>

\* Where a list is stored: its address and the offset in it, how many elements
\* are filled so far, and the translator.
Filling(addr, offset, filled, tr) ==
  [addr |-> addr, offset |-> offset, filled |-> filled, tr |-> tr]

\* The value in the temporary that was next becomes the next element.
Stored(at, temp, tr) ==
  Filling(at.addr, at.offset, at.filled + 1,
          Emit(tr, << Store(at.addr, temp, at.filled * 4 + at.offset) >>))

ZeroElement(at) ==
  Stored(at, Temp(at.tr), Emit(NewTemp(at.tr), << LoadImm(Temp(at.tr), 0) >>))

ZeroFilled(at, total) ==
  FoldLeft(LAMBDA a, i : ZeroElement(a), at, [i \in 1 .. total - at.filled |-> i]).tr

RECURSIVE TranslateInitList(_, _, _, _, _)

\* Constants, variables and nested lists are handled, anything else is passed over.
TranslateElement(element, dims, at) ==
  LET sub == SubArray(dims, at.filled)
  IN  CASE element.node \in {"IntConst", "LVal"} ->
             Stored(at, Temp(at.tr), TranslateExp(element, Temp(at.tr), NewTemp(at.tr)))
        [] element.node = "InitList" /\ sub # << >> ->
             Filling(at.addr, at.offset, at.filled + Product(sub),
                     TranslateInitList(element, at.addr, at.filled * 4, sub, at.tr))
        [] OTHER -> at

\* The list with its last elements set to zero.
TranslateInitList(list, addr, offset, dims, tr) ==
  ZeroFilled(FoldLeft(LAMBDA at, element : TranslateElement(element, dims, at),
                      Filling(addr, offset, 0, tr), list.elements),
             Product(dims))

\* Anything but a list initialises no array.
TranslateInitVal(node, addr, tr) ==
  IF node.inits.node = "InitList" THEN TranslateInitList(node.inits, addr, 0, node.dim, tr)
                                  ELSE tr

\* A nested list of a global array may have constants only: the others are null
\* when they are read.
ReadsNull(node) ==
  /\ node.inits.node = "InitList"
  /\ \E e \in Range(node.inits.elements) :
       e.node = "InitList" /\ \E v \in Range(e.elements) : v.node # "IntConst"

TranslateVarDef(node, tr) ==
  LET total_size == 4 * Product(node.dim)
      declared   == Emit(tr, << Dec(node.symbol, total_size) >>)
  IN  CASE tr.scope_depth = 0 ->
             IF ReadsNull(node) THEN Fail(tr)
             ELSE Emit(tr, << Global(node.symbol, total_size, Data(node)) >>)
        [] tr.scope_depth # 0 /\ node.dim = << >> ->
             IF node.inits = Null THEN tr ELSE TranslateExp(node.inits, node.symbol, tr)
        [] OTHER -> TranslateInitVal(node, node.symbol, declared)

TranslateVarDecl(node, tr) ==
  FoldLeft(LAMBDA t, def : TranslateVarDef(def, t), tr, node.defs)

-----------------------------------------------------------------------------
(* Statements, functions and the program.                                  *)

RECURSIVE Translate(_, _)

Joined(nodes, tr) == FoldLeft(LAMBDA t, node : Translate(node, t), tr, nodes)

\* The address of a global scalar is taken before the value is there.
AssignGlobal(node, tr) ==
  LET addr  == Temp(tr)
      value == Temp(NewTemp(tr))
      start == Emit(NewTemp(NewTemp(tr)), << LoadAddr(addr, node.lval.symbol) >>)
  IN  Emit(TranslateExp(node.exp, value, start), << Store(addr, value, 0) >>)

AssignElement(value, at) == Emit(at.tr, << Store(at.place, value, 0) >>)

\* The address of an element is taken after the value is there.
TranslateAssignStmt(node, tr) ==
  LET lval   == node.lval
      valued == TranslateExp(node.exp, Temp(tr), NewTemp(tr))
  IN  CASE lval.indexes = << >> /\ lval.symbol \in InZero -> AssignGlobal(node, tr)
        [] lval.indexes # << >> -> AssignElement(Temp(tr), ElementAddress(lval, valued))
        [] OTHER -> Emit(valued, << Assign(lval.symbol, Temp(tr)) >>)

TranslateReturnStmt(node, tr) ==
  LET place == Temp(tr)
  IN  IF node.exp = Null THEN Emit(tr, << Return("") >>)
      ELSE Emit(TranslateExp(node.exp, place, NewTemp(tr)), << Return(place) >>)

TranslateIfStmt(node, tr) ==
  LET label_1 == LabelName(tr, 1)
      label_2 == LabelName(tr, 2)
      label_3 == LabelName(tr, 3)
      taken(n) == Translate(node.true_stmt,
                    Emit(TranslateCond(node.cond, label_1, label_2, NewLabels(tr, n)),
                         << Label(label_1) >>))
      other == Translate(node.false_stmt,
                         Emit(taken(3), << Goto(label_3), Label(label_2) >>))
  IN  IF node.false_stmt = Null
        THEN Emit(taken(2), << Label(label_2) >>)
        ELSE Emit(other, << Label(label_3) >>)

TranslateWhileStmt(node, tr) ==
  LET label_1 == LabelName(tr, 1)
      label_2 == LabelName(tr, 2)
      label_3 == LabelName(tr, 3)
      start == Emit(NewLabels(tr, 3), << Label(label_1) >>)
      body  == Emit(TranslateCond(node.cond, label_2, label_3, start), << Label(label_2) >>)
  IN  Emit(Translate(node.stmt, body), << Goto(label_1), Label(label_3) >>)

TranslateBlock(node, tr) ==
  LET inside == Joined(node.stmts, [tr EXCEPT !.scope_depth = @ + 1])
  IN  [inside EXCEPT !.scope_depth = @ - 1]

\* Mutant of TranslateFuncDef: every function numbers its labels anew.
TranslateFuncDefRenumbered(node, tr) ==
  LET params == [k \in DOMAIN node.params |-> Param(node.params[k], k - 1)]
      start  == Emit([tr EXCEPT !.labels = 1], << Function(node.name) >> \o params)
      body   == TranslateBlock(node.block, [start EXCEPT !.scope_depth = @ + 1])
  IN  [body EXCEPT !.scope_depth = @ - 1]

TranslateFuncDef(node, tr) ==
  LET params == [k \in DOMAIN node.params |-> Param(node.params[k], k - 1)]
      start  == Emit(tr, << Function(node.name) >> \o params)
      body   == TranslateBlock(node.block, [start EXCEPT !.scope_depth = @ + 1])
  IN  [body EXCEPT !.scope_depth = @ - 1]

TranslateCompUnit(node, tr) == Joined(node.units, tr)

\* An expression is a statement too; the empty statement has no translation.
Translate(node, tr) ==
  CASE tr.failed -> tr
    [] node.node = "CompUnit"   -> TranslateCompUnit(node, tr)
    [] node.node = "FuncDef"    -> TranslateFuncDef(node, tr)
    [] node.node = "Block"      -> TranslateBlock(node, tr)
    [] node.node = "VarDecl"    -> TranslateVarDecl(node, tr)
    [] node.node = "AssignStmt" -> TranslateAssignStmt(node, tr)
    [] node.node = "ReturnStmt" -> TranslateReturnStmt(node, tr)
    [] node.node = "IfStmt"     -> TranslateIfStmt(node, tr)
    [] node.node = "WhileStmt"  -> TranslateWhileStmt(node, tr)
    [] OTHER -> TranslateExp(node, "", tr)
=============================================================================
