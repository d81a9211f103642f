---------------------------- MODULE TypeChecker ----------------------------
(***************************************************************************)
(* semantic/type_checker.cpp over its symbol table.  check() walks the     *)
(* tree in the order of the text; a step is the check of one node, after   *)
(* those of its operands, whose types wait on a stack.  The program is     *)
(* chosen as it is read: every step that the grammar allows next may be    *)
(* the next node.  Initialiser lists are left out.                         *)
(***************************************************************************)
EXTENDS SymbolTable, FiniteSets

CONSTANTS Idents,       \* identifiers of the program
          VarDims,      \* dimensions a variable is declared with
          ParamDims,    \* dimensions a parameter is declared with (the first is 0)
          MaxParams, MaxDepth, MaxOperands,
          MaxDefs       \* bounds of the programs that are read

BuiltIn == {"read", "write"}
AllNames == Idents \cup BuiltIn

\* An int may be a parameter, as that of write is.
\* Names have no "_in_0" of their own, so no two of them at any depths get the
\* same unique name, and none gets that of a built-in function.
ASSUME TypeCheckerAssumption ==
  /\ VarDims \cup ParamDims \subseteq Seq(Nat)
  /\ << >> \in ParamDims /\ MaxParams \in Nat \ {0}
  /\ MaxDepth \in Nat \ {0} /\ MaxOperands \in Nat /\ MaxDefs \in Nat
  /\ \A m, n \in AllNames, d, e \in 0 .. MaxDepth :
       UniqueName(m, d) = UniqueName(n, e) => m = n /\ d = e
  /\ \A n \in AllNames, d \in 0 .. MaxDepth : UniqueName(n, d) \notin BuiltIn

-----------------------------------------------------------------------------
(* Types, semantic/type.cpp.                                               *)

Prim(basic) == [class |-> "PrimitiveType", basic |-> basic]
IntType == Prim("int")
VoidType == Prim("void")
ArrayType(dims) == [class |-> "ArrayType", dims |-> dims]
FuncType(ret, params) == [class |-> "FuncType", ret |-> ret, params |-> params]

IsFunc(type) == type.class = "FuncType"

\* The type of a declaration: an element or an array of int.
DeclType(dims) == IF dims = << >> THEN IntType ELSE ArrayType(dims)

\* t->equals(u).  A function type is only ever compared with types that
\* are none, so its own equals is not needed beyond that.
Equals(t, u) ==
  /\ t.class = u.class
  /\ ~IsFunc(t)
  /\ t.class = "PrimitiveType" => t.basic = u.basic
  /\ t.class = "ArrayType" =>
       /\ Len(t.dims) = Len(u.dims)
       /\ \A i \in 2 .. Len(t.dims) : t.dims[i] = u.dims[i]

-----------------------------------------------------------------------------
NoFunction == [name |-> "", type |-> VoidType]

VARIABLES table,    \* symbol_table
          operands, \* types of the expressions checked and not yet used
          func,     \* the function whose body is checked
          status,   \* whether an assertion has failed
          defs,     \* how many definitions and blocks there have been
          last      \* history: what the last node checked was, if it is
                    \*   a call, a return or a function accepted

vars == << table, operands, func, status, defs, last >>

\* Values of last.
Nothing == [node |-> "none"]
Call(name, args) == [node |-> "FuncCall", name |-> name, args |-> args]
Return(type) == [node |-> "ReturnStmt", type |-> type]
Params(added) == [node |-> "FuncDef", added |-> added]

Init ==
  /\ table = AddSymbol(AddSymbol(EnterScope(NewTable),
                                 "read", FuncType(IntType, << >>), TRUE),
                       "write", FuncType(IntType, << IntType >>), TRUE)
  /\ operands = << >> /\ func = NoFunction /\ status = "checking" /\ defs = 0
  /\ last = Nothing

\* The node is checked if ok holds; an assertion fails otherwise.
Check(ok) ==
  /\ status = "checking"
  /\ status' = IF ok THEN "checking" ELSE "rejected"

\* What is remembered of an accepted node.
Remember(what) == last' = IF status' = "checking" THEN what ELSE Nothing

\* A definition or block, within the bound.
Counts == defs < MaxDefs /\ defs' = defs + 1

\* An expression or statement that looks at the table only.
Reads == UNCHANGED << table, func, defs >>

\* Between statements, where no expression is being checked.
AtStatement == operands = << >>
InFunction == func # NoFunction

-----------------------------------------------------------------------------
(* Definitions and blocks.                                                 *)

Param == [ident : Idents, dims : ParamDims]

ParamType(p) == DeclType(p.dims)

\* add_symbol adds the i-th parameter: its name is neither in the scope nor the
\* name of an earlier one.
IsAdded(scope, ps, i) ==
  /\ ps[i].ident \notin DOMAIN scope
  /\ \A j \in 1 .. i - 1 : ps[j].ident # ps[i].ident

\* The parameters are added one after the other.
AddParams(t, ps) ==
  LET scope    == Current(t)
      added    == {i \in DOMAIN ps : IsAdded(scope, ps, i)}
      param(n) == ps[CHOOSE i \in added : ps[i].ident = n]
  IN  [t EXCEPT !.scopes[Len(t.scopes)] =
         [n \in DOMAIN scope \cup {ps[i].ident : i \in added} |->
            IF n \in DOMAIN scope THEN scope[n]
            ELSE NewSymbol(t, n, ParamType(param(n)), FALSE)]]

\* The function is added outside, and again in its own scope; then the
\* parameters are.  add_symbol's result is not looked at.
FuncDef(name, ret, ps) ==
  /\ ~InFunction /\ AtStatement
  /\ LET type == FuncType(ret, [i \in DOMAIN ps |-> ParamType(ps[i])])
         outer == EnterScope(AddSymbol(table, name, type, FALSE))
         inner == AddSymbol(outer, name, type, FALSE)
     IN  /\ Check(FindSymbol(table, name) = NoSymbol)
         /\ table' = IF status' = "checking" THEN AddParams(inner, ps) ELSE table
         /\ func' = [name |-> name, type |-> type]
         /\ Remember(Params([i \in DOMAIN ps |-> IsAdded(Current(inner), ps, i)]))
  /\ Counts /\ UNCHANGED operands

\* checkBlock(node->block, false) has ended.
EndFuncDef ==
  /\ InFunction /\ AtStatement /\ Len(table.scopes) = 2
  /\ Check(TRUE)
  /\ table' = ExitScope(table) /\ func' = NoFunction
  /\ last' = Nothing /\ UNCHANGED << operands, defs >>

EnterBlock ==
  /\ InFunction /\ AtStatement /\ Len(table.scopes) <= MaxDepth
  /\ Check(TRUE)
  /\ table' = EnterScope(table)
  /\ Counts /\ last' = Nothing /\ UNCHANGED << operands, func >>

ExitBlock ==
  /\ InFunction /\ AtStatement /\ Len(table.scopes) > 2
  /\ Check(TRUE)
  /\ table' = ExitScope(table)
  /\ last' = Nothing /\ UNCHANGED << operands, func, defs >>

\* The initial value, if any, has been checked, and the name is added after it.
VarDef(name, dims) ==
  /\ Len(operands) <= 1
  /\ Check(/\ ~InCurrentScope(table, name)
           /\ operands # << >> => dims = << >> /\ Equals(operands[1].type, IntType))
  /\ table' = IF status' = "checking"
                THEN AddSymbol(table, name, DeclType(dims), FALSE) ELSE table
  /\ operands' = << >>
  /\ Counts /\ last' = Nothing /\ UNCHANGED func

-----------------------------------------------------------------------------
(* Expressions.                                                            *)

Operand(type, lval) == [type |-> type, lval |-> lval]

\* The last n operands are replaced by an expression of type type.
Push(n, type, lval) ==
  operands' = Append(SubSeq(operands, 1, Len(operands) - n), Operand(type, lval))

\* The types of the last n operands.
Top(n) == [i \in 1 .. n |-> operands[Len(operands) - n + i].type]

IntConst ==
  /\ Len(operands) < MaxOperands
  /\ Check(TRUE) /\ Push(0, IntType, FALSE)
  /\ Reads /\ last' = Nothing

\* The innermost symbol of the name; its indexes take dimensions off an array.
LVal(name, n) ==
  LET symbol == FindSymbol(table, name) IN
  /\ n <= Len(operands) /\ Len(operands) - n < MaxOperands
  /\ IF symbol = NoSymbol
       THEN Check(FALSE) /\ UNCHANGED operands
       ELSE IF symbol.type.class = "ArrayType"
         THEN LET dims == symbol.type.dims IN
              /\ Check(/\ \A i \in 1 .. n : Equals(Top(n)[i], IntType)
                       /\ n <= Len(dims))
              /\ Push(n, DeclType(SubSeq(dims, n + 1, Len(dims))), TRUE)
         ELSE Check(n = 0) /\ Push(n, symbol.type, TRUE)
  /\ Reads /\ last' = Nothing

\* Mutant of FuncCall: arguments may be missing.
FuncCallTooFew(name, n) ==
  LET symbol == FindSymbol(table, name) IN
  /\ n <= Len(operands) /\ Len(operands) - n < MaxOperands
  /\ IF symbol = NoSymbol \/ ~IsFunc(symbol.type)
       THEN Check(FALSE) /\ last' = Nothing /\ UNCHANGED operands
       ELSE /\ Check(/\ n <= Len(symbol.type.params)
                     /\ \A i \in 1 .. n : Equals(Top(n)[i], symbol.type.params[i]))
            /\ Push(n, symbol.type.ret, FALSE)
            /\ Remember(Call(name, Top(n)))
  /\ Reads

FuncCall(name, n) ==
  LET symbol == FindSymbol(table, name) IN
  /\ n <= Len(operands) /\ Len(operands) - n < MaxOperands
  /\ IF symbol = NoSymbol \/ ~IsFunc(symbol.type)
       THEN Check(FALSE) /\ last' = Nothing /\ UNCHANGED operands
       ELSE /\ Check(/\ n = Len(symbol.type.params)
                     /\ \A i \in 1 .. n : Equals(Top(n)[i], symbol.type.params[i]))
            /\ Push(n, symbol.type.ret, FALSE)
            /\ Remember(Call(name, Top(n)))
  /\ Reads

\* UnaryExp takes one operand of type int, BinaryExp two.
IntExp(n) ==
  /\ n <= Len(operands)
  /\ Check(\A i \in 1 .. n : Equals(Top(n)[i], IntType)) /\ Push(n, IntType, FALSE)
  /\ Reads /\ last' = Nothing

UnaryExp == IntExp(1)
BinaryExp == IntExp(2)

-----------------------------------------------------------------------------
(* Statements.                                                             *)

AssignStmt ==
  /\ InFunction /\ Len(operands) = 2 /\ operands[1].lval
  /\ Check(Equals(operands[1].type, IntType) /\ Equals(operands[2].type, IntType))
  /\ operands' = << >>
  /\ Reads /\ last' = Nothing

\* The condition of an if or of a while; the statements it governs follow.
CondStmt ==
  /\ InFunction /\ Len(operands) = 1
  /\ Check(Equals(operands[1].type, IntType))
  /\ operands' = << >>
  /\ Reads /\ last' = Nothing

ExpStmt ==
  /\ InFunction /\ Len(operands) = 1
  /\ Check(TRUE) /\ operands' = << >>
  /\ Reads /\ last' = Nothing

\* The scan of a scope leaves the function type of the entry it reaches last,
\* or none when that entry is no function; the scan goes outwards until a scope
\* leaves one.  entry picks what an unordered_map iterates last in each scope.
ScannedSymbol(entry) ==
  LET left == {i \in 1 .. Len(table.scopes) :
                 /\ table.scopes[i] # << >>
                 /\ IsFunc(table.scopes[i][entry[i]].type)}
  IN  IF left = {} THEN NoSymbol
      ELSE LET i == CHOOSE i \in left : \A j \in left : j <= i
           IN  table.scopes[i][entry[i]]

LastEntries ==
  {entry \in [1 .. Len(table.scopes) -> AllNames] :
     \A i \in 1 .. Len(table.scopes) :
       table.scopes[i] # << >> => entry[i] \in DOMAIN table.scopes[i]}

ReturnStmt(entry) ==
  LET symbol == ScannedSymbol(entry)
      type == IF operands = << >> THEN VoidType ELSE operands[1].type
  IN  /\ InFunction /\ Len(operands) <= 1
      /\ Check(symbol # NoSymbol /\ Equals(symbol.type.ret, type))
      /\ operands' = << >> /\ Remember(Return(type)) /\ Reads

Accept ==
  /\ status = "checking" /\ ~InFunction /\ AtStatement /\ defs > 0
  /\ status' = "accepted"
  /\ UNCHANGED << table, operands, func, defs, last >>

Next ==
  \/ \E name \in AllNames, ret \in {IntType, VoidType}, k \in 0 .. MaxParams :
       \E ps \in [1 .. k -> Param] : FuncDef(name, ret, ps)
  \/ EndFuncDef \/ EnterBlock \/ ExitBlock
  \/ \E name \in AllNames, dims \in VarDims : VarDef(name, dims)
  \/ IntConst
  \/ \E name \in AllNames, n \in 0 .. MaxOperands : LVal(name, n) \/ FuncCall(name, n)
  \/ UnaryExp \/ BinaryExp
  \/ AssignStmt \/ CondStmt \/ ExpStmt
  \/ \E entry \in LastEntries : ReturnStmt(entry)
  \/ Accept

Spec == Init /\ [][Next]_vars

-----------------------------------------------------------------------------
(* Properties.                                                             *)

VarTypes == {DeclType(dims) : dims \in VarDims \cup ParamDims}
FuncTypes ==
  {FuncType(ret, ts) : ret \in {IntType, VoidType},
                       ts \in UNION {[1 .. k -> VarTypes] : k \in 0 .. MaxParams}}

Symbols ==
  [name : AllNames, type : VarTypes \cup FuncTypes,
   unique_name : BuiltIn \cup {UniqueName(n, d) : n \in AllNames, d \in 0 .. MaxDepth}]

\* Scopes map names to symbols of their own name (add_symbol), scope_depth stays
\* within the nesting of the program, and operands are types.
TypeOK ==
  /\ \A i \in 1 .. Len(table.scopes) :
       LET scope == table.scopes[i] IN
       \A n \in DOMAIN scope : n \in AllNames /\ scope[n] \in Symbols /\ scope[n].name = n
  /\ table.scope_depth \in 0 .. MaxDepth
  /\ status \in {"checking", "rejected", "accepted"} /\ defs \in 0 .. MaxDefs
  /\ \A i \in 1 .. Len(operands) :
       /\ operands[i].lval \in BOOLEAN
       /\ operands[i].type.class \in {"PrimitiveType", "ArrayType", "FuncType"}

\* The bindings of a name: its type at every depth it is declared at.
Bindings(n) ==
  [d \in {i - 1 : i \in {j \in 1 .. Len(table.scopes) : n \in DOMAIN table.scopes[j]}} |->
     table.scopes[d + 1][n].type]

Lex == INSTANCE LexicalScopes WITH
         Names <- AllNames,
         env   <- [n \in AllNames |-> Bindings(n)],
         depth <- table.scope_depth

\* Scopes opened and closed around functions, parameters and blocks keep the
\* promise of lexical scoping; scope_depth, which unique names are made from and
\* return statements start at, stays in step with the scopes.
ImplementsScopes == Lex!Spec

\* A lookup finds the innermost binding, and none exactly when there is none.
LookupInnermost ==
  \A n \in AllNames :
    LET symbol == FindSymbol(table, n) IN
    IF Lex!Bound(n) THEN symbol.type = Lex!Meaning(n) ELSE symbol = NoSymbol

\* Two variables that can be used at the same point, or a variable and a
\* built-in function, never share the unique name that the IR knows them by.
\* (A function has two symbols: one outside, one in its own scope.)
LiveNamesDistinct ==
  \A i, j \in 1 .. Len(table.scopes) :
    \A m \in DOMAIN table.scopes[i], n \in DOMAIN table.scopes[j] :
      table.scopes[i][m].unique_name = table.scopes[j][n].unique_name => i = j /\ m = n

\* A symbol of the program has a name made at depth 0 exactly when it stands
\* outside of all functions: the translator takes a name with "_in_0" in it for a
\* global variable (ir_translator.cpp, translateLVal), and any other for a register.
GlobalNamesAtZero ==
  \A i \in 1 .. Len(table.scopes) : \A n \in DOMAIN table.scopes[i] :
    i > 1 \/ n \notin BuiltIn =>
      (i = 1 <=> table.scopes[i][n].unique_name \in {UniqueName(m, 0) : m \in AllNames})

\* A call accepted anywhere, below shadowing declarations or inside the called
\* function itself, passes what the function of that name is defined to take.
CallsMatchDefinitions ==
  last.node = "FuncCall" =>
    /\ last.name \in DOMAIN table.scopes[1]
    /\ LET type == table.scopes[1][last.name].type IN
       /\ IsFunc(type) /\ Len(last.args) = Len(type.params)
       /\ \A i \in 1 .. Len(last.args) : Equals(last.args[i], type.params[i])

\* A return statement is accepted only with the type its function returns
\* (type_checker.cpp: check that the type of the returned value agrees with the
\* return type of the function).
ReturnsMatch ==
  last.node = "ReturnStmt" => Equals(func.type.ret, last.type)

\* Every parameter of an accepted function has a symbol (type_checker.cpp: the
\* symbol of a parameter is hung on the node; the translator uses it).
ParamsHaveSymbols ==
  last.node = "FuncDef" => \A i \in DOMAIN last.added : last.added[i]
=============================================================================
