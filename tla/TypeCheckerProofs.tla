------------------------- MODULE TypeCheckerProofs -------------------------
(***************************************************************************)
(* The type checker and its symbol table for any identifiers, types,       *)
(* numbers of parameters and depth of blocks.                              *)
(***************************************************************************)
EXTENDS TypeChecker, SequenceFacts

LEMMA Bounds ==
  MaxParams \in Nat \ {0} /\ MaxDepth \in Nat \ {0} /\ MaxDefs \in Nat
BY TypeCheckerAssumption

-----------------------------------------------------------------------------
(* Tables.                                                                 *)

Types == VarTypes \cup FuncTypes

\* The unique name of n in the i-th scope.
NameIn(n, i) == IF i = 1 /\ n \in BuiltIn THEN n ELSE UniqueName(n, i - 1)

\* s is what add_symbol makes for n in the i-th scope.
IsSymbol(s, n, i) ==
  /\ s = [name |-> n, type |-> s.type, unique_name |-> NameIn(n, i)]
  /\ s.type \in Types

Scope == UNION {[S -> [name : AllNames, type : Types,
                       unique_name : {NameIn(n, i) : n \in AllNames, i \in 1 .. MaxDepth + 1}]] :
                S \in SUBSET AllNames}

IsScope(scope, i) == scope \in Scope /\ \A n \in DOMAIN scope : IsSymbol(scope[n], n, i)

\* t is a table with a scope at least and not more than the depth allows.
IsTable(t) ==
  /\ t = [scopes |-> t.scopes, scope_depth |-> Len(t.scopes) - 1]
  /\ t.scopes \in Seq(Scope)
  /\ Len(t.scopes) \in 1 .. MaxDepth + 1
  /\ \A i \in 1 .. Len(t.scopes) : IsScope(t.scopes[i], i)
  /\ BuiltIn \subseteq DOMAIN t.scopes[1]

\* A function is known in a scope of its own as it is outside.
FuncsOutside(t) ==
  \A i \in 1 .. Len(t.scopes) : \A n \in DOMAIN t.scopes[i] :
    IsFunc(t.scopes[i][n].type) =>
      n \in DOMAIN t.scopes[1] /\ t.scopes[1][n].type = t.scopes[i][n].type

LEMMA ScopeNames ==
  ASSUME NEW scope \in Scope
  PROVE  /\ DOMAIN scope \subseteq AllNames
         /\ scope = [n \in DOMAIN scope |-> scope[n]]
BY DEF Scope

\* Names with a symbol of their own for each make a scope.
LEMMA MakesScope ==
  ASSUME NEW scope, NEW i \in 1 .. MaxDepth + 1,
         scope = [n \in DOMAIN scope |-> scope[n]],
         DOMAIN scope \subseteq AllNames,
         \A n \in DOMAIN scope : IsSymbol(scope[n], n, i)
  PROVE  IsScope(scope, i)
<1> DEFINE Sym == [name : AllNames, type : Types,
                   unique_name : {NameIn(n, j) : n \in AllNames, j \in 1 .. MaxDepth + 1}]
<1>1. ASSUME NEW n \in DOMAIN scope
      PROVE  scope[n] \in Sym
  <2>1. /\ scope[n] = [name |-> n, type |-> scope[n].type, unique_name |-> NameIn(n, i)]
        /\ scope[n].type \in Types /\ n \in AllNames
    BY DEF IsSymbol
  <2>2. NameIn(n, i) \in {NameIn(m, j) : m \in AllNames, j \in 1 .. MaxDepth + 1}
    BY <2>1
  <2> QED
    BY <2>1, <2>2
<1>2. scope \in [DOMAIN scope -> Sym]
  <2> HIDE DEF Sym
  <2> QED
    BY <1>1
<1>3. scope \in Scope
  BY <1>2 DEF Scope
<1> QED
  BY <1>3 DEF IsScope

LEMMA EmptyScope ==
  ASSUME NEW i \in 1 .. MaxDepth + 1
  PROVE  IsScope(<< >>, i) /\ DOMAIN << >> = {}
<1>1. << >> = [n \in DOMAIN << >> |-> << >>[n]] /\ DOMAIN << >> = {}
  OBVIOUS
<1> QED
  BY <1>1, MakesScope

-----------------------------------------------------------------------------
(* What the operations of a table do.                                      *)

LEMMA EnterScopeTable ==
  ASSUME NEW t, IsTable(t), Len(t.scopes) <= MaxDepth
  PROVE  /\ IsTable(EnterScope(t))
         /\ Len(EnterScope(t).scopes) = Len(t.scopes) + 1
         /\ EnterScope(t).scopes[Len(t.scopes) + 1] = << >>
         /\ \A i \in 1 .. Len(t.scopes) : EnterScope(t).scopes[i] = t.scopes[i]
<1> DEFINE e == EnterScope(t)
<1>0. Len(t.scopes) \in 1 .. MaxDepth /\ MaxDepth \in Nat
  BY Bounds DEF IsTable
<1>1. IsScope(<< >>, Len(t.scopes) + 1) /\ << >> \in Scope
  BY <1>0, EmptyScope DEF IsScope
<1>2. e.scopes = Append(t.scopes, << >>) /\ e.scope_depth = t.scope_depth + 1
      /\ e = [scopes |-> e.scopes, scope_depth |-> e.scope_depth]
  BY DEF EnterScope
<1>3. /\ e.scopes \in Seq(Scope) /\ Len(e.scopes) = Len(t.scopes) + 1
      /\ e.scopes[Len(t.scopes) + 1] = << >>
      /\ \A i \in 1 .. Len(t.scopes) : e.scopes[i] = t.scopes[i]
  BY <1>1, <1>2, AppendedElements DEF IsTable
<1>4. e.scope_depth = Len(e.scopes) - 1
  BY <1>0, <1>2, <1>3 DEF IsTable
<1>5. ASSUME NEW i \in 1 .. Len(e.scopes)
      PROVE  IsScope(e.scopes[i], i)
  <2>1. CASE i = Len(t.scopes) + 1
    BY <1>1, <1>3, <2>1
  <2>2. CASE i # Len(t.scopes) + 1
    BY <1>0, <1>3, <2>2 DEF IsTable
  <2> QED
    BY <2>1, <2>2
<1>6. BuiltIn \subseteq DOMAIN e.scopes[1]
  BY <1>0, <1>3 DEF IsTable
<1>7. IsTable(e)
  <2> HIDE DEF e
  <2> QED
    BY <1>0, <1>2, <1>3, <1>4, <1>5, <1>6 DEF IsTable
<1> QED
  BY <1>3, <1>7

LEMMA ExitScopeTable ==
  ASSUME NEW t, IsTable(t), Len(t.scopes) > 1
  PROVE  /\ IsTable(ExitScope(t))
         /\ Len(ExitScope(t).scopes) = Len(t.scopes) - 1
         /\ \A i \in 1 .. Len(t.scopes) - 1 : ExitScope(t).scopes[i] = t.scopes[i]
<1> DEFINE e == ExitScope(t)
<1>0. Len(t.scopes) \in 2 .. MaxDepth + 1 /\ MaxDepth \in Nat
      /\ Len(t.scopes) - 1 \in 0 .. Len(t.scopes)
  BY Bounds DEF IsTable
<1>1. t.scopes # << >>
  BY <1>0
<1>2. /\ e = [scopes |-> e.scopes, scope_depth |-> e.scope_depth]
      /\ e.scopes = SubSeq(t.scopes, 1, Len(t.scopes) - 1)
      /\ e.scope_depth = t.scope_depth - 1
  BY <1>1 DEF ExitScope
<1>3. /\ e.scopes \in Seq(Scope) /\ Len(e.scopes) = Len(t.scopes) - 1
      /\ \A i \in 1 .. Len(t.scopes) - 1 : e.scopes[i] = t.scopes[i]
  BY <1>0, <1>2, FrontElements DEF IsTable
<1>4. e.scope_depth = Len(e.scopes) - 1
  BY <1>0, <1>2, <1>3 DEF IsTable
<1>5. \A i \in 1 .. Len(e.scopes) : IsScope(e.scopes[i], i)
  BY <1>0, <1>3 DEF IsTable
<1>6. BuiltIn \subseteq DOMAIN e.scopes[1]
  BY <1>0, <1>3 DEF IsTable
<1>7. IsTable(e)
  <2> HIDE DEF e
  <2> QED
    BY <1>0, <1>2, <1>3, <1>4, <1>5, <1>6 DEF IsTable
<1> QED
  BY <1>3, <1>7

\* A table whose current scope is replaced by another.
LEMMA NewCurrent ==
  ASSUME NEW t, IsTable(t), NEW scope, NEW u,
         IsScope(scope, Len(t.scopes)),
         DOMAIN Current(t) \subseteq DOMAIN scope,
         u = [t EXCEPT !.scopes[Len(t.scopes)] = scope]
  PROVE  /\ IsTable(u)
         /\ Len(u.scopes) = Len(t.scopes)
         /\ u.scopes[Len(t.scopes)] = scope
         /\ \A i \in 1 .. Len(t.scopes) : i # Len(t.scopes) => u.scopes[i] = t.scopes[i]
<1>0. Len(t.scopes) \in 1 .. MaxDepth + 1 /\ MaxDepth \in Nat /\ Len(t.scopes) \in 1 .. Len(t.scopes)
  BY Bounds DEF IsTable
<1>1. /\ u = [scopes |-> u.scopes, scope_depth |-> u.scope_depth]
      /\ u.scope_depth = t.scope_depth
      /\ u.scopes = [t.scopes EXCEPT ![Len(t.scopes)] = scope]
  BY DEF IsTable
<1>2. /\ u.scopes \in Seq(Scope) /\ Len(u.scopes) = Len(t.scopes)
      /\ u.scopes[Len(t.scopes)] = scope
      /\ \A i \in 1 .. Len(t.scopes) : i # Len(t.scopes) => u.scopes[i] = t.scopes[i]
  BY <1>0, <1>1, ReplacedElement DEF IsTable, IsScope
<1>3. u.scope_depth = Len(u.scopes) - 1
  BY <1>1, <1>2 DEF IsTable
<1>4. \A i \in 1 .. Len(u.scopes) : IsScope(u.scopes[i], i)
  BY <1>2 DEF IsTable
<1>5. BuiltIn \subseteq DOMAIN u.scopes[1]
  <2>1. BuiltIn \subseteq DOMAIN t.scopes[1]
    BY DEF IsTable
  <2>2. CASE Len(t.scopes) = 1
    BY <1>2, <2>1, <2>2 DEF Current
  <2>3. CASE Len(t.scopes) # 1
    BY <1>0, <1>2, <2>1, <2>3
  <2> QED
    BY <2>2, <2>3
<1>6. IsTable(u)
  BY <1>0, <1>1, <1>2, <1>3, <1>4, <1>5 DEF IsTable
<1> QED
  BY <1>2, <1>6

LEMMA NewSymbolIsSymbol ==
  ASSUME NEW t, IsTable(t), NEW n \in AllNames, NEW type \in Types,
         Len(t.scopes) = 1 => n \notin BuiltIn
  PROVE  /\ IsSymbol(NewSymbol(t, n, type, FALSE), n, Len(t.scopes))
         /\ NewSymbol(t, n, type, FALSE).type = type
<1>1. t.scope_depth = Len(t.scopes) - 1
  BY DEF IsTable
<1>2. NameIn(n, Len(t.scopes)) = UniqueName(n, t.scope_depth)
  BY <1>1 DEF NameIn
<1> QED
  BY <1>2 DEF NewSymbol, IsSymbol

\* The table once a name of the program is added to it.
Declared(t, n, type) == AddSymbol(t, n, type, FALSE)

\* A new name is bound in the current scope and nothing else changes.
LEMMA AddSymbolTable ==
  ASSUME NEW t, IsTable(t), NEW n \in AllNames, NEW type \in Types,
         n \notin DOMAIN Current(t)
  PROVE  LET k == Len(t.scopes)
             u == Declared(t, n, type)
         IN  /\ IsTable(u) /\ Len(u.scopes) = k
             /\ DOMAIN u.scopes[k] = DOMAIN t.scopes[k] \cup {n}
             /\ u.scopes[k][n].type = type
             /\ \A m \in DOMAIN t.scopes[k] : u.scopes[k][m] = t.scopes[k][m]
             /\ \A i \in 1 .. k : i # k => u.scopes[i] = t.scopes[i]
<1> DEFINE k == Len(t.scopes)
           symbol == NewSymbol(t, n, type, FALSE)
           scope == BindIn(Current(t), n, symbol)
           u == Declared(t, n, type)
<1>0. k \in 1 .. MaxDepth + 1 /\ MaxDepth \in Nat /\ t.scopes # << >>
  BY Bounds DEF IsTable
<1>1. IsScope(t.scopes[k], k) /\ Current(t) = t.scopes[k] /\ BuiltIn \subseteq DOMAIN t.scopes[1]
  BY <1>0 DEF IsTable, Current
<1>2. k = 1 => n \notin BuiltIn
  BY <1>1
<1>3. IsSymbol(symbol, n, k) /\ symbol.type = type
  BY <1>2, NewSymbolIsSymbol
<1>4. /\ DOMAIN scope = DOMAIN t.scopes[k] \cup {n}
      /\ scope[n] = symbol
      /\ \A m \in DOMAIN t.scopes[k] : scope[m] = t.scopes[k][m]
      /\ scope = [m \in DOMAIN scope |-> scope[m]]
  BY <1>1 DEF BindIn
<1>5. DOMAIN scope \subseteq AllNames
  BY <1>1, <1>4, ScopeNames DEF IsScope
<1>6. \A m \in DOMAIN scope : IsSymbol(scope[m], m, k)
  BY <1>1, <1>3, <1>4 DEF IsScope
<1>7. IsScope(scope, k)
  <2> HIDE DEF scope
  <2> QED
    BY <1>0, <1>4, <1>5, <1>6, MakesScope
<1>8. u = [t EXCEPT !.scopes[Len(t.scopes)] = scope]
  BY <1>0, <1>1 DEF Declared, AddSymbol, Current
<1>9. /\ IsTable(u) /\ Len(u.scopes) = k /\ u.scopes[k] = scope
      /\ \A i \in 1 .. k : i # k => u.scopes[i] = t.scopes[i]
  <2> HIDE DEF scope, u
  <2> QED
    BY <1>1, <1>4, <1>7, <1>8, NewCurrent
<1> QED
  BY <1>3, <1>4, <1>9

LEMMA ParamTypes ==
  ASSUME NEW p \in Param
  PROVE  p.ident \in Idents /\ ParamType(p) \in VarTypes /\ ParamType(p) \in Types
BY DEF Param, ParamType, VarTypes, Types

\* Parameters are bound in the current scope, where the names in it stay.
LEMMA AddParamsTable ==
  ASSUME NEW t, IsTable(t), Len(t.scopes) > 1,
         NEW k \in Nat, NEW ps \in [1 .. k -> Param]
  PROVE  LET top == Len(t.scopes)
             u   == AddParams(t, ps)
         IN  /\ IsTable(u) /\ Len(u.scopes) = top
             /\ \A i \in 1 .. top : i # top => u.scopes[i] = t.scopes[i]
             /\ DOMAIN t.scopes[top] \subseteq DOMAIN u.scopes[top]
             /\ \A n \in DOMAIN t.scopes[top] : u.scopes[top][n] = t.scopes[top][n]
             /\ \A n \in DOMAIN u.scopes[top] \ DOMAIN t.scopes[top] :
                  u.scopes[top][n].type \in VarTypes
<1> DEFINE top == Len(t.scopes)
           old == Current(t)
           added == {i \in DOMAIN ps : IsAdded(old, ps, i)}
           param(n) == ps[CHOOSE i \in added : ps[i].ident = n]
           names == {ps[i].ident : i \in added}
           scope == [n \in DOMAIN old \cup names |->
                       IF n \in DOMAIN old THEN old[n]
                       ELSE NewSymbol(t, n, ParamType(param(n)), FALSE)]
<1>0. top \in 1 .. MaxDepth + 1 /\ top # 1 /\ MaxDepth \in Nat
  BY Bounds DEF IsTable
<1>1. IsScope(old, top) /\ old = t.scopes[top]
  BY <1>0 DEF IsTable, Current
<1>2. added \subseteq 1 .. k /\ names \subseteq AllNames
  BY ParamTypes DEF AllNames
<1>3. ASSUME NEW n \in names
      PROVE  ParamType(param(n)) \in VarTypes /\ ParamType(param(n)) \in Types
  <2>1. \E i \in added : ps[i].ident = n
    OBVIOUS
  <2>2. (CHOOSE i \in added : ps[i].ident = n) \in added
    <3> HIDE DEF added
    <3> QED
      BY <2>1
  <2>3. param(n) \in Param
    BY <1>2, <2>2
  <2> QED
    BY <2>3, ParamTypes
<1>4. /\ DOMAIN scope = DOMAIN old \cup names
      /\ \A n \in DOMAIN old : scope[n] = old[n]
      /\ \A n \in names \ DOMAIN old : scope[n] = NewSymbol(t, n, ParamType(param(n)), FALSE)
      /\ scope = [n \in DOMAIN scope |-> scope[n]]
  <2> HIDE DEF old, names, param
  <2> QED
    OBVIOUS
<1>5. \A n \in names \ DOMAIN old :
        IsSymbol(scope[n], n, top) /\ scope[n].type \in VarTypes
  <2> SUFFICES ASSUME NEW n \in names \ DOMAIN old
               PROVE  IsSymbol(scope[n], n, top) /\ scope[n].type \in VarTypes
    OBVIOUS
  <2> HIDE DEF param, scope, names, old
  <2>1. n \in AllNames
    BY <1>2
  <2>2. /\ IsSymbol(NewSymbol(t, n, ParamType(param(n)), FALSE), n, top)
        /\ NewSymbol(t, n, ParamType(param(n)), FALSE).type = ParamType(param(n))
    BY <1>0, <1>3, <2>1, NewSymbolIsSymbol
  <2> QED
    BY <1>3, <1>4, <2>2
<1>6. IsScope(scope, top)
  <2> HIDE DEF scope, names, old
  <2>1. DOMAIN old \subseteq AllNames
    BY <1>1, ScopeNames DEF IsScope
  <2>2. DOMAIN scope \subseteq AllNames
    BY <1>2, <1>4, <2>1
  <2>3. \A n \in DOMAIN scope : IsSymbol(scope[n], n, top)
    BY <1>1, <1>4, <1>5 DEF IsScope
  <2> QED
    BY <1>0, <1>4, <2>2, <2>3, MakesScope
<1>7. AddParams(t, ps) = [t EXCEPT !.scopes[Len(t.scopes)] = scope]
  BY DEF AddParams
<1> HIDE DEF scope
<1>8. /\ IsTable(AddParams(t, ps)) /\ Len(AddParams(t, ps).scopes) = top
      /\ AddParams(t, ps).scopes[top] = scope
      /\ \A i \in 1 .. top : i # top => AddParams(t, ps).scopes[i] = t.scopes[i]
  BY <1>1, <1>4, <1>6, <1>7, NewCurrent
<1> QED
  BY <1>1, <1>4, <1>5, <1>8

-----------------------------------------------------------------------------
(* Lookups.                                                                *)

LEMMA SymbolsAreNone ==
  ASSUME NEW s, NEW n, NEW i, IsSymbol(s, n, i)
  PROVE  s # NoSymbol
<1>1. s = [name |-> n, type |-> s.type, unique_name |-> NameIn(n, i)]
  BY DEF IsSymbol
<1>2. "type" \in DOMAIN s
  BY <1>1
<1>3. "type" \notin DOMAIN NoSymbol
  BY DEF NoSymbol
<1> QED
  BY <1>2, <1>3

Having(t, n) == {i \in 1 .. Len(t.scopes) : n \in DOMAIN t.scopes[i]}

\* A lookup finds the symbol of the innermost scope that has the name.
LEMMA FoundSymbol ==
  ASSUME NEW t, IsTable(t), NEW n, Having(t, n) # {}
  PROVE  \E i \in Having(t, n) :
           /\ \A j \in Having(t, n) : j <= i
           /\ FindSymbol(t, n) = t.scopes[i][n]
           /\ IsSymbol(FindSymbol(t, n), n, i) /\ FindSymbol(t, n) # NoSymbol
<1> DEFINE found == Having(t, n)
           i == CHOOSE i \in found : \A j \in found : j <= i
<1>1. found \subseteq 1 .. Len(t.scopes) /\ Len(t.scopes) \in Nat /\ found # {}
  BY Bounds DEF Having, IsTable
<1>2. \E m \in found : \A j \in found : j <= m
  <2> HIDE DEF found
  <2> QED
    BY <1>1, GreatestOf
<1>3. i \in found /\ \A j \in found : j <= i
  <2> HIDE DEF found
  <2> QED
    BY <1>2
<1>4. FindSymbol(t, n) = t.scopes[i][n]
  BY DEF FindSymbol, Having
<1>5. IsSymbol(t.scopes[i][n], n, i)
  BY <1>1, <1>3 DEF IsTable, IsScope, Having
<1>6. FindSymbol(t, n) # NoSymbol
  BY <1>4, <1>5, SymbolsAreNone
<1> HIDE DEF i, found
<1>7. i \in Having(t, n) /\ \A j \in Having(t, n) : j <= i
  BY <1>3 DEF found
<1> QED
  BY <1>4, <1>5, <1>6, <1>7

LEMMA NotFound ==
  ASSUME NEW t, IsTable(t), NEW n
  PROVE  FindSymbol(t, n) = NoSymbol <=> Having(t, n) = {}
<1>1. Having(t, n) = {} => FindSymbol(t, n) = NoSymbol
  BY DEF FindSymbol, Having
<1> QED
  BY <1>1, FoundSymbol

-----------------------------------------------------------------------------
(* Types.                                                                  *)

OperandTypes == {IntType, VoidType} \cup Types \cup {ArrayType(dims) : dims \in Seq(Nat)}

OperandSet == [type : OperandTypes, lval : BOOLEAN]

LEMMA TypeClasses ==
  /\ \A type \in VarTypes : ~IsFunc(type)
  /\ \A type \in VarTypes : type.class = "ArrayType" => type.dims \in Seq(Nat)
  /\ \A type \in FuncTypes : IsFunc(type) /\ type.class # "ArrayType"
                             /\ type.ret \in {IntType, VoidType}
<1>1. ASSUME NEW type \in VarTypes
      PROVE  ~IsFunc(type) /\ (type.class = "ArrayType" => type.dims \in Seq(Nat))
  <2>1. PICK dims \in VarDims \cup ParamDims : type = DeclType(dims)
    BY DEF VarTypes
  <2>2. dims \in Seq(Nat)
    BY TypeCheckerAssumption
  <2>3. CASE dims = << >>
    BY <2>1, <2>3 DEF DeclType, IntType, Prim, IsFunc
  <2>4. CASE dims # << >>
    BY <2>1, <2>2, <2>4 DEF DeclType, ArrayType, IsFunc
  <2> QED
    BY <2>3, <2>4
<1>2. ASSUME NEW type \in FuncTypes
      PROVE  IsFunc(type) /\ type.class # "ArrayType" /\ type.ret \in {IntType, VoidType}
  <2>1. \E ret \in {IntType, VoidType} : \E ts : type = FuncType(ret, ts)
    BY DEF FuncTypes
  <2> QED
    BY <2>1 DEF FuncType, IsFunc
<1> QED
  BY <1>1, <1>2

LEMMA DeclTypes ==
  ASSUME NEW dims \in Seq(Nat)
  PROVE  DeclType(dims) \in OperandTypes
BY DEF DeclType, OperandTypes

LEMMA FuncTypeOf ==
  ASSUME NEW ret \in {IntType, VoidType}, NEW k \in 0 .. MaxParams, NEW ps \in [1 .. k -> Param]
  PROVE  FuncType(ret, [i \in DOMAIN ps |-> ParamType(ps[i])]) \in FuncTypes
<1> DEFINE ts == [i \in DOMAIN ps |-> ParamType(ps[i])]
<1>1. ts \in [1 .. k -> VarTypes]
  <2>1. DOMAIN ps = 1 .. k /\ \A i \in 1 .. k : ParamType(ps[i]) \in VarTypes
    BY ParamTypes
  <2> QED
    BY <2>1
<1>2. ts \in UNION {[1 .. j -> VarTypes] : j \in 0 .. MaxParams}
  <2> HIDE DEF ts
  <2> QED
    BY <1>1
<1>3. \A us \in UNION {[1 .. j -> VarTypes] : j \in 0 .. MaxParams} : FuncType(ret, us) \in FuncTypes
  BY DEF FuncTypes
<1> QED
  BY <1>2, <1>3

LEMMA OperandClasses ==
  ASSUME NEW o \in OperandSet
  PROVE  o.lval \in BOOLEAN /\ o.type.class \in {"PrimitiveType", "ArrayType", "FuncType"}
<1>1. o.lval \in BOOLEAN /\ o.type \in OperandTypes
  BY DEF OperandSet
<1>2. CASE o.type \in {IntType, VoidType}
  BY <1>1, <1>2 DEF IntType, VoidType, Prim
<1>3. CASE o.type \in VarTypes
  BY <1>1, <1>3 DEF VarTypes, DeclType, IntType, Prim, ArrayType
<1>4. CASE o.type \in FuncTypes
  BY <1>1, <1>4, TypeClasses DEF IsFunc
<1>5. CASE o.type \in {ArrayType(dims) : dims \in Seq(Nat)}
  BY <1>1, <1>5 DEF ArrayType
<1> QED
  BY <1>1, <1>2, <1>3, <1>4, <1>5 DEF OperandTypes, Types

-----------------------------------------------------------------------------
(* The inductive invariant.                                                *)

\* A table alone tells too little: that a definition is refused inside of another
\* keeps functions in the outermost scope, and what a call is checked against is
\* the definition's type only if every binding of a function agrees with it.
IInv ==
  /\ IsTable(table) /\ FuncsOutside(table)
  /\ status \in {"checking", "rejected", "accepted"} /\ defs \in 0 .. MaxDefs
  /\ status # "rejected" => (InFunction <=> Len(table.scopes) > 1)
  /\ operands \in Seq(OperandSet)
  /\ CallsMatchDefinitions

LEMMA TableNumbers ==
  ASSUME NEW t, IsTable(t)
  PROVE  /\ Len(t.scopes) \in 1 .. MaxDepth + 1 /\ MaxDepth \in Nat \ {0}
         /\ t.scope_depth = Len(t.scopes) - 1
         /\ t.scopes # << >>
BY Bounds DEF IsTable

\* The table a definition leaves behind.
LEMMA FuncDefTable ==
  ASSUME NEW t, IsTable(t), FuncsOutside(t), Len(t.scopes) = 1,
         NEW name \in AllNames, NEW type \in FuncTypes,
         NEW k \in Nat, NEW ps \in [1 .. k -> Param],
         FindSymbol(t, name) = NoSymbol
  PROVE  LET outer == EnterScope(Declared(t, name, type))
             u     == AddParams(Declared(outer, name, type), ps)
         IN  /\ IsTable(u) /\ FuncsOutside(u) /\ Len(u.scopes) = 2
             /\ name \notin DOMAIN t.scopes[1]
             /\ DOMAIN u.scopes[1] = DOMAIN t.scopes[1] \cup {name}
             /\ \A n \in DOMAIN t.scopes[1] : u.scopes[1][n] = t.scopes[1][n]
             /\ u.scopes[1][name].type = type
             /\ name \in DOMAIN u.scopes[2] /\ u.scopes[2][name].type = type
             /\ \A n \in DOMAIN u.scopes[2] \ {name} : u.scopes[2][n].type \in VarTypes
<1>0. type \in Types /\ MaxDepth \in Nat \ {0} /\ Current(t) = t.scopes[1]
  BY TableNumbers DEF Types, Current
<1>1. name \notin DOMAIN t.scopes[1]
  <2>1. Having(t, name) = {}
    BY NotFound
  <2> QED
    BY <2>1 DEF Having
<1>2. PICK first : first = Declared(t, name, type)
  OBVIOUS
<1>3. /\ IsTable(first) /\ Len(first.scopes) = 1
      /\ DOMAIN first.scopes[1] = DOMAIN t.scopes[1] \cup {name}
      /\ first.scopes[1][name].type = type
      /\ \A n \in DOMAIN t.scopes[1] : first.scopes[1][n] = t.scopes[1][n]
  <2>1. type \in Types /\ name \notin DOMAIN Current(t)
    BY <1>0, <1>1
  <2>2. /\ IsTable(first) /\ Len(first.scopes) = Len(t.scopes)
        /\ DOMAIN first.scopes[Len(t.scopes)] = DOMAIN t.scopes[Len(t.scopes)] \cup {name}
        /\ first.scopes[Len(t.scopes)][name].type = type
        /\ \A n \in DOMAIN t.scopes[Len(t.scopes)] :
             first.scopes[Len(t.scopes)][n] = t.scopes[Len(t.scopes)][n]
    BY <1>2, <2>1, AddSymbolTable
  <2> QED
    BY <2>2
<1>4. PICK outer : outer = EnterScope(first)
  OBVIOUS
<1>5. /\ IsTable(outer) /\ Len(outer.scopes) = 2
      /\ outer.scopes[2] = << >> /\ outer.scopes[1] = first.scopes[1]
  <2>1. Len(first.scopes) <= MaxDepth
    BY <1>0, <1>3
  <2>2. /\ IsTable(outer)
        /\ Len(outer.scopes) = Len(first.scopes) + 1
        /\ outer.scopes[Len(first.scopes) + 1] = << >>
        /\ \A i \in 1 .. Len(first.scopes) : outer.scopes[i] = first.scopes[i]
    BY <1>3, <1>4, <2>1, EnterScopeTable
  <2>3. 1 \in 1 .. Len(first.scopes) /\ Len(first.scopes) + 1 = 2
    BY <1>3
  <2> QED
    BY <2>2, <2>3
<1>6. Current(outer) = << >> /\ name \notin DOMAIN Current(outer)
  BY <1>5 DEF Current
<1>7. PICK inner : inner = Declared(outer, name, type)
  OBVIOUS
<1>8. /\ IsTable(inner) /\ Len(inner.scopes) = 2
      /\ DOMAIN inner.scopes[2] = {name} /\ inner.scopes[2][name].type = type
      /\ inner.scopes[1] = first.scopes[1]
  <2>1. /\ IsTable(inner) /\ Len(inner.scopes) = 2
        /\ DOMAIN inner.scopes[2] = DOMAIN outer.scopes[2] \cup {name}
        /\ inner.scopes[2][name].type = type
        /\ \A i \in 1 .. 2 : i # 2 => inner.scopes[i] = outer.scopes[i]
    <3>1. /\ IsTable(inner) /\ Len(inner.scopes) = Len(outer.scopes)
          /\ DOMAIN inner.scopes[Len(outer.scopes)] = DOMAIN outer.scopes[Len(outer.scopes)] \cup {name}
          /\ inner.scopes[Len(outer.scopes)][name].type = type
          /\ \A i \in 1 .. Len(outer.scopes) : i # Len(outer.scopes) => inner.scopes[i] = outer.scopes[i]
      <4>1. IsTable(outer) /\ type \in Types /\ name \notin DOMAIN Current(outer)
        BY <1>0, <1>5, <1>6
      <4> QED
        BY <4>1, <1>7, AddSymbolTable
    <3> QED
      BY <1>5, <3>1
  <2>2. DOMAIN outer.scopes[2] = {}
    BY <1>5
  <2> QED
    BY <1>5, <2>1, <2>2
<1>9. PICK u : u = AddParams(inner, ps)
  OBVIOUS
<1>10. /\ IsTable(u) /\ Len(u.scopes) = 2 /\ u.scopes[1] = first.scopes[1]
       /\ name \in DOMAIN u.scopes[2] /\ u.scopes[2][name].type = type
       /\ \A n \in DOMAIN u.scopes[2] \ {name} : u.scopes[2][n].type \in VarTypes
  <2>1. /\ IsTable(u) /\ Len(u.scopes) = 2
        /\ \A i \in 1 .. 2 : i # 2 => u.scopes[i] = inner.scopes[i]
        /\ DOMAIN inner.scopes[2] \subseteq DOMAIN u.scopes[2]
        /\ \A n \in DOMAIN inner.scopes[2] : u.scopes[2][n] = inner.scopes[2][n]
        /\ \A n \in DOMAIN u.scopes[2] \ DOMAIN inner.scopes[2] : u.scopes[2][n].type \in VarTypes
    BY <1>8, <1>9, AddParamsTable
  <2> QED
    BY <1>8, <2>1
<1>11. FuncsOutside(u)
  <2> SUFFICES ASSUME NEW i \in 1 .. 2, NEW n \in DOMAIN u.scopes[i],
                      IsFunc(u.scopes[i][n].type)
               PROVE  n \in DOMAIN u.scopes[1] /\ u.scopes[1][n].type = u.scopes[i][n].type
    BY <1>10 DEF FuncsOutside
  <2>1. CASE i = 1
    BY <2>1
  <2>2. CASE i = 2
    <3>1. n = name
      BY <1>10, <2>2, TypeClasses
    <3> QED
      BY <1>3, <1>10, <2>2, <3>1
  <2> QED
    BY <2>1, <2>2
<1> QED
  BY <1>1, <1>2, <1>3, <1>4, <1>7, <1>9, <1>10, <1>11

LEMMA FuncsOutsideInit ==
  ASSUME NEW t, Len(t.scopes) = 1
  PROVE  FuncsOutside(t)
BY DEF FuncsOutside

\* The table once a built-in function is added to it.
Given(t, n, type) == AddSymbol(t, n, type, TRUE)

GivenSymbol(n, type) == [name |-> n, type |-> type, unique_name |-> n]

LEMMA GivenTable ==
  ASSUME NEW s, NEW n, NEW type, n \notin DOMAIN s
  PROVE  Given([scopes |-> << s >>, scope_depth |-> 0], n, type)
           = [scopes |-> << BindIn(s, n, GivenSymbol(n, type)) >>, scope_depth |-> 0]
<1> DEFINE t == [scopes |-> << s >>, scope_depth |-> 0]
           scope == BindIn(s, n, GivenSymbol(n, type))
<1>1. t.scopes = << s >> /\ t.scopes # << >> /\ Len(t.scopes) = 1 /\ Current(t) = s
  BY DEF Current
<1>2. NewSymbol(t, n, type, TRUE) = GivenSymbol(n, type)
  BY DEF NewSymbol, GivenSymbol
<1>3. Given(t, n, type) = [t EXCEPT !.scopes[Len(t.scopes)] = BindIn(@, n, GivenSymbol(n, type))]
  BY <1>1, <1>2 DEF Given, AddSymbol
<1>4. << s >>[1] = s
  OBVIOUS
<1>5. Given(t, n, type) = [t EXCEPT !.scopes[1] = scope]
  BY <1>1, <1>3, <1>4
<1>6. [t EXCEPT !.scopes[1] = scope] = [scopes |-> << scope >>, scope_depth |-> 0]
  <2> HIDE DEF scope
  <2> QED
    OBVIOUS
<1> QED
  BY <1>5, <1>6

\* The table before the first node holds the built-in functions and nothing else.
LEMMA InitTable ==
  ASSUME Init
  PROVE  /\ IsTable(table) /\ Len(table.scopes) = 1
         /\ DOMAIN table.scopes[1] = BuiltIn
         /\ \A n \in BuiltIn : table.scopes[1][n].type \in FuncTypes
<1> DEFINE readType  == FuncType(IntType, << >>)
           writeType == FuncType(IntType, << IntType >>)
<1>1. EnterScope(NewTable) = [scopes |-> << << >> >>, scope_depth |-> 0]
  BY DEF EnterScope, NewTable
<1>2. PICK s1 : s1 = BindIn(<< >>, "read", GivenSymbol("read", readType))
  OBVIOUS
<1>3. DOMAIN s1 = {"read"} /\ s1["read"] = GivenSymbol("read", readType)
  BY <1>2 DEF BindIn
<1>4. PICK s2 : s2 = BindIn(s1, "write", GivenSymbol("write", writeType))
  OBVIOUS
<1>5. /\ DOMAIN s2 = BuiltIn
      /\ s2["read"] = GivenSymbol("read", readType)
      /\ s2["write"] = GivenSymbol("write", writeType)
      /\ s2 = [n \in DOMAIN s2 |-> s2[n]]
  BY <1>3, <1>4 DEF BindIn, BuiltIn
<1>6. table = [scopes |-> << s2 >>, scope_depth |-> 0]
  <2>1. Given(EnterScope(NewTable), "read", readType) = [scopes |-> << s1 >>, scope_depth |-> 0]
    BY <1>1, <1>2, GivenTable
  <2>2. table = Given(Given(EnterScope(NewTable), "read", readType), "write", writeType)
    BY DEF Init, Given
  <2>3. "write" \notin DOMAIN s1
    BY <1>3
  <2> HIDE DEF readType, writeType
  <2> QED
    BY <1>4, <2>1, <2>2, <2>3, GivenTable
<1>7. readType \in FuncTypes /\ writeType \in FuncTypes
  <2>1. IntType \in VarTypes
    BY TypeCheckerAssumption DEF VarTypes, DeclType
  <2>2. << >> \in [1 .. 0 -> VarTypes] /\ << IntType >> \in [1 .. 1 -> VarTypes]
    BY <2>1
  <2>3. 0 \in 0 .. MaxParams /\ 1 \in 0 .. MaxParams
    BY Bounds
  <2>4. \A ts \in UNION {[1 .. k -> VarTypes] : k \in 0 .. MaxParams} : FuncType(IntType, ts) \in FuncTypes
    BY DEF FuncTypes
  <2> QED
    BY <2>2, <2>3, <2>4
<1>8. table.scopes = << s2 >> /\ Len(table.scopes) = 1 /\ table.scopes[1] = s2
  BY <1>6
<1>9. \A n \in DOMAIN s2 : IsSymbol(s2[n], n, 1) /\ s2[n].type \in FuncTypes
  <2> HIDE DEF readType, writeType
  <2>1. \A n \in BuiltIn, type \in FuncTypes :
          IsSymbol(GivenSymbol(n, type), n, 1) /\ GivenSymbol(n, type).type = type
    BY DEF GivenSymbol, IsSymbol, NameIn, Types
  <2> QED
    BY <1>5, <1>7, <2>1 DEF BuiltIn
<1>10. IsScope(s2, 1)
  <2>1. 1 \in 1 .. MaxDepth + 1
    BY Bounds
  <2> QED
    BY <1>5, <1>9, <2>1, MakesScope DEF AllNames
<1>11. IsTable(table)
  <2>1. << s2 >> \in Seq(Scope)
    BY <1>10 DEF IsScope
  <2>2. Len(table.scopes) \in 1 .. MaxDepth + 1
    BY <1>8, Bounds
  <2> QED
    BY <1>5, <1>6, <1>8, <1>10, <2>1, <2>2 DEF IsTable
<1> QED
  BY <1>5, <1>8, <1>9, <1>11

LEMMA InitIInv == Init => IInv
<1> SUFFICES ASSUME Init PROVE IInv
  OBVIOUS
<1>1. IsTable(table) /\ Len(table.scopes) = 1 /\ FuncsOutside(table)
  BY InitTable, FuncsOutsideInit
<1>2. operands = << >> /\ func = NoFunction /\ status = "checking" /\ defs = 0 /\ last = Nothing
  BY DEF Init
<1>3. CallsMatchDefinitions
  BY <1>2 DEF CallsMatchDefinitions, Nothing
<1>4. ~InFunction /\ ~(Len(table.scopes) > 1)
  BY <1>1, <1>2 DEF InFunction
<1>5. << >> \in Seq(OperandSet) /\ 0 \in 0 .. MaxDefs
  BY Bounds
<1> QED
  BY <1>1, <1>2, <1>3, <1>4, <1>5 DEF IInv

-----------------------------------------------------------------------------
(* The steps: definitions and blocks.                                      *)

LEMMA NothingIsNoCall ==
  ASSUME last' = Nothing
  PROVE  CallsMatchDefinitions'
BY DEF CallsMatchDefinitions, Nothing

LEMMA CountsBound ==
  ASSUME IInv, Counts
  PROVE  defs' \in 0 .. MaxDefs
BY Bounds DEF IInv, Counts

LEMMA OutsideFunctions ==
  ASSUME IInv, ~InFunction, status # "rejected"
  PROVE  Len(table.scopes) = 1
<1> DEFINE n == Len(table.scopes)
<1>1. ~(n > 1)
  BY DEF IInv
<1>2. n \in 1 .. MaxDepth + 1 /\ MaxDepth \in Nat
  BY TableNumbers DEF IInv
<1> HIDE DEF n
<1>3. n = 1
  BY <1>1, <1>2
<1> QED
  BY <1>3 DEF n

LEMMA FuncDefIInv ==
  ASSUME IInv, NEW name \in AllNames, NEW ret \in {IntType, VoidType},
         NEW k \in 0 .. MaxParams, NEW ps \in [1 .. k -> Param], FuncDef(name, ret, ps)
  PROVE  IInv'
<1> DEFINE type == FuncType(ret, [i \in DOMAIN ps |-> ParamType(ps[i])])
           u == AddParams(Declared(EnterScope(Declared(table, name, type)), name, type), ps)
<1>1. /\ ~InFunction /\ operands' = operands /\ status = "checking"
      /\ status' = (IF FindSymbol(table, name) = NoSymbol THEN "checking" ELSE "rejected")
      /\ table' = (IF status' = "checking" THEN u ELSE table)
      /\ func' = [name |-> name, type |-> type]
      /\ (last' = Nothing \/ last'.node = "FuncDef")
      /\ Counts
  BY DEF FuncDef, Check, Remember, Params, AtStatement, Declared
<1>2. /\ IsTable(table) /\ FuncsOutside(table) /\ Len(table.scopes) = 1
      /\ operands \in Seq(OperandSet)
  <2> HIDE DEF type, u
  <2>1. ~InFunction /\ status # "rejected"
    BY <1>1
  <2>2. Len(table.scopes) = 1
    BY <2>1, OutsideFunctions
  <2> QED
    BY <2>2 DEF IInv
<1>3. CallsMatchDefinitions'
  BY <1>1, NothingIsNoCall DEF CallsMatchDefinitions
<1>4. type \in FuncTypes
  BY FuncTypeOf
<1>5. CASE status' = "checking"
  <2>1. FindSymbol(table, name) = NoSymbol
    BY <1>1, <1>5
  <2>2. k \in Nat
    BY Bounds
  <2>3. IsTable(u) /\ FuncsOutside(u) /\ Len(u.scopes) = 2
    <3> HIDE DEF type
    <3> QED
      BY <1>2, <1>4, <2>1, <2>2, FuncDefTable
  <2>4. InFunction'
    <3>1. func'.type.class # NoFunction.type.class
      BY <1>1, <1>4, TypeClasses DEF IsFunc, NoFunction, VoidType, Prim
    <3> QED
      BY <3>1 DEF InFunction
  <2>5. IsTable(table') /\ FuncsOutside(table') /\ Len(table'.scopes) > 1
    <3> HIDE DEF u
    <3>1. table' = u
      BY <1>1, <1>5
    <3> QED
      BY <2>3, <3>1
  <2>6. operands' \in Seq(OperandSet) /\ defs' \in 0 .. MaxDefs
    BY <1>1, <1>2, CountsBound
  <2> QED
    BY <1>3, <1>5, <2>4, <2>5, <2>6 DEF IInv
<1>6. CASE status' # "checking"
  <2>1. table' = table /\ status' = "rejected"
    BY <1>1, <1>6
  <2>2. operands' \in Seq(OperandSet) /\ defs' \in 0 .. MaxDefs
    BY <1>1, <1>2, CountsBound
  <2> QED
    BY <1>2, <1>3, <2>1, <2>2 DEF IInv
<1> QED
  BY <1>5, <1>6

LEMMA LeaveScope ==
  ASSUME IInv, Len(table.scopes) > 1, table' = ExitScope(table)
  PROVE  /\ IsTable(table') /\ FuncsOutside(table')
         /\ Len(table'.scopes) = Len(table.scopes) - 1
<1>1. /\ IsTable(table') /\ Len(table'.scopes) = Len(table.scopes) - 1
      /\ \A i \in 1 .. Len(table.scopes) - 1 : table'.scopes[i] = table.scopes[i]
  BY ExitScopeTable DEF IInv
<1>2. Len(table.scopes) \in 1 .. MaxDepth + 1 /\ MaxDepth \in Nat
  BY TableNumbers DEF IInv
<1>3. FuncsOutside(table')
  BY <1>1, <1>2 DEF IInv, FuncsOutside
<1> QED
  BY <1>1, <1>3

LEMMA ExitIInv ==
  ASSUME IInv, EndFuncDef \/ ExitBlock
  PROVE  IInv'
<1>1. /\ Len(table.scopes) > 1 /\ table' = ExitScope(table) /\ InFunction
      /\ status = "checking" /\ status' = "checking" /\ last' = Nothing
      /\ operands' = operands /\ defs' = defs
      /\ \/ func' = NoFunction /\ Len(table.scopes) = 2
         \/ func' = func /\ Len(table.scopes) > 2
  BY DEF EndFuncDef, ExitBlock, Check
<1>2. /\ IsTable(table') /\ FuncsOutside(table')
      /\ Len(table'.scopes) = Len(table.scopes) - 1
  BY <1>1, LeaveScope
<1>3. Len(table.scopes) \in 1 .. MaxDepth + 1 /\ MaxDepth \in Nat
  BY TableNumbers DEF IInv
<1>4. InFunction' <=> Len(table'.scopes) > 1
  <2>1. CASE func' = NoFunction /\ Len(table.scopes) = 2
    BY <1>2, <2>1 DEF InFunction
  <2>2. CASE func' = func /\ Len(table.scopes) > 2
    <3>1. InFunction' /\ Len(table'.scopes) > 1
      BY <1>1, <1>2, <1>3, <2>2 DEF InFunction
    <3> QED
      BY <3>1
  <2> QED
    BY <1>1, <2>1, <2>2
<1> QED
  BY <1>1, <1>2, <1>4, NothingIsNoCall DEF IInv

LEMMA EnterBlockIInv ==
  ASSUME IInv, EnterBlock
  PROVE  IInv'
<1>1. /\ Len(table.scopes) <= MaxDepth /\ table' = EnterScope(table) /\ InFunction
      /\ status = "checking" /\ status' = "checking" /\ last' = Nothing
      /\ operands' = operands /\ func' = func /\ Counts
  BY DEF EnterBlock, Check
<1>2. Len(table.scopes) \in 1 .. MaxDepth + 1 /\ MaxDepth \in Nat
  BY TableNumbers DEF IInv
<1>3. /\ IsTable(table') /\ Len(table'.scopes) = Len(table.scopes) + 1
      /\ table'.scopes[Len(table.scopes) + 1] = << >>
      /\ \A i \in 1 .. Len(table.scopes) : table'.scopes[i] = table.scopes[i]
  BY <1>1, EnterScopeTable DEF IInv
<1>4. FuncsOutside(table')
  <2> SUFFICES ASSUME NEW i \in 1 .. Len(table'.scopes), NEW n \in DOMAIN table'.scopes[i],
                      IsFunc(table'.scopes[i][n].type)
               PROVE  /\ n \in DOMAIN table'.scopes[1]
                      /\ table'.scopes[1][n].type = table'.scopes[i][n].type
    BY DEF FuncsOutside
  <2>1. i # Len(table.scopes) + 1
    BY <1>3
  <2>2. i \in 1 .. Len(table.scopes) /\ 1 \in 1 .. Len(table.scopes)
    BY <1>2, <1>3, <2>1
  <2> QED
    BY <1>3, <2>2 DEF IInv, FuncsOutside
<1>5. InFunction' /\ Len(table'.scopes) > 1
  BY <1>1, <1>2, <1>3 DEF InFunction
<1> QED
  BY <1>1, <1>3, <1>4, <1>5, NothingIsNoCall, CountsBound DEF IInv

\* The table once a variable is declared.
LEMMA DeclareTable ==
  ASSUME NEW t, IsTable(t), FuncsOutside(t),
         NEW name \in AllNames, NEW type \in VarTypes, ~InCurrentScope(t, name),
         NEW u, u = Declared(t, name, type), NEW k, k = Len(t.scopes)
  PROVE  /\ IsTable(u) /\ FuncsOutside(u) /\ Len(u.scopes) = k
         /\ name \notin DOMAIN t.scopes[k]
         /\ DOMAIN u.scopes[k] = DOMAIN t.scopes[k] \cup {name}
         /\ u.scopes[k][name].type = type
         /\ \A m \in DOMAIN t.scopes[k] : u.scopes[k][m] = t.scopes[k][m]
         /\ \A i \in 1 .. k : i # k => u.scopes[i] = t.scopes[i]
<1>1. name \notin DOMAIN Current(t) /\ Current(t) = t.scopes[k] /\ type \in Types
  BY TableNumbers DEF InCurrentScope, Current, Types
<1>2. /\ IsTable(u) /\ Len(u.scopes) = k
      /\ DOMAIN u.scopes[k] = DOMAIN t.scopes[k] \cup {name}
      /\ u.scopes[k][name].type = type
      /\ \A m \in DOMAIN t.scopes[k] : u.scopes[k][m] = t.scopes[k][m]
      /\ \A i \in 1 .. k : i # k => u.scopes[i] = t.scopes[i]
  BY <1>1, AddSymbolTable
<1>3. k \in 1 .. k
  BY TableNumbers
<1>4. /\ DOMAIN t.scopes[1] \subseteq DOMAIN u.scopes[1]
      /\ \A m \in DOMAIN t.scopes[1] : u.scopes[1][m] = t.scopes[1][m]
  <2>1. CASE k = 1
    BY <1>2, <2>1
  <2>2. CASE k # 1
    <3>1. 1 \in 1 .. k
      BY TableNumbers
    <3> QED
      BY <1>2, <2>2, <3>1
  <2> QED
    BY <2>1, <2>2
<1>5. FuncsOutside(u)
  <2> SUFFICES ASSUME NEW i \in 1 .. k, NEW n \in DOMAIN u.scopes[i],
                      IsFunc(u.scopes[i][n].type)
               PROVE  n \in DOMAIN u.scopes[1] /\ u.scopes[1][n].type = u.scopes[i][n].type
    BY <1>2 DEF FuncsOutside
  <2>1. n \in DOMAIN t.scopes[i] /\ u.scopes[i][n] = t.scopes[i][n]
    <3>1. CASE i = k
      <4>1. n # name
        BY <1>2, <3>1, TypeClasses
      <4> QED
        BY <1>2, <3>1, <4>1
    <3>2. CASE i # k
      BY <1>2, <3>2
    <3> QED
      BY <3>1, <3>2
  <2>2. n \in DOMAIN t.scopes[1] /\ t.scopes[1][n].type = t.scopes[i][n].type
    BY <2>1 DEF FuncsOutside
  <2> QED
    BY <1>4, <2>1, <2>2
<1> QED
  BY <1>1, <1>2, <1>5

LEMMA DeclaredTypes ==
  ASSUME NEW dims \in VarDims
  PROVE  DeclType(dims) \in VarTypes
BY DEF VarTypes

LEMMA VarDefIInv ==
  ASSUME IInv, NEW name \in AllNames, NEW dims \in VarDims, VarDef(name, dims)
  PROVE  IInv'
<1>1. /\ status = "checking" /\ status' \in {"checking", "rejected"}
      /\ status' = "checking" => ~InCurrentScope(table, name)
      /\ table' = (IF status' = "checking" THEN Declared(table, name, DeclType(dims)) ELSE table)
      /\ operands' = << >> /\ last' = Nothing /\ func' = func /\ Counts
  BY DEF VarDef, Check, Declared
<1>2. CallsMatchDefinitions' /\ defs' \in 0 .. MaxDefs
  BY <1>1, NothingIsNoCall, CountsBound
<1>3. IsTable(table) /\ FuncsOutside(table) /\ (InFunction <=> Len(table.scopes) > 1)
  BY <1>1 DEF IInv
<1>4. /\ IsTable(table') /\ FuncsOutside(table')
      /\ Len(table'.scopes) = Len(table.scopes)
  <2>1. CASE status' = "checking"
    BY <1>1, <1>3, <2>1, DeclareTable, DeclaredTypes
  <2>2. CASE status' # "checking"
    BY <1>1, <1>3, <2>2
  <2> QED
    BY <2>1, <2>2
<1>5. operands' \in Seq(OperandSet)
  BY <1>1
<1>6. InFunction' <=> Len(table'.scopes) > 1
  BY <1>1, <1>3, <1>4 DEF InFunction
<1> QED
  BY <1>1, <1>2, <1>4, <1>5, <1>6 DEF IInv

-----------------------------------------------------------------------------
(* The steps: expressions and statements.                                  *)

\* A node that only looks at the table.
LEMMA ReadsIInv ==
  ASSUME IInv, Reads, status = "checking", status' \in {"checking", "rejected", "accepted"},
         operands' \in Seq(OperandSet), CallsMatchDefinitions'
  PROVE  IInv'
<1>1. table' = table /\ func' = func /\ defs' = defs
  BY DEF Reads
<1> QED
  BY <1>1 DEF IInv, InFunction

LEMMA Pushed ==
  ASSUME operands \in Seq(OperandSet), NEW n \in Nat, n <= Len(operands),
         NEW type \in OperandTypes, NEW lval \in BOOLEAN, Push(n, type, lval)
  PROVE  operands' \in Seq(OperandSet)
<1>1. Operand(type, lval) \in OperandSet
  BY DEF Operand, OperandSet
<1>2. Len(operands) - n \in 0 .. Len(operands)
  OBVIOUS
<1>3. SubSeq(operands, 1, Len(operands) - n) \in Seq(OperandSet)
  BY <1>2, FrontElements
<1> QED
  BY <1>1, <1>3, AppendedElements DEF Push

LEMMA IntConstIInv ==
  ASSUME IInv, IntConst
  PROVE  IInv'
<1>1. operands \in Seq(OperandSet)
  BY DEF IInv
<1>2. 0 \in Nat /\ 0 <= Len(operands) /\ IntType \in OperandTypes
  BY <1>1 DEF OperandTypes
<1>3. operands' \in Seq(OperandSet)
  BY <1>1, <1>2, Pushed DEF IntConst
<1>4. status = "checking" /\ status' = "checking" /\ Reads /\ last' = Nothing
  BY DEF IntConst, Check
<1> QED
  BY <1>3, <1>4, ReadsIInv, NothingIsNoCall

LEMMA IntExpIInv ==
  ASSUME IInv, NEW n \in Nat, IntExp(n)
  PROVE  IInv'
<1>1. operands \in Seq(OperandSet) /\ n <= Len(operands) /\ IntType \in OperandTypes
  BY DEF IInv, IntExp, OperandTypes
<1>2. operands' \in Seq(OperandSet)
  BY <1>1, Pushed DEF IntExp
<1>3. status = "checking" /\ status' \in {"checking", "rejected"} /\ Reads /\ last' = Nothing
  BY DEF IntExp, Check
<1> QED
  BY <1>2, <1>3, ReadsIInv, NothingIsNoCall

\* What a lookup finds, if it finds anything.
LEMMA FoundType ==
  ASSUME IsTable(table), FuncsOutside(table), NEW name,
         FindSymbol(table, name) # NoSymbol
  PROVE  LET type == FindSymbol(table, name).type IN
         /\ type \in Types
         /\ IsFunc(type) => name \in DOMAIN table.scopes[1]
                            /\ table.scopes[1][name].type = type
<1>1. Having(table, name) # {}
  BY NotFound
<1>2. PICK i \in Having(table, name) :
        /\ FindSymbol(table, name) = table.scopes[i][name]
        /\ IsSymbol(FindSymbol(table, name), name, i)
  BY <1>1, FoundSymbol
<1>3. i \in 1 .. Len(table.scopes) /\ name \in DOMAIN table.scopes[i]
  BY <1>2 DEF Having
<1> QED
  BY <1>2, <1>3 DEF IsSymbol, FuncsOutside

LEMMA LValIInv ==
  ASSUME IInv, NEW name, NEW n \in Nat, LVal(name, n)
  PROVE  IInv'
<1> DEFINE symbol == FindSymbol(table, name)
           dims == symbol.type.dims
<1>1. /\ IsTable(table) /\ FuncsOutside(table) /\ operands \in Seq(OperandSet)
      /\ n <= Len(operands)
  BY DEF IInv, LVal
<1>2. status = "checking" /\ status' \in {"checking", "rejected"} /\ Reads /\ last' = Nothing
  BY DEF LVal, Check
<1>3. CASE symbol = NoSymbol
  <2>1. operands' = operands
    BY <1>3 DEF LVal
  <2> QED
    BY <1>1, <1>2, <2>1, ReadsIInv, NothingIsNoCall
<1>4. CASE symbol # NoSymbol
  <2>1. symbol.type \in Types
    BY <1>1, <1>4, FoundType
  <2>2. CASE symbol.type.class = "ArrayType"
    <3>1. dims \in Seq(Nat)
      BY <2>1, <2>2, TypeClasses DEF Types
    <3>2. SubSeq(dims, n + 1, Len(dims)) \in Seq(Nat)
      <4> HIDE DEF dims
      <4> QED
        BY <3>1
    <3>3. Push(n, DeclType(SubSeq(dims, n + 1, Len(dims))), TRUE)
      BY <1>4, <2>2 DEF LVal
    <3>4. DeclType(SubSeq(dims, n + 1, Len(dims))) \in OperandTypes
      <4> HIDE DEF dims
      <4> QED
        BY <3>2, DeclTypes
    <3>5. operands' \in Seq(OperandSet)
      <4> HIDE DEF dims
      <4> QED
        BY <1>1, <3>3, <3>4, Pushed
    <3> QED
      BY <1>2, <3>5, ReadsIInv, NothingIsNoCall
  <2>3. CASE symbol.type.class # "ArrayType"
    <3>1. Push(n, symbol.type, TRUE)
      BY <1>4, <2>3 DEF LVal
    <3>2. symbol.type \in OperandTypes
      BY <2>1 DEF OperandTypes
    <3>3. operands' \in Seq(OperandSet)
      <4> HIDE DEF symbol
      <4> QED
        BY <1>1, <3>1, <3>2, Pushed
    <3> QED
      BY <1>2, <3>3, ReadsIInv, NothingIsNoCall
  <2> QED
    BY <2>2, <2>3
<1> QED
  BY <1>3, <1>4

\* The function called is the one defined outside, whatever scope it was found in.
LEMMA FuncCallIInv ==
  ASSUME IInv, NEW name, NEW n \in Nat, FuncCall(name, n)
  PROVE  IInv'
<1> DEFINE symbol == FindSymbol(table, name)
<1>1. /\ IsTable(table) /\ FuncsOutside(table) /\ operands \in Seq(OperandSet)
      /\ n <= Len(operands)
  BY DEF IInv, FuncCall
<1>2. status = "checking" /\ status' \in {"checking", "rejected"} /\ Reads
  BY DEF FuncCall, Check
<1>3. CASE symbol = NoSymbol \/ ~IsFunc(symbol.type)
  <2>1. operands' = operands /\ last' = Nothing
    BY <1>3 DEF FuncCall
  <2> QED
    BY <1>1, <1>2, <2>1, ReadsIInv, NothingIsNoCall
<1>4. CASE ~(symbol = NoSymbol \/ ~IsFunc(symbol.type))
  <2>1. /\ symbol.type \in Types /\ IsFunc(symbol.type)
        /\ name \in DOMAIN table.scopes[1] /\ table.scopes[1][name].type = symbol.type
    BY <1>1, <1>4, FoundType
  <2>2. symbol.type.ret \in OperandTypes
    BY <2>1, TypeClasses DEF Types, OperandTypes
  <2>3. /\ Check(/\ n = Len(symbol.type.params)
                 /\ \A i \in 1 .. n : Equals(Top(n)[i], symbol.type.params[i]))
        /\ Push(n, symbol.type.ret, FALSE)
        /\ Remember(Call(name, Top(n)))
    BY <1>4 DEF FuncCall
  <2>4. operands' \in Seq(OperandSet)
    <3> HIDE DEF symbol
    <3> QED
      BY <1>1, <2>2, <2>3, Pushed
  <2>5. CallsMatchDefinitions'
    <3>1. CASE status' = "checking"
      <4>1. /\ n = Len(symbol.type.params)
            /\ \A i \in 1 .. n : Equals(Top(n)[i], symbol.type.params[i])
        BY <2>3, <3>1 DEF Check
      <4>2. last' = [node |-> "FuncCall", name |-> name, args |-> Top(n)]
        BY <2>3, <3>1 DEF Remember, Call
      <4>3. Len(Top(n)) = n
        BY DEF Top
      <4>4. table' = table
        BY <1>2 DEF Reads
      <4> HIDE DEF symbol
      <4>5. /\ last'.name = name /\ last'.args = Top(n)
            /\ table'.scopes[1][last'.name].type = symbol.type
            /\ last'.name \in DOMAIN table'.scopes[1]
        BY <2>1, <4>2, <4>4
      <4> QED
        BY <2>1, <4>1, <4>3, <4>5 DEF CallsMatchDefinitions
    <3>2. CASE status' # "checking"
      BY <2>3, <3>2, NothingIsNoCall DEF Remember
    <3> QED
      BY <3>1, <3>2
  <2> QED
    BY <1>2, <2>4, <2>5, ReadsIInv
<1> QED
  BY <1>3, <1>4

LEMMA StmtIInv ==
  ASSUME IInv, AssignStmt \/ CondStmt \/ ExpStmt \/ \E entry \in LastEntries : ReturnStmt(entry)
  PROVE  IInv'
<1>1. /\ status = "checking" /\ status' \in {"checking", "rejected"}
      /\ Reads /\ operands' = << >>
      /\ (last' = Nothing \/ last'.node = "ReturnStmt")
  <2>1. CASE AssignStmt \/ CondStmt \/ ExpStmt
    BY <2>1 DEF AssignStmt, CondStmt, ExpStmt, Check
  <2>2. CASE \E entry \in LastEntries : ReturnStmt(entry)
    BY <2>2 DEF ReturnStmt, Check, Remember, Return
  <2> QED
    BY <2>1, <2>2
<1>2. CallsMatchDefinitions'
  BY <1>1, NothingIsNoCall DEF CallsMatchDefinitions
<1>3. operands' \in Seq(OperandSet)
  BY <1>1
<1> QED
  BY <1>1, <1>2, <1>3, ReadsIInv

LEMMA UnchangedIInv ==
  ASSUME IInv, Accept \/ UNCHANGED vars
  PROVE  IInv'
<1>1. /\ UNCHANGED << table, operands, func, defs, last >>
      /\ (status' = status \/ (status' = "accepted" /\ status = "checking"))
  BY DEF Accept, vars
<1> QED
  BY <1>1 DEF IInv, InFunction, CallsMatchDefinitions

LEMMA NextIInv == IInv /\ [Next]_vars => IInv'
<1> SUFFICES ASSUME IInv, [Next]_vars PROVE IInv'
  OBVIOUS
<1>1. ASSUME NEW name \in AllNames, NEW ret \in {IntType, VoidType}, NEW k \in 0 .. MaxParams,
             NEW ps \in [1 .. k -> Param], FuncDef(name, ret, ps)
      PROVE  IInv'
  BY <1>1, FuncDefIInv
<1>2. CASE EndFuncDef \/ ExitBlock
  BY <1>2, ExitIInv
<1>3. CASE EnterBlock
  BY <1>3, EnterBlockIInv
<1>4. ASSUME NEW name \in AllNames, NEW dims \in VarDims, VarDef(name, dims)
      PROVE  IInv'
  BY <1>4, VarDefIInv
<1>5. CASE IntConst
  BY <1>5, IntConstIInv
<1>6. ASSUME NEW name \in AllNames, NEW n \in 0 .. MaxOperands, LVal(name, n) \/ FuncCall(name, n)
      PROVE  IInv'
  <2>1. n \in Nat
    BY TypeCheckerAssumption
  <2> QED
    BY <1>6, <2>1, LValIInv, FuncCallIInv
<1>7. CASE UnaryExp \/ BinaryExp
  BY <1>7, IntExpIInv DEF UnaryExp, BinaryExp
<1>8. CASE AssignStmt \/ CondStmt \/ ExpStmt \/ \E entry \in LastEntries : ReturnStmt(entry)
  BY <1>8, StmtIInv
<1>9. CASE Accept \/ UNCHANGED vars
  BY <1>9, UnchangedIInv
<1> QED
  BY <1>1, <1>2, <1>3, <1>4, <1>5, <1>6, <1>7, <1>8, <1>9 DEF Next

LEMMA SpecIInv == Spec => []IInv
BY InitIInv, NextIInv, PTL DEF Spec

-----------------------------------------------------------------------------
(* What the invariant implies.                                             *)

LEMMA TableSymbols ==
  ASSUME NEW t, IsTable(t), NEW i \in 1 .. Len(t.scopes), NEW n \in DOMAIN t.scopes[i]
  PROVE  /\ n \in AllNames /\ i - 1 \in 0 .. MaxDepth
         /\ t.scopes[i][n] = [name |-> n, type |-> t.scopes[i][n].type, unique_name |-> NameIn(n, i)]
         /\ t.scopes[i][n].type \in Types
         /\ t.scopes[i][n].unique_name = NameIn(n, i)
<1>1. IsScope(t.scopes[i], i) /\ i - 1 \in 0 .. MaxDepth
  BY TableNumbers DEF IsTable
<1>2. DOMAIN t.scopes[i] \subseteq AllNames
  BY <1>1, ScopeNames DEF IsScope
<1>3. PICK s : s = t.scopes[i][n]
  OBVIOUS
<1>4. s = [name |-> n, type |-> s.type, unique_name |-> NameIn(n, i)] /\ s.type \in Types
  BY <1>1, <1>3 DEF IsScope, IsSymbol
<1>5. s.unique_name = NameIn(n, i)
  BY <1>4
<1> QED
  BY <1>1, <1>2, <1>3, <1>4, <1>5

\* Names, types and unique names stay in their sets, and the depth that unique
\* names are made from in the nesting of the program (symbol_table.cpp,
\* type_checker.cpp).
THEOREM TypeCorrect == Spec => []TypeOK
<1>1. IInv => TypeOK
  <2> SUFFICES ASSUME IInv PROVE TypeOK
    OBVIOUS
  <2>1. IsTable(table)
    BY DEF IInv
  <2>2. ASSUME NEW i \in 1 .. Len(table.scopes), NEW n \in DOMAIN table.scopes[i]
        PROVE  /\ n \in AllNames /\ table.scopes[i][n] \in Symbols
               /\ table.scopes[i][n].name = n
    <3> DEFINE s == table.scopes[i][n]
    <3>1. /\ n \in AllNames /\ i - 1 \in 0 .. MaxDepth /\ s.type \in Types
          /\ s = [name |-> n, type |-> s.type, unique_name |-> NameIn(n, i)]
      BY <2>1, TableSymbols
    <3>2. NameIn(n, i) \in BuiltIn \cup {UniqueName(m, d) : m \in AllNames, d \in 0 .. MaxDepth}
      BY <3>1 DEF NameIn
    <3> HIDE DEF s
    <3>3. s \in Symbols /\ s.name = n
      BY <3>1, <3>2 DEF Symbols, Types
    <3> QED
      BY <3>1, <3>3 DEF s
  <2>3. table.scope_depth \in 0 .. MaxDepth
    BY <2>1, TableNumbers
  <2>4. \A i \in 1 .. Len(operands) :
          /\ operands[i].lval \in BOOLEAN
          /\ operands[i].type.class \in {"PrimitiveType", "ArrayType", "FuncType"}
    <3>1. operands \in Seq(OperandSet)
      BY DEF IInv
    <3> QED
      BY <3>1, OperandClasses
  <2> QED
    BY <2>2, <2>3, <2>4 DEF IInv, TypeOK
<1> QED
  BY SpecIInv, <1>1, PTL

LEMMA NamesAtDepths ==
  ASSUME NEW m \in AllNames, NEW n \in AllNames, NEW i, NEW j,
         i \in 1 .. MaxDepth + 1, j \in 1 .. MaxDepth + 1, NameIn(m, i) = NameIn(n, j)
  PROVE  i = j /\ m = n
<1>1. i - 1 \in 0 .. MaxDepth /\ j - 1 \in 0 .. MaxDepth
  BY Bounds
<1>2. CASE i = 1 /\ m \in BuiltIn
  BY <1>1, <1>2, TypeCheckerAssumption DEF NameIn
<1>3. CASE j = 1 /\ n \in BuiltIn
  BY <1>1, <1>3, TypeCheckerAssumption DEF NameIn
<1>4. CASE ~(i = 1 /\ m \in BuiltIn) /\ ~(j = 1 /\ n \in BuiltIn)
  <2>1. UniqueName(m, i - 1) = UniqueName(n, j - 1)
    BY <1>4 DEF NameIn
  <2>2. m = n /\ i - 1 = j - 1
    BY <1>1, <2>1, TypeCheckerAssumption
  <2> QED
    BY <2>2, Bounds
<1> QED
  BY <1>2, <1>3, <1>4

\* Two symbols of the open scopes never share the unique name that the IR will
\* know them by: scope_depth has a different value in each (symbol_table.cpp,
\* add_symbol).
THEOREM LiveNamesStayDistinct == Spec => []LiveNamesDistinct
<1>1. IInv => LiveNamesDistinct
  <2> SUFFICES ASSUME IsTable(table),
                      NEW i \in 1 .. Len(table.scopes), NEW j \in 1 .. Len(table.scopes),
                      NEW m \in DOMAIN table.scopes[i], NEW n \in DOMAIN table.scopes[j],
                      table.scopes[i][m].unique_name = table.scopes[j][n].unique_name
               PROVE  i = j /\ m = n
    BY DEF IInv, LiveNamesDistinct
  <2>1. m \in AllNames /\ table.scopes[i][m].unique_name = NameIn(m, i)
    BY TableSymbols
  <2>2. n \in AllNames /\ table.scopes[j][n].unique_name = NameIn(n, j)
    BY TableSymbols
  <2>3. i \in 1 .. MaxDepth + 1 /\ j \in 1 .. MaxDepth + 1
    BY TableNumbers
  <2> QED
    BY <2>1, <2>2, <2>3, NamesAtDepths
<1> QED
  BY SpecIInv, <1>1, PTL

\* The names made at depth 0 are the globals, no more and no fewer, which is what
\* the translator decides between memory and registers by (symbol_table.cpp,
\* add_symbol; ir_translator.cpp, translateLVal).
THEOREM GlobalsNamedAtZero == Spec => []GlobalNamesAtZero
<1>1. IInv => GlobalNamesAtZero
  <2> SUFFICES ASSUME IsTable(table),
                      NEW i \in 1 .. Len(table.scopes), NEW n \in DOMAIN table.scopes[i],
                      i > 1 \/ n \notin BuiltIn
               PROVE  i = 1 <=> table.scopes[i][n].unique_name \in {UniqueName(m, 0) : m \in AllNames}
    BY DEF IInv, GlobalNamesAtZero
  <2>1. /\ n \in AllNames /\ i - 1 \in 0 .. MaxDepth
        /\ table.scopes[i][n].unique_name = NameIn(n, i)
    BY TableSymbols
  <2>2. NameIn(n, i) = UniqueName(n, i - 1)
    BY DEF NameIn
  <2>3. ASSUME NEW m \in AllNames, UniqueName(n, i - 1) = UniqueName(m, 0)
        PROVE  i = 1
    <3>1. 0 \in 0 .. MaxDepth
      BY Bounds
    <3>2. i - 1 = 0
      BY <2>1, <2>3, <3>1, TypeCheckerAssumption
    <3> QED
      BY <3>2
  <2>4. i = 1 => i - 1 = 0
    OBVIOUS
  <2> QED
    BY <2>1, <2>2, <2>3, <2>4
<1> QED
  BY SpecIInv, <1>1, PTL

\* A call that the checker lets pass agrees with the definition of the function,
\* however many scopes deep it stands (type_checker.cpp, checkFuncCall).
THEOREM CallsAlwaysMatch == Spec => []CallsMatchDefinitions
<1>1. IInv => CallsMatchDefinitions
  BY DEF IInv
<1> QED
  BY SpecIInv, <1>1, PTL

-----------------------------------------------------------------------------
(* The bindings of a table.                                                *)

BindingsIn(t, n) == [d \in {i - 1 : i \in Having(t, n)} |-> t.scopes[d + 1][n].type]

LEMMA BindingsAre ==
  ASSUME NEW n
  PROVE  /\ Bindings(n) = BindingsIn(table, n)
         /\ Bindings(n)' = BindingsIn(table', n)
BY DEF Bindings, BindingsIn, Having

LEMMA BindingDepths ==
  ASSUME NEW t, NEW n
  PROVE  /\ DOMAIN BindingsIn(t, n) = {i - 1 : i \in Having(t, n)}
         /\ \A i \in Having(t, n) : BindingsIn(t, n)[i - 1] = t.scopes[i][n].type
<1> SUFFICES ASSUME NEW i \in Having(t, n)
             PROVE  BindingsIn(t, n)[i - 1] = t.scopes[i][n].type
  BY DEF BindingsIn
<1>1. i \in Int
  BY DEF Having
<1>2. (i - 1) + 1 = i
  BY <1>1
<1> QED
  BY <1>2 DEF BindingsIn

LEMMA SameBindings ==
  ASSUME NEW t, NEW u, NEW n, Having(u, n) = Having(t, n),
         \A i \in Having(t, n) : u.scopes[i][n].type = t.scopes[i][n].type
  PROVE  BindingsIn(u, n) = BindingsIn(t, n)
<1>1. \A d \in {i - 1 : i \in Having(t, n)} : d + 1 \in Having(t, n)
  BY DEF Having
<1> QED
  BY <1>1 DEF BindingsIn

\* u is t with n declared in the k-th scope too.
Gains(t, u, n, k, type) ==
  /\ Having(u, n) = Having(t, n) \cup {k} /\ k \notin Having(t, n)
  /\ u.scopes[k][n].type = type
  /\ \A i \in Having(t, n) : u.scopes[i][n].type = t.scopes[i][n].type

LEMMA OneBindingMore ==
  ASSUME NEW t, NEW u, NEW n, NEW k \in Nat, NEW type, Gains(t, u, n, k, type)
  PROVE  BindingsIn(u, n) = Lex!With(BindingsIn(t, n), k - 1, type)
<1>0. /\ Having(u, n) = Having(t, n) \cup {k} /\ k \notin Having(t, n)
      /\ u.scopes[k][n].type = type
      /\ \A i \in Having(t, n) : u.scopes[i][n].type = t.scopes[i][n].type
  BY DEF Gains
<1>1. \A d \in {i - 1 : i \in Having(t, n)} : d + 1 \in Having(t, n) /\ d # k - 1
  BY <1>0 DEF Having
<1>2. {i - 1 : i \in Having(t, n) \cup {k}} = {i - 1 : i \in Having(t, n)} \cup {k - 1}
  OBVIOUS
<1>3. (k - 1) + 1 = k
  OBVIOUS
<1>4. DOMAIN BindingsIn(t, n) = {i - 1 : i \in Having(t, n)}
  BY BindingDepths
<1>5. ASSUME NEW d \in {i - 1 : i \in Having(t, n)} \cup {k - 1}
      PROVE  u.scopes[d + 1][n].type = IF d = k - 1 THEN type ELSE BindingsIn(t, n)[d]
  <2>1. CASE d = k - 1
    BY <1>0, <1>3, <2>1
  <2>2. CASE d # k - 1
    BY <1>0, <1>1, <2>2 DEF BindingsIn
  <2> QED
    BY <2>1, <2>2
<1> QED
  BY <1>0, <1>2, <1>4, <1>5 DEF BindingsIn, Lex!With

LEMMA BindingsBelow ==
  ASSUME NEW t, NEW u, NEW n, NEW k \in Nat,
         Having(t, n) \subseteq 1 .. k, Having(u, n) = Having(t, n) \ {k},
         \A i \in Having(u, n) : u.scopes[i][n].type = t.scopes[i][n].type
  PROVE  BindingsIn(u, n) = Lex!Below(BindingsIn(t, n), k - 1)
<1> DEFINE T == {i - 1 : i \in Having(t, n)}
           U == {i - 1 : i \in Having(u, n)}
<1>1. U = {d \in T : d < k - 1}
  OBVIOUS
<1>2. \A d \in U : d + 1 \in Having(u, n)
  BY DEF Having
<1>3. DOMAIN BindingsIn(t, n) = T
  BY BindingDepths
<1>4. \A d \in U : u.scopes[d + 1][n].type = BindingsIn(t, n)[d]
  BY <1>1, <1>2 DEF BindingsIn
<1> HIDE DEF T
<1>5. BindingsIn(u, n) = [d \in U |-> BindingsIn(t, n)[d]]
  BY <1>4 DEF BindingsIn
<1> QED
  BY <1>1, <1>3, <1>5 DEF Lex!Below

LEMMA BoundNames ==
  ASSUME NEW n \in AllNames
  PROVE  Lex!Bound(n) <=> Having(table, n) # {}
<1>1. Lex!Bound(n) <=> DOMAIN Bindings(n) # {}
  BY DEF Lex!Bound
<1>2. DOMAIN Bindings(n) = {i - 1 : i \in Having(table, n)}
  BY BindingsAre, BindingDepths
<1>3. {i - 1 : i \in Having(table, n)} # {} <=> Having(table, n) # {}
  OBVIOUS
<1> QED
  BY <1>1, <1>2, <1>3

\* A lookup goes from the innermost scope outwards, and finds the innermost
\* binding of a name, or nothing when there is none (symbol_table.cpp,
\* find_symbol).
THEOREM LookupsInnermost == Spec => []LookupInnermost
<1>1. IInv => LookupInnermost
  <2> SUFFICES ASSUME IsTable(table), NEW n \in AllNames
               PROVE  IF Lex!Bound(n) THEN FindSymbol(table, n).type = Lex!Meaning(n)
                                      ELSE FindSymbol(table, n) = NoSymbol
    BY DEF IInv, LookupInnermost
  <2>1. CASE Having(table, n) = {}
    BY <2>1, BoundNames, NotFound
  <2>2. CASE Having(table, n) # {}
    <3>1. PICK i \in Having(table, n) :
            /\ \A j \in Having(table, n) : j <= i
            /\ FindSymbol(table, n) = table.scopes[i][n]
      BY <2>2, FoundSymbol
    <3> DEFINE D == {j - 1 : j \in Having(table, n)}
    <3>2. i - 1 \in D /\ \A d \in D : d <= i - 1
      BY <3>1 DEF Having
    <3>3. \A d \in D : (\A e \in D : e <= d) => d = i - 1
      <4>1. D \subseteq Int
        BY DEF Having
      <4> HIDE DEF D
      <4>2. i - 1 \in Int
        BY <3>2, <4>1
      <4> QED
        BY <3>2, <4>1, <4>2
    <3>4. (CHOOSE d \in D : \A e \in D : e <= d) = i - 1
      <4> HIDE DEF D
      <4> QED
        BY <3>2, <3>3
    <3>5. Lex!Innermost(n) = i - 1
      BY <3>4, BindingsAre, BindingDepths DEF Lex!Innermost
    <3>6. Lex!Meaning(n) = table.scopes[i][n].type
      BY <3>1, <3>5, BindingsAre, BindingDepths DEF Lex!Meaning
    <3> QED
      BY <2>2, <3>1, <3>6, BoundNames
  <2> QED
    BY <2>1, <2>2
<1> QED
  BY SpecIInv, <1>1, PTL

-----------------------------------------------------------------------------
(* The scopes of the table implement lexical scopes.                       *)

Env(t) == [n \in AllNames |-> BindingsIn(t, n)]

LEMMA EnvIs ==
  /\ [n \in AllNames |-> Bindings(n)] = Env(table)
  /\ [n \in AllNames |-> Bindings(n)]' = Env(table')
BY BindingsAre DEF Env

LEMMA SameScopes ==
  ASSUME table' = table
  PROVE  UNCHANGED Lex!vars
<1>1. Env(table') = Env(table)
  OBVIOUS
<1>2. table'.scope_depth = table.scope_depth
  OBVIOUS
<1> QED
  BY <1>1, <1>2, EnvIs DEF Lex!vars

LEMMA CloseRefines ==
  ASSUME IInv, EndFuncDef \/ ExitBlock
  PROVE  Lex!Close
<1> DEFINE k == Len(table.scopes)
<1>1. k > 1 /\ table' = ExitScope(table)
  <2>1. (k = 2 \/ k > 2) /\ table' = ExitScope(table)
    BY DEF EndFuncDef, ExitBlock
  <2> HIDE DEF k
  <2>2. k = 2 => k > 1
    OBVIOUS
  <2>3. k > 2 => k > 1
    <3>1. k \in Nat
      BY TableNumbers DEF IInv, k
    <3> QED
      BY <3>1
  <2> QED
    BY <2>1, <2>2, <2>3
<1>2. IsTable(table)
  BY DEF IInv
<1>3. /\ IsTable(table') /\ Len(table'.scopes) = k - 1
      /\ \A i \in 1 .. k - 1 : table'.scopes[i] = table.scopes[i]
  BY <1>1, <1>2, ExitScopeTable
<1>4. k \in Nat /\ table.scope_depth = k - 1 /\ table'.scope_depth = (k - 1) - 1
  BY <1>2, <1>3, TableNumbers
<1>5. ASSUME NEW n \in AllNames
      PROVE  BindingsIn(table', n) = Lex!Below(BindingsIn(table, n), k - 1)
  <2>1. Having(table, n) \subseteq 1 .. k
    BY DEF Having
  <2>2. Having(table', n) = Having(table, n) \ {k}
    <3> HIDE DEF k
    <3>1. Having(table', n) = {i \in 1 .. k - 1 : n \in DOMAIN table.scopes[i]}
      BY <1>3 DEF Having
    <3>2. Having(table, n) = {i \in 1 .. k : n \in DOMAIN table.scopes[i]}
      BY DEF Having, k
    <3> QED
      BY <1>4, <3>1, <3>2
  <2>3. \A i \in Having(table', n) : table'.scopes[i][n].type = table.scopes[i][n].type
    BY <1>3 DEF Having
  <2> HIDE DEF k
  <2> QED
    BY <1>4, <2>1, <2>2, <2>3, BindingsBelow
<1>6. Env(table') = [n \in AllNames |-> Lex!Below(Env(table)[n], table.scope_depth)]
  BY <1>4, <1>5 DEF Env
<1> QED
  BY <1>1, <1>4, <1>6, EnvIs DEF Lex!Close

LEMMA OpenRefines ==
  ASSUME IInv, EnterBlock
  PROVE  Lex!Open
<1> DEFINE k == Len(table.scopes)
<1>1. k <= MaxDepth /\ table' = EnterScope(table) /\ IsTable(table)
  BY DEF EnterBlock, IInv
<1>2. /\ IsTable(table') /\ Len(table'.scopes) = k + 1
      /\ table'.scopes[k + 1] = << >>
      /\ \A i \in 1 .. k : table'.scopes[i] = table.scopes[i]
  BY <1>1, EnterScopeTable
<1>3. k \in Nat /\ table.scope_depth = k - 1 /\ table'.scope_depth = (k + 1) - 1
  BY <1>1, <1>2, TableNumbers
<1>4. ASSUME NEW n \in AllNames
      PROVE  BindingsIn(table', n) = BindingsIn(table, n)
  <2>1. Having(table', n) = Having(table, n)
    <3>1. n \notin DOMAIN << >>
      OBVIOUS
    <3>2. \A i \in 1 .. k + 1 : i \in 1 .. k \/ i = k + 1
      BY <1>3
    <3> HIDE DEF k
    <3>3. \A i \in 1 .. k : i \in 1 .. k + 1
      BY <1>3
    <3>4. Having(table', n) = {i \in 1 .. k + 1 : n \in DOMAIN table'.scopes[i]}
      BY <1>2 DEF Having
    <3>5. Having(table, n) = {i \in 1 .. k : n \in DOMAIN table.scopes[i]}
      BY DEF Having, k
    <3> QED
      BY <1>2, <3>1, <3>2, <3>3, <3>4, <3>5
  <2>2. \A i \in Having(table, n) : table'.scopes[i][n].type = table.scopes[i][n].type
    BY <1>2 DEF Having
  <2> QED
    BY <2>1, <2>2, SameBindings
<1>5. Env(table') = Env(table)
  BY <1>4 DEF Env
<1>6. table'.scope_depth = table.scope_depth + 1
  BY <1>3
<1> QED
  BY <1>5, <1>6, EnvIs DEF Lex!Open

LEMMA VarDefRefines ==
  ASSUME IInv, NEW name \in AllNames, NEW dims \in VarDims, VarDef(name, dims)
  PROVE  Lex!Declare(name) \/ UNCHANGED Lex!vars
<1> DEFINE type == DeclType(dims)
           k == Len(table.scopes)
<1>1. /\ status' = "checking" => ~InCurrentScope(table, name)
      /\ table' = (IF status' = "checking" THEN Declared(table, name, type) ELSE table)
  BY DEF VarDef, Check, Declared
<1>2. CASE status' # "checking"
  BY <1>1, <1>2, SameScopes
<1>3. CASE status' = "checking"
  <2>1. IsTable(table) /\ FuncsOutside(table) /\ type \in VarTypes
    BY DeclaredTypes DEF IInv
  <2> HIDE DEF type
  <2>2. /\ IsTable(table') /\ Len(table'.scopes) = k
        /\ name \notin DOMAIN table.scopes[k]
        /\ DOMAIN table'.scopes[k] = DOMAIN table.scopes[k] \cup {name}
        /\ table'.scopes[k][name].type = type
        /\ \A m \in DOMAIN table.scopes[k] : table'.scopes[k][m] = table.scopes[k][m]
        /\ \A i \in 1 .. k : i # k => table'.scopes[i] = table.scopes[i]
    BY <1>1, <1>3, <2>1, DeclareTable
  <2>3. k \in Nat /\ k \in 1 .. k /\ table.scope_depth = k - 1 /\ table'.scope_depth = k - 1
    BY <2>1, <2>2, TableNumbers
  <2>4. \A n \in AllNames : Having(table, n) = {i \in 1 .. k : n \in DOMAIN table.scopes[i]}
                            /\ Having(table', n) = {i \in 1 .. k : n \in DOMAIN table'.scopes[i]}
    BY <2>2 DEF Having
  <2> HIDE DEF k
  <2>5. BindingsIn(table', name) = Lex!With(BindingsIn(table, name), k - 1, type)
    <3>1. Having(table', name) = Having(table, name) \cup {k} /\ k \notin Having(table, name)
      BY <2>2, <2>3, <2>4
    <3>2. \A i \in Having(table, name) : table'.scopes[i][name].type = table.scopes[i][name].type
      BY <2>2, <2>4
    <3>3. k \in Nat /\ Gains(table, table', name, k, type)
      BY <2>2, <2>3, <3>1, <3>2 DEF Gains
    <3> QED
      BY <3>3, OneBindingMore
  <2>6. ASSUME NEW n \in AllNames, n # name
        PROVE  BindingsIn(table', n) = BindingsIn(table, n)
    <3>1. \A i \in 1 .. k : n \in DOMAIN table'.scopes[i] <=> n \in DOMAIN table.scopes[i]
      BY <2>2, <2>6
    <3>2. Having(table', n) = Having(table, n)
      BY <2>4, <3>1
    <3>3. \A i \in Having(table, n) : table'.scopes[i][n].type = table.scopes[i][n].type
      BY <2>2, <2>4
    <3> QED
      BY <3>2, <3>3, SameBindings
  <2>7. k - 1 \notin DOMAIN BindingsIn(table, name)
    <3>1. \A i \in Having(table, name) : i \in Int /\ i # k
      BY <2>2, <2>4
    <3>2. \A i \in Having(table, name) : i - 1 # k - 1
      BY <2>3, <3>1
    <3>3. DOMAIN BindingsIn(table, name) = {i - 1 : i \in Having(table, name)}
      BY BindingDepths
    <3> QED
      BY <3>2, <3>3
  <2>8. Env(table') = [Env(table) EXCEPT ![name] = Lex!With(@, table.scope_depth, type)]
    BY <2>3, <2>5, <2>6 DEF Env
  <2>9. table.scope_depth \notin DOMAIN Env(table)[name]
    BY <2>3, <2>7 DEF Env
  <2> QED
    BY <2>1, <2>3, <2>8, <2>9, EnvIs DEF Lex!Declare
<1> QED
  BY <1>2, <1>3

LEMMA HavingOne ==
  ASSUME NEW t, Len(t.scopes) = 1, NEW n
  PROVE  Having(t, n) = IF n \in DOMAIN t.scopes[1] THEN {1} ELSE {}
BY DEF Having

LEMMA HavingTwo ==
  ASSUME NEW t, Len(t.scopes) = 2, NEW n
  PROVE  /\ Having(t, n) \subseteq {1, 2}
         /\ 1 \in Having(t, n) <=> n \in DOMAIN t.scopes[1]
         /\ 2 \in Having(t, n) <=> n \in DOMAIN t.scopes[2]
<1>1. 1 .. 2 = {1, 2}
  OBVIOUS
<1> QED
  BY <1>1 DEF Having

\* The function is bound at both depths, a parameter inside only, even one that
\* has the name of another function.
LEMMA FuncDefRefines ==
  ASSUME IInv, NEW name \in AllNames, NEW ret \in {IntType, VoidType},
         NEW k \in 0 .. MaxParams, NEW ps \in [1 .. k -> Param], FuncDef(name, ret, ps)
  PROVE  Lex!OpenFunction(name) \/ UNCHANGED Lex!vars
<1> DEFINE type == FuncType(ret, [i \in DOMAIN ps |-> ParamType(ps[i])])
           u == AddParams(Declared(EnterScope(Declared(table, name, type)), name, type), ps)
<1>1. /\ ~InFunction /\ status = "checking"
      /\ status' = "checking" => FindSymbol(table, name) = NoSymbol
      /\ table' = (IF status' = "checking" THEN u ELSE table)
  BY DEF FuncDef, Check, Declared
<1>2. CASE status' # "checking"
  BY <1>1, <1>2, SameScopes
<1>3. CASE status' = "checking"
  <2>1. /\ IsTable(table) /\ FuncsOutside(table) /\ Len(table.scopes) = 1
        /\ type \in FuncTypes /\ k \in Nat /\ FindSymbol(table, name) = NoSymbol
    <3>1. ~InFunction /\ status # "rejected"
      BY <1>1
    <3> HIDE DEF type, u
    <3>2. type \in FuncTypes
      BY FuncTypeOf DEF type
    <3> QED
      BY <1>1, <1>3, <3>1, <3>2, OutsideFunctions, Bounds DEF IInv
  <2>2. table' = u
    BY <1>1, <1>3
  <2> HIDE DEF type
  <2>3. /\ IsTable(table') /\ Len(table'.scopes) = 2
        /\ name \notin DOMAIN table.scopes[1]
        /\ DOMAIN table'.scopes[1] = DOMAIN table.scopes[1] \cup {name}
        /\ \A n \in DOMAIN table.scopes[1] : table'.scopes[1][n] = table.scopes[1][n]
        /\ table'.scopes[1][name].type = type
        /\ name \in DOMAIN table'.scopes[2] /\ table'.scopes[2][name].type = type
        /\ \A n \in DOMAIN table'.scopes[2] \ {name} : table'.scopes[2][n].type \in VarTypes
    BY <2>1, <2>2, FuncDefTable
  <2> HIDE DEF u
  <2>4. table.scope_depth = 0 /\ table'.scope_depth = 1
    <3>1. table.scope_depth = Len(table.scopes) - 1 /\ table'.scope_depth = Len(table'.scopes) - 1
      BY <2>1, <2>3, TableNumbers
    <3>2. Len(table.scopes) = 1 /\ Len(table'.scopes) = 2
      BY <2>1, <2>3
    <3> QED
      BY <3>1, <3>2
  <2>5. BindingsIn(table, name) = [d \in {} |-> type] /\ ~Lex!Bound(name)
    <3>1. Having(table, name) = {}
      BY <2>1, <2>3, HavingOne
    <3> QED
      BY <3>1, BoundNames DEF BindingsIn
  <2>6. BindingsIn(table', name) = [d \in {0, 1} |-> type]
    <3>1. Having(table', name) = {1, 2}
      BY <2>3, HavingTwo
    <3>2. {i - 1 : i \in {1, 2}} = {0, 1}
      OBVIOUS
    <3>3. 0 + 1 = 1 /\ 1 + 1 = 2
      OBVIOUS
    <3> QED
      BY <2>3, <3>1, <3>2, <3>3 DEF BindingsIn
  <2>7. ASSUME NEW n \in AllNames \ {name}
        PROVE  \/ BindingsIn(table', n) = BindingsIn(table, n)
               \/ \E t \in VarTypes : BindingsIn(table', n) = Lex!With(BindingsIn(table, n), 1, t)
    <3>1. Having(table, n) = (IF n \in DOMAIN table.scopes[1] THEN {1} ELSE {})
      BY <2>1, HavingOne
    <3>2. /\ Having(table', n) \subseteq {1, 2}
          /\ 1 \in Having(table', n) <=> n \in DOMAIN table.scopes[1]
          /\ 2 \in Having(table', n) <=> n \in DOMAIN table'.scopes[2]
      BY <2>3, HavingTwo
    <3>3. \A i \in Having(table, n) : table'.scopes[i][n].type = table.scopes[i][n].type
      BY <2>3, <3>1
    <3>4. CASE n \in DOMAIN table'.scopes[2]
      <4> DEFINE t == table'.scopes[2][n].type
      <4>1. t \in VarTypes
        BY <2>3, <3>4
      <4>2. Having(table', n) = Having(table, n) \cup {2} /\ 2 \notin Having(table, n)
        BY <3>1, <3>2, <3>4
      <4>3. Gains(table, table', n, 2, t)
        BY <3>3, <4>2 DEF Gains
      <4> HIDE DEF t
      <4>4. BindingsIn(table', n) = Lex!With(BindingsIn(table, n), 2 - 1, t)
        BY <4>3, OneBindingMore
      <4> QED
        BY <4>1, <4>4
    <3>5. CASE n \notin DOMAIN table'.scopes[2]
      <4>1. Having(table', n) = Having(table, n)
        BY <3>1, <3>2, <3>5
      <4> QED
        BY <3>3, <4>1, SameBindings
    <3> QED
      BY <3>4, <3>5
  <2>8. /\ DOMAIN Env(table') = AllNames /\ Env(table')[name] = [d \in {0, 1} |-> type]
        /\ \A n \in AllNames \ {name} :
             \/ Env(table')[n] = Env(table)[n]
             \/ \E t \in VarTypes : Env(table')[n] = Lex!With(Env(table)[n], 1, t)
    BY <2>6, <2>7 DEF Env
  <2> QED
    BY <2>1, <2>4, <2>5, <2>8, EnvIs DEF Lex!OpenFunction
<1> QED
  BY <1>2, <1>3

LEMMA InitRefines == Init => Lex!Init
<1> SUFFICES ASSUME Init PROVE Lex!Init
  OBVIOUS
<1>1. /\ IsTable(table) /\ Len(table.scopes) = 1 /\ DOMAIN table.scopes[1] = BuiltIn
      /\ \A n \in BuiltIn : table.scopes[1][n].type \in FuncTypes
  BY InitTable
<1>2. table.scope_depth = 0
  <2>1. table.scope_depth = Len(table.scopes) - 1 /\ Len(table.scopes) = 1
    BY <1>1, TableNumbers
  <2> QED
    BY <2>1
<1>3. ASSUME NEW n \in AllNames
      PROVE  BindingsIn(table, n) \in [{} -> FuncTypes] \cup [{0} -> FuncTypes]
  <2>1. CASE n \in BuiltIn
    <3>1. Having(table, n) = {1}
      BY <1>1, <2>1, HavingOne
    <3>2. {i - 1 : i \in {1}} = {0} /\ 0 + 1 = 1
      OBVIOUS
    <3>3. BindingsIn(table, n) = [d \in {0} |-> table.scopes[d + 1][n].type]
      BY <3>1, <3>2 DEF BindingsIn
    <3> QED
      BY <1>1, <2>1, <3>2, <3>3
  <2>2. CASE n \notin BuiltIn
    <3>1. Having(table, n) = {}
      BY <1>1, <2>2, HavingOne
    <3> QED
      BY <3>1 DEF BindingsIn
  <2> QED
    BY <2>1, <2>2
<1>4. Env(table) \in [AllNames -> [{} -> FuncTypes] \cup [{0} -> FuncTypes]]
  BY <1>3 DEF Env
<1> QED
  BY <1>2, <1>4, EnvIs DEF Lex!Init

\* The scopes of the table, with functions bound twice and parameters in the scope
\* of the function, implement lexical scoping (symbol_table.cpp; type_checker.cpp,
\* checkFuncDef, checkBlock, checkVarDef).
THEOREM TableImplementsScopes == Spec => ImplementsScopes
<1>1. IInv /\ [Next]_vars => [Lex!Next]_(Lex!vars)
  <2> SUFFICES ASSUME IInv, [Next]_vars
               PROVE  Lex!Next \/ UNCHANGED Lex!vars
    OBVIOUS
  <2>1. ASSUME NEW name \in AllNames, NEW ret \in {IntType, VoidType}, NEW k \in 0 .. MaxParams,
               NEW ps \in [1 .. k -> Param], FuncDef(name, ret, ps)
        PROVE  Lex!Next \/ UNCHANGED Lex!vars
    BY <2>1, FuncDefRefines DEF Lex!Next
  <2>2. CASE EndFuncDef \/ ExitBlock
    BY <2>2, CloseRefines DEF Lex!Next
  <2>3. CASE EnterBlock
    BY <2>3, OpenRefines DEF Lex!Next
  <2>4. ASSUME NEW name \in AllNames, NEW dims \in VarDims, VarDef(name, dims)
        PROVE  Lex!Next \/ UNCHANGED Lex!vars
    BY <2>4, VarDefRefines DEF Lex!Next
  <2>5. ASSUME NEW name \in AllNames, NEW n \in 0 .. MaxOperands, LVal(name, n) \/ FuncCall(name, n)
        PROVE  UNCHANGED Lex!vars
    BY <2>5, SameScopes DEF LVal, FuncCall, Reads
  <2>6. CASE IntConst \/ UnaryExp \/ BinaryExp
    BY <2>6, SameScopes DEF IntConst, UnaryExp, BinaryExp, IntExp, Reads
  <2>7. CASE AssignStmt \/ CondStmt \/ ExpStmt \/ \E entry \in LastEntries : ReturnStmt(entry)
    BY <2>7, SameScopes DEF AssignStmt, CondStmt, ExpStmt, ReturnStmt, Reads
  <2>8. CASE Accept \/ UNCHANGED vars
    BY <2>8, SameScopes DEF Accept, vars
  <2> QED
    BY <2>1, <2>2, <2>3, <2>4, <2>5, <2>6, <2>7, <2>8 DEF Next
<1> QED
  BY InitRefines, InitIInv, NextIInv, <1>1, PTL DEF Spec, ImplementsScopes, Lex!Spec
=============================================================================
