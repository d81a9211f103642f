---------------------------- MODULE SymbolTable ----------------------------
(***************************************************************************)
(* The symbol table of semantic/symbol_table.cpp: a stack of scopes, each  *)
(* a map from names to symbols, and the depth the names of locals are made *)
(* from.  A table is a record; its operations return the table after them. *)
(***************************************************************************)
EXTENDS Integers, Sequences

\* name + "_in_" + std::to_string(scope_depth)
CONSTANT UniqueName(_, _)

\* No symbol: nullptr in the code.
NoSymbol == [name |-> "nullptr"]

\* A table as SymbolTable's constructor leaves it.
NewTable == [scopes |-> << >>, scope_depth |-> -1]

EnterScope(table) ==
  [scopes      |-> Append(table.scopes, << >>),
   scope_depth |-> table.scope_depth + 1]

\* Mutant of ExitScope: scope_depth stays.
ExitScopeDepthKept(table) ==
  IF table.scopes = << >>
    THEN table
    ELSE [table EXCEPT !.scopes = SubSeq(@, 1, Len(@) - 1)]

ExitScope(table) ==
  IF table.scopes = << >>
    THEN table
    ELSE [scopes      |-> SubSeq(table.scopes, 1, Len(table.scopes) - 1),
          scope_depth |-> table.scope_depth - 1]

Current(table) == table.scopes[Len(table.scopes)]

\* The scope once name is bound to symbol in it.
BindIn(scope, name, symbol) ==
  [n \in DOMAIN scope \cup {name} |-> IF n = name THEN symbol ELSE scope[n]]

\* Mutant of NewSymbol: the depth is not part of the unique name.
NewSymbolFlat(table, name, type, is_defined) ==
  [name        |-> name,
   type        |-> type,
   unique_name |-> IF is_defined THEN name ELSE UniqueName(name, 0)]

NewSymbol(table, name, type, is_defined) ==
  [name        |-> name,
   type        |-> type,
   unique_name |-> IF is_defined THEN name ELSE UniqueName(name, table.scope_depth)]

\* A name already in the current scope stays what it is; add_symbol returns
\* nullptr then.
AddSymbol(table, name, type, is_defined) ==
  LET t == IF table.scopes = << >> THEN EnterScope(table) ELSE table
  IN  IF name \in DOMAIN Current(t)
        THEN t
        ELSE [t EXCEPT !.scopes[Len(t.scopes)] =
                BindIn(@, name, NewSymbol(t, name, type, is_defined))]

InCurrentScope(table, name) ==
  table.scopes # << >> /\ name \in DOMAIN Current(table)

\* Mutant of FindSymbol: scopes are searched from the outermost inwards.
FindSymbolOutermost(table, name) ==
  LET found == {i \in 1 .. Len(table.scopes) : name \in DOMAIN table.scopes[i]}
  IN  IF found = {}
        THEN NoSymbol
        ELSE table.scopes[CHOOSE i \in found : \A j \in found : i <= j][name]

\* Scopes are searched from the innermost outwards.
FindSymbol(table, name) ==
  LET found == {i \in 1 .. Len(table.scopes) : name \in DOMAIN table.scopes[i]}
  IN  IF found = {}
        THEN NoSymbol
        ELSE table.scopes[CHOOSE i \in found : \A j \in found : j <= i][name]
=============================================================================
