--------------------------- MODULE LexicalScopes ---------------------------
(***************************************************************************)
(* What a symbol table promises, without its scopes: every name has        *)
(* bindings, at most one at each depth, the deepest one is what the name   *)
(* means, and closing a scope takes away the bindings made in it and no    *)
(* others.                                                                 *)
(***************************************************************************)
EXTENDS Integers

CONSTANTS Names,      \* identifiers
          VarTypes,   \* what variables and parameters are declared as
          FuncTypes   \* what functions are declared as

VARIABLES env,      \* of every name, the types it is bound to, by depth
          depth     \* how many scopes are open inside the outermost one

vars == << env, depth >>

\* The bindings with one more.
With(bindings, d, type) ==
  [e \in DOMAIN bindings \cup {d} |-> IF e = d THEN type ELSE bindings[e]]

\* The bindings above a depth are gone.
Below(bindings, d) == [e \in {c \in DOMAIN bindings : c < d} |-> bindings[e]]

Bound(n) == DOMAIN env[n] # {}

\* What a name means: its innermost binding.
Innermost(n) == CHOOSE d \in DOMAIN env[n] : \A e \in DOMAIN env[n] : e <= d
Meaning(n) == env[n][Innermost(n)]

Declare(n) ==
  /\ UNCHANGED depth
  /\ depth \notin DOMAIN env[n]
  /\ \E type \in VarTypes : env' = [env EXCEPT ![n] = With(@, depth, type)]

Open == depth' = depth + 1 /\ UNCHANGED env

Close ==
  /\ depth > 0 /\ depth' = depth - 1
  /\ env' = [n \in Names |-> Below(env[n], depth)]

\* A function is known outside and, in its own scope, inside; every other name
\* is declared there as a parameter or keeps its bindings.
OpenFunction(f) ==
  /\ depth = 0 /\ depth' = 1 /\ ~Bound(f)
  /\ DOMAIN env' = Names
  /\ \E type \in FuncTypes : env'[f] = [d \in {0, 1} |-> type]
  /\ \A n \in Names \ {f} :
       \/ env'[n] = env[n]
       \/ \E type \in VarTypes : env'[n] = With(env[n], 1, type)

Next ==
  \/ Open \/ Close
  \/ \E n \in Names : Declare(n) \/ OpenFunction(n)

\* The outermost scope holds the built-in functions.
Init ==
  /\ depth = 0
  /\ env \in [Names -> [{} -> FuncTypes] \cup [{0} -> FuncTypes]]

Spec == Init /\ [][Next]_vars
=============================================================================
