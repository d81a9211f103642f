---------------------------- MODULE DataSection ----------------------------
(***************************************************************************)
(* ASMEmitter::selectGlobal: a global variable becomes a label and a .word *)
(* for every word of it.                                                   *)
(***************************************************************************)
EXTENDS Integers, Sequences

Label(label) == [directive |-> "Label", label |-> label]
Word(value)  == [directive |-> "Word", value |-> value]

SelectGlobal(node) ==
  << Label(node.name) >>
  \o (IF \A i \in DOMAIN node.values : node.values[i] = 0
        THEN [i \in 1 .. node.size \div 4 |-> Word(0)]
        ELSE [i \in DOMAIN node.values |-> Word(node.values[i])])
=============================================================================
