------------------------------ MODULE InitList ------------------------------
(***************************************************************************)
(* The initialiser of an array: checkInitList of the type checker reads it *)
(* first, then the translator turns it into stores (translateInitList, for *)
(* a local array) or into the data of a Global (translateVarDef, for a     *)
(* global one).  The initialiser is a sequence of tokens, chosen while it  *)
(* is checked: "{", "}" and the kinds of elements.  An element's value is  *)
(* its position in that sequence.  Elements are of type int and offsets    *)
(* are counted in words.                                                   *)
(***************************************************************************)
EXTENDS SubArrays

CONSTANTS Shapes,       \* dimensions an array is declared with
          Kinds,        \* kinds of elements: "const", "lval", "exp"
          MaxTokens     \* bound on the length of an initialiser

\* An array without elements has no initialiser here (a nested list in one
\* divides by zero).
ASSUME InitListAssumption ==
  /\ Shapes \subseteq Seq(Nat \ {0}) \ {<< >>}
  /\ Kinds \subseteq {"const", "lval", "exp"}
  /\ MaxTokens \in Nat

VARIABLES shape,     \* the dimensions of the array
          global,    \* whether it is a global variable
          tokens,    \* its initialiser, as far as it has been checked
          stage,     \* "check", "translate", or how the compilation ended
          open,      \* the lists the walk is in, outermost first
          pos,       \* the token the translator is at
          memory,    \* what the translated program puts into the elements
          want       \* history: where the checker counts each element

vars == << shape, global, tokens, stage, open, pos, memory, want >>

Size == Product(shape)

\* A list as checkInitList and as translateInitList see it; start is a history,
\* offset the argument of that name.
List(dims, start) == [dims |-> dims, filled |-> 0, start |-> start]
Stored(dims, offset) == [dims |-> dims, filled |-> 0, offset |-> offset]

Top == Last(open)

\* f once it has v at i.
With(f, i, v) == [j \in DOMAIN f \cup {i} |-> IF j = i THEN v ELSE f[j]]

\* The lists once n elements more are filled in the innermost one.
Fill(lists, n) == [lists EXCEPT ![Len(lists)].filled = @ + n]

Init ==
  /\ shape \in Shapes /\ global \in BOOLEAN
  /\ tokens = << >> /\ stage = "check" /\ open = << List(shape, 0) >>
  /\ pos = 1 /\ memory = << >>
  /\ want = [i \in 1 .. Size |-> 0]

-----------------------------------------------------------------------------
(* checkInitList                                                           *)

Reads(token) ==
  /\ stage = "check" /\ Len(tokens) < MaxTokens
  /\ tokens' = Append(tokens, token)
  /\ UNCHANGED << shape, global, pos, memory >>

\* The innermost of lists has not more elements than it has room for.
NoExcess(lists) == Last(lists).filled <= Product(Last(lists).dims)

\* Mutant of CheckElement: one element too many is accepted.
CheckElementExcess(kind) ==
  /\ Reads(kind)
  /\ open' = Fill(open, 1)
  /\ stage' = IF NoExcess(open) THEN "check" ELSE "rejected"
  /\ want' = IF stage' = "check"
               THEN With(want, Top.start + Top.filled + 1, Len(tokens')) ELSE want

CheckElement(kind) ==
  /\ Reads(kind)
  /\ open' = Fill(open, 1)
  /\ stage' = IF NoExcess(open') THEN "check" ELSE "rejected"
  /\ want' = IF stage' = "check"
               THEN With(want, Top.start + Top.filled + 1, Len(tokens')) ELSE want

CheckOpen ==
  /\ Reads("{")
  /\ LET sub == SubArray(Top.dims, Top.filled) IN
     IF sub = << >>
       THEN stage' = "rejected" /\ UNCHANGED open
       ELSE open' = Append(open, List(sub, Top.start + Top.filled)) /\ UNCHANGED stage
  /\ UNCHANGED want

\* Mutant of CheckClose: the sub-array is not counted.
CheckCloseUncounted ==
  /\ Len(open) > 1 /\ Reads("}")
  /\ open' = Front(open)
  /\ UNCHANGED << stage, want >>

CheckClose ==
  /\ Len(open) > 1 /\ Reads("}")
  /\ open' = Fill(Front(open), Product(Top.dims))
  /\ stage' = IF NoExcess(open') THEN "check" ELSE "rejected"
  /\ UNCHANGED want

CheckEnd ==
  /\ stage = "check" /\ Len(open) = 1
  /\ stage' = "translate" /\ open' = << Stored(shape, 0) >>
  /\ UNCHANGED << shape, global, tokens, pos, memory, want >>

-----------------------------------------------------------------------------
(* translateInitList                                                       *)

At(token) == stage = "translate" /\ pos <= Len(tokens) /\ tokens[pos] = token

Goes ==
  pos' = pos + 1 /\ UNCHANGED << shape, global, tokens, stage, want >>

\* A nested list no sub-array was found for: nothing in it is translated.
Dropped == Stored(<< >>, 0)
InDropped == Top = Dropped

\* Constants and variables are stored.
StoreElement(kind) ==
  /\ ~global /\ At(kind) /\ kind \in {"const", "lval"}
  /\ IF InDropped THEN UNCHANGED << open, memory >>
     ELSE /\ memory' = With(memory, Top.offset + Top.filled + 1, pos)
          /\ open' = Fill(open, 1)
  /\ Goes

\* No branch is there for other expressions.
SkipElement ==
  /\ ~global /\ At("exp")
  /\ Goes /\ UNCHANGED << open, memory >>

StoreOpen ==
  /\ ~global /\ At("{")
  /\ LET sub == SubArray(Top.dims, Top.filled)
     IN  open' = Append(open, IF sub = << >> THEN Dropped ELSE Stored(sub, Top.filled))
  /\ Goes /\ UNCHANGED memory

\* Mutant of ZeroFilled: the whole array is filled from where the list starts.
ZeroFilledWhole ==
  LET rest == Top.offset + Top.filled + 1 .. Top.offset + Size
  IN  [i \in DOMAIN memory \cup rest |-> IF i \in rest THEN 0 ELSE memory[i]]

\* The elements of the innermost list that are left get a zero.
ZeroFilled ==
  LET rest == Top.offset + Top.filled + 1 .. Top.offset + Product(Top.dims)
  IN  [i \in DOMAIN memory \cup rest |-> IF i \in rest THEN 0 ELSE memory[i]]

\* Mutant of StoreClose: the sub-array counts as one element.
StoreCloseOne ==
  /\ ~global /\ At("}")
  /\ IF InDropped THEN open' = Front(open) /\ UNCHANGED memory
     ELSE /\ memory' = ZeroFilled
          /\ open' = Fill(Front(open), 1)
  /\ Goes

StoreClose ==
  /\ ~global /\ At("}")
  /\ IF InDropped THEN open' = Front(open) /\ UNCHANGED memory
     ELSE /\ memory' = ZeroFilled
          /\ open' = Fill(Front(open), Product(Top.dims))
  /\ Goes

\* Mutant of StoreEnd: nothing is filled.
StoreEndUnfilled ==
  /\ ~global /\ stage = "translate" /\ pos > Len(tokens)
  /\ stage' = "done"
  /\ UNCHANGED << shape, global, tokens, open, pos, memory, want >>

StoreEnd ==
  /\ ~global /\ stage = "translate" /\ pos > Len(tokens)
  /\ memory' = ZeroFilled
  /\ stage' = "done"
  /\ UNCHANGED << shape, global, tokens, open, pos, want >>

-----------------------------------------------------------------------------
(* translateVarDef at depth 0                                              *)

Crash ==
  stage' = "crashed" /\ UNCHANGED << shape, global, tokens, open, pos, memory, want >>

\* Inside a nested list what is no constant is a null pointer.
DataElement(kind) ==
  /\ global /\ At(kind)
  /\ IF kind = "const"
       THEN /\ memory' = Append(memory, pos)
            /\ open' = Fill(open, 1) /\ Goes
       ELSE IF Len(open) = 1 THEN Goes /\ UNCHANGED << open, memory >> ELSE Crash

DataOpen ==
  /\ global /\ At("{")
  /\ IF Len(open) = 1
       THEN open' = Append(open, Stored(<< Last(shape) >>, 0)) /\ Goes /\ UNCHANGED memory
       ELSE Crash

\* A nested list is padded to one row, whatever it initialises.
DataClose ==
  /\ global /\ At("}")
  /\ memory' = memory \o [i \in 1 .. Last(shape) - Top.filled |-> 0]
  /\ open' = Front(open) /\ Goes

\* Global's constructor resizes the values to the array.
DataEnd ==
  /\ global /\ stage = "translate" /\ pos > Len(tokens)
  /\ memory' = [i \in 1 .. Size |-> IF i <= Len(memory) THEN memory[i] ELSE 0]
  /\ stage' = "done"
  /\ UNCHANGED << shape, global, tokens, open, pos, want >>

Check == CheckOpen \/ CheckClose \/ CheckEnd \/ \E kind \in Kinds : CheckElement(kind)

TranslateLocal ==
  \/ \E kind \in Kinds : StoreElement(kind)
  \/ SkipElement \/ StoreOpen \/ StoreClose \/ StoreEnd

TranslateGlobal ==
  \/ \E kind \in Kinds : DataElement(kind)
  \/ DataOpen \/ DataClose \/ DataEnd

Next == Check \/ TranslateLocal \/ TranslateGlobal

Spec == Init /\ [][Next]_vars

-----------------------------------------------------------------------------
(* Properties.                                                             *)

Elements == 1 .. Size

\* Tokens and elements are of the right kinds, and no list the checker is in has
\* more elements than its sub-array (checkInitList, excess initializers).
TypeOK ==
  /\ shape \in Shapes /\ global \in BOOLEAN
  /\ Range(tokens) \subseteq Kinds \cup {"{", "}"}
  /\ stage \in {"check", "translate", "done", "rejected", "crashed"}
  /\ pos \in 1 .. MaxTokens + 1
  /\ Range(want) \subseteq 0 .. MaxTokens
  /\ stage = "check" =>
       \A i \in DOMAIN open : open[i].filled \in 0 .. Product(open[i].dims)

Accepted == stage \notin {"check", "rejected"}

\* The sub-arrays the checker chooses give every element of an initialiser it
\* accepts a place of its own in the array, in the order in which they are
\* written.  (A list opened when the array is full is rejected at its end only.)
ElementsKeepOrder ==
  Accepted =>
    /\ DOMAIN want = Elements
    /\ \A p \in DOMAIN tokens :
         tokens[p] \in Kinds =>
           \E i \in Elements :
             /\ want[i] = p
             /\ \A j \in Elements : want[j] # 0 /\ want[j] < p => j < i
             /\ \A j \in Elements \ {i} : want[j] # p

Holds(kinds) == Range(tokens) \subseteq kinds \cup {"{", "}"}

\* Once the checker has accepted an initialiser, no store leaves the array and
\* no datum is cut off, whatever the nesting.  The translator may even skip
\* expressions, but not in a local array of three dimensions: its count falls
\* behind, and a list may then get a larger sub-array than it was checked for.
StoresInside ==
  /\ stage \in {"translate", "done"}
  /\ global \/ Len(shape) <= 2 \/ Holds({"const", "lval"})
  => DOMAIN memory \subseteq Elements

\* No initialised array of one or two dimensions keeps an element unset.
NothingUnset ==
  stage = "done" /\ Len(shape) <= 2 => DOMAIN memory = Elements

\* What the translators are able to initialise: arrays of one or two dimensions,
\* from constants, and local ones from variables too.
Supported ==
  Len(shape) <= 2 /\ Holds(IF global THEN {"const"} ELSE {"const", "lval"})

\* The two translators put the elements where the checker counted them, though
\* each walks and counts on its own, and zeros everywhere else.
TranslatedAsChecked ==
  /\ stage = "done" /\ Supported => memory = want
  /\ Supported => stage # "crashed"

\* The same for local arrays of any dimension (ir_translator.cpp: compute the
\* start address of the sub-array).
NestedAsChecked ==
  stage = "done" /\ ~global /\ Holds({"const", "lval"}) => memory = want

\* The same for elements of any kind (parser.y: InitVal is Exp or a list).
ExpressionsAsChecked ==
  stage = "done" /\ ~global /\ Len(shape) <= 2 => memory = want
=============================================================================
