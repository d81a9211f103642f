-------------------------- MODULE CFGBuilderProofs --------------------------
(***************************************************************************)
(* The control-flow builder for programs of any length.                    *)
(***************************************************************************)
EXTENDS CFGBuilder, SequenceFacts, SequenceTheorems

-----------------------------------------------------------------------------
(* Nodes and functions.                                                    *)

Nodes ==
  Globals \cup BodyNodes \cup {Function(n) : n \in Names} \cup {Return(x) : x \in Results}

\* What an exit block returns.
ExitValues == {"", "a0"}

LoweredNodes ==
  Nodes \cup {Goto(RetLabel(n)) : n \in Names} \cup {Label(RetLabel(n)) : n \in Names}
        \cup {Assign("a0", x) : x \in Results \ {""}} \cup {Return(x) : x \in ExitValues}

LEMMA NodeKinds ==
  ASSUME NEW node \in Nodes
  PROVE  /\ node.ir = "Function" => node.name \in Names /\ node = Function(node.name)
         /\ node.ir = "Global" => node \in Globals
         /\ node.ir = "Return" => node.x \in Results /\ node = Return(node.x)
         /\ node.ir \notin {"Function", "Global", "Return"} => node \in BodyNodes
         /\ \A n \in Names : node # Goto(RetLabel(n)) /\ node # Label(RetLabel(n))
<1>1. CASE node \in Globals
  <2>1. node.ir = "Global"
    BY <1>1, CFGBuilderAssumption
  <2> QED
    BY <1>1, <2>1 DEF Goto, Label
<1>2. CASE node \in BodyNodes
  <2>1. /\ node.ir \notin {"Function", "Global", "Return"}
        /\ node.ir \in {"Label", "Goto"} => \A n \in Names : node.label # RetLabel(n)
    BY <1>2, CFGBuilderAssumption
  <2>2. ASSUME NEW n \in Names
        PROVE  node # Goto(RetLabel(n)) /\ node # Label(RetLabel(n))
    BY <2>1 DEF Goto, Label
  <2> QED
    BY <1>2, <2>1, <2>2
<1>3. CASE node \in {Function(n) : n \in Names}
  BY <1>3 DEF Function, Goto, Label
<1>4. CASE node \in {Return(x) : x \in Results}
  BY <1>4 DEF Return, Goto, Label
<1> QED
  BY <1>1, <1>2, <1>3, <1>4 DEF Nodes

LEMMA LowerSeq ==
  ASSUME NEW node \in Nodes, NEW n, node.ir = "Return" => n \in Names
  PROVE  Lower(node, n) \in Seq(LoweredNodes)
<1>1. CASE node.ir # "Return"
  <2>1. Lower(node, n) = << node >>
    BY <1>1 DEF Lower
  <2>2. node \in LoweredNodes
    BY DEF LoweredNodes
  <2> QED
    BY <2>1, <2>2
<1>2. CASE node.ir = "Return"
  <2>1. /\ Goto(RetLabel(n)) \in LoweredNodes
        /\ node.x # "" => Assign("a0", node.x) \in LoweredNodes
    BY <1>2, NodeKinds DEF LoweredNodes
  <2>2. \/ Lower(node, n) = << Goto(RetLabel(n)) >>
        \/ node.x # "" /\ Lower(node, n) = << Assign("a0", node.x), Goto(RetLabel(n)) >>
    BY <1>2 DEF Lower
  <2>3. \A a, b \in LoweredNodes : << a >> \in Seq(LoweredNodes) /\ << a, b >> \in Seq(LoweredNodes)
    OBVIOUS
  <2> QED
    BY <2>1, <2>2, <2>3
<1> QED
  BY <1>1, <1>2

\* x stands in the body of cn: it ends no other function's and starts none.
BodyElement(x, cn) ==
  /\ x.ir \notin {"Function", "Return", "Global"}
  /\ \A n \in Names : x # Label(RetLabel(n)) /\ (x = Goto(RetLabel(n)) => n = cn)

LEMMA LowerElements ==
  ASSUME NEW node \in Nodes, node.ir \notin {"Function", "Global"},
         NEW cn \in Names, NEW i \in 1 .. Len(Lower(node, cn))
  PROVE  BodyElement(Lower(node, cn)[i], cn)
<1>1. BodyElement(Goto(RetLabel(cn)), cn)
  BY CFGBuilderAssumption DEF BodyElement, Goto, Label
<1>2. CASE node.ir # "Return"
  <2>1. Lower(node, cn) = << node >>
    BY <1>2 DEF Lower
  <2>2. BodyElement(node, cn)
    BY <1>2, NodeKinds DEF BodyElement
  <2> QED
    BY <2>1, <2>2
<1>3. CASE node.ir = "Return"
  <2>1. BodyElement(Assign("a0", node.x), cn)
    BY DEF BodyElement, Assign, Goto, Label
  <2>2. \/ Lower(node, cn) = << Goto(RetLabel(cn)) >>
        \/ Lower(node, cn) = << Assign("a0", node.x), Goto(RetLabel(cn)) >>
    BY <1>3 DEF Lower
  <2> QED
    BY <1>1, <2>1, <2>2
<1> QED
  BY <1>2, <1>3

\* s is the entry block of cn, as far as it goes.
IsEntry(s, cn) ==
  /\ s \in Seq(LoweredNodes) /\ Len(s) > 0 /\ s[1] = Function(cn)
  /\ \A i \in 2 .. Len(s) : BodyElement(s[i], cn)

LEMMA EntryGrows ==
  ASSUME NEW cn, NEW s, IsEntry(s, cn),
         NEW t \in Seq(LoweredNodes), \A i \in 1 .. Len(t) : BodyElement(t[i], cn)
  PROVE  IsEntry(s \o t, cn)
<1> DEFINE n == Len(s)
           m == Len(t)
<1>1. /\ n \in Nat /\ m \in Nat /\ n > 0 /\ s \in Seq(LoweredNodes)
      /\ s[1] = Function(cn) /\ \A i \in 2 .. n : BodyElement(s[i], cn)
  BY DEF IsEntry
<1>2. /\ s \o t \in Seq(LoweredNodes) /\ Len(s \o t) = n + m
      /\ \A i \in 1 .. n : (s \o t)[i] = s[i]
      /\ \A i \in 1 .. m : (s \o t)[n + i] = t[i]
  BY <1>1, JoinedElements
<1>3. \A i \in 1 .. m : BodyElement(t[i], cn)
  OBVIOUS
<1> HIDE DEF n, m
<1>4. ASSUME NEW i \in 2 .. n + m
      PROVE  BodyElement((s \o t)[i], cn)
  <2>1. CASE i <= n
    BY <1>1, <1>2, <2>1
  <2>2. CASE ~(i <= n)
    <3>1. PICK k \in 1 .. m : i = n + k
      <4>1. i - n \in 1 .. m /\ i = n + (i - n)
        BY <1>1, <2>2
      <4> QED
        BY <4>1
    <3> QED
      BY <1>2, <1>3, <3>1
  <2> QED
    BY <2>1, <2>2
<1>5. (s \o t)[1] = Function(cn) /\ Len(s \o t) > 0
  BY <1>1, <1>2
<1> QED
  BY <1>2, <1>4, <1>5 DEF IsEntry

EntryOf(func) == BuildSingleFunc(func).entry

LEMMA EntryStart ==
  ASSUME NEW n \in Names
  PROVE  EntryOf(<< Function(n) >>) = << Function(n) >> /\ IsEntry(<< Function(n) >>, n)
<1> DEFINE func == << Function(n) >>
           u == [i \in DOMAIN func |-> Lower(func[i], n)]
<1>1. func[1].name = n /\ DOMAIN func = 1 .. 1 /\ func[1].ir = "Function" /\ func[1] = Function(n)
  BY DEF Function
<1>2. EntryOf(func) = FlattenSeq(u)
  BY <1>1 DEF EntryOf, BuildSingleFunc
<1>3. u[1] = func
  <2>1. u[1] = Lower(Function(n), n)
    BY <1>1
  <2>2. Function(n).ir = "Function"
    BY DEF Function
  <2> QED
    BY <2>1, <2>2 DEF Lower
<1>4. Function(n) \in LoweredNodes
  BY DEF LoweredNodes, Nodes
<1>5. u \in [1 .. 0 + 1 -> Seq(LoweredNodes)] /\ u[0 + 1] = func
  <2>1. func \in Seq(LoweredNodes) /\ 0 + 1 = 1 /\ 1 .. 1 = {1}
    BY <1>4
  <2>2. DOMAIN u = {1} /\ u = [i \in DOMAIN u |-> u[i]]
    BY <1>1, <2>1
  <2> HIDE DEF u, func
  <2> QED
    BY <1>3, <2>1, <2>2
<1>6. << >> \in [1 .. 0 -> Seq(LoweredNodes)] /\ FlattenSeq(<< >>) = << >>
  BY DEF FlattenSeq
<1>7. \A i \in 1 .. 0 : u[i] = << >>[i]
  OBVIOUS
<1> HIDE DEF u
<1>8. FlattenSeq(u) = << >> \o u[0 + 1]
  <2>1. PICK m : m = << >>
    OBVIOUS
  <2>2. PICK k : k = 0
    OBVIOUS
  <2>3. k \in Nat /\ OneMore(LoweredNodes, k, m, u)
    BY <1>5, <1>6, <1>7, <2>1, <2>2 DEF OneMore
  <2>4. FlattenSeq(u) = FlattenSeq(m) \o u[k + 1]
    BY <2>3, FlattenMapped
  <2> QED
    BY <1>6, <2>1, <2>2, <2>4
<1>9. FlattenSeq(u) = func
  BY <1>5, <1>8
<1>10. IsEntry(func, n)
  BY <1>1, <1>4 DEF IsEntry
<1> QED
  BY <1>2, <1>9, <1>10

LEMMA EntryAppend ==
  ASSUME NEW func \in Seq(Nodes), Len(func) > 0, NEW cn \in Names, func[1] = Function(cn),
         NEW node \in Nodes
  PROVE  EntryOf(Append(func, node)) = EntryOf(func) \o Lower(node, cn)
<1> DEFINE n == Len(func)
           next == Append(func, node)
           m == [i \in 1 .. n |-> Lower(func[i], cn)]
           u == [i \in 1 .. n + 1 |-> Lower(next[i], cn)]
<1>1. /\ next \in Seq(Nodes) /\ Len(next) = n + 1 /\ next[n + 1] = node
      /\ \A i \in 1 .. n : next[i] = func[i]
  BY AppendedElements
<1>2. n \in Nat /\ 1 \in 1 .. n /\ func[1].name = cn /\ next[1] = func[1]
  BY <1>1 DEF Function
<1>3. EntryOf(func) = FlattenSeq(m)
  BY <1>2 DEF EntryOf, BuildSingleFunc
<1>4. EntryOf(next) = FlattenSeq(u)
  <2>1. DOMAIN next = 1 .. n + 1 /\ next[1].name = cn
    BY <1>1, <1>2
  <2> HIDE DEF next
  <2> QED
    BY <2>1 DEF EntryOf, BuildSingleFunc
<1> HIDE DEF next
<1>5. m \in [1 .. n -> Seq(LoweredNodes)]
  BY LowerSeq
<1>6. u \in [1 .. n + 1 -> Seq(LoweredNodes)]
  <2>1. \A i \in 1 .. n + 1 : next[i] \in Nodes
    BY <1>1
  <2> QED
    BY <2>1, LowerSeq
<1>7. \A i \in 1 .. n : u[i] = m[i]
  BY <1>1
<1>8. u[n + 1] = Lower(node, cn)
  BY <1>1, <1>2
<1> HIDE DEF m, u, n
<1>9. OneMore(LoweredNodes, n, m, u)
  BY <1>5, <1>6, <1>7 DEF OneMore
<1>10. FlattenSeq(u) = FlattenSeq(m) \o u[n + 1]
  BY <1>2, <1>9, FlattenMapped
<1> QED
  BY <1>3, <1>4, <1>8, <1>10 DEF next

-----------------------------------------------------------------------------
(* Whose code a node is.                                                   *)

Starts(c, i) == {j \in 1 .. i : c[j].ir = "Function"}

OwnerIn(c, i) == c[CHOOSE j \in Starts(c, i) : \A k \in Starts(c, i) : k <= j].name

\* c is IR whose Returns stand in functions.
Owned(c) ==
  /\ c \in Seq(Nodes)
  /\ \A i \in 1 .. Len(c) : c[i].ir = "Return" => Starts(c, i) # {}

LEMMA OwnerIsIn ==
  ASSUME NEW i
  PROVE  Owner(i) = OwnerIn(code, i) /\ Owner(i)' = OwnerIn(code', i)
BY DEF Owner, OwnerIn, Starts

LEMMA OwnerIsLast ==
  ASSUME NEW c, NEW i \in Nat, NEW p \in Starts(c, i), \A k \in Starts(c, i) : k <= p
  PROVE  OwnerIn(c, i) = c[p].name
<1> DEFINE S == Starts(c, i)
<1>1. S \subseteq Int /\ p \in S /\ \A k \in S : k <= p
  BY DEF Starts
<1> HIDE DEF S
<1>2. \A j \in S : (\A k \in S : k <= j) => j = p
  BY <1>1
<1>3. (CHOOSE j \in S : \A k \in S : k <= j) = p
  BY <1>1, <1>2
<1> QED
  BY <1>3 DEF OwnerIn, S

LEMMA OwnerKnown ==
  ASSUME NEW c \in Seq(Nodes), NEW i \in 1 .. Len(c), Starts(c, i) # {}
  PROVE  \E p \in Starts(c, i) :
           /\ \A k \in Starts(c, i) : k <= p
           /\ OwnerIn(c, i) \in Names /\ c[p] = Function(OwnerIn(c, i))
<1>1. i \in Nat /\ Starts(c, i) \subseteq 1 .. i
  BY DEF Starts
<1>2. PICK p \in Starts(c, i) : \A k \in Starts(c, i) : k <= p
  BY <1>1, GreatestOf
<1>3. OwnerIn(c, i) = c[p].name
  BY <1>1, <1>2, OwnerIsLast
<1>4. c[p] \in Nodes /\ c[p].ir = "Function"
  BY <1>1 DEF Starts
<1> QED
  BY <1>2, <1>3, <1>4, NodeKinds

LEMMA OwnerAppend ==
  ASSUME NEW c \in Seq(Nodes), NEW node \in Nodes, NEW i \in 1 .. Len(c)
  PROVE  /\ Starts(Append(c, node), i) = Starts(c, i)
         /\ Starts(c, i) # {} => OwnerIn(Append(c, node), i) = OwnerIn(c, i)
<1>1. PICK d : d = Append(c, node)
  OBVIOUS
<1>2. \A j \in 1 .. i : d[j] = c[j]
  BY <1>1, AppendedElements
<1>3. Starts(d, i) = Starts(c, i)
  BY <1>2 DEF Starts
<1>4. ASSUME Starts(c, i) # {}
      PROVE  OwnerIn(d, i) = OwnerIn(c, i)
  <2>1. PICK p \in Starts(c, i) : /\ \A k \in Starts(c, i) : k <= p
                                  /\ c[p] = Function(OwnerIn(c, i))
    BY <1>4, OwnerKnown
  <2>2. OwnerIn(d, i) = d[p].name
    BY <1>3, <2>1, OwnerIsLast
  <2>3. d[p] = c[p]
    BY <1>2 DEF Starts
  <2> QED
    BY <2>1, <2>2, <2>3 DEF Function
<1> QED
  BY <1>1, <1>3, <1>4

\* One of the Returns of the function nm has a value.
ValueOf(c, nm) ==
  \E i \in 1 .. Len(c) : c[i].ir = "Return" /\ c[i].x # "" /\ OwnerIn(c, i) = nm

LEMMA ValueAppend ==
  ASSUME NEW c, Owned(c), NEW node \in Nodes, NEW nm
  PROVE  ValueOf(Append(c, node), nm) <=>
           \/ ValueOf(c, nm)
           \/ /\ node.ir = "Return" /\ node.x # ""
              /\ OwnerIn(Append(c, node), Len(c) + 1) = nm
<1> DEFINE n == Len(c)
<1>1. PICK d : d = Append(c, node)
  OBVIOUS
<1>2. c \in Seq(Nodes) /\ \A i \in 1 .. n : c[i].ir = "Return" => Starts(c, i) # {}
  BY DEF Owned
<1>3. /\ Len(d) = n + 1 /\ d[n + 1] = node /\ n \in Nat
      /\ \A i \in 1 .. n : d[i] = c[i]
  BY <1>1, <1>2, AppendedElements
<1>4. \A i \in 1 .. n : c[i].ir = "Return" => OwnerIn(d, i) = OwnerIn(c, i)
  BY <1>1, <1>2, OwnerAppend
<1>5. ASSUME ValueOf(c, nm)
      PROVE  ValueOf(d, nm)
  <2>1. PICK i \in 1 .. n : c[i].ir = "Return" /\ c[i].x # "" /\ OwnerIn(c, i) = nm
    BY <1>5 DEF ValueOf
  <2>2. i \in 1 .. Len(d)
    BY <1>3
  <2> QED
    BY <1>3, <1>4, <2>1, <2>2 DEF ValueOf
<1>6. ASSUME node.ir = "Return", node.x # "", OwnerIn(d, n + 1) = nm
      PROVE  ValueOf(d, nm)
  <2>1. n + 1 \in 1 .. Len(d)
    BY <1>3
  <2> QED
    BY <1>3, <1>6, <2>1 DEF ValueOf
<1>7. ASSUME ValueOf(d, nm)
      PROVE  \/ ValueOf(c, nm)
             \/ node.ir = "Return" /\ node.x # "" /\ OwnerIn(d, n + 1) = nm
  <2>1. PICK i \in 1 .. n + 1 : d[i].ir = "Return" /\ d[i].x # "" /\ OwnerIn(d, i) = nm
    BY <1>3, <1>7 DEF ValueOf
  <2>2. CASE i = n + 1
    BY <1>3, <2>1, <2>2
  <2>3. CASE i # n + 1
    <3>1. i \in 1 .. n
      BY <1>3, <2>3
    <3> QED
      BY <1>3, <1>4, <2>1, <3>1 DEF ValueOf
  <2> QED
    BY <2>2, <2>3
<1> QED
  BY <1>1, <1>5, <1>6, <1>7

LEMMA ValueKnown ==
  ASSUME NEW c, Owned(c), NEW nm, ValueOf(c, nm)
  PROVE  \E p \in 1 .. Len(c) : c[p] = Function(nm)
<1>1. PICK i \in 1 .. Len(c) : c[i].ir = "Return" /\ OwnerIn(c, i) = nm
  BY DEF ValueOf
<1>2. PICK p \in Starts(c, i) : c[p] = Function(nm)
  BY <1>1, OwnerKnown DEF Owned
<1>3. p \in 1 .. Len(c)
  BY DEF Starts, Owned
<1> QED
  BY <1>2, <1>3

-----------------------------------------------------------------------------
(* The code by functions and globals.                                      *)

LoweredAt(c, i) == IF c[i].ir = "Global" THEN << >> ELSE Lower(c[i], OwnerIn(c, i))

LoweredOf(c) == FlattenSeq([i \in 1 .. Len(c) |-> LoweredAt(c, i)])

GlobalAt(c, i) == IF c[i].ir = "Global" THEN << c[i] >> ELSE << >>

GlobalsIn(c) == FlattenSeq([i \in 1 .. Len(c) |-> GlobalAt(c, i)])

LEMMA CodeIs ==
  ASSUME Owned(code)
  PROVE  LoweredCode = LoweredOf(code) /\ GlobalsOf = GlobalsIn(code)
<1>1. DOMAIN code = 1 .. Len(code)
  BY DEF Owned
<1> QED
  BY <1>1, OwnerIsIn DEF LoweredCode, LoweredOf, LoweredAt, GlobalsOf, GlobalsIn, GlobalAt

LEMMA CodeIsNext ==
  ASSUME Owned(code')
  PROVE  LoweredCode' = LoweredOf(code') /\ GlobalsOf' = GlobalsIn(code')
<1>1. DOMAIN code' = 1 .. Len(code')
  BY DEF Owned
<1> QED
  BY <1>1, OwnerIsIn DEF LoweredCode, LoweredOf, LoweredAt, GlobalsOf, GlobalsIn, GlobalAt

LEMMA LoweredAtSeq ==
  ASSUME NEW c, Owned(c), NEW i \in 1 .. Len(c)
  PROVE  /\ LoweredAt(c, i) \in Seq(LoweredNodes)
         /\ GlobalAt(c, i) \in Seq(Globals)
<1>1. c[i] \in Nodes /\ (c[i].ir = "Return" => Starts(c, i) # {})
  BY DEF Owned
<1>2. c[i].ir = "Return" => OwnerIn(c, i) \in Names
  BY <1>1, OwnerKnown DEF Owned
<1>3. c[i] \in Nodes
  BY DEF Owned
<1> QED
  BY <1>2, <1>3, LowerSeq, NodeKinds DEF LoweredAt, GlobalAt

LEMMA LoweredAppend ==
  ASSUME NEW c, Owned(c), NEW node \in Nodes, Owned(Append(c, node))
  PROVE  /\ LoweredOf(c) \in Seq(LoweredNodes) /\ GlobalsIn(c) \in Seq(Globals)
         /\ LoweredOf(Append(c, node)) =
              LoweredOf(c) \o LoweredAt(Append(c, node), Len(c) + 1)
         /\ GlobalsIn(Append(c, node)) =
              GlobalsIn(c) \o GlobalAt(Append(c, node), Len(c) + 1)
<1> DEFINE n == Len(c)
<1>1. PICK d : d = Append(c, node)
  OBVIOUS
<1>2. c \in Seq(Nodes) /\ Owned(d) /\ \A i \in 1 .. n : c[i].ir = "Return" => Starts(c, i) # {}
  BY <1>1 DEF Owned
<1>3. Len(d) = n + 1 /\ n \in Nat /\ \A i \in 1 .. n : d[i] = c[i]
  BY <1>1, <1>2, AppendedElements
<1>4. \A i \in 1 .. n : LoweredAt(d, i) = LoweredAt(c, i) /\ GlobalAt(d, i) = GlobalAt(c, i)
  <2> SUFFICES ASSUME NEW i \in 1 .. n
               PROVE  LoweredAt(d, i) = LoweredAt(c, i) /\ GlobalAt(d, i) = GlobalAt(c, i)
    OBVIOUS
  <2>1. d[i] = c[i]
    BY <1>3
  <2>2. CASE c[i].ir = "Return"
    <3>1. OwnerIn(d, i) = OwnerIn(c, i)
      BY <1>1, <1>2, <2>2, OwnerAppend
    <3> QED
      BY <2>1, <3>1 DEF LoweredAt, GlobalAt
  <2>3. CASE c[i].ir # "Return"
    BY <2>1, <2>3 DEF LoweredAt, GlobalAt, Lower
  <2> QED
    BY <2>2, <2>3
<1> HIDE DEF n
<1>5. /\ OneMore(LoweredNodes, n, [i \in 1 .. n |-> LoweredAt(c, i)],
                 [i \in 1 .. n + 1 |-> LoweredAt(d, i)])
      /\ OneMore(Globals, n, [i \in 1 .. n |-> GlobalAt(c, i)],
                 [i \in 1 .. n + 1 |-> GlobalAt(d, i)])
  <2>1. \A i \in 1 .. n : LoweredAt(c, i) \in Seq(LoweredNodes) /\ GlobalAt(c, i) \in Seq(Globals)
    BY LoweredAtSeq DEF n
  <2>2. \A i \in 1 .. n + 1 : LoweredAt(d, i) \in Seq(LoweredNodes) /\ GlobalAt(d, i) \in Seq(Globals)
    BY <1>2, <1>3, LoweredAtSeq
  <2>3. \A i \in 1 .. n : i \in 1 .. n + 1
    BY <1>3
  <2> QED
    BY <1>4, <2>1, <2>2, <2>3 DEF OneMore
<1>6. n + 1 \in 1 .. n + 1
  BY <1>3
<1>7. LoweredOf(c) \in Seq(LoweredNodes) /\ LoweredOf(d) = LoweredOf(c) \o LoweredAt(d, n + 1)
  <2>1. PICK m : m = [i \in 1 .. n |-> LoweredAt(c, i)]
    OBVIOUS
  <2>2. PICK u : u = [i \in 1 .. n + 1 |-> LoweredAt(d, i)]
    OBVIOUS
  <2>3. OneMore(LoweredNodes, n, m, u)
    BY <1>5, <2>1, <2>2
  <2>4. /\ FlattenSeq(u) = FlattenSeq(m) \o u[n + 1]
        /\ FlattenSeq(m) \in Seq(LoweredNodes)
    BY <1>3, <2>3, FlattenMapped
  <2> QED
    BY <1>3, <1>6, <2>1, <2>2, <2>4 DEF LoweredOf, n
<1>8. GlobalsIn(c) \in Seq(Globals) /\ GlobalsIn(d) = GlobalsIn(c) \o GlobalAt(d, n + 1)
  <2>1. PICK m : m = [i \in 1 .. n |-> GlobalAt(c, i)]
    OBVIOUS
  <2>2. PICK u : u = [i \in 1 .. n + 1 |-> GlobalAt(d, i)]
    OBVIOUS
  <2>3. OneMore(Globals, n, m, u)
    BY <1>5, <2>1, <2>2
  <2>4. /\ FlattenSeq(u) = FlattenSeq(m) \o u[n + 1]
        /\ FlattenSeq(m) \in Seq(Globals)
    BY <1>3, <2>3, FlattenMapped
  <2> QED
    BY <1>3, <1>6, <2>1, <2>2, <2>4 DEF GlobalsIn, n
<1> QED
  BY <1>1, <1>7, <1>8 DEF n

-----------------------------------------------------------------------------
(* Jumps.                                                                  *)

HasLabel(ir, name) == \E i \in 1 .. Len(ir) : ir[i] = Label(RetLabel(name))

\* The jump at i has its one label at j.
LandsAt(ir, i, j) ==
  /\ i < j /\ \A k \in (1 .. Len(ir)) \ {j} : ir[k] # ir[j]
  /\ \A k \in i .. j : ir[k].ir # "Function"

LEMMA LandsIs ==
  ASSUME NEW S, NEW ir \in Seq(S)
  PROVE  Lands(ir) <=>
           \A i \in 1 .. Len(ir), name \in Names :
             ir[i] = Goto(RetLabel(name)) =>
               \E j \in 1 .. Len(ir) : ir[j] = Label(RetLabel(name)) /\ LandsAt(ir, i, j)
<1>1. DOMAIN ir = 1 .. Len(ir)
  OBVIOUS
<1> QED
  BY <1>1 DEF Lands, LandsAt

\* Jumps of two pieces of code that have no label of a function in common.
LEMMA LandsConcat ==
  ASSUME NEW S, NEW s \in Seq(S), NEW t \in Seq(S), Lands(s), Lands(t),
         \A name \in Names : ~(HasLabel(s, name) /\ HasLabel(t, name))
  PROVE  Lands(s \o t)
<1> DEFINE n == Len(s)
           m == Len(t)
<1>1. PICK u : u = s \o t
  OBVIOUS
<1>2. /\ u \in Seq(S) /\ Len(u) = n + m /\ n \in Nat /\ m \in Nat
      /\ \A i \in 1 .. n : u[i] = s[i]
      /\ \A i \in 1 .. m : u[n + i] = t[i]
  BY <1>1, JoinedElements
<1> HIDE DEF n, m
<1>3. \A i \in 1 .. n + m : i \in 1 .. n \/ \E k \in 1 .. m : i = n + k
  <2> SUFFICES ASSUME NEW i \in 1 .. n + m, i \notin 1 .. n
               PROVE  \E k \in 1 .. m : i = n + k
    OBVIOUS
  <2>1. i - n \in 1 .. m /\ i = n + (i - n)
    BY <1>2
  <2> QED
    BY <2>1
<1>4. ASSUME NEW i \in 1 .. n, NEW name \in Names, s[i] = Goto(RetLabel(name))
      PROVE  \E j \in 1 .. n + m : u[j] = Label(RetLabel(name)) /\ LandsAt(u, i, j)
  <2>1. PICK j \in 1 .. n : s[j] = Label(RetLabel(name)) /\ LandsAt(s, i, j)
    BY <1>4, LandsIs DEF n
  <2>2. u[j] = s[j] /\ j \in 1 .. n + m /\ i < j
    BY <1>2, <2>1 DEF LandsAt
  <2>3. ASSUME NEW k \in 1 .. n + m, k # j
        PROVE  u[k] # u[j]
    <3>1. CASE k \in 1 .. n
      BY <1>2, <2>1, <2>2, <2>3, <3>1 DEF LandsAt, n
    <3>2. ASSUME NEW l \in 1 .. m, k = n + l
          PROVE  u[k] # u[j]
      <4>1. HasLabel(s, name)
        BY <2>1 DEF HasLabel, n
      <4>2. t[l] # Label(RetLabel(name))
        BY <4>1 DEF HasLabel, m
      <4> QED
        BY <1>2, <2>1, <2>2, <3>2, <4>2
    <3> QED
      BY <1>3, <3>1, <3>2
  <2>4. \A k \in i .. j : u[k].ir # "Function"
    <3>1. \A k \in i .. j : k \in 1 .. n
      BY <1>2, <2>1
    <3> QED
      BY <1>2, <2>1, <3>1 DEF LandsAt
  <2> QED
    BY <1>2, <2>1, <2>2, <2>3, <2>4 DEF LandsAt
<1>5. ASSUME NEW i \in 1 .. m, NEW name \in Names, t[i] = Goto(RetLabel(name))
      PROVE  \E j \in 1 .. n + m : u[j] = Label(RetLabel(name)) /\ LandsAt(u, n + i, j)
  <2>1. PICK j \in 1 .. m : t[j] = Label(RetLabel(name)) /\ LandsAt(t, i, j)
    BY <1>5, LandsIs DEF m
  <2>2. u[n + j] = t[j] /\ n + j \in 1 .. n + m /\ n + i < n + j
    BY <1>2, <2>1 DEF LandsAt
  <2>3. ASSUME NEW k \in 1 .. n + m, k # n + j
        PROVE  u[k] # u[n + j]
    <3>1. CASE k \in 1 .. n
      <4>1. HasLabel(t, name)
        BY <2>1 DEF HasLabel, m
      <4>2. s[k] # Label(RetLabel(name))
        BY <3>1, <4>1 DEF HasLabel, n
      <4> QED
        BY <1>2, <2>1, <2>2, <3>1, <4>2
    <3>2. ASSUME NEW l \in 1 .. m, k = n + l
          PROVE  u[k] # u[n + j]
      <4>1. l # j
        BY <2>3, <3>2
      <4>2. t[l] # t[j]
        BY <2>1, <4>1 DEF LandsAt, m
      <4> QED
        BY <1>2, <2>2, <3>2, <4>2
    <3> QED
      BY <1>3, <3>1, <3>2
  <2>4. ASSUME NEW k \in n + i .. n + j
        PROVE  u[k].ir # "Function"
    <3>1. k - n \in i .. j /\ k - n \in 1 .. m /\ k = n + (k - n)
      BY <1>2, <2>1
    <3>2. t[k - n].ir # "Function"
      BY <2>1, <3>1 DEF LandsAt
    <3>3. u[n + (k - n)] = t[k - n]
      BY <1>2, <3>1
    <3> QED
      BY <3>1, <3>2, <3>3
  <2> QED
    BY <1>2, <2>1, <2>2, <2>3, <2>4 DEF LandsAt
<1>6. ASSUME NEW i \in 1 .. n + m, NEW name \in Names, u[i] = Goto(RetLabel(name))
      PROVE  \E j \in 1 .. n + m : u[j] = Label(RetLabel(name)) /\ LandsAt(u, i, j)
  <2>1. CASE i \in 1 .. n
    BY <1>2, <1>4, <1>6, <2>1
  <2>2. ASSUME NEW k \in 1 .. m, i = n + k
        PROVE  \E j \in 1 .. n + m : u[j] = Label(RetLabel(name)) /\ LandsAt(u, i, j)
    BY <1>2, <1>5, <1>6, <2>2
  <2> QED
    BY <1>3, <2>1, <2>2
<1> QED
  BY <1>1, <1>2, <1>6, LandsIs

LEMMA LabelsConcat ==
  ASSUME NEW S, NEW s \in Seq(S), NEW t \in Seq(S), NEW name, HasLabel(s \o t, name)
  PROVE  HasLabel(s, name) \/ HasLabel(t, name)
<1>1. PICK u : u = s \o t
  OBVIOUS
<1>2. /\ Len(u) = Len(s) + Len(t) /\ Len(s) \in Nat /\ Len(t) \in Nat
      /\ \A i \in 1 .. Len(s) : u[i] = s[i]
      /\ \A i \in 1 .. Len(t) : u[Len(s) + i] = t[i]
  BY <1>1, JoinedElements
<1>3. PICK i \in 1 .. Len(u) : u[i] = Label(RetLabel(name))
  BY <1>1 DEF HasLabel
<1>4. CASE i \in 1 .. Len(s)
  BY <1>2, <1>3, <1>4 DEF HasLabel
<1>5. CASE i \notin 1 .. Len(s)
  <2>1. i - Len(s) \in 1 .. Len(t) /\ i = Len(s) + (i - Len(s))
    BY <1>2, <1>5
  <2>2. t[i - Len(s)] = Label(RetLabel(name))
    BY <1>2, <1>3, <2>1
  <2> QED
    BY <2>1, <2>2 DEF HasLabel
<1> QED
  BY <1>4, <1>5

\* Globals have neither jumps nor labels.
LEMMA GlobalsLand ==
  ASSUME NEW s \in Seq(Globals)
  PROVE  Lands(s) /\ \A name : ~HasLabel(s, name)
<1>1. \A i \in 1 .. Len(s) : s[i].ir = "Global"
  BY CFGBuilderAssumption
<1>2. \A i \in 1 .. Len(s) : \A name : s[i] # Goto(RetLabel(name)) /\ s[i] # Label(RetLabel(name))
  BY <1>1 DEF Goto, Label
<1> QED
  BY <1>2, LandsIs DEF HasLabel

ExitOf(cn, x) == << Label(RetLabel(cn)), Return(x) >>

\* The jumps of a function land in its own exit block.
LEMMA BlocksLand ==
  ASSUME NEW cn \in Names, NEW e, IsEntry(e, cn), NEW x \in ExitValues
  PROVE  /\ e \o ExitOf(cn, x) \in Seq(LoweredNodes)
         /\ Lands(e \o ExitOf(cn, x))
         /\ \A name \in Names : HasLabel(e \o ExitOf(cn, x), name) => name = cn
<1> DEFINE l == Len(e)
<1>1. /\ e \in Seq(LoweredNodes) /\ l \in Nat /\ l > 0 /\ e[1] = Function(cn)
      /\ \A i \in 2 .. l : BodyElement(e[i], cn)
  BY DEF IsEntry
<1>2. PICK b : b = e \o ExitOf(cn, x)
  OBVIOUS
<1>3. PICK exit : exit = ExitOf(cn, x)
  OBVIOUS
<1>4. /\ exit \in Seq(LoweredNodes) /\ Len(exit) = 2
      /\ exit[1] = Label(RetLabel(cn)) /\ exit[2] = Return(x)
  <2>1. Label(RetLabel(cn)) \in LoweredNodes /\ Return(x) \in LoweredNodes
    BY DEF LoweredNodes
  <2>2. \A y, z \in LoweredNodes :
          << y, z >> \in Seq(LoweredNodes) /\ Len(<< y, z >>) = 2 /\ << y, z >>[1] = y /\ << y, z >>[2] = z
    OBVIOUS
  <2> QED
    BY <1>3, <2>1, <2>2 DEF ExitOf
<1>5. /\ b \in Seq(LoweredNodes) /\ Len(b) = l + 2
      /\ \A i \in 1 .. l : b[i] = e[i]
      /\ \A i \in 1 .. 2 : b[l + i] = exit[i]
  <2>1. b = e \o exit
    BY <1>2, <1>3
  <2>2. e \in Seq(LoweredNodes) /\ exit \in Seq(LoweredNodes)
    BY <1>1, <1>4
  <2>3. /\ b \in Seq(LoweredNodes) /\ Len(b) = l + Len(exit)
        /\ \A i \in 1 .. l : b[i] = e[i]
        /\ \A i \in 1 .. Len(exit) : b[l + i] = exit[i]
    <3> HIDE DEF l
    <3> QED
      BY <2>1, <2>2, JoinedElements DEF l
  <2>4. Len(exit) = 2
    BY <1>4
  <2> HIDE DEF l
  <2> QED
    BY <2>3, <2>4
<1> HIDE DEF l
<1>0. l \in Nat /\ l > 0 /\ 1 \in 1 .. l /\ 1 \in 1 .. 2 /\ 2 \in 1 .. 2
  BY <1>1
<1>6. /\ b[1] = Function(cn) /\ b[l + 1] = Label(RetLabel(cn)) /\ b[l + 2] = Return(x)
      /\ \A i \in 2 .. l : BodyElement(b[i], cn)
  <2>1. \A i \in 2 .. l : i \in 1 .. l
    BY <1>0
  <2>2. \A i \in 2 .. l : b[i] = e[i]
    BY <1>5, <2>1
  <2>3. b[1] = e[1] /\ b[l + 1] = exit[1] /\ b[l + 2] = exit[2]
    BY <1>0, <1>5
  <2> QED
    BY <1>1, <1>4, <2>2, <2>3
<1>7. \A i \in 1 .. l + 2 : i = 1 \/ i \in 2 .. l \/ i = l + 1 \/ i = l + 2
  BY <1>0
<1>8. /\ \A name \in Names : b[1] # Goto(RetLabel(name)) /\ b[1] # Label(RetLabel(name))
      /\ \A name \in Names : b[l + 2] # Goto(RetLabel(name)) /\ b[l + 2] # Label(RetLabel(name))
      /\ \A name \in Names : b[l + 1] # Goto(RetLabel(name))
      /\ b[l + 1].ir # "Function"
  <2>1. b[1].ir = "Function" /\ b[l + 1].ir = "Label" /\ b[l + 2].ir = "Return"
    BY <1>6 DEF Function, Label, Return
  <2>2. \A lab : Goto(lab).ir = "Goto" /\ Label(lab).ir = "Label"
    BY DEF Goto, Label
  <2> QED
    BY <2>1, <2>2
<1>9. \A i \in 2 .. l, name \in Names :
        /\ b[i] # Label(RetLabel(name)) /\ b[i].ir # "Function"
        /\ b[i] = Goto(RetLabel(name)) => name = cn
  BY <1>6 DEF BodyElement
<1>10. ASSUME NEW i \in 1 .. l + 2, NEW name \in Names, b[i] = Goto(RetLabel(name))
       PROVE  \E j \in 1 .. l + 2 : b[j] = Label(RetLabel(name)) /\ LandsAt(b, i, j)
  <2>1. i \in 2 .. l
    BY <1>7, <1>8, <1>10
  <2>2. name = cn
    BY <1>9, <1>10, <2>1
  <2>3. i < l + 1 /\ l + 1 \in 1 .. l + 2
    BY <1>0, <2>1
  <2>4. ASSUME NEW k \in (1 .. l + 2) \ {l + 1}
        PROVE  b[k] # b[l + 1]
    BY <1>6, <1>7, <1>8, <1>9
  <2>5. ASSUME NEW k \in i .. l + 1
        PROVE  b[k].ir # "Function"
    <3>1. k \in 2 .. l \/ k = l + 1
      BY <1>0, <2>1
    <3> QED
      BY <1>8, <1>9, <2>2, <3>1
  <2> QED
    BY <1>5, <1>6, <2>2, <2>3, <2>4, <2>5 DEF LandsAt
<1>11. Lands(b)
  BY <1>5, <1>10, LandsIs
<1>12. ASSUME NEW name \in Names, HasLabel(b, name)
       PROVE  name = cn
  <2>1. PICK i \in 1 .. l + 2 : b[i] = Label(RetLabel(name))
    BY <1>5, <1>12 DEF HasLabel
  <2>2. i = l + 1
    BY <1>7, <1>8, <1>9, <2>1
  <2>3. RetLabel(name) = RetLabel(cn)
    <3>1. Label(RetLabel(name)) = Label(RetLabel(cn))
      BY <1>6, <2>1, <2>2
    <3>2. \A lab : Label(lab).label = lab
      BY DEF Label
    <3> QED
      BY <3>1, <3>2
  <2> QED
    BY <2>3, CFGBuilderAssumption
<1> QED
  BY <1>2, <1>5, <1>11, <1>12

\* x, in the code of the function cn, is a node of the IR c that cn owns, or what
\* stands for a Return.
From(x, c, cn) ==
  \/ x.ir = "Assign" \/ x = Goto(RetLabel(cn))
  \/ \E i \in 1 .. Len(c) : c[i] = x /\ Starts(c, i) # {} /\ OwnerIn(c, i) = cn

Sourced(s, c, cn) == \A k \in 1 .. Len(s) : From(s[k], c, cn)

LEMMA SourcedStays ==
  ASSUME NEW c \in Seq(Nodes), NEW node \in Nodes, NEW cn, NEW s, Sourced(s, c, cn)
  PROVE  Sourced(s, Append(c, node), cn)
<1>1. PICK d : d = Append(c, node)
  OBVIOUS
<1>2. /\ Len(d) = Len(c) + 1 /\ Len(c) \in Nat
      /\ \A i \in 1 .. Len(c) : d[i] = c[i]
  BY <1>1, AppendedElements
<1>3. \A i \in 1 .. Len(c) :
        /\ Starts(d, i) = Starts(c, i)
        /\ Starts(c, i) # {} => OwnerIn(d, i) = OwnerIn(c, i)
  BY <1>1, OwnerAppend
<1>4. \A i \in 1 .. Len(c) : i \in 1 .. Len(d)
  BY <1>2
<1>5. ASSUME NEW x, From(x, c, cn)
      PROVE  From(x, d, cn)
  <2>1. CASE \E i \in 1 .. Len(c) : c[i] = x /\ Starts(c, i) # {} /\ OwnerIn(c, i) = cn
    <3>1. PICK i \in 1 .. Len(c) : c[i] = x /\ Starts(c, i) # {} /\ OwnerIn(c, i) = cn
      BY <2>1
    <3>2. i \in 1 .. Len(d) /\ d[i] = x /\ Starts(d, i) # {} /\ OwnerIn(d, i) = cn
      BY <1>2, <1>3, <1>4, <3>1
    <3> QED
      BY <3>2 DEF From
  <2>2. CASE x.ir = "Assign" \/ x = Goto(RetLabel(cn))
    BY <2>2 DEF From
  <2> QED
    BY <1>5, <2>1, <2>2 DEF From
<1> QED
  BY <1>1, <1>5 DEF Sourced

LEMMA SourcedConcat ==
  ASSUME NEW c, NEW cn, NEW s \in Seq(LoweredNodes), NEW t \in Seq(LoweredNodes),
         Sourced(s, c, cn), Sourced(t, c, cn)
  PROVE  Sourced(s \o t, c, cn)
<1>1. PICK n : n = Len(s)
  OBVIOUS
<1>2. PICK m : m = Len(t)
  OBVIOUS
<1>3. PICK u : u = s \o t
  OBVIOUS
<1>4. /\ n \in Nat /\ m \in Nat /\ Len(u) = n + m
      /\ \A i \in 1 .. n : u[i] = s[i]
      /\ \A i \in 1 .. m : u[n + i] = t[i]
  BY <1>1, <1>2, <1>3, JoinedElements
<1>5. ASSUME NEW i \in 1 .. n + m
      PROVE  From(u[i], c, cn)
  <2>1. CASE i <= n
    <3>1. i \in 1 .. n
      BY <1>4, <2>1
    <3> QED
      BY <1>1, <1>4, <3>1 DEF Sourced
  <2>2. CASE ~(i <= n)
    <3>1. i - n \in 1 .. m /\ i = n + (i - n)
      BY <1>4, <2>2
    <3>2. u[i] = t[i - n]
      BY <1>4, <3>1
    <3> QED
      BY <1>2, <3>1, <3>2 DEF Sourced
  <2> QED
    BY <2>1, <2>2
<1> QED
  BY <1>3, <1>4, <1>5 DEF Sourced

LEMMA LowerSourced ==
  ASSUME NEW c \in Seq(Nodes), NEW node \in Nodes, NEW cn,
         Starts(Append(c, node), Len(c) + 1) # {},
         OwnerIn(Append(c, node), Len(c) + 1) = cn
  PROVE  Sourced(Lower(node, cn), Append(c, node), cn)
<1>1. PICK d : d = Append(c, node)
  OBVIOUS
<1>2. Len(d) = Len(c) + 1 /\ Len(c) \in Nat /\ d[Len(c) + 1] = node
  BY <1>1, AppendedElements
<1>3. From(node, d, cn)
  <2>1. Len(c) + 1 \in 1 .. Len(d)
    BY <1>2
  <2> QED
    BY <1>1, <1>2, <2>1 DEF From
<1>4. From(Goto(RetLabel(cn)), d, cn) /\ From(Assign("a0", node.x), d, cn)
  BY DEF From, Assign
<1>5. \/ Lower(node, cn) = << node >>
      \/ Lower(node, cn) = << Goto(RetLabel(cn)) >>
      \/ Lower(node, cn) = << Assign("a0", node.x), Goto(RetLabel(cn)) >>
  BY DEF Lower
<1>6. ASSUME NEW a, From(a, d, cn)
      PROVE  Sourced(<< a >>, d, cn)
  <2>1. Len(<< a >>) = 1 /\ << a >>[1] = a /\ 1 .. 1 = {1}
    OBVIOUS
  <2> QED
    BY <1>6, <2>1 DEF Sourced
<1>7. ASSUME NEW a, From(a, d, cn), NEW b, From(b, d, cn)
      PROVE  Sourced(<< a, b >>, d, cn)
  <2>1. Len(<< a, b >>) = 2 /\ << a, b >>[1] = a /\ << a, b >>[2] = b /\ 1 .. 2 = {1, 2}
    OBVIOUS
  <2> QED
    BY <1>7, <2>1 DEF Sourced
<1>8. Sourced(Lower(node, cn), d, cn)
  <2>1. PICK g : g = Goto(RetLabel(cn))
    OBVIOUS
  <2>2. PICK v : v = Assign("a0", node.x)
    OBVIOUS
  <2>3. From(g, d, cn) /\ From(v, d, cn)
    BY <1>4, <2>1, <2>2
  <2>4. Sourced(<< node >>, d, cn) /\ Sourced(<< g >>, d, cn) /\ Sourced(<< v, g >>, d, cn)
    BY <1>3, <1>6, <1>7, <2>3
  <2> QED
    BY <1>5, <2>1, <2>2, <2>4
<1> QED
  BY <1>1, <1>8

-----------------------------------------------------------------------------
(* The module.                                                             *)

BuiltSet == [name : Names, entry : Seq(LoweredNodes), exit : Seq(LoweredNodes)]

\* function is what build_single_func makes of a function of the IR c.
IsBuilt(function, c) ==
  /\ function \in BuiltSet /\ IsEntry(function.entry, function.name)
  /\ \E x \in ExitValues : /\ function.exit = ExitOf(function.name, x)
                           /\ x = "a0" <=> ValueOf(c, function.name)
  /\ \E p \in 1 .. Len(c) : c[p] = Function(function.name)
  /\ Sourced(function.entry, c, function.name)

Entries(fs) == FlattenSeq([f \in 1 .. Len(fs) |-> fs[f].entry])

Bodies(fs) == FlattenSeq([f \in 1 .. Len(fs) |-> fs[f].entry \o fs[f].exit])

\* fs are functions of the IR c.
AreFunctions(fs, c) ==
  /\ fs \in Seq(BuiltSet)
  /\ \A f \in 1 .. Len(fs) : IsBuilt(fs[f], c)
  /\ \A f, g \in 1 .. Len(fs) : fs[f].name = fs[g].name => f = g
  /\ Entries(fs) \in Seq(LoweredNodes)
  /\ Bodies(fs) \in Seq(LoweredNodes) /\ Lands(Bodies(fs))
  /\ \A name \in Names : HasLabel(Bodies(fs), name) => \E f \in 1 .. Len(fs) : fs[f].name = name

\* One function more: the code they have grows by its blocks.
LEMMA BodiesAppend ==
  ASSUME NEW fs \in Seq(BuiltSet), NEW function \in BuiltSet
  PROVE  /\ Entries(Append(fs, function)) = Entries(fs) \o function.entry
         /\ Bodies(Append(fs, function)) = Bodies(fs) \o (function.entry \o function.exit)
<1> DEFINE n == Len(fs)
<1>1. PICK gs : gs = Append(fs, function)
  OBVIOUS
<1>2. /\ gs \in Seq(BuiltSet) /\ Len(gs) = n + 1 /\ n \in Nat /\ gs[n + 1] = function
      /\ \A f \in 1 .. n : gs[f] = fs[f] /\ fs[f] \in BuiltSet
  BY <1>1, AppendedElements
<1>3. \A b \in BuiltSet : b.entry \in Seq(LoweredNodes) /\ b.entry \o b.exit \in Seq(LoweredNodes)
  BY JoinedElements DEF BuiltSet
<1>4. \A f \in 1 .. n + 1 : gs[f] \in BuiltSet
  BY <1>2
<1> HIDE DEF n
<1>5. n + 1 \in 1 .. n + 1 /\ \A f \in 1 .. n : f \in 1 .. n + 1
  BY <1>2
<1>6. Entries(gs) = Entries(fs) \o function.entry
  <2>1. PICK m : m = [f \in 1 .. n |-> fs[f].entry]
    OBVIOUS
  <2>2. PICK u : u = [f \in 1 .. n + 1 |-> gs[f].entry]
    OBVIOUS
  <2>3. OneMore(LoweredNodes, n, m, u)
    BY <1>2, <1>3, <1>4, <1>5, <2>1, <2>2 DEF OneMore
  <2>4. FlattenSeq(u) = FlattenSeq(m) \o u[n + 1]
    BY <1>2, <2>3, FlattenMapped
  <2> QED
    BY <1>2, <1>5, <2>1, <2>2, <2>4 DEF Entries, n
<1>7. Bodies(gs) = Bodies(fs) \o (function.entry \o function.exit)
  <2>1. PICK m : m = [f \in 1 .. n |-> fs[f].entry \o fs[f].exit]
    OBVIOUS
  <2>2. PICK u : u = [f \in 1 .. n + 1 |-> gs[f].entry \o gs[f].exit]
    OBVIOUS
  <2>3. OneMore(LoweredNodes, n, m, u)
    BY <1>2, <1>3, <1>4, <1>5, <2>1, <2>2 DEF OneMore
  <2>4. FlattenSeq(u) = FlattenSeq(m) \o u[n + 1]
    BY <1>2, <2>3, FlattenMapped
  <2> QED
    BY <1>2, <1>5, <2>1, <2>2, <2>4 DEF Bodies, n
<1> QED
  BY <1>1, <1>6, <1>7

LEMMA FunctionsGrow ==
  ASSUME NEW c, NEW fs, AreFunctions(fs, c), NEW function, IsBuilt(function, c),
         \A f \in 1 .. Len(fs) : fs[f].name # function.name
  PROVE  /\ AreFunctions(Append(fs, function), c)
         /\ Entries(Append(fs, function)) = Entries(fs) \o function.entry
<1> DEFINE n == Len(fs)
           cn == function.name
<1>1. PICK gs : gs = Append(fs, function)
  OBVIOUS
<1>2. /\ fs \in Seq(BuiltSet) /\ \A f \in 1 .. n : IsBuilt(fs[f], c)
      /\ \A f, g \in 1 .. n : fs[f].name = fs[g].name => f = g
      /\ Entries(fs) \in Seq(LoweredNodes)
      /\ Bodies(fs) \in Seq(LoweredNodes) /\ Lands(Bodies(fs))
      /\ \A name \in Names : HasLabel(Bodies(fs), name) => \E f \in 1 .. n : fs[f].name = name
  BY DEF AreFunctions
<1>3. PICK x \in ExitValues : function.exit = ExitOf(cn, x)
  BY DEF IsBuilt
<1>4. /\ function \in BuiltSet /\ IsEntry(function.entry, cn) /\ cn \in Names
      /\ function.entry \in Seq(LoweredNodes)
  BY DEF IsBuilt, BuiltSet
<1>5. /\ gs \in Seq(BuiltSet) /\ Len(gs) = n + 1 /\ n \in Nat /\ gs[n + 1] = function
      /\ \A f \in 1 .. n : gs[f] = fs[f]
  BY <1>1, <1>2, <1>4, AppendedElements
<1>6. PICK b : b = function.entry \o function.exit
  OBVIOUS
<1>7. /\ b \in Seq(LoweredNodes) /\ Lands(b)
      /\ \A name \in Names : HasLabel(b, name) => name = cn
  BY <1>3, <1>4, <1>6, BlocksLand
<1>8. Entries(gs) = Entries(fs) \o function.entry /\ Bodies(gs) = Bodies(fs) \o b
  BY <1>1, <1>2, <1>4, <1>6, BodiesAppend
<1> HIDE DEF n
<1>9. \A f \in 1 .. n + 1 : f \in 1 .. n \/ f = n + 1
  BY <1>5
<1>10. \A f \in 1 .. n + 1 : IsBuilt(gs[f], c)
  BY <1>2, <1>5, <1>9
<1>11. Entries(gs) \in Seq(LoweredNodes) /\ Bodies(gs) \in Seq(LoweredNodes)
  BY <1>2, <1>4, <1>7, <1>8, JoinedElements
<1>12. Lands(Bodies(gs))
  <2>1. \A name \in Names : ~(HasLabel(Bodies(fs), name) /\ HasLabel(b, name))
    BY <1>2, <1>7 DEF n
  <2> QED
    BY <1>2, <1>7, <1>8, <2>1, LandsConcat
<1>13. ASSUME NEW name \in Names, HasLabel(Bodies(gs), name)
       PROVE  \E f \in 1 .. n + 1 : gs[f].name = name
  <2>1. CASE HasLabel(Bodies(fs), name)
    <3>1. PICK f \in 1 .. n : fs[f].name = name
      BY <1>2, <2>1
    <3>2. f \in 1 .. n + 1
      BY <1>5
    <3> QED
      BY <1>5, <3>1, <3>2
  <2>2. CASE HasLabel(b, name)
    <3>1. name = cn /\ n + 1 \in 1 .. n + 1
      BY <1>5, <1>7, <2>2
    <3> QED
      BY <1>5, <3>1
  <2>3. HasLabel(Bodies(fs), name) \/ HasLabel(b, name)
    BY <1>2, <1>7, <1>8, <1>13, LabelsConcat
  <2> QED
    BY <2>1, <2>2, <2>3
<1>14. \A f, g \in 1 .. n + 1 : gs[f].name = gs[g].name => f = g
  <2>1. \A f \in 1 .. n : fs[f].name # cn
    BY DEF n
  <2> QED
    BY <1>2, <1>5, <1>9, <2>1
<1> QED
  BY <1>1, <1>5, <1>8, <1>10, <1>11, <1>12, <1>13, <1>14 DEF AreFunctions

\* The IR may grow by a node that is not a Return of one of the functions.
LEMMA FunctionsStay ==
  ASSUME NEW c, Owned(c), NEW fs, AreFunctions(fs, c), NEW node \in Nodes,
         \A f \in 1 .. Len(fs) :
           node.ir = "Return" => OwnerIn(Append(c, node), Len(c) + 1) # fs[f].name
  PROVE  AreFunctions(fs, Append(c, node))
<1>1. PICK d : d = Append(c, node)
  OBVIOUS
<1>2. /\ Len(d) = Len(c) + 1 /\ Len(c) \in Nat
      /\ \A i \in 1 .. Len(c) : d[i] = c[i]
  BY <1>1, AppendedElements DEF Owned
<1>3. ASSUME NEW f \in 1 .. Len(fs)
      PROVE  IsBuilt(fs[f], d)
  <2>1. PICK function : function = fs[f]
    OBVIOUS
  <2>2. IsBuilt(function, c)
    BY <2>1 DEF AreFunctions
  <2>3. ValueOf(d, function.name) <=> ValueOf(c, function.name)
    BY <1>1, <2>1, ValueAppend
  <2>4. PICK p \in 1 .. Len(c) : c[p] = Function(function.name)
    BY <2>2 DEF IsBuilt
  <2>5. p \in 1 .. Len(d) /\ d[p] = Function(function.name)
    BY <1>2, <2>4
  <2>6. Sourced(function.entry, d, function.name)
    BY <1>1, <2>2, SourcedStays DEF IsBuilt, Owned
  <2> QED
    BY <2>1, <2>2, <2>3, <2>5, <2>6 DEF IsBuilt
<1> QED
  BY <1>1, <1>3 DEF AreFunctions

-----------------------------------------------------------------------------
(* The function being collected.                                           *)

HasValue(func) == \E i \in 1 .. Len(func) : func[i].ir = "Return" /\ func[i].x # ""

\* cn is the last function of the IR c.
LastIs(c, cn) ==
  \E p \in Starts(c, Len(c)) : c[p] = Function(cn) /\ \A k \in Starts(c, Len(c)) : k <= p

\* func is the code of cn, the last function of the IR c; fs are others of it.
Collects(func, fs, c, cn) ==
  /\ func \in Seq(Nodes) /\ Len(func) > 0 /\ cn \in Names
  /\ func[1] = Function(cn) /\ IsEntry(EntryOf(func), cn)
  /\ Sourced(EntryOf(func), c, cn)
  /\ LastIs(c, cn)
  /\ HasValue(func) <=> ValueOf(c, cn)
  /\ \A f \in 1 .. Len(fs) : fs[f].name # cn

LEMMA CollectedIsBuilt ==
  ASSUME NEW func, NEW fs, NEW c, NEW cn, Collects(func, fs, c, cn)
  PROVE  /\ IsBuilt(BuildSingleFunc(func), c)
         /\ BuildSingleFunc(func).name = cn /\ BuildSingleFunc(func).entry = EntryOf(func)
<1>1. PICK function : function = BuildSingleFunc(func)
  OBVIOUS
<1>2. PICK x \in ExitValues : x = "a0" <=> HasValue(func)
  <2>1. PICK y : y = IF HasValue(func) THEN "a0" ELSE ""
    OBVIOUS
  <2> QED
    BY <2>1 DEF ExitValues
<1>3. /\ func \in Seq(Nodes) /\ Len(func) > 0 /\ cn \in Names /\ func[1] = Function(cn)
      /\ IsEntry(EntryOf(func), cn) /\ LastIs(c, cn) /\ Sourced(EntryOf(func), c, cn)
      /\ HasValue(func) <=> ValueOf(c, cn)
  BY DEF Collects
<1>4. func[1].name = cn /\ DOMAIN func = 1 .. Len(func)
  BY <1>3 DEF Function
<1>5. function.name = cn /\ function.entry = EntryOf(func)
  BY <1>1, <1>4 DEF BuildSingleFunc, EntryOf
<1>6. function.exit = ExitOf(cn, x)
  <2>1. x = IF HasValue(func) THEN "a0" ELSE ""
    BY <1>2 DEF ExitValues
  <2> QED
    BY <1>1, <1>4, <2>1 DEF BuildSingleFunc, ExitOf, HasValue
<1>7. function \in BuiltSet
  <2>1. function.entry \in Seq(LoweredNodes)
    BY <1>3, <1>5 DEF IsEntry
  <2>2. Label(RetLabel(cn)) \in LoweredNodes /\ Return(x) \in LoweredNodes
    BY <1>3 DEF LoweredNodes
  <2>3. function.exit \in Seq(LoweredNodes)
    BY <1>6, <2>2 DEF ExitOf
  <2>4. function = [name |-> function.name, entry |-> function.entry, exit |-> function.exit]
    BY <1>1 DEF BuildSingleFunc
  <2> QED
    BY <1>3, <1>5, <2>1, <2>3, <2>4 DEF BuiltSet
<1>8. PICK p \in 1 .. Len(c) : c[p] = Function(cn)
  BY <1>3 DEF LastIs, Starts
<1>9. x = "a0" <=> ValueOf(c, cn)
  BY <1>2, <1>3
<1> QED
  BY <1>1, <1>3, <1>5, <1>6, <1>7, <1>8, <1>9 DEF IsBuilt

\* A node that starts no function belongs to the last one.
LEMMA LastStays ==
  ASSUME NEW c \in Seq(Nodes), NEW node \in Nodes, node.ir # "Function",
         NEW cn, LastIs(c, cn)
  PROVE  /\ LastIs(Append(c, node), cn)
         /\ OwnerIn(Append(c, node), Len(c) + 1) = cn
         /\ Starts(Append(c, node), Len(c) + 1) # {}
<1> DEFINE n == Len(c)
<1>1. PICK d : d = Append(c, node)
  OBVIOUS
<1>2. Len(d) = n + 1 /\ n \in Nat /\ d[n + 1] = node /\ \A i \in 1 .. n : d[i] = c[i]
  BY <1>1, AppendedElements
<1>3. PICK p \in Starts(c, n) : c[p] = Function(cn) /\ \A k \in Starts(c, n) : k <= p
  BY DEF LastIs
<1> HIDE DEF n
<1>4. Starts(d, n + 1) = Starts(c, n)
  <2>1. \A j \in 1 .. n + 1 : j \in 1 .. n \/ j = n + 1
    BY <1>2
  <2>2. \A j \in 1 .. n : j \in 1 .. n + 1
    BY <1>2
  <2> QED
    BY <1>2, <2>1, <2>2 DEF Starts
<1>5. p \in 1 .. n /\ d[p] = Function(cn)
  BY <1>2, <1>3 DEF Starts
<1>6. OwnerIn(d, n + 1) = cn
  <2>1. OwnerIn(d, n + 1) = d[p].name
    BY <1>2, <1>3, <1>4, OwnerIsLast
  <2> QED
    BY <1>5, <2>1 DEF Function
<1>7. LastIs(d, cn)
  BY <1>2, <1>3, <1>4, <1>5 DEF LastIs
<1> QED
  BY <1>1, <1>3, <1>4, <1>6, <1>7 DEF n

LEMMA CollectsNode ==
  ASSUME NEW func, NEW fs, NEW c, Owned(c), NEW cn, Collects(func, fs, c, cn),
         NEW node \in Nodes, node.ir \notin {"Function", "Global"}
  PROVE  /\ Collects(Append(func, node), fs, Append(c, node), cn)
         /\ EntryOf(Append(func, node)) = EntryOf(func) \o Lower(node, cn)
         /\ EntryOf(func) \in Seq(LoweredNodes) /\ Lower(node, cn) \in Seq(LoweredNodes)
<1>1. /\ func \in Seq(Nodes) /\ Len(func) > 0 /\ cn \in Names /\ func[1] = Function(cn)
      /\ IsEntry(EntryOf(func), cn) /\ LastIs(c, cn) /\ Sourced(EntryOf(func), c, cn)
      /\ HasValue(func) <=> ValueOf(c, cn)
      /\ \A f \in 1 .. Len(fs) : fs[f].name # cn
  BY DEF Collects
<1>2. PICK d : d = Append(c, node)
  OBVIOUS
<1>3. PICK next : next = Append(func, node)
  OBVIOUS
<1>4. /\ next \in Seq(Nodes) /\ Len(next) = Len(func) + 1 /\ next[Len(func) + 1] = node
      /\ \A i \in 1 .. Len(func) : next[i] = func[i]
  BY <1>1, <1>3, AppendedElements
<1>5. LastIs(d, cn) /\ OwnerIn(d, Len(c) + 1) = cn /\ Starts(d, Len(c) + 1) # {}
  BY <1>1, <1>2, LastStays DEF Owned
<1>6. EntryOf(next) = EntryOf(func) \o Lower(node, cn)
  BY <1>1, <1>3, EntryAppend
<1>7. Lower(node, cn) \in Seq(LoweredNodes)
  BY <1>1, LowerSeq
<1>8. IsEntry(EntryOf(next), cn)
  <2>1. PICK t : t = Lower(node, cn)
    OBVIOUS
  <2>2. \A i \in 1 .. Len(t) : BodyElement(t[i], cn)
    BY <1>1, <2>1, LowerElements
  <2>3. PICK e : e = EntryOf(func)
    OBVIOUS
  <2>4. IsEntry(e \o t, cn)
    BY <1>1, <1>7, <2>1, <2>2, <2>3, EntryGrows
  <2> QED
    BY <1>6, <2>1, <2>3, <2>4
<1>9. HasValue(next) <=> HasValue(func) \/ (node.ir = "Return" /\ node.x # "")
  <2>1. Len(func) \in Nat /\ Len(func) + 1 \in 1 .. Len(next)
    BY <1>1, <1>4
  <2>2. \A i \in 1 .. Len(next) : i \in 1 .. Len(func) \/ i = Len(func) + 1
    BY <1>4, <2>1
  <2>3. \A i \in 1 .. Len(func) : i \in 1 .. Len(next)
    BY <1>4, <2>1
  <2> QED
    BY <1>4, <2>1, <2>2, <2>3 DEF HasValue
<1>10. ValueOf(d, cn) <=> ValueOf(c, cn) \/ (node.ir = "Return" /\ node.x # "")
  BY <1>2, <1>5, ValueAppend
<1>11. HasValue(next) <=> ValueOf(d, cn)
  BY <1>1, <1>9, <1>10
<1>12. next[1] = Function(cn) /\ Len(next) > 0
  BY <1>1, <1>4
<1>13. EntryOf(func) \in Seq(LoweredNodes)
  BY <1>1 DEF IsEntry
<1>14. Sourced(EntryOf(next), d, cn)
  <2>1. Sourced(EntryOf(func), d, cn)
    BY <1>1, <1>2, SourcedStays DEF Owned
  <2>2. Sourced(Lower(node, cn), d, cn)
    BY <1>2, <1>5, LowerSourced DEF Owned
  <2>3. PICK s : s = EntryOf(func)
    OBVIOUS
  <2>4. PICK t : t = Lower(node, cn)
    OBVIOUS
  <2>5. Sourced(s \o t, d, cn)
    BY <1>7, <1>13, <2>1, <2>2, <2>3, <2>4, SourcedConcat
  <2> QED
    BY <1>6, <2>3, <2>4, <2>5
<1> QED
  BY <1>1, <1>2, <1>3, <1>4, <1>5, <1>6, <1>7, <1>8, <1>11, <1>12, <1>13, <1>14 DEF Collects

LEMMA CollectsGlobal ==
  ASSUME NEW func, NEW fs, NEW c, Owned(c), NEW cn, Collects(func, fs, c, cn),
         NEW node \in Nodes, node.ir = "Global"
  PROVE  Collects(func, fs, Append(c, node), cn)
<1>1. PICK d : d = Append(c, node)
  OBVIOUS
<1>2. LastIs(d, cn)
  BY <1>1, LastStays DEF Owned, Collects
<1>3. ValueOf(d, cn) <=> ValueOf(c, cn)
  BY <1>1, ValueAppend
<1>4. Sourced(EntryOf(func), d, cn)
  BY <1>1, SourcedStays DEF Owned, Collects
<1> QED
  BY <1>1, <1>2, <1>3, <1>4 DEF Collects

LEMMA CollectsFunction ==
  ASSUME NEW fs, NEW c, Owned(c), AreFunctions(fs, c), NEW cn \in Names,
         \A i \in 1 .. Len(c) : c[i] # Function(cn)
  PROVE  Collects(<< Function(cn) >>, fs, Append(c, Function(cn)), cn)
<1> DEFINE func == << Function(cn) >>
           n == Len(c)
<1>1. PICK d : d = Append(c, Function(cn))
  OBVIOUS
<1>2. Function(cn) \in Nodes /\ Function(cn).ir = "Function"
  BY DEF Nodes, Function
<1>3. Len(d) = n + 1 /\ n \in Nat /\ d[n + 1] = Function(cn) /\ n + 1 \in 1 .. n + 1
  BY <1>1, <1>2, AppendedElements DEF Owned
<1>4. LastIs(d, cn)
  <2>1. n + 1 \in Starts(d, n + 1)
    BY <1>2, <1>3 DEF Starts
  <2>2. \A k \in Starts(d, n + 1) : k <= n + 1
    BY <1>3 DEF Starts
  <2> QED
    BY <1>3, <2>1, <2>2 DEF LastIs
<1>5. ~ValueOf(d, cn)
  <2>1. ~ValueOf(c, cn)
    BY ValueKnown
  <2> QED
    BY <1>1, <1>2, <2>1, ValueAppend
<1>6. ~HasValue(func)
  <2>1. Len(func) = 1 /\ func[1].ir = "Function"
    BY <1>2
  <2>2. \A i \in 1 .. 1 : i = 1
    OBVIOUS
  <2> HIDE DEF func
  <2> QED
    BY <2>1, <2>2 DEF HasValue
<1>7. ASSUME NEW f \in 1 .. Len(fs)
      PROVE  fs[f].name # cn
  BY DEF AreFunctions, IsBuilt
<1>8. func \in Seq(Nodes) /\ Len(func) > 0 /\ func[1] = Function(cn)
  BY <1>2
<1>9. IsEntry(EntryOf(func), cn)
  BY EntryStart
<1>10. Sourced(EntryOf(func), d, cn)
  <2>1. n + 1 \in Starts(d, n + 1)
    BY <1>2, <1>3 DEF Starts
  <2>2. \A k \in Starts(d, n + 1) : k <= n + 1
    BY <1>3 DEF Starts
  <2>3. OwnerIn(d, n + 1) = d[n + 1].name
    BY <1>3, <2>1, <2>2, OwnerIsLast
  <2>4. OwnerIn(d, n + 1) = cn
    BY <1>3, <2>3 DEF Function
  <2>5. Sourced(Lower(Function(cn), cn), d, cn)
    BY <1>1, <1>2, <2>1, <2>4, LowerSourced DEF Owned
  <2>6. Lower(Function(cn), cn) = << Function(cn) >>
    BY <1>2 DEF Lower
  <2> QED
    BY <2>5, <2>6, EntryStart
<1> HIDE DEF func
<1> QED
  BY <1>1, <1>4, <1>5, <1>6, <1>7, <1>8, <1>9, <1>10 DEF Collects, func

-----------------------------------------------------------------------------
(* The invariant.                                                          *)

\* TypeOK and the properties below say nothing of the function being collected,
\* of a jump before its exit block exists, or of where Owner finds a function:
\* the invariant adds what build() keeps of each.
IInv ==
  /\ Owned(code)
  /\ built \in BOOLEAN
  /\ mod = [functions |-> mod.functions, globals |-> mod.globals]
  /\ AreFunctions(mod.functions, code)
  /\ mod.globals \in Seq(Globals) /\ mod.globals = GlobalsIn(code)
  /\ current_func # << >> => \E cn : Collects(current_func, mod.functions, code, cn)
  /\ InBody /\ ~built => current_func # << >>
  /\ built => current_func = << >>
  /\ Entries(mod.functions) \o LoweredCurrent = LoweredOf(code)

LEMMA InitIInv ==
  ASSUME Init
  PROVE  IInv
<1>1. /\ code = << >> /\ current_func = << >> /\ built = FALSE
      /\ mod = [functions |-> << >>, globals |-> << >>]
      /\ mod.functions = << >> /\ mod.globals = << >>
  BY DEF Init
<1>2. Owned(<< >>)
  BY DEF Owned
<1>3. LoweredOf(<< >>) = << >> /\ GlobalsIn(<< >>) = << >>
  BY DEF LoweredOf, GlobalsIn, FlattenSeq
<1>4. Entries(<< >>) = << >> /\ Bodies(<< >>) = << >>
  BY DEF Entries, Bodies, FlattenSeq
<1>5. Lands(<< >>) /\ \A name : ~HasLabel(<< >>, name)
  BY DEF Lands, HasLabel
<1>6. AreFunctions(<< >>, << >>)
  <2>1. /\ << >> \in Seq(BuiltSet) /\ << >> \in Seq(LoweredNodes)
        /\ \A f \in 1 .. Len(<< >>) : FALSE
    OBVIOUS
  <2>2. PICK empty : empty = << >>
    OBVIOUS
  <2>3. AreFunctions(empty, empty)
    BY <1>4, <1>5, <2>1, <2>2 DEF AreFunctions
  <2> QED
    BY <2>2, <2>3
<1>7. ~InBody /\ LoweredCurrent = << >>
  BY <1>1 DEF InBody, LoweredCurrent
<1>8. << >> \o << >> = << >> /\ << >> \in Seq(Globals)
  OBVIOUS
<1> QED
  BY <1>1, <1>2, <1>3, <1>4, <1>6, <1>7, <1>8 DEF IInv

\* Once the function collected is built the module holds all the code.
LEMMA FlushedHolds ==
  ASSUME IInv
  PROVE  /\ Flushed = [functions |-> Flushed.functions, globals |-> mod.globals]
         /\ AreFunctions(Flushed.functions, code)
         /\ Entries(Flushed.functions) = LoweredOf(code)
<1>1. /\ mod = [functions |-> mod.functions, globals |-> mod.globals]
      /\ AreFunctions(mod.functions, code)
      /\ current_func # << >> => \E cn : Collects(current_func, mod.functions, code, cn)
      /\ Entries(mod.functions) \o LoweredCurrent = LoweredOf(code)
  BY DEF IInv
<1>2. CASE current_func = << >>
  <2>1. Flushed = mod /\ LoweredCurrent = << >>
    BY <1>2 DEF Flushed, LoweredCurrent
  <2>2. Entries(mod.functions) \in Seq(LoweredNodes)
    BY <1>1 DEF AreFunctions
  <2>3. Entries(mod.functions) \o << >> = Entries(mod.functions)
    BY <2>2
  <2> QED
    BY <1>1, <2>1, <2>3
<1>3. CASE current_func # << >>
  <2>1. PICK cn : Collects(current_func, mod.functions, code, cn)
    BY <1>1, <1>3
  <2>2. PICK function : function = BuildSingleFunc(current_func)
    OBVIOUS
  <2>3. /\ IsBuilt(function, code) /\ function.name = cn
        /\ function.entry = EntryOf(current_func)
    BY <2>1, <2>2, CollectedIsBuilt
  <2>4. \A f \in 1 .. Len(mod.functions) : mod.functions[f].name # function.name
    BY <2>1, <2>3 DEF Collects
  <2>5. LoweredCurrent = function.entry
    BY <1>3, <2>2 DEF LoweredCurrent
  <2>6. Flushed = [mod EXCEPT !.functions = Append(@, function)]
    BY <1>3, <2>2 DEF Flushed
  <2>7. /\ Flushed = [functions |-> Append(mod.functions, function), globals |-> mod.globals]
        /\ Flushed.functions = Append(mod.functions, function)
    BY <1>1, <2>6
  <2>8. PICK fs : fs = mod.functions
    OBVIOUS
  <2>9. /\ AreFunctions(Append(fs, function), code)
        /\ Entries(Append(fs, function)) = Entries(fs) \o function.entry
    BY <1>1, <2>3, <2>4, <2>8, FunctionsGrow
  <2> QED
    BY <1>1, <2>5, <2>7, <2>8, <2>9
<1> QED
  BY <1>2, <1>3

LEMMA OwnedGrows ==
  ASSUME NEW c, Owned(c), NEW node \in Nodes,
         node.ir = "Return" => Starts(Append(c, node), Len(c) + 1) # {}
  PROVE  Owned(Append(c, node))
<1>1. PICK d : d = Append(c, node)
  OBVIOUS
<1>2. c \in Seq(Nodes) /\ \A i \in 1 .. Len(c) : c[i].ir = "Return" => Starts(c, i) # {}
  BY DEF Owned
<1>3. /\ d \in Seq(Nodes) /\ Len(d) = Len(c) + 1 /\ d[Len(c) + 1] = node /\ Len(c) \in Nat
      /\ \A i \in 1 .. Len(c) : d[i] = c[i]
  BY <1>1, <1>2, AppendedElements
<1>4. \A i \in 1 .. Len(c) : Starts(d, i) = Starts(c, i)
  BY <1>1, <1>2, OwnerAppend
<1>5. \A i \in 1 .. Len(c) + 1 : i \in 1 .. Len(c) \/ i = Len(c) + 1
  BY <1>3
<1> QED
  BY <1>1, <1>2, <1>3, <1>4, <1>5 DEF Owned

LEMMA FunctionStep ==
  ASSUME IInv, NEW name \in Names, TakeFunction(name)
  PROVE  IInv'
<1> DEFINE node == Function(name)
           n == Len(code)
<1>1. /\ ~built /\ code' = Append(code, node) /\ mod' = Flushed
      /\ current_func' = << node >> /\ built' = built
      /\ node \notin Range(code)
  BY DEF TakeFunction, Takes
<1>2. Owned(code) /\ built \in BOOLEAN /\ mod.globals \in Seq(Globals) /\ mod.globals = GlobalsIn(code)
  BY DEF IInv
<1>3. /\ mod' = [functions |-> mod'.functions, globals |-> mod.globals]
      /\ mod'.globals = mod.globals
      /\ AreFunctions(mod'.functions, code)
      /\ Entries(mod'.functions) = LoweredOf(code)
  <2>1. PICK f : f = Flushed
    OBVIOUS
  <2>2. /\ f = [functions |-> f.functions, globals |-> mod.globals]
        /\ AreFunctions(f.functions, code) /\ Entries(f.functions) = LoweredOf(code)
    BY <2>1, FlushedHolds
  <2>3. mod' = f /\ f.globals = mod.globals
    BY <1>1, <2>1, <2>2
  <2> QED
    BY <2>2, <2>3
<1>4. node \in Nodes /\ node.ir = "Function"
  BY DEF Nodes, Function
<1>5. Owned(code')
  BY <1>1, <1>2, <1>4, OwnedGrows
<1>6. AreFunctions(mod'.functions, code')
  BY <1>1, <1>2, <1>3, <1>4, FunctionsStay
<1>7. Collects(<< node >>, mod'.functions, code', name)
  <2>1. \A i \in 1 .. Len(code) : code[i] # node
    BY <1>1, <1>2 DEF Owned, Range
  <2>2. PICK fs : fs = mod'.functions
    OBVIOUS
  <2>3. AreFunctions(fs, code)
    BY <1>3, <2>2
  <2>4. Collects(<< node >>, fs, Append(code, node), name)
    BY <1>2, <2>1, <2>3, CollectsFunction
  <2> QED
    BY <1>1, <2>2, <2>4
<1>8. /\ code' \in Seq(Nodes) /\ Len(code') = n + 1 /\ code'[n + 1] = node
  BY <1>1, <1>2, <1>4, AppendedElements DEF Owned
<1>9. /\ LoweredAt(code', n + 1) = << node >>
      /\ GlobalAt(code', n + 1) = << >>
  BY <1>4, <1>8 DEF LoweredAt, GlobalAt, Lower
<1>10. /\ LoweredOf(code') = LoweredOf(code) \o << node >>
       /\ GlobalsIn(code') = GlobalsIn(code)
  <2>1. /\ GlobalsIn(code) \in Seq(Globals)
        /\ LoweredOf(code') = LoweredOf(code) \o LoweredAt(code', n + 1)
        /\ GlobalsIn(code') = GlobalsIn(code) \o GlobalAt(code', n + 1)
    BY <1>1, <1>2, <1>4, <1>5, LoweredAppend
  <2>2. \A s \in Seq(Globals) : s \o << >> = s
    OBVIOUS
  <2> QED
    BY <1>9, <2>1, <2>2
<1>11. LoweredCurrent' = << node >>
  <2>1. << node >> # << >>
    OBVIOUS
  <2>2. LoweredCurrent' = EntryOf(<< node >>)
    BY <1>1, <2>1 DEF LoweredCurrent, EntryOf
  <2> QED
    BY <2>2, EntryStart
<1>12. current_func' # << >>
  BY <1>1
<1> HIDE DEF node, n
<1> QED
  BY <1>1, <1>2, <1>3, <1>5, <1>6, <1>7, <1>10, <1>11, <1>12 DEF IInv

LEMMA GlobalStep ==
  ASSUME IInv, NEW node \in Globals, TakeGlobal(node)
  PROVE  IInv'
<1> DEFINE n == Len(code)
           fs == mod.functions
<1>1. /\ ~built /\ code' = Append(code, node)
      /\ mod' = [mod EXCEPT !.globals = Append(@, node)]
      /\ current_func' = current_func /\ built' = built
  BY DEF TakeGlobal, Takes
<1>2. /\ Owned(code) /\ built \in BOOLEAN
      /\ mod = [functions |-> fs, globals |-> mod.globals] /\ AreFunctions(fs, code)
      /\ mod.globals \in Seq(Globals) /\ mod.globals = GlobalsIn(code)
      /\ current_func # << >> => \E cn : Collects(current_func, fs, code, cn)
      /\ Entries(fs) \o LoweredCurrent = LoweredOf(code)
  BY DEF IInv
<1>3. node \in Nodes /\ node.ir = "Global"
  BY CFGBuilderAssumption DEF Nodes
<1>4. /\ mod' = [functions |-> fs, globals |-> Append(mod.globals, node)]
      /\ mod'.functions = fs /\ mod'.globals = Append(mod.globals, node)
  BY <1>1, <1>2
<1> HIDE DEF fs
<1>5. Owned(code')
  BY <1>1, <1>2, <1>3, OwnedGrows
<1>6. AreFunctions(fs, code')
  BY <1>1, <1>2, <1>3, FunctionsStay
<1>7. ASSUME current_func # << >>
      PROVE  \E cn : Collects(current_func, fs, code', cn)
  <2>1. PICK cn : Collects(current_func, fs, code, cn)
    BY <1>2, <1>7
  <2>2. Collects(current_func, fs, code', cn)
    BY <1>1, <1>2, <1>3, <2>1, CollectsGlobal
  <2> QED
    BY <2>2
<1>8. /\ code' \in Seq(Nodes) /\ Len(code') = n + 1 /\ code'[n + 1] = node
  BY <1>1, <1>2, <1>3, AppendedElements DEF Owned
<1>9. /\ LoweredAt(code', n + 1) = << >>
      /\ GlobalAt(code', n + 1) = << node >>
  BY <1>3, <1>8 DEF LoweredAt, GlobalAt
<1>10. LoweredOf(code') = LoweredOf(code) /\ GlobalsIn(code') = mod'.globals
  <2>1. /\ LoweredOf(code) \in Seq(LoweredNodes)
        /\ LoweredOf(code') = LoweredOf(code) \o LoweredAt(code', n + 1)
        /\ GlobalsIn(code') = GlobalsIn(code) \o GlobalAt(code', n + 1)
    BY <1>1, <1>2, <1>3, <1>5, LoweredAppend
  <2>2. LoweredOf(code) \o << >> = LoweredOf(code)
    BY <2>1, ConcatEmptySeq
  <2>3. mod.globals \o << node >> = Append(mod.globals, node)
    BY <1>2, AppendIsConcat
  <2> QED
    BY <1>2, <1>4, <1>9, <2>1, <2>2, <2>3
<1>11. ~InBody'
  <2>1. Last(code') = node
    BY <1>8 DEF Last
  <2> QED
    BY <1>3, <2>1 DEF InBody
<1>12. LoweredCurrent' = LoweredCurrent
  BY <1>1 DEF LoweredCurrent
<1>13. Append(mod.globals, node) \in Seq(Globals)
  BY <1>2
<1> HIDE DEF n
<1> QED
  BY <1>1, <1>2, <1>4, <1>5, <1>6, <1>7, <1>10, <1>11, <1>12, <1>13 DEF IInv

LEMMA NodeStep ==
  ASSUME IInv, NEW node \in Nodes, node.ir \notin {"Function", "Global"}, TakeNode(node)
  PROVE  IInv'
<1> DEFINE n == Len(code)
           fs == mod.functions
<1>1. /\ ~built /\ InBody /\ code' = Append(code, node)
      /\ current_func' = Append(current_func, node)
      /\ mod' = mod /\ built' = built
  BY DEF TakeNode, Takes
<1>2. /\ Owned(code) /\ built \in BOOLEAN
      /\ mod = [functions |-> fs, globals |-> mod.globals] /\ AreFunctions(fs, code)
      /\ mod.globals \in Seq(Globals) /\ mod.globals = GlobalsIn(code)
      /\ current_func # << >> => \E cn : Collects(current_func, fs, code, cn)
      /\ current_func # << >>
      /\ Entries(fs) \o LoweredCurrent = LoweredOf(code)
  BY <1>1 DEF IInv
<1>3. PICK cn : Collects(current_func, fs, code, cn)
  BY <1>2
<1> HIDE DEF fs
<1>4. /\ Collects(current_func', fs, code', cn)
      /\ EntryOf(current_func') = EntryOf(current_func) \o Lower(node, cn)
      /\ EntryOf(current_func) \in Seq(LoweredNodes) /\ Lower(node, cn) \in Seq(LoweredNodes)
  BY <1>1, <1>2, <1>3, CollectsNode
<1>5. OwnerIn(code', n + 1) = cn /\ Starts(code', n + 1) # {}
  BY <1>1, <1>2, <1>3, LastStays DEF Owned, Collects
<1>6. Owned(code')
  BY <1>1, <1>2, <1>5, OwnedGrows
<1>7. AreFunctions(fs, code')
  <2>1. \A f \in 1 .. Len(fs) : OwnerIn(code', n + 1) # fs[f].name
    BY <1>3, <1>5 DEF Collects
  <2> QED
    BY <1>1, <1>2, <2>1, FunctionsStay
<1>8. /\ code' \in Seq(Nodes) /\ Len(code') = n + 1 /\ code'[n + 1] = node
  BY <1>1, <1>2, AppendedElements DEF Owned
<1>9. /\ LoweredAt(code', n + 1) = Lower(node, cn)
      /\ GlobalAt(code', n + 1) = << >>
  BY <1>5, <1>8 DEF LoweredAt, GlobalAt
<1>10. current_func' # << >>
  BY <1>4 DEF Collects
<1>11. /\ LoweredCurrent = EntryOf(current_func)
       /\ LoweredCurrent' = EntryOf(current_func) \o Lower(node, cn)
  BY <1>2, <1>4, <1>10 DEF LoweredCurrent, EntryOf
<1>12. /\ Entries(fs) \o LoweredCurrent' = LoweredOf(code')
       /\ GlobalsIn(code') = GlobalsIn(code)
  <2>1. /\ GlobalsIn(code) \in Seq(Globals)
        /\ LoweredOf(code') = LoweredOf(code) \o LoweredAt(code', n + 1)
        /\ GlobalsIn(code') = GlobalsIn(code) \o GlobalAt(code', n + 1)
    BY <1>1, <1>2, <1>6, LoweredAppend
  <2>2. Entries(fs) \in Seq(LoweredNodes)
    BY <1>2 DEF AreFunctions
  <2>3. (Entries(fs) \o EntryOf(current_func)) \o Lower(node, cn)
          = Entries(fs) \o (EntryOf(current_func) \o Lower(node, cn))
    BY <1>4, <2>2, ConcatAssociative
  <2>4. GlobalsIn(code) \o << >> = GlobalsIn(code)
    BY <2>1, ConcatEmptySeq
  <2> QED
    BY <1>2, <1>9, <1>11, <2>1, <2>3, <2>4
<1> HIDE DEF n
<1> QED
  BY <1>1, <1>2, <1>4, <1>6, <1>7, <1>10, <1>12 DEF IInv, fs

LEMMA EndStep ==
  ASSUME IInv, EndOfCode
  PROVE  IInv'
<1>1. /\ built' = TRUE /\ mod' = Flushed /\ current_func' = << >> /\ code' = code
  BY DEF EndOfCode
<1>2. Owned(code) /\ mod.globals \in Seq(Globals) /\ mod.globals = GlobalsIn(code)
  BY DEF IInv
<1>3. PICK f : f = Flushed
  OBVIOUS
<1>4. /\ f = [functions |-> f.functions, globals |-> mod.globals]
      /\ AreFunctions(f.functions, code) /\ Entries(f.functions) = LoweredOf(code)
  BY <1>3, FlushedHolds
<1>5. mod' = f /\ f.globals = mod.globals
  BY <1>1, <1>3, <1>4
<1>6. LoweredCurrent' = << >>
  BY <1>1 DEF LoweredCurrent
<1>7. Entries(f.functions) \o << >> = Entries(f.functions)
  <2>1. Entries(f.functions) \in Seq(LoweredNodes)
    BY <1>4 DEF AreFunctions
  <2> QED
    BY <2>1, ConcatEmptySeq
<1> QED
  BY <1>1, <1>2, <1>4, <1>5, <1>6, <1>7 DEF IInv

LEMMA StepIInv ==
  ASSUME IInv, [Next]_vars
  PROVE  IInv'
<1>1. ASSUME NEW name \in Names, TakeFunction(name)
      PROVE  IInv'
  BY <1>1, FunctionStep
<1>2. ASSUME NEW node \in Globals, TakeGlobal(node)
      PROVE  IInv'
  BY <1>2, GlobalStep
<1>3. ASSUME NEW node \in BodyNodes, TakeNode(node)
      PROVE  IInv'
  <2>1. node \in Nodes /\ node.ir \notin {"Function", "Global"}
    BY CFGBuilderAssumption DEF Nodes
  <2> QED
    BY <1>3, <2>1, NodeStep
<1>4. ASSUME NEW x \in Results, TakeNode(Return(x))
      PROVE  IInv'
  <2>1. Return(x) \in Nodes
    BY DEF Nodes
  <2>2. Return(x).ir \notin {"Function", "Global"}
    BY DEF Return
  <2>3. PICK node : node = Return(x)
    OBVIOUS
  <2> QED
    BY <1>4, <2>1, <2>2, <2>3, NodeStep
<1>5. CASE EndOfCode
  BY <1>5, EndStep
<1>6. CASE UNCHANGED vars
  BY <1>6 DEF vars, IInv, InBody, LoweredCurrent
<1> QED
  BY <1>1, <1>2, <1>3, <1>4, <1>5, <1>6 DEF Next

LEMMA AlwaysIInv == Spec => []IInv
<1>1. Init => IInv
  BY InitIInv
<1>2. IInv /\ [Next]_vars => IInv'
  BY StepIInv
<1> QED
  BY <1>1, <1>2, PTL DEF Spec

-----------------------------------------------------------------------------
(* What the invariant says of the module.                                  *)

LEMMA BuiltIsWellFormed ==
  ASSUME NEW function, NEW c, IsBuilt(function, c)
  PROVE  function.name \in Names /\ WellFormed(function)
<1>1. PICK x \in ExitValues : function.exit = ExitOf(function.name, x)
  BY DEF IsBuilt
<1>2. PICK e : e = function.entry
  OBVIOUS
<1>3. PICK cn \in Names : cn = function.name
  BY DEF IsBuilt, BuiltSet
<1>4. /\ e \in Seq(LoweredNodes) /\ Len(e) > 0 /\ e[1] = Function(cn)
      /\ \A i \in 2 .. Len(e) : BodyElement(e[i], cn)
  BY <1>2, <1>3 DEF IsBuilt, IsEntry
<1>5. DOMAIN e = 1 .. Len(e) /\ Len(e) \in Nat /\ Head(e) = e[1]
  BY <1>4
<1>6. ASSUME NEW i \in 1 .. Len(e)
      PROVE  /\ e[i].ir = "Function" => i = 1
             /\ e[i].ir \notin {"Return", "Global"}
             /\ e[i] # Label(RetLabel(cn))
  <2>1. CASE i = 1
    BY <1>4, <2>1 DEF Function, Label
  <2>2. CASE i # 1
    <3>1. BodyElement(e[i], cn)
      BY <1>4, <1>5, <2>2
    <3> QED
      BY <3>1 DEF BodyElement
  <2> QED
    BY <2>1, <2>2
<1>7. Head(function.exit) = Label(RetLabel(cn))
  BY <1>1, <1>3 DEF ExitOf
<1> QED
  BY <1>2, <1>3, <1>4, <1>5, <1>6, <1>7 DEF WellFormed

\* Every function build() makes starts at its one Function node, ends at the one
\* label of its exit block and has no Return left in between, however many
\* functions and globals the IR has (TypeOK; build_single_func).
THEOREM TypeCorrect == Spec => []TypeOK
<1>1. ASSUME IInv
      PROVE  TypeOK
  <2>1. PICK fs : fs = mod.functions
    OBVIOUS
  <2>2. /\ built \in BOOLEAN /\ mod.globals \in Seq(Globals)
        /\ AreFunctions(fs, code)
    BY <1>1, <2>1 DEF IInv
  <2>3. Range(mod.globals) \subseteq Globals
    BY <2>2 DEF Range
  <2>4. DOMAIN fs = 1 .. Len(fs) /\ \A f \in 1 .. Len(fs) : IsBuilt(fs[f], code)
    BY <2>2 DEF AreFunctions
  <2>5. \A f \in DOMAIN fs : fs[f].name \in Names /\ WellFormed(fs[f])
    BY <2>4, BuiltIsWellFormed
  <2> QED
    BY <2>1, <2>2, <2>3, <2>5 DEF TypeOK
<1> QED
  BY <1>1, AlwaysIInv, PTL

\* Wherever globals stand between functions, build() loses, duplicates, moves or
\* reorders no node, and each Return jumps to the exit of its own function
\* (CodeKept; build, build_single_func).
THEOREM CodeStaysWhole == Spec => []CodeKept
<1>1. ASSUME IInv
      PROVE  CodeKept
  <2>1. PICK fs : fs = mod.functions
    OBVIOUS
  <2>2. /\ Owned(code) /\ AreFunctions(fs, code) /\ mod.globals = GlobalsIn(code)
        /\ Entries(fs) \o LoweredCurrent = LoweredOf(code)
    BY <1>1, <2>1 DEF IInv
  <2>3. LoweredCode = LoweredOf(code) /\ GlobalsOf = GlobalsIn(code)
    BY <2>2, CodeIs
  <2>4. DOMAIN fs = 1 .. Len(fs)
    BY <2>2 DEF AreFunctions
  <2>5. FlattenSeq([f \in DOMAIN fs |-> fs[f].entry]) = Entries(fs)
    BY <2>4 DEF Entries
  <2> QED
    BY <2>1, <2>2, <2>3, <2>5 DEF CodeKept
<1> QED
  BY <1>1, AlwaysIInv, PTL

\* The exit block of a function returns a0 exactly if a Return of its own has a
\* value (ExitsMatchReturns; build_single_func).
THEOREM ExitsAlwaysMatch == Spec => []ExitsMatchReturns
<1>1. ASSUME IInv
      PROVE  ExitsMatchReturns
  <2>1. PICK fs : fs = mod.functions
    OBVIOUS
  <2>2. Owned(code) /\ AreFunctions(fs, code)
    BY <1>1, <2>1 DEF IInv
  <2>3. DOMAIN code = 1 .. Len(code) /\ DOMAIN fs = 1 .. Len(fs)
    BY <2>2 DEF Owned, AreFunctions
  <2>4. ASSUME NEW f \in 1 .. Len(fs)
        PROVE  Last(fs[f].exit).x = "a0" <=>
                 \E i \in 1 .. Len(code) :
                   /\ code[i].ir = "Return" /\ code[i].x # ""
                   /\ Owner(i) = fs[f].name
    <3>1. PICK function : function = fs[f]
      OBVIOUS
    <3>2. IsBuilt(function, code)
      BY <2>2, <3>1 DEF AreFunctions
    <3>3. PICK x \in ExitValues : /\ function.exit = ExitOf(function.name, x)
                                  /\ x = "a0" <=> ValueOf(code, function.name)
      BY <3>2 DEF IsBuilt
    <3>4. Last(function.exit) = Return(x)
      <4>1. \A a, b : Len(<< a, b >>) = 2 /\ << a, b >>[2] = b
        OBVIOUS
      <4> QED
        BY <3>3, <4>1 DEF Last, ExitOf
    <3>5. Last(function.exit).x = x
      BY <3>4 DEF Return
    <3>6. ValueOf(code, function.name) <=>
            \E i \in 1 .. Len(code) :
              code[i].ir = "Return" /\ code[i].x # "" /\ Owner(i) = function.name
      BY OwnerIsIn DEF ValueOf
    <3> QED
      BY <3>1, <3>3, <3>5, <3>6
  <2> QED
    BY <2>1, <2>3, <2>4 DEF ExitsMatchReturns
<1> QED
  BY <1>1, AlwaysIInv, PTL

\* In the IR of the finished module every Return jumps forward to the one label
\* of its function's exit, with no other function in between (ReturnsLand;
\* Module::get_ir).
THEOREM EveryReturnLands == Spec => []ReturnsLand
<1>1. ASSUME IInv
      PROVE  Lands(GetIR)
  <2>1. PICK fs : fs = mod.functions
    OBVIOUS
  <2>2. AreFunctions(fs, code) /\ mod.globals \in Seq(Globals)
    BY <1>1, <2>1 DEF IInv
  <2>3. /\ DOMAIN fs = 1 .. Len(fs)
        /\ Bodies(fs) \in Seq(LoweredNodes) /\ Lands(Bodies(fs))
    BY <2>2 DEF AreFunctions
  <2>4. GetIR = mod.globals \o Bodies(fs)
    BY <2>1, <2>3 DEF GetIR, Bodies
  <2>5. mod.globals \in Seq(LoweredNodes)
    <3>1. Globals \subseteq LoweredNodes
      BY DEF LoweredNodes, Nodes
    <3> QED
      BY <2>2, <3>1, SeqMonotonic
  <2>6. Lands(mod.globals) /\ \A name : ~HasLabel(mod.globals, name)
    BY <2>2, GlobalsLand
  <2> QED
    BY <2>3, <2>4, <2>5, <2>6, LandsConcat
<1>2. IInv => ReturnsLand
  BY <1>1 DEF ReturnsLand
<1> QED
  BY <1>2, AlwaysIInv, PTL
=============================================================================
