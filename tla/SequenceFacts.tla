--------------------------- MODULE SequenceFacts ---------------------------
(***************************************************************************)
(* Facts about sets of numbers and about sequences that the proofs of the  *)
(* components share: what ends of sequences and joins of sequences are     *)
(* made of, and how often the elements of a set occur in them.             *)
(***************************************************************************)
EXTENDS Integers, SequencesExt, FiniteSetTheorems, TLAPS

\* A set of naturals that is not empty has a least element.
LEMMA LeastOf ==
  ASSUME NEW S, S \subseteq Nat, S # {}
  PROVE  \E m \in S : \A k \in S : m <= k
<1>1. IsWellFoundedOn(OpToRel(<, Nat), Nat)
  BY NatLessThanWellFounded
<1>2. PICK m \in S : \A k \in S : << k, m >> \notin OpToRel(<, Nat)
  BY <1>1, WFMin
<1>3. \A k \in S : ~(k < m)
  BY <1>2 DEF OpToRel
<1> QED
  BY <1>3

\* One that is bounded has a greatest.
LEMMA GreatestOf ==
  ASSUME NEW n \in Nat, NEW S, S \subseteq 1 .. n, S # {}
  PROVE  \E m \in S : \A k \in S : k <= m
<1> DEFINE T == {n - i : i \in S}
<1>1. PICK j \in S : TRUE
  OBVIOUS
<1>2. T \subseteq Nat /\ n - j \in T
  BY <1>1
<1>3. PICK m \in T : \A k \in T : m <= k
  <2> HIDE DEF T
  <2> QED
    BY <1>2, LeastOf
<1>4. PICK i \in S : m = n - i
  BY <1>3
<1>5. \A k \in S : n - i <= n - k
  BY <1>3, <1>4
<1> QED
  BY <1>5

LEMMA AppendedElements ==
  ASSUME NEW S, NEW s \in Seq(S), NEW e \in S
  PROVE  /\ Append(s, e) \in Seq(S)
         /\ Len(Append(s, e)) = Len(s) + 1
         /\ Append(s, e)[Len(s) + 1] = e
         /\ \A i \in 1 .. Len(s) : Append(s, e)[i] = s[i]
OBVIOUS

LEMMA FrontElements ==
  ASSUME NEW S, NEW s \in Seq(S), NEW k \in 0 .. Len(s)
  PROVE  /\ SubSeq(s, 1, k) \in Seq(S)
         /\ Len(SubSeq(s, 1, k)) = k
         /\ \A i \in 1 .. k : SubSeq(s, 1, k)[i] = s[i]
OBVIOUS

LEMMA ReplacedElement ==
  ASSUME NEW S, NEW s \in Seq(S), NEW e \in S, NEW k \in 1 .. Len(s)
  PROVE  /\ [s EXCEPT ![k] = e] \in Seq(S)
         /\ Len([s EXCEPT ![k] = e]) = Len(s)
         /\ [s EXCEPT ![k] = e][k] = e
         /\ \A i \in 1 .. Len(s) : i # k => [s EXCEPT ![k] = e][i] = s[i]
OBVIOUS

-----------------------------------------------------------------------------
(* Joining sequences.                                                      *)

\* f[i] is the join of the first i elements of s.
JoinsTo(f, s, n) ==
  f = [i \in 1 .. n |-> IF i = 1 THEN s[i] ELSE f[i - 1] \o s[i]]

TheJoin(s) == CHOOSE f : JoinsTo(f, s, Len(s))

LEMMA FlattenIs ==
  ASSUME NEW s, Len(s) # 0
  PROVE  FlattenSeq(s) = TheJoin(s)[Len(s)]
BY DEF FlattenSeq, TheJoin, JoinsTo

LEMMA JoinExists ==
  ASSUME NEW S, NEW s \in Seq(Seq(S))
  PROVE  \E f \in [1 .. Len(s) -> Seq(S)] : JoinsTo(f, s, Len(s))
<1> DEFINE Bad == {n \in 0 .. Len(s) : ~ \E f \in [1 .. n -> Seq(S)] : JoinsTo(f, s, n)}
<1>1. CASE Bad = {}
  BY <1>1
<1>2. CASE Bad # {}
  <2>1. PICK m \in Bad : \A k \in Bad : m <= k
    <3>1. Bad \subseteq Nat
      OBVIOUS
    <3> HIDE DEF Bad
    <3> QED
      BY <1>2, <3>1, LeastOf
  <2>2. m # 0
    <3>1. << >> \in [1 .. 0 -> Seq(S)] /\ JoinsTo(<< >>, s, 0)
      BY DEF JoinsTo
    <3> QED
      BY <2>1, <3>1
  <2>3. m - 1 \in 0 .. Len(s) /\ m \in 1 .. Len(s)
    BY <2>1, <2>2
  <2>4. m - 1 \notin Bad
    <3>1. Bad \subseteq Nat
      OBVIOUS
    <3> HIDE DEF Bad
    <3> QED
      BY <2>1, <3>1
  <2>5. PICK f \in [1 .. m - 1 -> Seq(S)] : JoinsTo(f, s, m - 1)
    BY <2>3, <2>4
  <2> DEFINE g == [i \in 1 .. m |-> IF i = m THEN (IF i = 1 THEN s[i] ELSE f[i - 1] \o s[i])
                                            ELSE f[i]]
  <2>6. g \in [1 .. m -> Seq(S)]
    <3> SUFFICES ASSUME NEW i \in 1 .. m PROVE g[i] \in Seq(S)
      OBVIOUS
    <3>1. s[i] \in Seq(S)
      BY <2>3
    <3>2. i # 1 => f[i - 1] \in Seq(S)
      BY <2>3, <2>5
    <3>3. i # m => f[i] \in Seq(S)
      BY <2>3, <2>5
    <3> QED
      BY <3>1, <3>2, <3>3
  <2>7. \A i \in 1 .. m : g[i] = IF i = 1 THEN s[i] ELSE g[i - 1] \o s[i]
    <3> SUFFICES ASSUME NEW i \in 1 .. m
                 PROVE  g[i] = IF i = 1 THEN s[i] ELSE g[i - 1] \o s[i]
      OBVIOUS
    <3>1. i # 1 => i - 1 \in 1 .. m /\ i - 1 # m
      BY <2>3
    <3>2. i # 1 => g[i - 1] = f[i - 1]
      BY <3>1
    <3>3. i # m => f[i] = IF i = 1 THEN s[i] ELSE f[i - 1] \o s[i]
      <4>1. i # m => i \in 1 .. m - 1
        BY <2>3
      <4> QED
        BY <2>5, <4>1 DEF JoinsTo
    <3> QED
      BY <3>2, <3>3
  <2>8. JoinsTo(g, s, m)
    <3>1. g = [i \in 1 .. m |-> g[i]]
      OBVIOUS
    <3> HIDE DEF g
    <3> QED
      BY <2>7, <3>1 DEF JoinsTo
  <2> HIDE DEF g
  <2> QED
    BY <2>1, <2>6, <2>8
<1> QED
  BY <1>1, <1>2

LEMMA TheJoinIs ==
  ASSUME NEW S, NEW s \in Seq(Seq(S))
  PROVE  /\ TheJoin(s) \in [1 .. Len(s) -> Seq(S)]
         /\ \A i \in 1 .. Len(s) :
              TheJoin(s)[i] = IF i = 1 THEN s[i] ELSE TheJoin(s)[i - 1] \o s[i]
<1>1. PICK f \in [1 .. Len(s) -> Seq(S)] : JoinsTo(f, s, Len(s))
  BY JoinExists
<1>2. JoinsTo(TheJoin(s), s, Len(s))
  BY <1>1 DEF TheJoin
<1>3. PICK h : h = TheJoin(s)
  OBVIOUS
<1>4. /\ DOMAIN h = 1 .. Len(s)
      /\ h = [i \in 1 .. Len(s) |-> h[i]]
      /\ \A i \in 1 .. Len(s) : h[i] = IF i = 1 THEN s[i] ELSE h[i - 1] \o s[i]
  BY <1>2, <1>3 DEF JoinsTo
<1> DEFINE Bad == {i \in 1 .. Len(s) : h[i] \notin Seq(S)}
<1>5. Bad = {}
  <2> SUFFICES ASSUME Bad # {} PROVE FALSE
    OBVIOUS
  <2>1. PICK m \in Bad : \A k \in Bad : m <= k
    <3>1. Bad \subseteq Nat
      OBVIOUS
    <3> HIDE DEF Bad
    <3> QED
      BY <3>1, LeastOf
  <2>2. m \in 1 .. Len(s) /\ s[m] \in Seq(S)
    OBVIOUS
  <2>3. m # 1
    BY <1>4, <2>1, <2>2
  <2>4. m - 1 \in 1 .. Len(s) /\ m - 1 \notin Bad
    <3>1. m - 1 \in 1 .. Len(s)
      BY <2>2, <2>3
    <3> HIDE DEF Bad
    <3> QED
      BY <2>1, <2>2, <3>1
  <2>5. h[m - 1] \in Seq(S)
    BY <2>4
  <2>6. h[m] = h[m - 1] \o s[m]
    BY <1>4, <2>2, <2>3
  <2>7. h[m] \in Seq(S)
    BY <2>2, <2>5, <2>6
  <2> QED
    BY <2>1, <2>7
<1>6. h \in [1 .. Len(s) -> Seq(S)]
  <2>1. \A i \in 1 .. Len(s) : h[i] \in Seq(S)
    BY <1>5
  <2> QED
    BY <1>4, <2>1
<1> QED
  BY <1>3, <1>4, <1>6

\* Joining one sequence more adds it at the end.
LEMMA FlattenAppend ==
  ASSUME NEW S, NEW s \in Seq(Seq(S)), NEW e \in Seq(S)
  PROVE  /\ FlattenSeq(s) \in Seq(S)
         /\ FlattenSeq(Append(s, e)) = FlattenSeq(s) \o e
<1> DEFINE n == Len(s)
           t == Append(s, e)
<1>0. n \in Nat /\ (n = 0 => s = << >>)
  OBVIOUS
<1>1. /\ t \in Seq(Seq(S)) /\ Len(t) = n + 1 /\ t[n + 1] = e
      /\ \A i \in 1 .. n : t[i] = s[i]
  BY AppendedElements
<1>2. PICK f : f = TheJoin(s)
  OBVIOUS
<1>3. PICK g : g = TheJoin(t)
  OBVIOUS
<1>4. /\ f \in [1 .. n -> Seq(S)]
      /\ \A i \in 1 .. n : f[i] = IF i = 1 THEN s[i] ELSE f[i - 1] \o s[i]
  BY <1>2, TheJoinIs
<1>5. /\ g \in [1 .. n + 1 -> Seq(S)]
      /\ \A i \in 1 .. n + 1 : g[i] = IF i = 1 THEN t[i] ELSE g[i - 1] \o t[i]
  <2> HIDE DEF t
  <2> QED
    BY <1>1, <1>3, TheJoinIs
<1> DEFINE Bad == {i \in 1 .. n : g[i] # f[i]}
<1>6. Bad = {}
  <2> SUFFICES ASSUME Bad # {} PROVE FALSE
    OBVIOUS
  <2>1. PICK m \in Bad : \A k \in Bad : m <= k
    <3>1. Bad \subseteq Nat
      OBVIOUS
    <3> HIDE DEF Bad
    <3> QED
      BY <3>1, LeastOf
  <2>2. m \in 1 .. n /\ m \in 1 .. n + 1
    BY <1>0
  <2> HIDE DEF n, t
  <2>3. m # 1
    BY <1>1, <1>4, <1>5, <2>1, <2>2
  <2>4. m - 1 \in 1 .. n
    BY <1>0, <2>2, <2>3
  <2>5. m - 1 \notin Bad
    <3> HIDE DEF Bad
    <3> QED
      BY <1>0, <2>1, <2>2
  <2>6. g[m - 1] = f[m - 1]
    BY <2>4, <2>5
  <2>7. g[m] = f[m]
    <3>1. g[m] = g[m - 1] \o t[m]
      BY <1>5, <2>2, <2>3
    <3>2. f[m] = f[m - 1] \o s[m]
      BY <1>4, <2>2, <2>3
    <3>3. t[m] = s[m]
      BY <1>1, <2>2
    <3> QED
      BY <2>6, <3>1, <3>2, <3>3
  <2> QED
    BY <2>1, <2>7
<1>7. FlattenSeq(t) = g[n + 1]
  <2>1. Len(t) # 0 /\ Len(t) = n + 1
    BY <1>0, <1>1
  <2> HIDE DEF t
  <2> QED
    BY <1>3, <2>1, FlattenIs
<1>8. CASE n = 0
  <2>1. FlattenSeq(s) = << >> /\ << >> \in Seq(S)
    BY <1>0, <1>8 DEF FlattenSeq
  <2>2. g[1] = t[1]
    BY <1>5, <1>8
  <2>3. t[1] = e
    BY <1>1, <1>8
  <2>4. << >> \o e = e
    OBVIOUS
  <2> QED
    BY <1>7, <1>8, <2>1, <2>2, <2>3, <2>4
<1>9. CASE n # 0
  <2>1. FlattenSeq(s) = f[n]
    BY <1>2, <1>9, FlattenIs
  <2>2. n \in 1 .. n /\ n + 1 \in 1 .. n + 1 /\ n + 1 # 1 /\ (n + 1) - 1 = n
    BY <1>0, <1>9
  <2>3. g[n] = f[n]
    BY <1>6, <2>2
  <2> HIDE DEF n, t
  <2>4. g[n + 1] = g[n] \o e
    BY <1>1, <1>5, <2>2
  <2>5. FlattenSeq(s) \in Seq(S)
    BY <1>4, <2>1, <2>2
  <2> QED
    BY <1>7, <2>1, <2>3, <2>4, <2>5 DEF n, t
<1> QED
  BY <1>8, <1>9

LEMMA PairParts ==
  ASSUME NEW a, NEW b
  PROVE  << a, b >>[1] = a /\ Last(<< a, b >>) = b
BY DEF Last

LEMMA JoinedElements ==
  ASSUME NEW S, NEW s \in Seq(S), NEW t \in Seq(S)
  PROVE  /\ s \o t \in Seq(S)
         /\ Len(s \o t) = Len(s) + Len(t) /\ DOMAIN (s \o t) = 1 .. Len(s) + Len(t)
         /\ \A i \in 1 .. Len(s) : (s \o t)[i] = s[i]
         /\ \A i \in 1 .. Len(t) : (s \o t)[Len(s) + i] = t[i]
OBVIOUS

\* u is what the first n + 1 elements are mapped to, m what the first n are.
OneMore(S, n, m, u) ==
  /\ m \in [1 .. n -> Seq(S)] /\ u \in [1 .. n + 1 -> Seq(S)]
  /\ \A i \in 1 .. n : u[i] = m[i]

LEMMA FlattenMapped ==
  ASSUME NEW S, NEW n \in Nat, NEW m, NEW u, OneMore(S, n, m, u)
  PROVE  /\ FlattenSeq(m) \in Seq(S)
         /\ FlattenSeq(u) = FlattenSeq(m) \o u[n + 1]
<1> DEFINE a == Append(m, u[n + 1])
<1>0. /\ m \in [1 .. n -> Seq(S)] /\ u \in [1 .. n + 1 -> Seq(S)]
      /\ \A i \in 1 .. n : u[i] = m[i]
  BY DEF OneMore
<1>1. m \in Seq(Seq(S)) /\ Len(m) = n
  BY <1>0
<1>2. u \in Seq(Seq(S)) /\ Len(u) = n + 1 /\ u[n + 1] \in Seq(S)
  BY <1>0
<1>3. /\ a \in Seq(Seq(S)) /\ Len(a) = n + 1 /\ a[n + 1] = u[n + 1]
      /\ \A i \in 1 .. n : a[i] = m[i]
  BY <1>1, <1>2, AppendedElements
<1>4. \A i \in 1 .. n + 1 : u[i] = a[i]
  <2> SUFFICES ASSUME NEW i \in 1 .. n + 1 PROVE u[i] = a[i]
    OBVIOUS
  <2>1. i \in 1 .. n \/ i = n + 1
    OBVIOUS
  <2> HIDE DEF a
  <2> QED
    BY <1>0, <1>3, <2>1
<1>5. u = a
  <2> HIDE DEF a
  <2> QED
    BY <1>2, <1>3, <1>4
<1> QED
  BY <1>1, <1>2, <1>5, FlattenAppend

LEMMA FlattenEmpty == FlattenSeq(<< >>) = << >>
BY DEF FlattenSeq

\* A property of the prefixes of s that holds of the empty one and of each that
\* is longer by one element holds of s.
HoldsUpTo(Good, n) == 0 \in Good /\ \A k \in 0 .. n : k + 1 <= n /\ k \in Good => k + 1 \in Good

LEMMA UpTo ==
  ASSUME NEW n \in Nat, NEW Good, HoldsUpTo(Good, n)
  PROVE  n \in Good
<1> DEFINE Bad == {k \in 0 .. n : k \notin Good}
<1>1. Bad \subseteq Nat /\ 0 \in Good
  BY DEF HoldsUpTo
<1>2. CASE Bad = {}
  BY <1>2
<1>3. CASE Bad # {}
  <2>1. PICK m \in Bad : \A k \in Bad : m <= k
    <3> HIDE DEF Bad
    <3> QED
      BY <1>1, <1>3, LeastOf
  <2>2. m # 0 /\ m \in 0 .. n
    BY <1>1, <2>1
  <2>3. m - 1 \in 0 .. n /\ (m - 1) + 1 = m /\ m <= n /\ m - 1 \notin Bad
    <3> HIDE DEF Bad
    <3> QED
      BY <1>1, <2>1, <2>2
  <2>4. m - 1 \in Good
    BY <2>3
  <2>5. m \in Good
    BY <2>3, <2>4 DEF HoldsUpTo
  <2> QED
    BY <2>1, <2>5
<1> QED
  BY <1>2, <1>3

LEMMA FrontLonger ==
  ASSUME NEW S, NEW s \in Seq(S), NEW k \in 0 .. Len(s), k + 1 <= Len(s)
  PROVE  /\ SubSeq(s, 1, k + 1) = Append(SubSeq(s, 1, k), s[k + 1])
         /\ SubSeq(s, 1, k) \in Seq(S) /\ s[k + 1] \in S
         /\ SubSeq(s, 1, 0) = << >> /\ SubSeq(s, 1, Len(s)) = s
OBVIOUS

LEMMA ConcatAssociates ==
  ASSUME NEW S, NEW s \in Seq(S), NEW t \in Seq(S), NEW u \in Seq(S)
  PROVE  /\ (s \o t) \o u = s \o (t \o u)
         /\ s \o t \in Seq(S)
         /\ s \o << >> = s /\ << >> \o s = s
OBVIOUS

LEMMA ConcatParts ==
  ASSUME NEW S, NEW T, NEW s \in Seq(S), NEW t \in Seq(S), s \o t \in Seq(T)
  PROVE  s \in Seq(T) /\ t \in Seq(T)
<1>1. PICK u \in Seq(T) : u = s \o t
  OBVIOUS
<1>2. PICK n \in Nat : n = Len(s)
  OBVIOUS
<1>3. PICK m \in Nat : m = Len(t)
  OBVIOUS
<1>4. /\ Len(u) = n + m
      /\ \A i \in 1 .. n : s[i] = u[i]
      /\ \A i \in 1 .. m : t[i] = u[n + i]
  BY <1>1, <1>2, <1>3
<1>5. \A i \in 1 .. n + m : u[i] \in T
  BY <1>4
<1>6. /\ \A i \in 1 .. n : i \in 1 .. n + m
      /\ \A i \in 1 .. m : n + i \in 1 .. n + m
  OBVIOUS
<1>7. \A i \in 1 .. n : s[i] \in T
  BY <1>4, <1>5, <1>6
<1>8. \A i \in 1 .. m : t[i] \in T
  BY <1>4, <1>5, <1>6
<1> QED
  BY <1>2, <1>3, <1>7, <1>8

LEMMA PairConcat ==
  ASSUME NEW S, NEW u \in S, NEW v \in S
  PROVE  << u >> \o << v >> = << u, v >>
<1>1. << u >> \in Seq(S) /\ << v >> \in Seq(S) /\ << u, v >> \in Seq(S)
  OBVIOUS
<1>2. PICK c \in Seq(S) : c = << u, v >>
  BY <1>1
<1>3. PICK d \in Seq(S) : d = << u >> \o << v >>
  <2>1. PICK a \in Seq(S) : a = << u >>
    BY <1>1
  <2>2. PICK b \in Seq(S) : b = << v >>
    BY <1>1
  <2>3. a \o b \in Seq(S)
    OBVIOUS
  <2> QED
    BY <2>1, <2>2, <2>3
<1>4. Len(c) = 2 /\ c[1] = u /\ c[2] = v
  BY <1>2
<1>5. Len(d) = 2 /\ d[1] = u /\ d[2] = v
  BY <1>1, <1>3
<1>6. c = d
  BY <1>4, <1>5
<1> QED
  BY <1>2, <1>3, <1>6

LEMMA FlattenConcat ==
  ASSUME NEW S, NEW s \in Seq(Seq(S)), NEW t \in Seq(Seq(S))
  PROVE  FlattenSeq(s \o t) = FlattenSeq(s) \o FlattenSeq(t)
<1> DEFINE Upto(k) == SubSeq(t, 1, k)
           Good == {k \in Nat : FlattenSeq(s \o Upto(k)) = FlattenSeq(s) \o FlattenSeq(Upto(k))}
<1>1. FlattenSeq(s) \in Seq(S) /\ Len(t) \in Nat
  BY FlattenAppend
<1>2. 0 \in Good
  <2>1. Upto(0) = << >> /\ s \o << >> = s /\ FlattenSeq(s) \o << >> = FlattenSeq(s)
    BY <1>1
  <2> HIDE DEF Upto
  <2> QED
    BY <2>1, FlattenEmpty
<1>3. ASSUME NEW k \in 0 .. Len(t), k + 1 <= Len(t), k \in Good
      PROVE  k + 1 \in Good
  <2>1. PICK f : f = Upto(k)
    OBVIOUS
  <2>2. PICK e : e = t[k + 1]
    OBVIOUS
  <2>3. Upto(k + 1) = Append(f, e) /\ f \in Seq(Seq(S)) /\ e \in Seq(S)
    BY <1>3, <2>1, <2>2, FrontLonger
  <2>4. FlattenSeq(s \o f) = FlattenSeq(s) \o FlattenSeq(f)
    BY <1>3, <2>1
  <2> HIDE DEF Upto, Good
  <2>5. s \o Append(f, e) = Append(s \o f, e) /\ s \o f \in Seq(Seq(S))
    BY <2>3
  <2>6. FlattenSeq(Append(s \o f, e)) = FlattenSeq(s \o f) \o e
    BY <2>3, <2>5, FlattenAppend
  <2>7. FlattenSeq(Append(f, e)) = FlattenSeq(f) \o e /\ FlattenSeq(f) \in Seq(S)
    BY <2>3, FlattenAppend
  <2>8. (FlattenSeq(s) \o FlattenSeq(f)) \o e = FlattenSeq(s) \o (FlattenSeq(f) \o e)
    <3>1. PICK a \in Seq(S) : a = FlattenSeq(s)
      BY <1>1
    <3>2. PICK b \in Seq(S) : b = FlattenSeq(f)
      BY <2>7
    <3>3. (a \o b) \o e = a \o (b \o e)
      BY <2>3, ConcatAssociates
    <3> QED
      BY <3>1, <3>2, <3>3
  <2>9. FlattenSeq(s \o Upto(k + 1)) = FlattenSeq(s) \o FlattenSeq(Upto(k + 1))
    BY <2>3, <2>4, <2>5, <2>6, <2>7, <2>8
  <2> QED
    BY <1>3, <2>9 DEF Good
<1>4. Len(t) \in Good
  <2> HIDE DEF Good
  <2> QED
    BY <1>1, <1>2, <1>3, UpTo DEF HoldsUpTo
<1>5. Upto(Len(t)) = t
  OBVIOUS
<1> QED
  BY <1>4, <1>5

-----------------------------------------------------------------------------
(* How often the elements of a set occur in a sequence.                    *)

Never(s, D) == \A i \in 1 .. Len(s) : s[i] \notin D

Once(s, D) ==
  \E i \in 1 .. Len(s) : s[i] \in D /\ \A k \in 1 .. Len(s) : s[k] \in D => k = i

LEMMA OnceConcat ==
  ASSUME NEW S, NEW s \in Seq(S), NEW t \in Seq(S), NEW D
  PROVE  /\ Never(s \o t, D) <=> Never(s, D) /\ Never(t, D)
         /\ Once(s \o t, D) <=> \/ Once(s, D) /\ Never(t, D)
                                \/ Never(s, D) /\ Once(t, D)
<1>1. PICK u : u = s \o t
  OBVIOUS
<1>2. PICK n \in Nat : n = Len(s)
  OBVIOUS
<1>3. PICK m \in Nat : m = Len(t)
  OBVIOUS
<1>4. /\ Len(u) = n + m
      /\ \A i \in 1 .. n : u[i] = s[i]
      /\ \A i \in 1 .. m : u[n + i] = t[i]
  BY <1>1, <1>2, <1>3
<1>5. \A i \in 1 .. n + m : i \in 1 .. n \/ \E j \in 1 .. m : i = n + j
  <2> SUFFICES ASSUME NEW i \in 1 .. n + m, i \notin 1 .. n
               PROVE  \E j \in 1 .. m : i = n + j
    OBVIOUS
  <2>1. i - n \in 1 .. m /\ i = n + (i - n)
    OBVIOUS
  <2> QED
    BY <2>1
<1>6. /\ \A i \in 1 .. n : i \in 1 .. n + m
      /\ \A j \in 1 .. m : n + j \in 1 .. n + m /\ n + j \notin 1 .. n
      /\ \A j, k \in 1 .. m : n + j = n + k => j = k
  OBVIOUS
<1>7. Never(u, D) <=> Never(s, D) /\ Never(t, D)
  BY <1>2, <1>3, <1>4, <1>5, <1>6 DEF Never
<1>8. ASSUME Once(u, D)
      PROVE  \/ Once(s, D) /\ Never(t, D)
             \/ Never(s, D) /\ Once(t, D)
  <2>1. PICK i \in 1 .. n + m : u[i] \in D /\ \A k \in 1 .. n + m : u[k] \in D => k = i
    BY <1>4, <1>8 DEF Once
  <2>2. CASE i \in 1 .. n
    <3>1. Once(s, D)
      BY <1>2, <1>4, <1>6, <2>1, <2>2 DEF Once
    <3>2. Never(t, D)
      BY <1>3, <1>4, <1>6, <2>1, <2>2 DEF Never
    <3> QED
      BY <3>1, <3>2
  <2>3. ASSUME NEW j \in 1 .. m, i = n + j
        PROVE  Never(s, D) /\ Once(t, D)
    <3>1. Never(s, D)
      BY <1>2, <1>4, <1>6, <2>1, <2>3 DEF Never
    <3>2. \A k \in 1 .. m : t[k] \in D => k = j
      BY <1>4, <1>6, <2>1, <2>3
    <3>3. t[j] \in D
      BY <1>4, <2>1, <2>3
    <3> QED
      BY <1>3, <3>1, <3>2, <3>3 DEF Once
  <2> QED
    BY <1>5, <2>2, <2>3
<1>9. ASSUME Once(s, D), Never(t, D)
      PROVE  Once(u, D)
  <2>1. PICK i \in 1 .. n : s[i] \in D /\ \A k \in 1 .. n : s[k] \in D => k = i
    BY <1>2, <1>9 DEF Once
  <2>2. \A j \in 1 .. m : u[n + j] \notin D
    BY <1>3, <1>4, <1>9 DEF Never
  <2>3. \A k \in 1 .. n + m : u[k] \in D => k = i
    BY <1>4, <1>5, <2>1, <2>2
  <2> QED
    BY <1>4, <1>6, <2>1, <2>3 DEF Once
<1>10. ASSUME Never(s, D), Once(t, D)
       PROVE  Once(u, D)
  <2>1. PICK j \in 1 .. m : t[j] \in D /\ \A k \in 1 .. m : t[k] \in D => k = j
    BY <1>3, <1>10 DEF Once
  <2>2. \A i \in 1 .. n : u[i] \notin D
    BY <1>2, <1>4, <1>10 DEF Never
  <2>3. \A k \in 1 .. n + m : u[k] \in D => k = n + j
    BY <1>4, <1>5, <2>1, <2>2
  <2> QED
    BY <1>4, <1>6, <2>1, <2>3 DEF Once
<1> QED
  BY <1>1, <1>7, <1>8, <1>9, <1>10

LEMMA OnceTuples ==
  ASSUME NEW D
  PROVE  /\ Never(<< >>, D) /\ ~Once(<< >>, D)
         /\ \A x : (Never(<< x >>, D) <=> x \notin D) /\ (Once(<< x >>, D) <=> x \in D)
<1>1. Never(<< >>, D) /\ ~Once(<< >>, D)
  BY DEF Never, Once
<1>2. ASSUME NEW x
      PROVE  (Never(<< x >>, D) <=> x \notin D) /\ (Once(<< x >>, D) <=> x \in D)
  <2>1. PICK u : u = << x >>
    OBVIOUS
  <2>2. Len(u) = 1 /\ u[1] = x /\ 1 .. 1 = {1}
    BY <2>1
  <2> QED
    BY <2>1, <2>2 DEF Never, Once
<1> QED
  BY <1>1, <1>2

\* In a join a set occurs once if it occurs once in one of the parts and never
\* in the others, and it never occurs if it does in no part.
LEMMA PairNever ==
  ASSUME NEW D, NEW a, NEW b, a \notin D, b \notin D
  PROVE  Never(<< a, b >>, D) /\ ~Once(<< a, b >>, D)
<1>1. \A i \in 1 .. Len(<< a, b >>) : << a, b >>[i] \in {a, b}
  OBVIOUS
<1> QED
  BY <1>1 DEF Never, Once

LEMMA OnceFlatten ==
  ASSUME NEW S, NEW ss \in Seq(Seq(S)), NEW D
  PROVE  /\ Never(FlattenSeq(ss), D) <=> \A i \in 1 .. Len(ss) : Never(ss[i], D)
         /\ Once(FlattenSeq(ss), D) <=>
              \E i \in 1 .. Len(ss) :
                Once(ss[i], D) /\ \A k \in 1 .. Len(ss) : k # i => Never(ss[k], D)
<1> DEFINE Upto(n) == SubSeq(ss, 1, n)
           Good == {n \in Nat :
                      /\ Never(FlattenSeq(Upto(n)), D) <=> \A i \in 1 .. n : Never(ss[i], D)
                      /\ Once(FlattenSeq(Upto(n)), D) <=>
                           \E i \in 1 .. n :
                             Once(ss[i], D) /\ \A k \in 1 .. n : k # i => Never(ss[k], D)}
<1>1. Len(ss) \in Nat /\ Upto(0) = << >> /\ Upto(Len(ss)) = ss
  OBVIOUS
<1>2. 0 \in Good
  <2> HIDE DEF Upto
  <2> QED
    BY <1>1, FlattenEmpty, OnceTuples
<1>3. ASSUME NEW n \in 0 .. Len(ss), n + 1 <= Len(ss), n \in Good
      PROVE  n + 1 \in Good
  <2>1. PICK f : f = Upto(n)
    OBVIOUS
  <2>2. PICK e : e = ss[n + 1]
    OBVIOUS
  <2>3. Upto(n + 1) = Append(f, e) /\ f \in Seq(Seq(S)) /\ e \in Seq(S)
    BY <1>3, <2>1, <2>2, FrontLonger
  <2>4. FlattenSeq(f) \in Seq(S) /\ FlattenSeq(Upto(n + 1)) = FlattenSeq(f) \o e
    BY <2>3, FlattenAppend
  <2>5. /\ Never(FlattenSeq(f), D) <=> \A i \in 1 .. n : Never(ss[i], D)
        /\ Once(FlattenSeq(f), D) <=>
             \E i \in 1 .. n : Once(ss[i], D) /\ \A k \in 1 .. n : k # i => Never(ss[k], D)
    BY <1>3, <2>1
  <2>6. PICK g : g = FlattenSeq(Upto(n + 1))
    OBVIOUS
  <2> HIDE DEF Upto
  <2>7. /\ Never(g, D) <=> Never(FlattenSeq(f), D) /\ Never(e, D)
        /\ Once(g, D) <=> \/ Once(FlattenSeq(f), D) /\ Never(e, D)
                          \/ Never(FlattenSeq(f), D) /\ Once(e, D)
    BY <2>3, <2>4, <2>6, OnceConcat
  <2>8. /\ \A i \in 1 .. n + 1 : i \in 1 .. n \/ i = n + 1
        /\ \A i \in 1 .. n : i \in 1 .. n + 1 /\ i # n + 1
        /\ n + 1 \in 1 .. n + 1
    OBVIOUS
  <2>9. Never(g, D) <=> \A i \in 1 .. n + 1 : Never(ss[i], D)
    BY <2>2, <2>5, <2>7, <2>8
  <2>10. ASSUME Once(g, D)
         PROVE  \E i \in 1 .. n + 1 :
                  Once(ss[i], D) /\ \A k \in 1 .. n + 1 : k # i => Never(ss[k], D)
    <3>1. CASE Once(FlattenSeq(f), D) /\ Never(e, D)
      <4>1. PICK i \in 1 .. n : Once(ss[i], D) /\ \A k \in 1 .. n : k # i => Never(ss[k], D)
        BY <2>5, <3>1
      <4>2. \A k \in 1 .. n + 1 : k # i => Never(ss[k], D)
        BY <2>2, <2>8, <3>1, <4>1
      <4> QED
        BY <2>8, <4>1, <4>2
    <3>2. CASE Never(FlattenSeq(f), D) /\ Once(e, D)
      <4>1. \A k \in 1 .. n + 1 : k # n + 1 => Never(ss[k], D)
        BY <2>5, <2>8, <3>2
      <4> QED
        BY <2>2, <2>8, <3>2, <4>1
    <3> QED
      BY <2>7, <2>10, <3>1, <3>2
  <2>11. ASSUME NEW i \in 1 .. n + 1, Once(ss[i], D),
                \A k \in 1 .. n + 1 : k # i => Never(ss[k], D)
         PROVE  Once(g, D)
    <3>1. CASE i = n + 1
      BY <2>2, <2>5, <2>7, <2>8, <2>11, <3>1
    <3>2. CASE i # n + 1
      <4>1. i \in 1 .. n /\ \A k \in 1 .. n : k # i => Never(ss[k], D)
        BY <2>8, <2>11, <3>2
      <4>2. Never(e, D)
        BY <2>2, <2>8, <2>11, <3>2
      <4> QED
        BY <2>5, <2>7, <2>11, <4>1, <4>2
    <3> QED
      BY <3>1, <3>2
  <2> QED
    BY <1>3, <2>6, <2>9, <2>10, <2>11
<1>4. Len(ss) \in Good
  <2> HIDE DEF Good
  <2> QED
    BY <1>1, <1>2, <1>3, UpTo DEF HoldsUpTo
<1> QED
  BY <1>1, <1>4

\* Where they occur.
Positions(s, D) == {i \in DOMAIN s : s[i] \in D}

LEMMA CountPositions ==
  ASSUME NEW S, NEW s \in Seq(S), NEW D
  PROVE  /\ IsFiniteSet(Positions(s, D))
         /\ Cardinality(Positions(s, D)) = 1 <=> Once(s, D)
         /\ Cardinality(Positions(s, D)) = 0 <=> Never(s, D)
<1>1. PICK P : P = Positions(s, D)
  OBVIOUS
<1>2. DOMAIN s = 1 .. Len(s) /\ Len(s) \in Int
  OBVIOUS
<1>3. IsFiniteSet(P)
  <2>1. IsFiniteSet(1 .. Len(s))
    BY <1>2, FS_Interval
  <2>2. P \in SUBSET (1 .. Len(s))
    BY <1>1, <1>2 DEF Positions
  <2> QED
    BY <2>1, <2>2, FS_Subset
<1>4. Cardinality(P) = 1 <=> \E x : P = {x}
  BY <1>3, FS_Singleton
<1>5. Cardinality(P) = 0 <=> P = {}
  BY <1>3, FS_EmptySet
<1>6. \A i : i \in P <=> i \in 1 .. Len(s) /\ s[i] \in D
  BY <1>1, <1>2 DEF Positions
<1>7. (\E x : P = {x}) <=> Once(s, D)
  <2>1. ASSUME NEW x, P = {x}
        PROVE  Once(s, D)
    <3>1. x \in 1 .. Len(s) /\ s[x] \in D
      BY <1>6, <2>1
    <3>2. \A k \in 1 .. Len(s) : s[k] \in D => k = x
      BY <1>6, <2>1
    <3> QED
      BY <3>1, <3>2 DEF Once
  <2>2. ASSUME Once(s, D)
        PROVE  \E x : P = {x}
    <3>1. PICK x \in 1 .. Len(s) : s[x] \in D /\ \A k \in 1 .. Len(s) : s[k] \in D => k = x
      BY <2>2 DEF Once
    <3>2. P = {x}
      BY <1>6, <3>1
    <3> QED
      BY <3>2
  <2> QED
    BY <2>1, <2>2
<1>8. P = {} <=> Never(s, D)
  BY <1>6 DEF Never
<1> QED
  BY <1>1, <1>3, <1>4, <1>5, <1>7, <1>8

\* What the parts have once or never, one for each element of s, their join has as
\* often as s has the elements they stand for.
LEMMA MappedCounts ==
  ASSUME NEW S, NEW T, NEW D, NEW E, NEW s \in Seq(T), NEW u \in [1 .. Len(s) -> Seq(S)],
         \A i \in 1 .. Len(s) : /\ Once(u[i], D) <=> s[i] \in E
                                /\ Never(u[i], D) <=> s[i] \notin E
  PROVE  /\ Once(FlattenSeq(u), D) <=> Once(s, E)
         /\ Never(FlattenSeq(u), D) <=> Never(s, E)
<1>1. PICK n \in Nat : n = Len(s)
  OBVIOUS
<1>2. u \in Seq(Seq(S)) /\ Len(u) = n
  BY <1>1
<1>3. /\ Never(FlattenSeq(u), D) <=> \A i \in 1 .. n : Never(u[i], D)
      /\ Once(FlattenSeq(u), D) <=>
           \E i \in 1 .. n : Once(u[i], D) /\ \A k \in 1 .. n : k # i => Never(u[k], D)
  BY <1>2, OnceFlatten
<1> QED
  BY <1>1, <1>3 DEF Once, Never

\* What stands in a join stands in one of the parts.
LEMMA JoinedFrom ==
  ASSUME NEW S, NEW n \in Nat, NEW u \in [1 .. n -> Seq(S)], NEW i \in 1 .. Len(FlattenSeq(u))
  PROVE  \E k \in 1 .. n : \E j \in 1 .. Len(u[k]) : u[k][j] = FlattenSeq(u)[i]
<1>1. u \in Seq(Seq(S)) /\ Len(u) = n
  OBVIOUS
<1>2. PICK x : x = FlattenSeq(u)[i]
  OBVIOUS
<1>3. Never(FlattenSeq(u), {x}) <=> \A k \in 1 .. n : Never(u[k], {x})
  BY <1>1, OnceFlatten
<1>4. ~Never(FlattenSeq(u), {x})
  BY <1>2 DEF Never
<1> QED
  BY <1>2, <1>3, <1>4 DEF Never

\* And what stands in a part stands in the join.
LEMMA JoinedInto ==
  ASSUME NEW S, NEW u \in Seq(Seq(S)),
         NEW k \in 1 .. Len(u), NEW j \in 1 .. Len(u[k])
  PROVE  \E i \in 1 .. Len(FlattenSeq(u)) : FlattenSeq(u)[i] = u[k][j]
<1>1. PICK n \in Nat : n = Len(u)
  OBVIOUS
<1>2. PICK x : x = u[k][j]
  OBVIOUS
<1>3. Never(FlattenSeq(u), {x}) <=> \A l \in 1 .. n : Never(u[l], {x})
  BY <1>1, OnceFlatten
<1>4. ~Never(u[k], {x})
  BY <1>2 DEF Never
<1> QED
  BY <1>1, <1>2, <1>3, <1>4 DEF Never
=============================================================================
