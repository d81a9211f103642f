--------------------------- MODULE InitListProofs ---------------------------
(***************************************************************************)
(* Initialisers of any length for arrays of any shape.                     *)
(***************************************************************************)
EXTENDS InitList, SequenceFacts, SequenceTheorems

-----------------------------------------------------------------------------
(* Sizes of arrays.                                                        *)

Positive == Nat \ {0}

\* f[i] is the product of the first i dimensions.
ProductsTo(f, dims, n) ==
  f = [i \in 0 .. n |-> IF i = 0 THEN 1 ELSE f[i - 1] * dims[i]]

Products(dims) == CHOOSE f : ProductsTo(f, dims, Len(dims))

LEMMA ProductIs ==
  ASSUME NEW dims
  PROVE  Product(dims) = Products(dims)[Len(dims)]
BY DEF Product, Products, ProductsTo

LEMMA TimesPositive ==
  ASSUME NEW m \in Positive, NEW n \in Positive
  PROVE  m * n \in Positive /\ m * n >= n
<1>1. m >= 1 /\ n >= 1 /\ m \in Nat /\ n \in Nat
  BY DEF Positive
<1>2. m * n >= 1 * n
  BY <1>1
<1> QED
  BY <1>1, <1>2 DEF Positive

LEMMA ProductsExist ==
  ASSUME NEW dims \in Seq(Positive)
  PROVE  \E f \in [0 .. Len(dims) -> Positive] : ProductsTo(f, dims, Len(dims))
<1> DEFINE Bad == {n \in 0 .. Len(dims) : ~ \E f \in [0 .. n -> Positive] : ProductsTo(f, dims, n)}
<1>1. Bad = {}
  <2> SUFFICES ASSUME Bad # {} PROVE FALSE
    OBVIOUS
  <2>1. Bad \subseteq Nat
    OBVIOUS
  <2>2. PICK m \in Bad : \A k \in Bad : m <= k
    <3> HIDE DEF Bad
    <3> QED
      BY <2>1, LeastOf
  <2>3. m # 0
    <3>1. [i \in 0 .. 0 |-> 1] \in [0 .. 0 -> Positive]
      BY DEF Positive
    <3>2. ProductsTo([i \in 0 .. 0 |-> 1], dims, 0)
      BY DEF ProductsTo
    <3> QED
      BY <2>2, <3>1, <3>2
  <2>4. m \in 1 .. Len(dims) /\ m - 1 \in 0 .. Len(dims)
    BY <2>3
  <2>5. m - 1 \notin Bad
    <3> HIDE DEF Bad
    <3> QED
      BY <2>1, <2>2, <2>4
  <2>6. PICK f \in [0 .. m - 1 -> Positive] : ProductsTo(f, dims, m - 1)
    BY <2>4, <2>5
  <2>7. PICK x : x = f[m - 1] * dims[m]
    OBVIOUS
  <2>8. x \in Positive
    <3>1. f[m - 1] \in Positive /\ dims[m] \in Positive
      BY <2>4, <2>6
    <3> QED
      BY <2>7, <3>1, TimesPositive
  <2>9. PICK g : g = [i \in 0 .. m |-> IF i = m THEN x ELSE f[i]]
    OBVIOUS
  <2>10. \A i \in 0 .. m : i = m \/ i \in 0 .. m - 1
    BY <2>4
  <2>11. g \in [0 .. m -> Positive]
    BY <2>6, <2>8, <2>9, <2>10
  <2>12. \A i \in 0 .. m - 1 : f[i] = IF i = 0 THEN 1 ELSE f[i - 1] * dims[i]
    BY <2>6 DEF ProductsTo
  <2>13. \A i \in 0 .. m : g[i] = IF i = 0 THEN 1 ELSE g[i - 1] * dims[i]
    <3> SUFFICES ASSUME NEW i \in 0 .. m
                 PROVE  g[i] = IF i = 0 THEN 1 ELSE g[i - 1] * dims[i]
      OBVIOUS
    <3>1. CASE i = m
      <4>1. m - 1 \in 0 .. m /\ m - 1 # m /\ m # 0
        BY <2>4
      <4>2. g[m] = x /\ g[m - 1] = f[m - 1]
        BY <2>9, <4>1
      <4> QED
        BY <2>7, <3>1, <4>1, <4>2
    <3>2. CASE i # m
      <4>1. i \in 0 .. m - 1 /\ (i # 0 => i - 1 \in 0 .. m /\ i - 1 # m)
        BY <2>4, <3>2
      <4>2. g[i] = f[i] /\ (i # 0 => g[i - 1] = f[i - 1])
        BY <2>9, <3>2, <4>1
      <4> QED
        BY <2>12, <4>1, <4>2
    <3> QED
      BY <3>1, <3>2
  <2>14. ProductsTo(g, dims, m)
    <3>1. g = [i \in 0 .. m |-> g[i]]
      BY <2>9
    <3> QED
      BY <2>13, <3>1 DEF ProductsTo
  <2> QED
    BY <2>2, <2>11, <2>14
<1>2. Len(dims) \in 0 .. Len(dims)
  OBVIOUS
<1> QED
  BY <1>1, <1>2

\* An array is as large as its last dimension at least.
LEMMA ProductBounds ==
  ASSUME NEW dims \in Seq(Positive)
  PROVE  /\ Product(dims) \in Positive /\ Product(dims) \in Nat /\ Product(dims) > 0
         /\ Len(dims) > 0 => Product(dims) >= dims[Len(dims)]
         /\ Len(dims) = 1 => Product(dims) = dims[Len(dims)]
<1>1. PICK f : f = Products(dims)
  OBVIOUS
<1>2. PICK g \in [0 .. Len(dims) -> Positive] : ProductsTo(g, dims, Len(dims))
  BY ProductsExist
<1>3. ProductsTo(f, dims, Len(dims))
  BY <1>1, <1>2 DEF Products
<1>4. PICK n \in Nat : n = Len(dims)
  OBVIOUS
<1>5. \A i \in 0 .. n : f[i] = IF i = 0 THEN 1 ELSE f[i - 1] * dims[i]
  BY <1>3, <1>4 DEF ProductsTo
<1>6. \A i \in 1 .. n : dims[i] \in Positive
  BY <1>4
<1> DEFINE Bad == {i \in 0 .. n : f[i] \notin Positive}
<1>7. Bad = {}
  <2> SUFFICES ASSUME Bad # {} PROVE FALSE
    OBVIOUS
  <2>1. Bad \subseteq Nat
    OBVIOUS
  <2>2. PICK m \in Bad : \A k \in Bad : m <= k
    <3> HIDE DEF Bad
    <3> QED
      BY <2>1, LeastOf
  <2>3. m # 0
    BY <1>5 DEF Positive
  <2>4. m \in 1 .. n /\ m - 1 \in 0 .. n
    BY <2>3
  <2>5. m - 1 \notin Bad
    <3> HIDE DEF Bad
    <3> QED
      BY <2>1, <2>2, <2>4
  <2>6. f[m - 1] \in Positive /\ dims[m] \in Positive
    BY <1>6, <2>4, <2>5
  <2>7. f[m] = f[m - 1] * dims[m]
    BY <1>5, <2>3, <2>4
  <2> QED
    BY <2>6, <2>7, TimesPositive
<1>8. n \in 0 .. n /\ f[n] \in Positive
  BY <1>7
<1>9. Product(dims) = f[n]
  BY <1>1, <1>4, ProductIs
<1>10. ASSUME n > 0
       PROVE  f[n] >= dims[n] /\ (n = 1 => f[n] = dims[n])
  <2>1. n \in 1 .. n /\ n - 1 \in 0 .. n /\ n # 0
    BY <1>10
  <2>2. f[n] = f[n - 1] * dims[n] /\ f[n - 1] \in Positive /\ dims[n] \in Positive
    BY <1>5, <1>6, <1>7, <2>1
  <2>3. f[n] >= dims[n]
    BY <2>2, TimesPositive
  <2>4. ASSUME n = 1
        PROVE  f[n] = dims[n]
    <3>1. f[0] = 1
      BY <1>5, <2>1, <2>4
    <3>2. f[n] = 1 * dims[n]
      BY <2>2, <2>4, <3>1
    <3> QED
      BY <2>2, <3>2 DEF Positive
  <2> QED
    BY <2>3, <2>4
<1> QED
  BY <1>4, <1>8, <1>9, <1>10 DEF Positive

-----------------------------------------------------------------------------
(* The lists an initialiser is in.                                         *)

Tokens == Kinds \cup {"{", "}"}

Dims == Seq(Positive) \ {<< >>}

ListSet == [dims : Dims, filled : Nat, start : Nat]

\* The number of elements of the whole array that are filled or passed.
Filled(lists) == Last(lists).start + Last(lists).filled

\* The open lists of an initialiser without excess elements.
IsOpen(lists) ==
  /\ lists \in Seq(ListSet) /\ Len(lists) > 0
  /\ lists[1].dims = shape /\ lists[1].start = 0
  /\ \A i \in 1 .. Len(lists) :
       /\ lists[i].filled <= Product(lists[i].dims)
       /\ Len(lists[i].dims) + i <= Len(shape) + 1
       /\ lists[i].dims[Len(lists[i].dims)] = shape[Len(shape)]
  /\ \A i \in 2 .. Len(lists) : lists[i].start = lists[i - 1].start + lists[i - 1].filled

LEMMA TokenKinds ==
  /\ "{" \in Tokens /\ "}" \in Tokens /\ Kinds \subseteq Tokens
  /\ "{" \notin Kinds /\ "}" \notin Kinds /\ "{" # "}"
  /\ \A token \in Tokens : token \in Kinds \/ token = "{" \/ token = "}"
BY InitListAssumption DEF Tokens

LEMMA ShapeDims ==
  ASSUME NEW s \in Shapes
  PROVE  s \in Dims
BY InitListAssumption DEF Dims, Positive

\* A nested list starts at a dimension after the first.
LEMMA SubArrayIs ==
  ASSUME NEW dims \in Seq(Positive), NEW n \in Nat, SubArray(dims, n) # << >>
  PROVE  /\ SubArray(dims, n) \in Dims
         /\ Len(SubArray(dims, n)) < Len(dims)
         /\ SubArray(dims, n)[Len(SubArray(dims, n))] = dims[Len(dims)]
<1> DEFINE fits == {i \in 2 .. Len(dims) : n % Product(SubSeq(dims, i, Len(dims))) = 0}
           k == CHOOSE i \in fits : \A j \in fits : i <= j
<1>1. fits # {} /\ SubArray(dims, n) = SubSeq(dims, k, Len(dims))
  BY DEF SubArray
<1>2. fits \subseteq Nat /\ fits \subseteq 2 .. Len(dims)
  OBVIOUS
<1>3. \E i \in fits : \A j \in fits : i <= j
  <2> HIDE DEF fits
  <2> QED
    BY <1>1, <1>2, LeastOf
<1>4. k \in fits
  <2> HIDE DEF fits
  <2> QED
    BY <1>3
<1>5. k \in 2 .. Len(dims)
  BY <1>2, <1>4
<1> HIDE DEF k, fits
<1>6. dims \in Seq(Positive) /\ Len(dims) \in Nat
  OBVIOUS
<1>7. PICK s : s = SubSeq(dims, k, Len(dims))
  OBVIOUS
<1>8. s \in Seq(Positive) /\ Len(s) = Len(dims) - k + 1 /\ s[Len(s)] = dims[Len(dims)]
  BY <1>5, <1>6, <1>7
<1> QED
  BY <1>1, <1>5, <1>6, <1>7, <1>8 DEF Dims

LEMMA OneOpen ==
  ASSUME shape \in Dims
  PROVE  IsOpen(<< List(shape, 0) >>) /\ Filled(<< List(shape, 0) >>) = 0
<1>1. PICK list : list = List(shape, 0)
  OBVIOUS
<1>2. list \in ListSet /\ list.dims = shape /\ list.filled = 0 /\ list.start = 0
  BY <1>1 DEF List, ListSet
<1>3. shape \in Seq(Positive) /\ Len(shape) \in Nat
  BY DEF Dims
<1>4. Product(shape) >= 0
  BY <1>3, ProductBounds
<1>5. PICK lists : lists = << list >>
  OBVIOUS
<1>6. lists \in Seq(ListSet) /\ Len(lists) = 1 /\ lists[1] = list
  BY <1>2, <1>5
<1>7. IsOpen(lists)
  BY <1>2, <1>3, <1>4, <1>6 DEF IsOpen
<1>8. Filled(lists) = 0
  BY <1>2, <1>6 DEF Filled, Last
<1> QED
  BY <1>1, <1>5, <1>7, <1>8

LEMMA OpenTop ==
  ASSUME NEW a, IsOpen(a)
  PROVE  /\ Last(a) = a[Len(a)] /\ Last(a) \in ListSet
         /\ Last(a).dims \in Dims /\ Last(a).filled \in Nat /\ Last(a).start \in Nat
         /\ Last(a).filled <= Product(Last(a).dims)
         /\ Filled(a) \in Nat
         /\ Product(Last(a).dims) \in Nat
<1>1. Len(a) \in 1 .. Len(a) /\ a[Len(a)] \in ListSet /\ a[Len(a)].filled <= Product(a[Len(a)].dims)
  BY DEF IsOpen
<1>2. Last(a) = a[Len(a)]
  BY DEF Last
<1>3. Last(a).dims \in Dims /\ Last(a).filled \in Nat /\ Last(a).start \in Nat
  BY <1>1, <1>2 DEF ListSet
<1>4. Product(Last(a).dims) \in Nat
  BY <1>3, ProductBounds DEF Dims
<1> QED
  BY <1>1, <1>2, <1>3, <1>4 DEF Filled

LEMMA FilledLists ==
  ASSUME NEW a \in Seq(ListSet), Len(a) > 0, NEW n \in Nat
  PROVE  /\ Fill(a, n) \in Seq(ListSet) /\ Len(Fill(a, n)) = Len(a)
         /\ \A i \in 1 .. Len(a) : i # Len(a) => Fill(a, n)[i] = a[i]
         /\ Fill(a, n)[Len(a)].dims = a[Len(a)].dims
         /\ Fill(a, n)[Len(a)].start = a[Len(a)].start
         /\ Fill(a, n)[Len(a)].filled = a[Len(a)].filled + n
<1>1. a[Len(a)] \in ListSet
  OBVIOUS
<1>2. PICK e : e = [a[Len(a)] EXCEPT !.filled = @ + n]
  OBVIOUS
<1>3. e \in ListSet /\ e.dims = a[Len(a)].dims /\ e.start = a[Len(a)].start
      /\ e.filled = a[Len(a)].filled + n
  BY <1>1, <1>2 DEF ListSet
<1>4. Fill(a, n) = [a EXCEPT ![Len(a)] = e]
  BY <1>2 DEF Fill
<1>5. /\ [a EXCEPT ![Len(a)] = e] \in Seq(ListSet)
      /\ Len([a EXCEPT ![Len(a)] = e]) = Len(a)
      /\ [a EXCEPT ![Len(a)] = e][Len(a)] = e
      /\ \A i \in 1 .. Len(a) : i # Len(a) => [a EXCEPT ![Len(a)] = e][i] = a[i]
  BY <1>3, ReplacedElement
<1> QED
  BY <1>3, <1>4, <1>5

\* Elements are counted in the innermost list only.
LEMMA OpenFilled ==
  ASSUME NEW a, IsOpen(a), NEW n \in Nat, shape \in Dims,
         Last(a).filled + n <= Product(Last(a).dims)
  PROVE  IsOpen(Fill(a, n)) /\ Filled(Fill(a, n)) = Filled(a) + n
<1>1. a \in Seq(ListSet) /\ Len(a) > 0
  BY DEF IsOpen
<1>2. PICK b : b = Fill(a, n)
  OBVIOUS
<1>3. PICK k \in Nat : k = Len(a)
  BY <1>1
<1>4. /\ b \in Seq(ListSet) /\ Len(b) = k
      /\ \A i \in 1 .. k : i # k => b[i] = a[i]
      /\ b[k].dims = a[k].dims /\ b[k].start = a[k].start /\ b[k].filled = a[k].filled + n
  BY <1>1, <1>2, <1>3, FilledLists
<1>5. \A i \in 1 .. k : b[i].dims = a[i].dims /\ b[i].start = a[i].start
  BY <1>4
<1>6. 1 \in 1 .. k /\ k \in 1 .. k /\ k > 0
  BY <1>1, <1>3
<1>7. b[1].dims = shape /\ b[1].start = 0
  BY <1>5, <1>6 DEF IsOpen
<1>8. \A i \in 1 .. k : b[i].filled <= Product(b[i].dims)
  <2> SUFFICES ASSUME NEW i \in 1 .. k PROVE b[i].filled <= Product(b[i].dims)
    OBVIOUS
  <2>1. CASE i = k
    BY <1>3, <1>4, <2>1, OpenTop
  <2>2. CASE i # k
    <3>1. b[i] = a[i] /\ a[i].filled <= Product(a[i].dims)
      BY <1>3, <1>4, <2>2 DEF IsOpen
    <3> QED
      BY <3>1
  <2> QED
    BY <2>1, <2>2
<1>9. \A i \in 1 .. k : /\ Len(b[i].dims) + i <= Len(shape) + 1
                        /\ b[i].dims[Len(b[i].dims)] = shape[Len(shape)]
  BY <1>3, <1>5 DEF IsOpen
<1>10. \A i \in 2 .. k : b[i].start = b[i - 1].start + b[i - 1].filled
  <2> SUFFICES ASSUME NEW i \in 2 .. k
               PROVE  b[i].start = b[i - 1].start + b[i - 1].filled
    OBVIOUS
  <2>1. i \in 1 .. k /\ i - 1 \in 1 .. k /\ i - 1 # k
    BY <1>3
  <2>2. b[i - 1] = a[i - 1] /\ b[i].start = a[i].start
    BY <1>4, <1>5, <2>1
  <2>3. a[i].start = a[i - 1].start + a[i - 1].filled
    BY <1>3 DEF IsOpen
  <2> QED
    BY <2>2, <2>3
<1>11. IsOpen(b)
  BY <1>4, <1>6, <1>7, <1>8, <1>9, <1>10 DEF IsOpen
<1>12. Filled(b) = Filled(a) + n
  <2>1. Last(a) = a[k] /\ Last(b) = b[k] /\ a[k].start \in Nat /\ a[k].filled \in Nat
    BY <1>3, <1>4, OpenTop DEF Last
  <2>2. PICK x, y : x = a[k].start /\ y = a[k].filled
    OBVIOUS
  <2>3. Filled(b) = x + (y + n) /\ Filled(a) = x + y
    BY <1>4, <2>1, <2>2 DEF Filled
  <2> QED
    BY <2>1, <2>2, <2>3
<1> QED
  BY <1>2, <1>11, <1>12

LEMMA OpenNested ==
  ASSUME NEW a, IsOpen(a), shape \in Dims, NEW sub,
         sub = SubArray(Last(a).dims, Last(a).filled), sub # << >>
  PROVE  /\ IsOpen(Append(a, List(sub, Filled(a))))
         /\ Filled(Append(a, List(sub, Filled(a)))) = Filled(a)
<1>1. a \in Seq(ListSet) /\ Len(a) > 0 /\ Filled(a) \in Nat
  BY OpenTop DEF IsOpen
<1>2. PICK k \in Nat : k = Len(a)
  BY <1>1
<1>3. /\ sub \in Dims /\ Len(sub) < Len(a[k].dims)
      /\ sub[Len(sub)] = a[k].dims[Len(a[k].dims)]
  BY <1>2, OpenTop, SubArrayIs DEF Dims
<1>4. PICK e : e = List(sub, Filled(a))
  OBVIOUS
<1>5. e \in ListSet /\ e.dims = sub /\ e.filled = 0 /\ e.start = Filled(a)
  BY <1>1, <1>3, <1>4 DEF List, ListSet
<1>6. PICK b : b = Append(a, e)
  OBVIOUS
<1>7. /\ b \in Seq(ListSet) /\ Len(b) = k + 1 /\ b[k + 1] = e
      /\ \A i \in 1 .. k : b[i] = a[i]
  BY <1>1, <1>2, <1>5, <1>6, AppendedElements
<1>8. 1 \in 1 .. k /\ k \in 1 .. k /\ k > 0
  BY <1>1, <1>2
<1>9. a[1].dims = shape /\ a[1].start = 0
  BY DEF IsOpen
<1>10. \A i \in 1 .. k : /\ a[i].filled <= Product(a[i].dims)
                         /\ Len(a[i].dims) + i <= Len(shape) + 1
                         /\ a[i].dims[Len(a[i].dims)] = shape[Len(shape)]
  BY <1>2 DEF IsOpen
<1>11. Product(sub) >= 0
  BY <1>3, ProductBounds DEF Dims
<1>12. Len(sub) + (k + 1) <= Len(shape) + 1
  <2>1. Len(a[k].dims) + k <= Len(shape) + 1
    BY <1>8, <1>10
  <2>2. Len(sub) \in Nat /\ Len(a[k].dims) \in Nat /\ Len(shape) \in Nat
    BY <1>2, <1>3, OpenTop DEF Dims
  <2> QED
    BY <1>3, <2>1, <2>2
<1>13. \A i \in 1 .. k + 1 : i \in 1 .. k \/ i = k + 1
  OBVIOUS
<1>14. \A i \in 1 .. k + 1 : /\ b[i].filled <= Product(b[i].dims)
                             /\ Len(b[i].dims) + i <= Len(shape) + 1
                             /\ b[i].dims[Len(b[i].dims)] = shape[Len(shape)]
  <2> SUFFICES ASSUME NEW i \in 1 .. k + 1
               PROVE  /\ b[i].filled <= Product(b[i].dims)
                      /\ Len(b[i].dims) + i <= Len(shape) + 1
                      /\ b[i].dims[Len(b[i].dims)] = shape[Len(shape)]
    OBVIOUS
  <2>1. CASE i \in 1 .. k
    BY <1>7, <1>10, <2>1
  <2>2. CASE i = k + 1
    <3>1. b[i] = e
      BY <1>7, <2>2
    <3>2. a[k].dims[Len(a[k].dims)] = shape[Len(shape)]
      BY <1>8, <1>10
    <3> QED
      BY <1>3, <1>5, <1>11, <1>12, <2>2, <3>1, <3>2
  <2> QED
    BY <1>13, <2>1, <2>2
<1>15. \A i \in 2 .. k + 1 : b[i].start = b[i - 1].start + b[i - 1].filled
  <2> SUFFICES ASSUME NEW i \in 2 .. k + 1
               PROVE  b[i].start = b[i - 1].start + b[i - 1].filled
    OBVIOUS
  <2>1. i - 1 \in 1 .. k /\ b[i - 1] = a[i - 1]
    BY <1>7
  <2>2. CASE i \in 2 .. k
    <3>1. a[i].start = a[i - 1].start + a[i - 1].filled
      BY <1>2, <2>2 DEF IsOpen
    <3>2. i \in 1 .. k
      BY <2>2
    <3> QED
      BY <1>7, <2>1, <3>1, <3>2
  <2>3. CASE i = k + 1
    <3>1. Last(a) = a[i - 1]
      BY <1>2, <2>3, OpenTop
    <3>2. b[i].start = Filled(a)
      BY <1>5, <1>7, <2>3
    <3> QED
      BY <2>1, <3>1, <3>2 DEF Filled
  <2> QED
    BY <2>2, <2>3
<1>16. b[1] = a[1]
  BY <1>7, <1>8
<1>17. IsOpen(b)
  BY <1>7, <1>9, <1>14, <1>15, <1>16 DEF IsOpen
<1>18. Filled(b) = Filled(a)
  <2>1. Last(b) = e
    BY <1>7 DEF Last
  <2> QED
    BY <1>1, <1>5, <2>1 DEF Filled
<1> QED
  BY <1>4, <1>6, <1>17, <1>18

\* A list that ends counts as its whole sub-array in the list around it.
LEMMA OpenEnds ==
  ASSUME NEW a, IsOpen(a), shape \in Dims, Len(a) > 1
  PROVE  /\ IsOpen(Front(a)) /\ Len(Front(a)) = Len(a) - 1
         /\ \A i \in 1 .. Len(a) - 1 : Front(a)[i] = a[i]
         /\ Filled(Front(a)) = Last(a).start
<1>1. a \in Seq(ListSet)
  BY DEF IsOpen
<1>2. PICK k : k = Len(a) - 1
  OBVIOUS
<1> k \in Nat /\ k = Len(a) - 1 /\ k \in 0 .. Len(a) /\ k > 0
  BY <1>1, <1>2
<1>3. PICK b : b = Front(a)
  OBVIOUS
<1>4. b = SubSeq(a, 1, k)
  BY <1>2, <1>3 DEF Front
<1>5. b \in Seq(ListSet) /\ Len(b) = k /\ \A i \in 1 .. k : b[i] = a[i]
  BY <1>1, <1>2, <1>4, FrontElements
<1>6. \A i \in 1 .. k : i \in 1 .. Len(a) /\ (i \in 2 .. k => i \in 2 .. Len(a) /\ i - 1 \in 1 .. k)
  BY <1>1, <1>2
<1>7. 1 \in 1 .. k /\ k \in 1 .. k
  BY <1>2
<1>8. \A i \in 1 .. k : /\ b[i].filled <= Product(b[i].dims)
                        /\ Len(b[i].dims) + i <= Len(shape) + 1
                        /\ b[i].dims[Len(b[i].dims)] = shape[Len(shape)]
  BY <1>5, <1>6 DEF IsOpen
<1>9. \A i \in 2 .. k : b[i].start = b[i - 1].start + b[i - 1].filled
  <2> SUFFICES ASSUME NEW i \in 2 .. k
               PROVE  b[i].start = b[i - 1].start + b[i - 1].filled
    OBVIOUS
  <2>1. i \in 1 .. k
    OBVIOUS
  <2>2. i \in 2 .. Len(a) /\ b[i] = a[i] /\ b[i - 1] = a[i - 1]
    BY <1>5, <1>6, <2>1
  <2>3. a[i].start = a[i - 1].start + a[i - 1].filled
    BY <2>2 DEF IsOpen
  <2> QED
    BY <2>2, <2>3
<1>10. b[1].dims = shape /\ b[1].start = 0
  BY <1>5, <1>7 DEF IsOpen
<1>11. IsOpen(b)
  BY <1>2, <1>5, <1>8, <1>9, <1>10 DEF IsOpen
<1>12. Filled(b) = Last(a).start
  <2>1. Last(a) = a[k + 1] /\ k + 1 \in 2 .. Len(a) /\ (k + 1) - 1 = k
    BY <1>1, <1>2 DEF Last
  <2>2. a[k + 1].start = a[(k + 1) - 1].start + a[(k + 1) - 1].filled
    BY <2>1 DEF IsOpen
  <2>3. Last(b) = a[k]
    BY <1>5, <1>7 DEF Last
  <2> QED
    BY <2>1, <2>2, <2>3 DEF Filled
<1> QED
  BY <1>2, <1>3, <1>5, <1>11, <1>12

LEMMA OpenCloses ==
  ASSUME NEW a, IsOpen(a), shape \in Dims, Len(a) > 1, NEW b,
         b = Fill(Front(a), Product(Last(a).dims)), NoExcess(b)
  PROVE  IsOpen(b) /\ Filled(b) = Last(a).start + Product(Last(a).dims) /\ Filled(b) >= Filled(a)
<1>1. PICK c : c = Front(a)
  OBVIOUS
<1>2. IsOpen(c) /\ Filled(c) = Last(a).start
  BY <1>1, OpenEnds
<1>3. PICK n \in Nat : n = Product(Last(a).dims)
  BY OpenTop
<1>4. b = Fill(c, n)
  BY <1>1, <1>3
<1>5. Last(b).filled = Last(c).filled + n /\ Last(b).dims = Last(c).dims
  BY <1>2, <1>4, FilledLists DEF IsOpen, Last
<1>6. Last(c).filled + n <= Product(Last(c).dims)
  BY <1>5 DEF NoExcess
<1>7. IsOpen(b) /\ Filled(b) = Filled(c) + n
  BY <1>2, <1>4, <1>6, OpenFilled
<1>8. Last(a).start + n >= Last(a).start + Last(a).filled
  BY <1>3, OpenTop
<1> QED
  BY <1>2, <1>3, <1>7, <1>8 DEF Filled

-----------------------------------------------------------------------------
(* Types.                                                                  *)

TypeInv ==
  /\ shape \in Shapes /\ global \in BOOLEAN
  /\ tokens \in Seq(Tokens) /\ Len(tokens) <= MaxTokens
  /\ stage \in {"check", "translate", "done", "rejected", "crashed"}
  /\ pos \in 1 .. Len(tokens) + 1
  /\ \A i \in DOMAIN want : want[i] \in 0 .. Len(tokens)
  /\ stage = "check" => IsOpen(open)

LEMMA TypesImplied ==
  ASSUME TypeInv
  PROVE  TypeOK
<1>1. /\ shape \in Shapes /\ global \in BOOLEAN
      /\ stage \in {"check", "translate", "done", "rejected", "crashed"}
  BY DEF TypeInv
<1>2. Range(tokens) \subseteq Kinds \cup {"{", "}"}
  <2>1. tokens \in Seq(Tokens)
    BY DEF TypeInv
  <2>2. \A i \in DOMAIN tokens : tokens[i] \in Tokens
    BY <2>1
  <2>3. Range(tokens) \subseteq Tokens
    BY <2>2 DEF Range
  <2> QED
    BY <2>3 DEF Tokens
<1>3. Len(tokens) \in Nat /\ Len(tokens) <= MaxTokens /\ MaxTokens \in Nat
  BY InitListAssumption DEF TypeInv
<1>4. pos \in 1 .. MaxTokens + 1
  BY <1>3 DEF TypeInv
<1>5. Range(want) \subseteq 0 .. MaxTokens
  <2>1. \A i \in DOMAIN want : want[i] \in 0 .. MaxTokens
    BY <1>3 DEF TypeInv
  <2> QED
    BY <2>1 DEF Range
<1>6. stage = "check" => \A i \in DOMAIN open : open[i].filled \in 0 .. Product(open[i].dims)
  <2> SUFFICES ASSUME stage = "check", NEW i \in DOMAIN open
               PROVE  open[i].filled \in 0 .. Product(open[i].dims)
    OBVIOUS
  <2>1. IsOpen(open)
    BY DEF TypeInv
  <2>2. i \in 1 .. Len(open) /\ open[i] \in ListSet
    BY <2>1 DEF IsOpen
  <2>3. open[i].filled <= Product(open[i].dims)
    BY <2>1, <2>2 DEF IsOpen
  <2>4. open[i].filled \in Nat /\ open[i].dims \in Seq(Positive)
    BY <2>2 DEF ListSet, Dims
  <2>5. Product(open[i].dims) \in Nat
    BY <2>4, ProductBounds
  <2> QED
    BY <2>3, <2>4, <2>5
<1> QED
  BY <1>1, <1>2, <1>4, <1>5, <1>6 DEF TypeOK

LEMMA TypeInit ==
  ASSUME Init
  PROVE  TypeInv
<1>1. shape \in Shapes /\ shape \in Dims
  BY ShapeDims DEF Init
<1>2. IsOpen(open)
  BY <1>1, OneOpen DEF Init
<1>3. tokens = << >> /\ Len(tokens) = 0 /\ tokens \in Seq(Tokens)
  BY DEF Init
<1>4. \A i \in DOMAIN want : want[i] \in 0 .. Len(tokens)
  BY <1>3 DEF Init
<1>5. Len(tokens) <= MaxTokens
  BY <1>3, InitListAssumption
<1> QED
  BY <1>1, <1>2, <1>3, <1>4, <1>5 DEF Init, TypeInv

\* What reading a token keeps.
LEMMA ReadsTypes ==
  ASSUME TypeInv, NEW token \in Tokens, Reads(token)
  PROVE  /\ shape' = shape /\ shape \in Dims /\ IsOpen(open)
         /\ tokens' \in Seq(Tokens) /\ Len(tokens') = Len(tokens) + 1 /\ Len(tokens') <= MaxTokens
         /\ Len(tokens) \in Nat
         /\ tokens'[Len(tokens')] = token
         /\ \A i \in 1 .. Len(tokens) : tokens'[i] = tokens[i]
         /\ pos' \in 1 .. Len(tokens') + 1
         /\ \A i \in DOMAIN want : want[i] \in 0 .. Len(tokens')
<1>1. tokens \in Seq(Tokens) /\ tokens' = Append(tokens, token) /\ shape' = shape /\ pos' = pos
  BY DEF TypeInv, Reads
<1>2. shape \in Dims /\ IsOpen(open)
  BY ShapeDims DEF TypeInv, Reads
<1>3. /\ tokens' \in Seq(Tokens) /\ Len(tokens') = Len(tokens) + 1
      /\ tokens'[Len(tokens')] = token
      /\ \A i \in 1 .. Len(tokens) : tokens'[i] = tokens[i]
  BY <1>1, AppendedElements
<1>4. Len(tokens) \in Nat /\ MaxTokens \in Nat /\ Len(tokens) < MaxTokens
  BY <1>1, InitListAssumption DEF Reads
<1>5. pos' \in 1 .. Len(tokens') + 1
  BY <1>1, <1>3, <1>4 DEF TypeInv
<1>6. \A i \in DOMAIN want : want[i] \in 0 .. Len(tokens')
  BY <1>3, <1>4 DEF TypeInv
<1> QED
  BY <1>1, <1>2, <1>3, <1>4, <1>5, <1>6

\* An element the checker accepts.
LEMMA ElementCounted ==
  ASSUME TypeInv, NEW kind \in Kinds, CheckElement(kind), stage' = "check"
  PROVE  /\ open' = Fill(open, 1)
         /\ IsOpen(open') /\ Filled(open') = Filled(open) + 1
         /\ want' = With(want, Filled(open) + 1, Len(tokens'))
<1>1. Reads(kind) /\ shape \in Dims /\ IsOpen(open)
  BY ReadsTypes, TokenKinds DEF CheckElement
<1>2. open' = Fill(open, 1) /\ NoExcess(open')
  BY DEF CheckElement
<1>3. open \in Seq(ListSet) /\ Len(open) > 0
  BY <1>1 DEF IsOpen
<1>4. PICK b : b = open'
  OBVIOUS
<1>5. Last(b).filled = Last(open).filled + 1 /\ Last(b).dims = Last(open).dims
  BY <1>2, <1>3, <1>4, FilledLists DEF Last
<1>6. Last(open).filled + 1 <= Product(Last(open).dims)
  BY <1>2, <1>4, <1>5 DEF NoExcess
<1>7. IsOpen(open') /\ Filled(open') = Filled(open) + 1
  BY <1>1, <1>2, <1>6, OpenFilled
<1>8. want' = With(want, Filled(open) + 1, Len(tokens'))
  BY DEF CheckElement, Top, Filled
<1> QED
  BY <1>2, <1>7, <1>8

\* A nested list it enters.
LEMMA ListEntered ==
  ASSUME TypeInv, CheckOpen, stage' = "check"
  PROVE  /\ SubArray(Last(open).dims, Last(open).filled) # << >>
         /\ open' = Append(open, List(SubArray(Last(open).dims, Last(open).filled), Filled(open)))
         /\ IsOpen(open') /\ Filled(open') = Filled(open) /\ want' = want
<1>1. Reads("{") /\ shape \in Dims /\ IsOpen(open)
  BY ReadsTypes, TokenKinds DEF CheckOpen
<1>2. PICK sub : sub = SubArray(Last(open).dims, Last(open).filled)
  OBVIOUS
<1>3. sub # << >> /\ open' = Append(open, List(sub, Filled(open)))
  BY <1>2 DEF CheckOpen, Top, Filled
<1>4. IsOpen(open') /\ Filled(open') = Filled(open)
  BY <1>1, <1>2, <1>3, OpenNested
<1> QED
  BY <1>2, <1>3, <1>4 DEF CheckOpen

\* One it leaves.
LEMMA ListLeft ==
  ASSUME TypeInv, CheckClose, stage' = "check"
  PROVE  /\ Len(open) > 1 /\ open' = Fill(Front(open), Product(Last(open).dims))
         /\ IsOpen(open') /\ Filled(open') >= Filled(open) /\ want' = want
<1>1. Reads("}") /\ shape \in Dims /\ IsOpen(open)
  BY ReadsTypes, TokenKinds DEF CheckClose
<1>2. Len(open) > 1 /\ open' = Fill(Front(open), Product(Last(open).dims)) /\ NoExcess(open')
  BY DEF CheckClose, Top
<1>3. IsOpen(open') /\ Filled(open') >= Filled(open)
  BY <1>1, <1>2, OpenCloses
<1> QED
  BY <1>2, <1>3 DEF CheckClose

\* What the translators keep.
LEMMA TranslatorsKeep ==
  ASSUME TypeInv, TranslateLocal \/ TranslateGlobal
  PROVE  /\ UNCHANGED << shape, global, tokens, want >>
         /\ stage = "translate" /\ stage' \in {"translate", "done", "crashed"}
         /\ pos' \in 1 .. Len(tokens) + 1
<1>1. pos \in 1 .. Len(tokens) + 1 /\ Len(tokens) \in Nat
  BY DEF TypeInv
<1>2. ASSUME NEW token, At(token), Goes
      PROVE  /\ UNCHANGED << shape, global, tokens, want >>
             /\ stage = "translate" /\ stage' = "translate"
             /\ pos' \in 1 .. Len(tokens) + 1
  <2>1. pos <= Len(tokens) /\ pos' = pos + 1
    BY <1>2 DEF At, Goes
  <2>2. pos' \in 1 .. Len(tokens) + 1
    BY <1>1, <2>1
  <2> QED
    BY <1>2, <2>2 DEF At, Goes
<1>3. ASSUME NEW kind \in Kinds, StoreElement(kind)
      PROVE  At(kind) /\ Goes
  BY <1>3 DEF StoreElement
<1>4. SkipElement => At("exp") /\ Goes
  BY DEF SkipElement
<1>5. StoreOpen => At("{") /\ Goes
  BY DEF StoreOpen
<1>6. StoreClose => At("}") /\ Goes
  BY DEF StoreClose
<1>7. ASSUME StoreEnd \/ DataEnd
      PROVE  /\ UNCHANGED << shape, global, tokens, want >>
             /\ stage = "translate" /\ stage' = "done"
             /\ pos' \in 1 .. Len(tokens) + 1
  BY <1>1, <1>7 DEF StoreEnd, DataEnd
<1>8. ASSUME NEW kind \in Kinds, DataElement(kind)
      PROVE  At(kind) /\ (Goes \/ Crash)
  BY <1>8 DEF DataElement
<1>9. DataOpen => At("{") /\ (Goes \/ Crash)
  BY DEF DataOpen
<1>10. DataClose => At("}") /\ Goes
  BY DEF DataClose
<1>11. ASSUME NEW token, At(token), Crash
       PROVE  /\ UNCHANGED << shape, global, tokens, want >>
              /\ stage = "translate" /\ stage' = "crashed"
              /\ pos' \in 1 .. Len(tokens) + 1
  BY <1>1, <1>11 DEF At, Crash
<1>12. CASE TranslateLocal
  BY <1>2, <1>3, <1>4, <1>5, <1>6, <1>7, <1>12 DEF TranslateLocal
<1>13. CASE TranslateGlobal
  BY <1>2, <1>7, <1>8, <1>9, <1>10, <1>11, <1>13 DEF TranslateGlobal
<1> QED
  BY <1>12, <1>13

LEMMA TypeStep ==
  ASSUME TypeInv, [Next]_vars
  PROVE  TypeInv'
<1>1. ASSUME NEW kind \in Kinds, CheckElement(kind)
      PROVE  TypeInv'
  <2>1. kind \in Tokens /\ Reads(kind)
    BY <1>1, TokenKinds DEF CheckElement
  <2>2. stage' \in {"check", "rejected"}
    BY <1>1 DEF CheckElement
  <2>3. \A i \in DOMAIN want' : want'[i] \in 0 .. Len(tokens')
    <3>1. \A i \in DOMAIN want : want[i] \in 0 .. Len(tokens')
      BY <2>1, ReadsTypes
    <3>2. CASE stage' = "check"
      <4>1. want' = With(want, Filled(open) + 1, Len(tokens'))
        BY <1>1, <3>2, ElementCounted
      <4>2. Len(tokens') \in 0 .. Len(tokens')
        BY <2>1, ReadsTypes
      <4> QED
        BY <3>1, <4>1, <4>2 DEF With
    <3>3. CASE stage' # "check"
      BY <1>1, <3>1, <3>3 DEF CheckElement
    <3> QED
      BY <3>2, <3>3
  <2>4. stage' = "check" => IsOpen(open')
    BY <1>1, ElementCounted
  <2>5. shape' = shape /\ global' = global
    BY <2>1 DEF Reads
  <2> QED
    BY <2>1, <2>2, <2>3, <2>4, <2>5, ReadsTypes DEF TypeInv, IsOpen
<1>2. ASSUME CheckOpen
      PROVE  TypeInv'
  <2>1. "{" \in Tokens /\ Reads("{")
    BY <1>2, TokenKinds DEF CheckOpen
  <2>2. stage' \in {"check", "rejected"} /\ want' = want
    BY <1>2, <2>1 DEF CheckOpen, Reads
  <2>3. stage' = "check" => IsOpen(open')
    BY <1>2, ListEntered
  <2>4. shape' = shape /\ global' = global
    BY <2>1 DEF Reads
  <2>5. \A i \in DOMAIN want' : want'[i] \in 0 .. Len(tokens')
    BY <2>1, <2>2, ReadsTypes
  <2> QED
    BY <2>1, <2>2, <2>3, <2>4, <2>5, ReadsTypes DEF TypeInv, IsOpen
<1>3. ASSUME CheckClose
      PROVE  TypeInv'
  <2>1. "}" \in Tokens /\ Reads("}")
    BY <1>3, TokenKinds DEF CheckClose
  <2>2. stage' \in {"check", "rejected"} /\ want' = want
    BY <1>3 DEF CheckClose
  <2>3. stage' = "check" => IsOpen(open')
    BY <1>3, ListLeft
  <2>4. shape' = shape /\ global' = global
    BY <2>1 DEF Reads
  <2>5. \A i \in DOMAIN want' : want'[i] \in 0 .. Len(tokens')
    BY <2>1, <2>2, ReadsTypes
  <2> QED
    BY <2>1, <2>2, <2>3, <2>4, <2>5, ReadsTypes DEF TypeInv, IsOpen
<1>4. ASSUME CheckEnd
      PROVE  TypeInv'
  BY <1>4 DEF CheckEnd, TypeInv
<1>5. ASSUME TranslateLocal \/ TranslateGlobal
      PROVE  TypeInv'
  BY <1>5, TranslatorsKeep DEF TypeInv
<1>6. ASSUME UNCHANGED vars
      PROVE  TypeInv'
  BY <1>6 DEF vars, TypeInv, IsOpen
<1> QED
  BY <1>1, <1>2, <1>3, <1>4, <1>5, <1>6 DEF Next, Check

\* The invariant the rest is proved from.
LEMMA TypesKept == Spec => []TypeInv
<1>1. Init => TypeInv
  BY TypeInit
<1>2. TypeInv /\ [Next]_vars => TypeInv'
  BY TypeStep
<1> QED
  BY <1>1, <1>2, PTL DEF Spec

\* Tokens and elements are of the right kinds, and no list checkInitList is in
\* has more elements than its sub-array, for arrays of every shape.
THEOREM TypeCorrect == Spec => []TypeOK
<1>1. TypeInv => TypeOK
  BY TypesImplied
<1> QED
  BY <1>1, TypesKept, PTL

-----------------------------------------------------------------------------
(* The order of the elements.                                              *)

\* Every element of the initialiser is counted, later ones further behind.
InOrder ==
  /\ \A i, j \in DOMAIN want : i < j /\ want[j] # 0 => want[i] < want[j]
  /\ \A p \in 1 .. Len(tokens) : tokens[p] \in Kinds => \E i \in DOMAIN want : want[i] = p

\* What is behind the lists that are open is empty.
EmptyBehind(lists) ==
  /\ Elements \subseteq DOMAIN want
  /\ \A i \in DOMAIN want :
       /\ i \in Nat \ {0} /\ (i \in Elements \/ i <= Filled(lists))
       /\ want[i] # 0 => i <= Filled(lists)

OrderInv ==
  /\ stage # "rejected" => InOrder
  /\ stage = "check" => EmptyBehind(open)
  /\ Accepted => DOMAIN want = Elements

LEMMA OrderImplied ==
  ASSUME TypeInv, OrderInv
  PROVE  ElementsKeepOrder
<1> SUFFICES ASSUME Accepted, NEW p \in DOMAIN tokens, tokens[p] \in Kinds
             PROVE  /\ DOMAIN want = Elements
                    /\ \E i \in Elements :
                         /\ want[i] = p
                         /\ \A j \in Elements : want[j] # 0 /\ want[j] < p => j < i
                         /\ \A j \in Elements \ {i} : want[j] # p
  <2>1. Accepted => DOMAIN want = Elements
    BY DEF OrderInv
  <2> QED
    BY <2>1 DEF ElementsKeepOrder
<1>1. DOMAIN want = Elements
  BY DEF OrderInv
<1>2. InOrder
  BY DEF OrderInv, Accepted
<1>3. p \in 1 .. Len(tokens)
  BY DEF TypeInv
<1>4. PICK i \in Elements : want[i] = p
  BY <1>1, <1>2, <1>3 DEF InOrder
<1>5. Elements \subseteq Int /\ \A j \in Elements : want[j] \in Nat
  BY <1>1 DEF Elements, TypeInv
<1>6. ASSUME NEW j \in Elements, want[j] # 0
      PROVE  /\ want[j] < p => j < i
             /\ j # i => want[j] # p
  <2>1. (j < i => want[j] < want[i]) /\ (i < j => want[i] < want[j])
    <3>1. want[i] # 0
      BY <1>3, <1>4
    <3> QED
      BY <1>1, <1>2, <1>6, <3>1 DEF InOrder
  <2> QED
    BY <1>3, <1>4, <1>5, <2>1
<1>7. \A j \in Elements : want[j] = 0 => want[j] # p
  BY <1>3
<1> QED
  BY <1>1, <1>4, <1>6, <1>7

LEMMA OrderInit ==
  ASSUME Init
  PROVE  OrderInv
<1>1. want = [i \in Elements |-> 0] /\ stage = "check" /\ tokens = << >>
  BY DEF Init, Elements
<1>2. Elements \subseteq Nat \ {0}
  BY DEF Elements
<1>3. InOrder
  BY <1>1 DEF InOrder
<1>4. EmptyBehind(open)
  BY <1>1, <1>2 DEF EmptyBehind
<1> QED
  BY <1>1, <1>3, <1>4 DEF OrderInv, Accepted

\* A token that is no element leaves the order alone.
LEMMA OrderUndisturbed ==
  ASSUME TypeInv, InOrder, NEW token \in Tokens \ Kinds, Reads(token), want' = want
  PROVE  InOrder'
<1>1. \A p \in 1 .. Len(tokens') : p \in 1 .. Len(tokens) \/ p = Len(tokens')
  BY ReadsTypes
<1>2. \A p \in 1 .. Len(tokens') : tokens'[p] \in Kinds => p \in 1 .. Len(tokens) /\ tokens[p] \in Kinds
  BY <1>1, ReadsTypes
<1> QED
  BY <1>2 DEF InOrder

LEMMA OrderStep ==
  ASSUME TypeInv, OrderInv, [Next]_vars
  PROVE  OrderInv'
<1>1. ASSUME NEW kind \in Kinds, CheckElement(kind)
      PROVE  OrderInv'
  <2>1. kind \in Tokens /\ Reads(kind) /\ stage = "check"
    BY <1>1, TokenKinds DEF CheckElement, Reads
  <2>2. stage' \in {"check", "rejected"}
    BY <1>1 DEF CheckElement
  <2>3. ASSUME stage' = "check"
        PROVE  InOrder' /\ EmptyBehind(open)'
    <3>1. PICK n, m : n = Filled(open) + 1 /\ m = Len(tokens')
      OBVIOUS
    <3>2. want' = With(want, n, m) /\ Filled(open') = n
      BY <1>1, <2>3, <3>1, ElementCounted
    <3>3. n \in Nat /\ n > 0 /\ n - 1 = Filled(open) /\ m \in Nat /\ m > 0 /\ m - 1 = Len(tokens)
      <4>1. Filled(open) \in Nat
        BY <2>1, ReadsTypes, OpenTop
      <4>2. Len(tokens) \in Nat /\ Len(tokens') = Len(tokens) + 1
        BY <2>1, ReadsTypes
      <4> QED
        BY <3>1, <4>1, <4>2
    <3>4. /\ DOMAIN want' = DOMAIN want \cup {n} /\ want'[n] = m
          /\ \A i \in DOMAIN want : i # n => want'[i] = want[i]
      BY <3>2 DEF With
    <3>5. InOrder /\ EmptyBehind(open)
      BY <2>1 DEF OrderInv
    <3>6. \A i \in DOMAIN want : /\ i \in Nat /\ want[i] \in Nat /\ want[i] < m
                                 /\ want[i] # 0 => i < n
      <4>1. \A i \in DOMAIN want : i \in Nat /\ (want[i] # 0 => i <= n - 1)
        BY <3>3, <3>5 DEF EmptyBehind
      <4>2. \A i \in DOMAIN want : want[i] \in 0 .. m - 1
        BY <3>3 DEF TypeInv
      <4> QED
        BY <3>3, <4>1, <4>2
    <3>7. \A i, j \in DOMAIN want' : i < j /\ want'[j] # 0 => want'[i] < want'[j]
      <4> SUFFICES ASSUME NEW i \in DOMAIN want', NEW j \in DOMAIN want', i < j, want'[j] # 0
                   PROVE  want'[i] < want'[j]
        OBVIOUS
      <4>1. CASE j = n
        <5>1. i # n /\ i \in DOMAIN want
          BY <3>3, <3>4, <4>1
        <5>2. want'[i] = want[i] /\ want'[j] = m
          BY <3>4, <4>1, <5>1
        <5>3. want[i] < m
          BY <3>6, <5>1
        <5> QED
          BY <5>2, <5>3
      <4>2. CASE j # n
        <5>1. j \in DOMAIN want /\ want'[j] = want[j] /\ j < n
          <6>1. j \in DOMAIN want /\ want'[j] = want[j]
            BY <3>4, <4>2
          <6>2. want[j] # 0
            BY <6>1
          <6> QED
            BY <3>6, <6>1, <6>2
        <5>2. i # n /\ i \in DOMAIN want
          BY <3>3, <3>4, <3>6, <5>1
        <5>3. want[i] < want[j]
          BY <3>5, <5>1, <5>2 DEF InOrder
        <5> QED
          BY <3>4, <5>1, <5>2, <5>3
      <4> QED
        BY <4>1, <4>2
    <3>8. \A p \in 1 .. m : tokens'[p] \in Kinds => \E i \in DOMAIN want' : want'[i] = p
      <4> SUFFICES ASSUME NEW p \in 1 .. m, tokens'[p] \in Kinds
                   PROVE  \E i \in DOMAIN want' : want'[i] = p
        OBVIOUS
      <4>1. CASE p = m
        BY <3>4, <4>1
      <4>2. CASE p # m
        <5>1. p \in 1 .. Len(tokens)
          BY <3>3, <4>2
        <5>2. tokens[p] \in Kinds
          BY <2>1, <5>1, ReadsTypes
        <5>3. PICK i \in DOMAIN want : want[i] = p
          BY <3>5, <5>1, <5>2 DEF InOrder
        <5>4. i # n
          BY <3>3, <3>6, <5>1, <5>3
        <5> QED
          BY <3>4, <5>3, <5>4
      <4> QED
        BY <4>1, <4>2
    <3>9. InOrder'
      BY <3>1, <3>7, <3>8 DEF InOrder
    <3>10. Elements' = Elements
      BY <2>1, ReadsTypes DEF Elements, Size
    <3>11. Elements \subseteq DOMAIN want'
      BY <3>4, <3>5 DEF EmptyBehind
    <3>12. ASSUME NEW i \in DOMAIN want'
           PROVE  /\ i \in Nat \ {0} /\ (i \in Elements \/ i <= n)
                  /\ want'[i] # 0 => i <= n
      <4>1. CASE i = n
        BY <3>3, <4>1
      <4>2. CASE i # n
        <5>1. i \in DOMAIN want /\ want'[i] = want[i]
          BY <3>4, <4>2
        <5>2. i \in Nat \ {0} /\ (i \in Elements \/ i <= n - 1) /\ (want[i] # 0 => i <= n - 1)
          BY <3>3, <3>5, <5>1 DEF EmptyBehind
        <5> QED
          BY <3>3, <5>1, <5>2
      <4> QED
        BY <4>1, <4>2
    <3> QED
      BY <3>2, <3>9, <3>10, <3>11, <3>12 DEF EmptyBehind, Filled
  <2> QED
    BY <2>2, <2>3 DEF OrderInv, Accepted
<1>2. ASSUME CheckOpen
      PROVE  OrderInv'
  <2>1. "{" \in Tokens \ Kinds /\ Reads("{") /\ stage = "check"
    BY <1>2, TokenKinds DEF CheckOpen, Reads
  <2>2. stage' \in {"check", "rejected"} /\ want' = want
    BY <1>2, <2>1 DEF CheckOpen, Reads
  <2>3. InOrder'
    BY <2>1, <2>2, OrderUndisturbed DEF OrderInv
  <2>4. ASSUME stage' = "check"
        PROVE  EmptyBehind(open)'
    <3>1. Filled(open') = Filled(open)
      BY <1>2, <2>4, ListEntered
    <3>2. Elements' = Elements
      BY <2>1, ReadsTypes DEF Elements, Size
    <3> QED
      BY <2>1, <2>2, <3>1, <3>2 DEF OrderInv, EmptyBehind, Filled
  <2> QED
    BY <2>2, <2>3, <2>4 DEF OrderInv, Accepted
<1>3. ASSUME CheckClose
      PROVE  OrderInv'
  <2>1. "}" \in Tokens \ Kinds /\ Reads("}") /\ stage = "check"
    BY <1>3, TokenKinds DEF CheckClose, Reads
  <2>2. stage' \in {"check", "rejected"} /\ want' = want
    BY <1>3 DEF CheckClose
  <2>3. InOrder'
    BY <2>1, <2>2, OrderUndisturbed DEF OrderInv
  <2>4. ASSUME stage' = "check"
        PROVE  EmptyBehind(open)'
    <3>1. Filled(open') >= Filled(open) /\ IsOpen(open')
      BY <1>3, <2>4, ListLeft
    <3>2. Elements' = Elements
      BY <2>1, ReadsTypes DEF Elements, Size
    <3>3. PICK m, n : m = Filled(open) /\ n = Filled(open')
      OBVIOUS
    <3>4. m \in Nat /\ n \in Nat /\ n >= m
      BY <2>1, <3>1, <3>3, ReadsTypes, OpenTop
    <3>5. EmptyBehind(open)
      BY <2>1 DEF OrderInv
    <3>6. \A i \in DOMAIN want : /\ i \in Nat \ {0} /\ (i \in Elements \/ i <= n)
                                 /\ want[i] # 0 => i <= n
      BY <3>3, <3>4, <3>5 DEF EmptyBehind
    <3>7. Filled(open)' = n
      BY <3>3 DEF Filled
    <3>8. want' = want /\ Elements \subseteq DOMAIN want
      BY <2>2, <3>5 DEF EmptyBehind
    <3> QED
      BY <3>2, <3>6, <3>7, <3>8 DEF EmptyBehind
  <2> QED
    BY <2>2, <2>3, <2>4 DEF OrderInv, Accepted
<1>4. ASSUME CheckEnd
      PROVE  OrderInv'
  <2>1. /\ UNCHANGED << shape, tokens, want >>
        /\ stage = "check" /\ stage' = "translate" /\ Len(open) = 1
    BY <1>4 DEF CheckEnd
  <2>2. IsOpen(open) /\ EmptyBehind(open) /\ InOrder
    BY <2>1 DEF TypeInv, OrderInv
  <2>3. Filled(open) <= Size /\ Filled(open) \in Nat /\ Size \in Nat
    <3>1. Last(open) = open[1] /\ open[1].start = 0 /\ open[1].dims = shape
      BY <2>1, <2>2, OpenTop DEF IsOpen
    <3>2. open[1].filled \in Nat /\ open[1].filled <= Product(shape) /\ Product(shape) \in Nat
      BY <2>2, <3>1, OpenTop
    <3> QED
      BY <3>1, <3>2 DEF Filled, Size
  <2>4. DOMAIN want = Elements
    <3>1. \A i \in DOMAIN want : i \in Nat \ {0} /\ (i \in Elements \/ i <= Filled(open))
      BY <2>2 DEF EmptyBehind
    <3>2. \A i \in DOMAIN want : i \in Elements
      BY <2>3, <3>1 DEF Elements
    <3> QED
      BY <2>2, <3>2 DEF EmptyBehind
  <2>5. InOrder' /\ DOMAIN want' = Elements'
    BY <2>1, <2>2, <2>4 DEF InOrder, Elements, Size
  <2> QED
    BY <2>1, <2>5 DEF OrderInv
<1>5. ASSUME TranslateLocal \/ TranslateGlobal
      PROVE  OrderInv'
  <2>1. /\ UNCHANGED << shape, tokens, want >>
        /\ stage = "translate" /\ stage' \in {"translate", "done", "crashed"}
    BY <1>5, TranslatorsKeep
  <2>2. InOrder /\ DOMAIN want = Elements
    BY <2>1 DEF OrderInv, Accepted
  <2>3. InOrder' /\ DOMAIN want' = Elements'
    BY <2>1, <2>2 DEF InOrder, Elements, Size
  <2> QED
    BY <2>1, <2>3 DEF OrderInv
<1>6. ASSUME UNCHANGED vars
      PROVE  OrderInv'
  BY <1>6 DEF vars, OrderInv, InOrder, EmptyBehind, Filled, Accepted, Elements, Size
<1> QED
  BY <1>1, <1>2, <1>3, <1>4, <1>5, <1>6 DEF Next, Check

\* checkInitList counts every element of an initialiser it accepts at a place of
\* its own in the array, in the order they are written, however the lists nest.
THEOREM CountedInOrder == Spec => []ElementsKeepOrder
<1>1. Init => OrderInv
  BY OrderInit
<1>2. TypeInv /\ OrderInv /\ [Next]_vars => OrderInv'
  BY OrderStep
<1>3. TypeInv /\ OrderInv => ElementsKeepOrder
  BY OrderImplied
<1> QED
  BY <1>1, <1>2, <1>3, TypesKept, PTL DEF Spec

-----------------------------------------------------------------------------
(* What the checker has seen, as the translators walk the same tokens.     *)

\* One step of the checker, from lists a to lists b at token p of ts, when w is
\* where it counts the elements.
Moves(ts, w, a, p, b) ==
  /\ ts[p] \in Kinds =>
       /\ b = Fill(a, 1) /\ Filled(b) = Filled(a) + 1
       /\ Filled(b) \in DOMAIN w /\ w[Filled(b)] = p
  /\ ts[p] = "{" =>
       /\ SubArray(Last(a).dims, Last(a).filled) # << >>
       /\ b = Append(a, List(SubArray(Last(a).dims, Last(a).filled), Filled(a)))
       /\ Filled(b) = Filled(a)
  /\ ts[p] = "}" =>
       /\ Len(a) > 1 /\ b = Fill(Front(a), Product(Last(a).dims))
       /\ Filled(b) = Last(a).start + Product(Last(a).dims)
       /\ \A i \in DOMAIN w : i > Filled(a) /\ i <= Filled(b) => w[i] = 0

\* h[p] are the lists after the first p tokens.
Walk(ts, w, h) ==
  /\ h[0] = << List(shape, 0) >>
  /\ \A p \in 0 .. Len(ts) : IsOpen(h[p]) /\ Filled(h[p]) <= Filled(h[Len(ts)])
  /\ \A p \in 1 .. Len(ts) : Moves(ts, w, h[p - 1], p, h[p])

Walked == \E h : Walk(tokens, want, h) /\ h[Len(tokens)] = open

\* want and w agree up to n.
AgreeTo(w, n) ==
  /\ \A i \in DOMAIN want : i <= n => i \in DOMAIN w /\ w[i] = want[i]
  /\ \A i \in DOMAIN w : i <= n => i \in DOMAIN want

LEMMA MovesAgree ==
  ASSUME NEW ts, NEW us, NEW w, NEW a, NEW b, NEW p, Moves(ts, want, a, p, b), us[p] = ts[p],
         NEW n \in Nat, Filled(b) \in Nat, Filled(b) <= n, AgreeTo(w, n),
         \A i \in DOMAIN w : i \in Nat
  PROVE  Moves(us, w, a, p, b)
<1>1. us[p] \in Kinds => Filled(b) \in DOMAIN w /\ w[Filled(b)] = p
  BY DEF Moves, AgreeTo
<1>2. ASSUME us[p] = "}", NEW i \in DOMAIN w, i > Filled(a), i <= Filled(b)
      PROVE  w[i] = 0
  <2>1. i <= n
    <3>1. PICK x : x = Filled(b)
      OBVIOUS
    <3>2. i \in Nat /\ x \in Nat /\ i <= x /\ x <= n
      BY <1>2, <3>1
    <3> QED
      BY <3>2
  <2>2. i \in DOMAIN want /\ w[i] = want[i]
    BY <2>1 DEF AgreeTo
  <2> QED
    BY <1>2, <2>2 DEF Moves
<1> QED
  BY <1>1, <1>2 DEF Moves

LEMMA WalkExtended ==
  ASSUME TypeInv, Walked, NEW token \in Tokens, Reads(token),
         IsOpen(open'), Filled(open') >= Filled(open),
         AgreeTo(want', Filled(open)), \A i \in DOMAIN want' : i \in Nat,
         Moves(tokens', want', open, Len(tokens'), open')
  PROVE  Walked'
<1>1. PICK h : Walk(tokens, want, h) /\ h[Len(tokens)] = open
  BY DEF Walked
<1>2. PICK n : n = Len(tokens)
  OBVIOUS
<1>3. PICK m : m = Len(tokens')
  OBVIOUS
<1>4. n \in Nat /\ m = n + 1 /\ shape' = shape /\ IsOpen(open)
  BY <1>2, <1>3, ReadsTypes
<1>5. PICK g : g = [p \in 0 .. m |-> IF p = m THEN open' ELSE h[p]]
  OBVIOUS
<1>6. g[m] = open' /\ \A p \in 0 .. n : g[p] = h[p]
  BY <1>4, <1>5
<1>7. g[0] = << List(shape, 0) >>
  BY <1>1, <1>4, <1>6 DEF Walk
<1>8. Filled(open) \in Nat /\ Filled(open') \in Nat
  BY <1>4, OpenTop
<1>9. ASSUME NEW p \in 0 .. m
      PROVE  IsOpen(g[p]) /\ Filled(g[p]) <= Filled(open')
  <2>1. CASE p = m
    BY <1>6, <1>8, <2>1
  <2>2. CASE p # m
    <3>1. p \in 0 .. n /\ g[p] = h[p]
      BY <1>4, <1>6, <2>2
    <3>2. IsOpen(h[p]) /\ Filled(h[p]) <= Filled(open)
      BY <1>1, <1>2, <3>1 DEF Walk
    <3>3. Filled(h[p]) \in Nat
      BY <3>2, OpenTop
    <3> QED
      BY <1>8, <3>1, <3>2, <3>3
  <2> QED
    BY <2>1, <2>2
<1>10. ASSUME NEW p \in 1 .. m
       PROVE  Moves(tokens', want', g[p - 1], p, g[p])
  <2>1. CASE p = m
    <3>1. p - 1 = n /\ n \in 0 .. n
      BY <1>4, <2>1
    <3>2. g[p - 1] = open /\ g[p] = open'
      BY <1>1, <1>2, <1>6, <2>1, <3>1
    <3> QED
      BY <1>3, <2>1, <3>2
  <2>2. CASE p # m
    <3>1. p \in 1 .. n /\ p \in 0 .. n /\ p - 1 \in 0 .. n
      BY <1>4, <2>2
    <3>2. PICK a, b : a = h[p - 1] /\ b = h[p]
      OBVIOUS
    <3>3. g[p - 1] = a /\ g[p] = b
      BY <1>6, <3>1, <3>2
    <3>4. Moves(tokens, want, a, p, b)
      BY <1>1, <1>2, <3>1, <3>2 DEF Walk
    <3>5. tokens'[p] = tokens[p]
      BY <1>2, <3>1, ReadsTypes
    <3>6. IsOpen(b) /\ Filled(b) <= Filled(open)
      BY <1>1, <1>2, <3>1, <3>2 DEF Walk
    <3>7. Filled(b) \in Nat
      BY <3>6, OpenTop
    <3>8. Moves(tokens', want', a, p, b)
      BY <1>8, <3>4, <3>5, <3>6, <3>7, MovesAgree
    <3> QED
      BY <3>3, <3>8
  <2> QED
    BY <2>1, <2>2
<1>11. Walk(tokens', want', g)
  BY <1>3, <1>6, <1>7, <1>9, <1>10 DEF Walk
<1>12. Walk(tokens, want, g)'
  BY <1>4, <1>11 DEF Walk, IsOpen
<1> QED
  BY <1>3, <1>6, <1>12 DEF Walked

CheckInv ==
  stage = "check" =>
    Walked /\ pos = 1 /\ memory = << >> /\ want = [i \in DOMAIN want |-> want[i]]

LEMMA WalkedInit ==
  ASSUME Init
  PROVE  Walked
<1>1. shape \in Dims
  BY ShapeDims DEF Init
<1>2. PICK h : h = [p \in 0 .. 0 |-> << List(shape, 0) >>]
  OBVIOUS
<1>3. tokens = << >> /\ Len(tokens) = 0 /\ open = << List(shape, 0) >>
  BY DEF Init
<1>4. IsOpen(open) /\ Filled(open) = 0
  BY <1>1, <1>3, OneOpen
<1>5. h[0] = open /\ \A p \in 0 .. 0 : h[p] = open
  BY <1>2, <1>3
<1>6. \A p \in 0 .. 0 : IsOpen(h[p]) /\ Filled(h[p]) <= Filled(h[0])
  BY <1>4, <1>5
<1>7. \A p \in 1 .. 0 : Moves(tokens, want, h[p - 1], p, h[p])
  OBVIOUS
<1>8. Walk(tokens, want, h)
  BY <1>3, <1>5, <1>6, <1>7 DEF Walk
<1> QED
  BY <1>3, <1>5, <1>8 DEF Walked

LEMMA WalkedStep ==
  ASSUME TypeInv, OrderInv, Walked, Check, stage' = "check"
  PROVE  Walked'
<1>1. ASSUME NEW kind \in Kinds, CheckElement(kind)
      PROVE  Walked'
  <2>1. kind \in Tokens /\ Reads(kind) /\ stage = "check" /\ kind # "{" /\ kind # "}"
    BY <1>1, TokenKinds DEF CheckElement, Reads
  <2>2. PICK n, m : n = Filled(open) + 1 /\ m = Len(tokens')
    OBVIOUS
  <2>3. /\ open' = Fill(open, 1) /\ IsOpen(open') /\ Filled(open') = n
        /\ want' = With(want, n, m)
    BY <1>1, <2>2, ElementCounted
  <2>4. Filled(open) \in Nat /\ tokens'[m] = kind
    BY <2>1, <2>2, ReadsTypes, OpenTop
  <2>5. n \in Nat /\ n > Filled(open)
    BY <2>2, <2>4
  <2>6. \A i \in DOMAIN want : i \in Nat
    BY <2>1 DEF OrderInv, EmptyBehind
  <2>7. DOMAIN want' = DOMAIN want \cup {n} /\ want'[n] = m
        /\ \A i \in DOMAIN want : i # n => want'[i] = want[i]
    BY <2>3 DEF With
  <2>8. AgreeTo(want', Filled(open)) /\ \A i \in DOMAIN want' : i \in Nat
    BY <2>4, <2>5, <2>6, <2>7 DEF AgreeTo
  <2>9. Moves(tokens', want', open, m, open')
    BY <2>1, <2>2, <2>3, <2>4, <2>7 DEF Moves
  <2>10. Filled(open') >= Filled(open)
    BY <2>3, <2>4, <2>5
  <2> QED
    BY <2>1, <2>2, <2>3, <2>8, <2>9, <2>10, WalkExtended
<1>2. ASSUME CheckOpen
      PROVE  Walked'
  <2>1. "{" \in Tokens /\ Reads("{") /\ stage = "check" /\ "{" \notin Kinds /\ "{" # "}"
    BY <1>2, TokenKinds DEF CheckOpen, Reads
  <2>2. PICK m : m = Len(tokens')
    OBVIOUS
  <2>3. /\ SubArray(Last(open).dims, Last(open).filled) # << >>
        /\ open' = Append(open, List(SubArray(Last(open).dims, Last(open).filled), Filled(open)))
        /\ IsOpen(open') /\ Filled(open') = Filled(open) /\ want' = want
    BY <1>2, ListEntered
  <2>4. tokens'[m] = "{" /\ IsOpen(open)
    BY <2>1, <2>2, ReadsTypes
  <2>5. \A i \in DOMAIN want : i \in Nat
    BY <2>1 DEF OrderInv, EmptyBehind
  <2>6. AgreeTo(want', Filled(open)) /\ \A i \in DOMAIN want' : i \in Nat
    BY <2>3, <2>5 DEF AgreeTo
  <2>7. Moves(tokens', want', open, m, open')
    BY <2>1, <2>3, <2>4 DEF Moves
  <2>8. Filled(open') >= Filled(open)
    <3>1. PICK n : n = Filled(open)
      OBVIOUS
    <3>2. n \in Nat /\ Filled(open') = n
      BY <2>3, <2>4, <3>1, OpenTop
    <3> QED
      BY <3>1, <3>2
  <2> QED
    BY <2>1, <2>2, <2>3, <2>6, <2>7, <2>8, WalkExtended
<1>3. ASSUME CheckClose
      PROVE  Walked'
  <2>1. "}" \in Tokens /\ Reads("}") /\ stage = "check" /\ "}" \notin Kinds /\ "{" # "}"
    BY <1>3, TokenKinds DEF CheckClose, Reads
  <2>2. PICK m : m = Len(tokens')
    OBVIOUS
  <2>3. /\ Len(open) > 1 /\ open' = Fill(Front(open), Product(Last(open).dims))
        /\ IsOpen(open') /\ Filled(open') >= Filled(open) /\ want' = want
    BY <1>3, ListLeft
  <2>4. tokens'[m] = "}" /\ IsOpen(open) /\ shape \in Dims
    BY <2>1, <2>2, ReadsTypes
  <2>5. \A i \in DOMAIN want : i \in Nat /\ (want[i] # 0 => i <= Filled(open))
    BY <2>1 DEF OrderInv, EmptyBehind
  <2>6. AgreeTo(want', Filled(open)) /\ \A i \in DOMAIN want' : i \in Nat
    BY <2>3, <2>5 DEF AgreeTo
  <2>7. Filled(open') = Last(open).start + Product(Last(open).dims)
    <3>1. NoExcess(open')
      BY <1>3 DEF CheckClose
    <3> QED
      BY <2>3, <2>4, <3>1, OpenCloses
  <2>8. \A i \in DOMAIN want' : i > Filled(open) => want'[i] = 0
    <3>1. Filled(open) \in Nat
      BY <2>4, OpenTop
    <3> QED
      BY <2>3, <2>5, <3>1
  <2>9. Moves(tokens', want', open, m, open')
    BY <2>1, <2>3, <2>4, <2>7, <2>8 DEF Moves
  <2> QED
    BY <2>1, <2>2, <2>3, <2>6, <2>9, WalkExtended
<1>4. CheckEnd => stage' # "check"
  BY DEF CheckEnd
<1> QED
  BY <1>1, <1>2, <1>3, <1>4 DEF Check

LEMMA CheckStep ==
  ASSUME TypeInv, OrderInv, CheckInv, [Next]_vars
  PROVE  CheckInv'
<1>1. ASSUME Check, stage' = "check"
      PROVE  CheckInv'
  <2>1. stage = "check"
    BY <1>1 DEF Check, CheckElement, CheckOpen, CheckClose, CheckEnd, Reads
  <2>2. Walked'
    BY <1>1, <2>1, WalkedStep DEF CheckInv
  <2>3. pos' = pos /\ memory' = memory
    BY <1>1 DEF Check, CheckElement, CheckOpen, CheckClose, CheckEnd, Reads
  <2>4. want' = want \/ \E i, v : want' = With(want, i, v)
    BY <1>1 DEF Check, CheckElement, CheckOpen, CheckClose, CheckEnd
  <2>5. want = [i \in DOMAIN want |-> want[i]]
    BY <2>1 DEF CheckInv
  <2>6. want' = [i \in DOMAIN want' |-> want'[i]]
    BY <2>4, <2>5 DEF With
  <2> QED
    BY <2>1, <2>2, <2>3, <2>6 DEF CheckInv
<1>2. ASSUME TranslateLocal \/ TranslateGlobal
      PROVE  CheckInv'
  BY <1>2, TranslatorsKeep DEF CheckInv
<1>3. ASSUME UNCHANGED vars
      PROVE  CheckInv'
  BY <1>3 DEF vars, CheckInv, Walked, Walk, IsOpen
<1>4. stage' # "check" => CheckInv'
  BY DEF CheckInv
<1> QED
  BY <1>1, <1>2, <1>3, <1>4 DEF Next

\* A walk of an initialiser that is accepted.
Complete(h) ==
  /\ Walk(tokens, want, h) /\ Len(h[Len(tokens)]) = 1
  /\ want \in [Elements -> Nat]
  /\ Filled(h[Len(tokens)]) <= Size
  /\ \A i \in Elements : i > Filled(h[Len(tokens)]) => want[i] = 0

LEMMA CheckAccepts ==
  ASSUME TypeInv, OrderInv, CheckInv, CheckEnd
  PROVE  \E h : Complete(h)
<1>1. stage = "check" /\ Len(open) = 1
  BY DEF CheckEnd
<1>2. PICK h : Walk(tokens, want, h) /\ h[Len(tokens)] = open
  BY <1>1 DEF CheckInv, Walked
<1>3. IsOpen(open) /\ EmptyBehind(open)
  BY <1>1 DEF TypeInv, OrderInv
<1>4. Filled(open) <= Size /\ Filled(open) \in Nat /\ Size \in Nat
  <2>1. Last(open) = open[1] /\ open[1].start = 0 /\ open[1].dims = shape
    BY <1>1, <1>3, OpenTop DEF IsOpen
  <2>2. open[1].filled \in Nat /\ open[1].filled <= Product(shape) /\ Product(shape) \in Nat
    BY <1>3, <2>1, OpenTop
  <2> QED
    BY <2>1, <2>2 DEF Filled, Size
<1>5. DOMAIN want = Elements
  <2>1. \A i \in DOMAIN want : i \in Nat \ {0} /\ (i \in Elements \/ i <= Filled(open))
    BY <1>3 DEF EmptyBehind
  <2>2. \A i \in DOMAIN want : i \in Elements
    BY <1>4, <2>1 DEF Elements
  <2> QED
    BY <1>3, <2>2 DEF EmptyBehind
<1>6. want \in [Elements -> Nat]
  <2>1. \A i \in DOMAIN want : want[i] \in Nat
    BY DEF TypeInv
  <2>2. want = [i \in DOMAIN want |-> want[i]]
    BY <1>1 DEF CheckInv
  <2> QED
    BY <1>5, <2>1, <2>2
<1>7. ASSUME NEW i \in Elements, i > Filled(open)
      PROVE  want[i] = 0
  <2>1. want[i] # 0 => i <= Filled(open)
    BY <1>3, <1>5 DEF EmptyBehind
  <2>2. i \in Nat
    BY DEF Elements
  <2> QED
    BY <1>4, <1>7, <2>1, <2>2
<1> QED
  BY <1>1, <1>2, <1>4, <1>6, <1>7 DEF Complete

-----------------------------------------------------------------------------
(* A local array: what translateInitList has stored when the checker was   *)
(* in lists a.                                                             *)

StoredSet == [dims : Seq(Positive), filled : Nat, offset : Nat]

LocalTypes(lists, a) ==
  /\ lists \in Seq(StoredSet) /\ Len(lists) = Len(a)
  /\ lists[1].dims = shape /\ lists[1].offset = 0

\* Both count the same, and stores are behind no element that was checked.
SameCounts(lists, mem, a) ==
  /\ \A i \in 1 .. Len(a) :
       lists[i].dims = a[i].dims /\ lists[i].filled = a[i].filled /\ lists[i].offset <= a[i].start
  /\ DOMAIN mem \subseteq 1 .. Filled(a)

\* How far an array of one or two dimensions is filled.
StoredTo(lists) ==
  IF Len(lists) = 2 /\ lists[2] # Dropped THEN lists[1].filled + lists[2].filled
                                          ELSE lists[1].filled

\* The translator has filled no more than the checker, without gaps.
NoGaps(lists, mem, a) ==
  /\ lists[1].filled <= a[1].filled
  /\ Len(a) = 2 => \/ lists[2] = Dropped
                   \/ /\ lists[2].dims = << shape[Len(shape)] >>
                      /\ lists[2].offset = lists[1].filled /\ lists[2].filled <= a[2].filled
  /\ DOMAIN mem = 1 .. StoredTo(lists)

SameElements(mem, a) == \A i \in 1 .. Filled(a) : mem[i] = want[i]

\* A list of an array of one or two dimensions.
LEMMA ShortOpen ==
  ASSUME NEW a, IsOpen(a), shape \in Dims, Len(shape) <= 2
  PROVE  /\ Len(a) = 1 \/ Len(a) = 2
         /\ a[1].filled \in Nat
         /\ Len(a) = 1 => Filled(a) = a[1].filled
         /\ Len(a) = 2 => /\ a[2].filled \in Nat /\ a[2].start = a[1].filled
                          /\ Filled(a) = a[1].filled + a[2].filled
                          /\ a[2].dims = << shape[Len(shape)] >>
<1>1. a \in Seq(ListSet) /\ Len(a) \in Nat /\ Len(a) > 0
  BY DEF IsOpen
<1>2. Len(shape) \in Nat
  BY DEF Dims
<1>3. \A i \in 1 .. Len(a) : a[i].dims \in Dims /\ a[i].filled \in Nat /\ a[i].start \in Nat
  <2>1. \A i \in 1 .. Len(a) : a[i] \in ListSet
    BY <1>1
  <2> QED
    BY <2>1 DEF ListSet
<1>4. Len(Last(a).dims) + Len(a) <= Len(shape) + 1 /\ Len(Last(a).dims) \in Nat /\ Len(Last(a).dims) > 0
  <2>1. Last(a) = a[Len(a)] /\ Len(a) \in 1 .. Len(a)
    BY <1>1, OpenTop
  <2>2. a[Len(a)].dims \in Seq(Positive) /\ a[Len(a)].dims # << >>
    BY <1>3, <2>1 DEF Dims
  <2>3. Len(a[Len(a)].dims) + Len(a) <= Len(shape) + 1
    BY <2>1 DEF IsOpen
  <2> QED
    BY <2>1, <2>2, <2>3
<1>5. Len(a) = 1 \/ Len(a) = 2
  <2>1. PICK x, k, s : x = Len(Last(a).dims) /\ k = Len(a) /\ s = Len(shape)
    OBVIOUS
  <2>2. x \in Nat /\ x > 0 /\ k \in Nat /\ k > 0 /\ s \in Nat /\ s <= 2 /\ x + k <= s + 1
    BY <1>1, <1>2, <1>4, <2>1
  <2>3. k = 1 \/ k = 2
    BY <2>2
  <2> QED
    BY <2>1, <2>3
<1>6. 1 \in 1 .. Len(a) /\ a[1].start = 0 /\ a[1].filled \in Nat
  BY <1>1, <1>3 DEF IsOpen
<1>7. Len(a) = 1 => Filled(a) = a[1].filled
  BY <1>6 DEF Filled, Last
<1>8. ASSUME Len(a) = 2
      PROVE  /\ a[2].filled \in Nat /\ a[2].start = a[1].filled
             /\ Filled(a) = a[1].filled + a[2].filled
             /\ a[2].dims = << shape[Len(shape)] >>
  <2>1. 2 \in 2 .. Len(a) /\ 2 \in 1 .. Len(a) /\ 2 - 1 = 1
    BY <1>8
  <2>2. a[2].start = a[1].start + a[1].filled
    BY <2>1 DEF IsOpen
  <2>3. a[2].start = a[1].filled /\ a[2].filled \in Nat
    BY <1>3, <1>6, <2>1, <2>2
  <2>4. Filled(a) = a[1].filled + a[2].filled
    BY <1>8, <2>3 DEF Filled, Last
  <2>5. PICK d : d = a[2].dims
    OBVIOUS
  <2>6. d \in Seq(Positive) /\ Len(d) = 1
    <3>1. Len(d) + 2 <= Len(shape) + 1 /\ Len(d) \in Nat /\ Len(d) > 0
      BY <1>4, <1>8, <2>5 DEF Last
    <3>2. PICK x, s : x = Len(d) /\ s = Len(shape)
      OBVIOUS
    <3>3. x \in Nat /\ x > 0 /\ s \in Nat /\ s <= 2 /\ x + 2 <= s + 1
      BY <1>2, <3>1, <3>2
    <3>4. x = 1
      BY <3>3
    <3> QED
      BY <1>3, <2>1, <2>5, <3>2, <3>4 DEF Dims
  <2>7. d[1] = shape[Len(shape)]
    BY <2>1, <2>5, <2>6 DEF IsOpen
  <2> QED
    BY <2>3, <2>4, <2>5, <2>6, <2>7
<1> QED
  BY <1>5, <1>6, <1>7, <1>8

LEMMA StoredTop ==
  ASSUME NEW a, IsOpen(a), shape \in Dims, NEW lists, LocalTypes(lists, a)
  PROVE  /\ Len(a) \in Nat /\ Len(a) > 0 /\ Last(lists) = lists[Len(a)]
         /\ \A i \in 1 .. Len(a) : /\ lists[i].dims \in Seq(Positive)
                                   /\ lists[i].filled \in Nat /\ lists[i].offset \in Nat
         /\ lists[1] # Dropped
<1>1. Len(a) \in Nat /\ Len(a) > 0
  BY DEF IsOpen
<1>2. Last(lists) = lists[Len(a)]
  BY DEF LocalTypes, Last
<1>3. \A i \in 1 .. Len(a) : lists[i] \in StoredSet
  BY DEF LocalTypes
<1>4. lists[1].dims # << >>
  BY DEF LocalTypes, Dims
<1>5. lists[1] # Dropped
  BY <1>4 DEF Dropped, Stored
<1> QED
  BY <1>1, <1>2, <1>3, <1>5 DEF StoredSet

LEMMA ShortTop ==
  ASSUME NEW a, IsOpen(a), shape \in Dims, Len(shape) <= 2,
         NEW lists, LocalTypes(lists, a), NEW mem, NoGaps(lists, mem, a)
  PROVE  /\ StoredTo(lists) \in Nat /\ StoredTo(lists) <= Filled(a)
         /\ Last(lists) # Dropped =>
              /\ Last(lists).offset + Last(lists).filled = StoredTo(lists)
              /\ Last(lists).offset + Product(Last(lists).dims) >= StoredTo(lists)
         /\ SameCounts(lists, mem, a) => Last(lists) # Dropped /\ StoredTo(lists) = Filled(a)
<1>1. /\ Len(a) = 1 \/ Len(a) = 2
      /\ a[1].filled \in Nat /\ lists[1].filled \in Nat /\ lists[1].filled <= a[1].filled
      /\ lists[1].dims = shape /\ lists[1].offset = 0 /\ lists[1] # Dropped /\ Len(lists) = Len(a)
  BY ShortOpen, StoredTop DEF NoGaps, LocalTypes
<1>2. CASE Len(a) = 1
  <2>1. Last(lists) = lists[1] /\ StoredTo(lists) = lists[1].filled /\ Filled(a) = a[1].filled
    BY <1>1, <1>2, ShortOpen DEF Last, StoredTo
  <2>2. Product(shape) \in Nat /\ a[1].filled <= Product(shape)
    <3>1. Last(a) = a[1] /\ a[1].dims = shape
      BY <1>2, OpenTop DEF IsOpen
    <3> QED
      BY <3>1, OpenTop
  <2>3. SameCounts(lists, mem, a) => lists[1].filled = a[1].filled
    BY <1>2 DEF SameCounts
  <2> QED
    BY <1>1, <2>1, <2>2, <2>3
<1>3. CASE Len(a) = 2
  <2>1. /\ a[2].filled \in Nat /\ Filled(a) = a[1].filled + a[2].filled
        /\ a[2].dims = << shape[Len(shape)] >>
    BY <1>3, ShortOpen
  <2>2. Last(lists) = lists[2] /\ lists[2].filled \in Nat /\ lists[2].offset \in Nat
    <3>1. /\ Last(lists) = lists[Len(a)] /\ Len(a) \in 1 .. Len(a)
          /\ \A i \in 1 .. Len(a) : lists[i].filled \in Nat /\ lists[i].offset \in Nat
      BY StoredTop
    <3> QED
      BY <1>3, <3>1
  <2>3. Product(a[2].dims) \in Nat /\ a[2].filled <= Product(a[2].dims)
    <3>1. Last(a) = a[2]
      BY <1>3, OpenTop
    <3> QED
      BY <3>1, OpenTop
  <2>4. CASE lists[2] = Dropped
    <3>1. StoredTo(lists) = lists[1].filled
      BY <2>4 DEF StoredTo
    <3>2. ~SameCounts(lists, mem, a)
      <4> SUFFICES ASSUME SameCounts(lists, mem, a) PROVE FALSE
        OBVIOUS
      <4>1. lists[2].dims = a[2].dims
        BY <1>3 DEF SameCounts
      <4> QED
        BY <2>1, <2>4, <4>1 DEF Dropped, Stored
    <3> QED
      BY <1>1, <2>1, <2>2, <2>4, <3>1, <3>2
  <2>5. CASE lists[2] # Dropped
    <3>1. StoredTo(lists) = lists[1].filled + lists[2].filled
      BY <1>1, <1>3, <2>5 DEF StoredTo
    <3>2. /\ lists[2].dims = a[2].dims
          /\ lists[2].offset = lists[1].filled /\ lists[2].filled <= a[2].filled
      BY <1>3, <2>1, <2>5 DEF NoGaps
    <3>3. SameCounts(lists, mem, a) => lists[1].filled = a[1].filled /\ lists[2].filled = a[2].filled
      BY <1>3 DEF SameCounts
    <3> QED
      BY <1>1, <2>1, <2>2, <2>3, <2>5, <3>1, <3>2, <3>3
  <2> QED
    BY <2>4, <2>5
<1> QED
  BY <1>1, <1>2, <1>3

LEMMA NotDropped ==
  ASSUME NEW list, NEW n, list.dims = << n >>
  PROVE  list # Dropped
<1>1. Dropped.dims = << >>
  BY DEF Dropped, Stored
<1>2. << n >> # << >>
  OBVIOUS
<1> QED
  BY <1>1, <1>2

LEMMA FilledStored ==
  ASSUME NEW lists \in Seq(StoredSet), Len(lists) > 0, NEW n \in Nat
  PROVE  /\ Fill(lists, n) \in Seq(StoredSet) /\ Len(Fill(lists, n)) = Len(lists)
         /\ \A i \in 1 .. Len(lists) : i # Len(lists) => Fill(lists, n)[i] = lists[i]
         /\ Fill(lists, n)[Len(lists)].dims = lists[Len(lists)].dims
         /\ Fill(lists, n)[Len(lists)].offset = lists[Len(lists)].offset
         /\ Fill(lists, n)[Len(lists)].filled = lists[Len(lists)].filled + n
<1>1. lists[Len(lists)] \in StoredSet
  OBVIOUS
<1>2. PICK e : e = [lists[Len(lists)] EXCEPT !.filled = @ + n]
  OBVIOUS
<1>3. e \in StoredSet /\ e.dims = lists[Len(lists)].dims /\ e.offset = lists[Len(lists)].offset
      /\ e.filled = lists[Len(lists)].filled + n
  BY <1>1, <1>2 DEF StoredSet
<1>4. Fill(lists, n) = [lists EXCEPT ![Len(lists)] = e]
  BY <1>2 DEF Fill
<1>5. /\ [lists EXCEPT ![Len(lists)] = e] \in Seq(StoredSet)
      /\ Len([lists EXCEPT ![Len(lists)] = e]) = Len(lists)
      /\ [lists EXCEPT ![Len(lists)] = e][Len(lists)] = e
      /\ \A i \in 1 .. Len(lists) : i # Len(lists) => [lists EXCEPT ![Len(lists)] = e][i] = lists[i]
  BY <1>3, ReplacedElement
<1> QED
  BY <1>3, <1>4, <1>5

\* translateInitList at an element, with its lists before and after.
LEMMA ElementStored ==
  ASSUME NEW a, IsOpen(a), shape \in Dims, NEW lists, LocalTypes(lists, a), NEW mem,
         NEW b, IsOpen(b), b = Fill(a, 1), Filled(b) = Filled(a) + 1, NEW p,
         Last(lists) # Dropped,
         NEW after, after = Fill(lists, 1),
         NEW stored, stored = With(mem, Last(lists).offset + Last(lists).filled + 1, p)
  PROVE  /\ LocalTypes(after, b)
         /\ SameCounts(lists, mem, a) => SameCounts(after, stored, b)
         /\ Len(shape) <= 2 /\ NoGaps(lists, mem, a) =>
              /\ NoGaps(after, stored, b)
              /\ SameCounts(lists, mem, a) /\ SameElements(mem, a) /\ want[Filled(b)] = p
                   => SameElements(stored, b)
<1>1. PICK k \in Nat : k = Len(a) /\ k > 0
  BY StoredTop
<1>2. lists \in Seq(StoredSet) /\ Len(lists) = k /\ a \in Seq(ListSet)
  BY <1>1 DEF LocalTypes, IsOpen
<1>3. /\ after \in Seq(StoredSet) /\ Len(after) = k
      /\ \A i \in 1 .. k : i # k => after[i] = lists[i]
      /\ after[k].dims = lists[k].dims /\ after[k].offset = lists[k].offset
      /\ after[k].filled = lists[k].filled + 1
  BY <1>1, <1>2, FilledStored
<1>4. /\ Len(b) = k
      /\ \A i \in 1 .. k : i # k => b[i] = a[i]
      /\ b[k].dims = a[k].dims /\ b[k].start = a[k].start
      /\ b[k].filled = a[k].filled + 1
  BY <1>1, <1>2, FilledLists
<1>5. \A i \in 1 .. k : after[i].dims = lists[i].dims /\ after[i].offset = lists[i].offset
  BY <1>3
<1>6. \A i \in 1 .. k : b[i].dims = a[i].dims /\ b[i].start = a[i].start
  BY <1>4
<1>7. /\ Last(lists) = lists[k] /\ Last(a) = a[k] /\ Filled(a) = a[k].start + a[k].filled
      /\ lists[k].filled \in Nat /\ lists[k].offset \in Nat
      /\ a[k].filled \in Nat /\ a[k].start \in Nat
  <2>1. k \in 1 .. k
    BY <1>1
  <2> QED
    BY <1>1, <2>1, StoredTop, OpenTop DEF Filled
<1>8. PICK n : n = lists[k].offset + lists[k].filled
  OBVIOUS
<1>9. n \in Nat /\ stored = With(mem, n + 1, p)
  BY <1>7, <1>8
<1>10. /\ DOMAIN stored = DOMAIN mem \cup {n + 1} /\ stored[n + 1] = p
       /\ \A i \in DOMAIN mem : i # n + 1 => stored[i] = mem[i]
  BY <1>9 DEF With
<1>11. LocalTypes(after, b)
  <2>1. 1 \in 1 .. k
    BY <1>1
  <2> QED
    BY <1>3, <1>4, <1>5, <2>1 DEF LocalTypes
<1>12. ASSUME SameCounts(lists, mem, a)
       PROVE  SameCounts(after, stored, b)
  <2>1. ASSUME NEW i \in 1 .. k
        PROVE  /\ after[i].dims = b[i].dims /\ after[i].filled = b[i].filled
               /\ after[i].offset <= b[i].start
    <3>1. lists[i].dims = a[i].dims /\ lists[i].filled = a[i].filled /\ lists[i].offset <= a[i].start
      BY <1>1, <1>12 DEF SameCounts
    <3>2. after[i].filled = b[i].filled
      BY <1>3, <1>4, <3>1
    <3> QED
      BY <1>5, <1>6, <3>1, <3>2
  <2>2. k \in 1 .. k
    BY <1>1
  <2>3. lists[k].offset <= a[k].start /\ lists[k].filled = a[k].filled
    BY <1>1, <1>12, <2>2 DEF SameCounts
  <2>4. n <= Filled(a) /\ Filled(a) \in Nat
    BY <1>7, <1>8, <2>3
  <2>5. DOMAIN mem \subseteq 1 .. Filled(a)
    BY <1>12 DEF SameCounts
  <2>6. PICK f : f = Filled(a)
    OBVIOUS
  <2>7. DOMAIN stored \subseteq 1 .. f + 1
    BY <1>9, <1>10, <2>4, <2>5, <2>6
  <2> QED
    BY <1>4, <2>1, <2>6, <2>7 DEF SameCounts
<1>13. ASSUME Len(shape) <= 2, NoGaps(lists, mem, a)
       PROVE  /\ StoredTo(lists) = n /\ NoGaps(after, stored, b)
  <2>1. StoredTo(lists) = n
    BY <1>7, <1>8, <1>13, ShortTop
  <2>2. DOMAIN stored = 1 .. n + 1
    <3>1. DOMAIN mem = 1 .. n
      BY <1>13, <2>1 DEF NoGaps
    <3>2. DOMAIN stored = (1 .. n) \cup {n + 1}
      BY <1>10, <3>1
    <3>3. (1 .. n) \cup {n + 1} = 1 .. n + 1
      <4>1. n \in Nat
        BY <1>9
      <4> QED
        BY <4>1
    <3> QED
      BY <3>2, <3>3
  <2>3. lists[1].filled \in Nat /\ a[1].filled \in Nat /\ lists[1].filled <= a[1].filled
    <3>1. 1 \in 1 .. Len(a)
      BY <1>1
    <3> QED
      BY <1>13, <3>1, ShortOpen, StoredTop DEF NoGaps
  <2>4. CASE k = 1
    <3>1. StoredTo(lists) = lists[1].filled /\ StoredTo(after) = after[1].filled
      BY <1>2, <1>3, <2>4 DEF StoredTo
    <3>2. after[1].filled = lists[1].filled + 1 /\ b[1].filled = a[1].filled + 1
      BY <1>3, <1>4, <2>4
    <3>3. after[1].filled <= b[1].filled
      BY <2>3, <3>2
    <3>4. StoredTo(after) = n + 1 /\ Len(b) # 2
      BY <1>4, <2>1, <2>4, <3>1, <3>2
    <3> QED
      BY <2>1, <2>2, <3>3, <3>4 DEF NoGaps
  <2>5. CASE k = 2
    <3>1. after[1] = lists[1] /\ b[1] = a[1]
      BY <1>3, <1>4, <2>5
    <3>2. lists[2] # Dropped
      BY <1>7, <2>5
    <3>3. /\ lists[2].dims = << shape[Len(shape)] >>
          /\ lists[2].offset = lists[1].filled /\ lists[2].filled <= a[2].filled
      BY <1>1, <1>13, <2>5, <3>2 DEF NoGaps
    <3>4. /\ after[2].dims = << shape[Len(shape)] >>
          /\ after[2].offset = lists[1].filled /\ after[2].filled = lists[2].filled + 1
          /\ after[2].filled <= b[2].filled
      BY <1>3, <1>4, <1>7, <2>5, <3>3
    <3>5. after[2] # Dropped
      BY <3>4, NotDropped
    <3>6. /\ StoredTo(lists) = lists[1].filled + lists[2].filled
          /\ StoredTo(after) = after[1].filled + after[2].filled
      BY <1>2, <1>3, <2>5, <3>2, <3>5 DEF StoredTo
    <3>7. lists[2].filled \in Nat
      BY <1>7, <2>5
    <3>8. StoredTo(after) = n + 1
      BY <2>1, <2>3, <3>1, <3>4, <3>6, <3>7
    <3>9. after[1].filled <= b[1].filled
      BY <2>3, <3>1
    <3> QED
      BY <2>1, <2>2, <3>1, <3>4, <3>8, <3>9 DEF NoGaps
  <2> QED
    BY <1>1, <1>13, <2>4, <2>5, ShortOpen
<1>14. ASSUME Len(shape) <= 2, NoGaps(lists, mem, a), SameCounts(lists, mem, a),
              SameElements(mem, a), want[Filled(b)] = p
       PROVE  SameElements(stored, b)
  <2>1. StoredTo(lists) = n /\ StoredTo(lists) = Filled(a)
    BY <1>13, <1>14, ShortTop
  <2>2. DOMAIN mem = 1 .. n
    BY <1>14, <2>1 DEF NoGaps
  <2>3. \A i \in 1 .. n : mem[i] = want[i]
    BY <1>14, <2>1 DEF SameElements
  <2>4. Filled(b) = n + 1 /\ want[n + 1] = p
    BY <1>14, <2>1
  <2>5. \A i \in 1 .. n + 1 : stored[i] = want[i]
    BY <1>9, <1>10, <2>2, <2>3, <2>4
  <2> QED
    BY <2>4, <2>5 DEF SameElements
<1> QED
  BY <1>11, <1>12, <1>13, <1>14

\* Where nothing is stored, the checker goes ahead alone.
LEMMA ElementSkipped ==
  ASSUME NEW a, IsOpen(a), shape \in Dims, NEW lists, LocalTypes(lists, a), NEW mem,
         NEW b, b = Fill(a, 1)
  PROVE  /\ LocalTypes(lists, b)
         /\ Len(shape) <= 2 /\ NoGaps(lists, mem, a) => NoGaps(lists, mem, b)
<1>1. a \in Seq(ListSet) /\ Len(a) > 0 /\ Len(a) \in 1 .. Len(a)
  BY DEF IsOpen
<1>2. PICK k : k = Len(a)
  OBVIOUS
<1>3. /\ Len(b) = k
      /\ \A i \in 1 .. k : i # k => b[i] = a[i]
      /\ b[k].filled = a[k].filled + 1
  BY <1>1, <1>2, FilledLists
<1>4. LocalTypes(lists, b)
  BY <1>2, <1>3 DEF LocalTypes
<1>5. ASSUME Len(shape) <= 2, NoGaps(lists, mem, a)
      PROVE  NoGaps(lists, mem, b)
  <2>1. k = 1 \/ k = 2
    BY <1>2, <1>5, ShortOpen
  <2>2. \A i \in 1 .. k : lists[i].filled \in Nat
    BY <1>2, StoredTop
  <2>3. ASSUME NEW i \in 1 .. k, lists[i].filled <= a[i].filled, a[i].filled \in Nat
        PROVE  lists[i].filled <= b[i].filled
    BY <1>3, <2>2, <2>3
  <2>4. lists[1].filled <= b[1].filled
    BY <1>5, <2>1, <2>3, ShortOpen DEF NoGaps
  <2>5. ASSUME k = 2, lists[2].filled <= a[2].filled
        PROVE  lists[2].filled <= b[2].filled
    <3>1. a[2].filled \in Nat
      BY <1>2, <1>5, <2>5, ShortOpen
    <3> QED
      BY <2>3, <2>5, <3>1
  <2> QED
    BY <1>2, <1>3, <1>5, <2>4, <2>5 DEF NoGaps
<1> QED
  BY <1>4, <1>5

\* translateInitList at a nested list.
Opened(lists, part) ==
  Append(lists, IF part = << >> THEN Dropped ELSE Stored(part, Last(lists).filled))

Entered(a, sub, b) ==
  /\ sub = SubArray(Last(a).dims, Last(a).filled)
  /\ b = Append(a, List(sub, Filled(a))) /\ Filled(b) = Filled(a)

LEMMA ListOpened ==
  ASSUME NEW a, IsOpen(a), shape \in Dims, NEW lists, LocalTypes(lists, a), NEW mem,
         NEW b, IsOpen(b), NEW sub, Entered(a, sub, b),
         NEW part, part = SubArray(Last(lists).dims, Last(lists).filled),
         NEW after, after = Opened(lists, part)
  PROVE  /\ LocalTypes(after, b)
         /\ sub # << >> /\ SameCounts(lists, mem, a) => SameCounts(after, mem, b)
         /\ Len(shape) <= 2 /\ NoGaps(lists, mem, a) => NoGaps(after, mem, b)
         /\ SameElements(mem, a) => SameElements(mem, b)
<1>1. PICK k \in Nat : k = Len(a) /\ k > 0
  BY StoredTop
<1>2. lists \in Seq(StoredSet) /\ Len(lists) = k /\ a \in Seq(ListSet)
  BY <1>1 DEF LocalTypes, IsOpen
<1>3. PICK c, t : c = Last(a) /\ t = Last(lists)
  OBVIOUS
<1>4. /\ c = a[k] /\ t = lists[k] /\ Filled(a) = c.start + c.filled
      /\ c.dims \in Dims /\ c.filled \in Nat /\ c.start \in Nat
      /\ t.dims \in Seq(Positive) /\ t.filled \in Nat
  <2>1. k \in 1 .. k
    BY <1>1
  <2> QED
    BY <1>1, <1>3, <2>1, StoredTop, OpenTop DEF Filled
<1>5. PICK new : new = IF part = << >> THEN Dropped ELSE Stored(part, t.filled)
  OBVIOUS
<1>6. part # << >> => part \in Dims /\ Len(part) < Len(t.dims) /\ part[Len(part)] = t.dims[Len(t.dims)]
  BY <1>3, <1>4, SubArrayIs
<1>7. new \in StoredSet /\ new.filled = 0
      /\ (part = << >> => new = Dropped)
      /\ (part # << >> => new.dims = part /\ new.offset = t.filled)
  <2>1. CASE part = << >>
    <3>1. << >> \in Seq(Positive)
      OBVIOUS
    <3> QED
      BY <1>5, <2>1, <3>1 DEF Dropped, Stored, StoredSet
  <2>2. CASE part # << >>
    <3>1. part \in Seq(Positive)
      BY <1>6, <2>2 DEF Dims
    <3> QED
      BY <1>4, <1>5, <2>2, <3>1 DEF Stored, StoredSet
  <2> QED
    BY <2>1, <2>2
<1>8. /\ after \in Seq(StoredSet) /\ Len(after) = k + 1 /\ after[k + 1] = new
      /\ \A i \in 1 .. k : after[i] = lists[i]
  <2>1. after = Append(lists, new)
    BY <1>3, <1>5 DEF Opened
  <2> QED
    BY <1>2, <1>7, <2>1, AppendedElements
<1>9. PICK e : e = List(sub, Filled(a))
  OBVIOUS
<1>10. Len(b) = k + 1 /\ b[k + 1] = e /\ \A i \in 1 .. k : b[i] = a[i]
  BY <1>1, <1>2, <1>9 DEF Entered
<1>11. e.dims = sub /\ e.filled = 0 /\ e.start = Filled(a)
  BY <1>9 DEF List
<1>12. 1 \in 1 .. k /\ k \in 1 .. k
  BY <1>1
<1>13. LocalTypes(after, b)
  BY <1>8, <1>10, <1>12 DEF LocalTypes
<1>14. ASSUME sub # << >>, SameCounts(lists, mem, a)
       PROVE  SameCounts(after, mem, b)
  <2>1. t.dims = c.dims /\ t.filled = c.filled
    BY <1>1, <1>4, <1>12, <1>14 DEF SameCounts
  <2>2. part = sub
    BY <1>3, <2>1 DEF Entered
  <2>3. new.dims = sub /\ new.filled = 0 /\ new.offset <= Filled(a)
    BY <1>4, <1>7, <1>14, <2>1, <2>2
  <2>4. \A i \in 1 .. k + 1 : i \in 1 .. k \/ i = k + 1
    BY <1>1
  <2>5. ASSUME NEW i \in 1 .. k + 1
        PROVE  /\ after[i].dims = b[i].dims /\ after[i].filled = b[i].filled
               /\ after[i].offset <= b[i].start
    <3>1. CASE i \in 1 .. k
      BY <1>1, <1>8, <1>10, <1>14, <3>1 DEF SameCounts
    <3>2. CASE i = k + 1
      BY <1>8, <1>10, <1>11, <2>3, <3>2
    <3> QED
      BY <2>4, <3>1, <3>2
  <2> QED
    BY <1>10, <1>14, <2>5 DEF SameCounts, Entered
<1>15. ASSUME Len(shape) <= 2, NoGaps(lists, mem, a)
       PROVE  NoGaps(after, mem, b)
  <2>1. k = 1
    <3>1. Len(b) = 1 \/ Len(b) = 2
      BY <1>15, ShortOpen
    <3>2. k + 1 = 1 \/ k + 1 = 2
      BY <1>10, <3>1
    <3>3. k \in Nat /\ k > 0
      BY <1>1
    <3> QED
      BY <3>2, <3>3
  <2>2. /\ after[1] = lists[1] /\ b[1] = a[1] /\ after[2] = new /\ Len(after) = 2
        /\ b[2] = e /\ t = lists[1] /\ t.dims = shape
    BY <1>4, <1>8, <1>10, <1>12, <2>1 DEF LocalTypes
  <2>3. ASSUME part # << >>
        PROVE  new.dims = << shape[Len(shape)] >>
    <3>1. part \in Seq(Positive) /\ part # << >> /\ Len(part) < Len(shape) /\ part[Len(part)] = shape[Len(shape)]
      BY <1>6, <2>2, <2>3 DEF Dims
    <3>2. PICK n, s : n = Len(part) /\ s = Len(shape)
      OBVIOUS
    <3>3. n \in Nat /\ n > 0
      BY <3>1, <3>2
    <3>4. s \in Nat /\ s <= 2 /\ n < s
      BY <1>15, <3>1, <3>2 DEF Dims
    <3>5. n = 1
      BY <3>3, <3>4
    <3>6. part = << part[1] >>
      <4>1. part \in Seq(Positive) /\ Len(part) = 1
        BY <3>1, <3>2, <3>5
      <4>2. \A s1 \in Seq(Positive) : Len(s1) = 1 => s1 = << s1[1] >>
        OBVIOUS
      <4> QED
        BY <4>1, <4>2
    <3> QED
      BY <1>7, <2>3, <3>1, <3>2, <3>5, <3>6
  <2>4. new = Dropped \/ (/\ new.dims = << shape[Len(shape)] >>
                         /\ new.offset = lists[1].filled /\ new.filled <= e.filled)
    BY <1>7, <1>11, <2>2, <2>3
  <2>5. lists[1].filled \in Nat
    BY <1>4, <2>2
  <2>6. StoredTo(after) = lists[1].filled
    BY <1>7, <2>2, <2>5 DEF StoredTo
  <2>7. StoredTo(lists) = lists[1].filled
    BY <1>2, <2>1 DEF StoredTo
  <2> QED
    BY <1>15, <2>2, <2>4, <2>6, <2>7 DEF NoGaps
<1>16. SameElements(mem, a) => SameElements(mem, b)
  BY DEF SameElements, Entered
<1> QED
  BY <1>13, <1>14, <1>15, <1>16

\* mem with zeros behind m up to n.
Zeroed(mem, m, n) ==
  [i \in DOMAIN mem \cup (m + 1 .. n) |-> IF i \in m + 1 .. n THEN 0 ELSE mem[i]]

LEMMA ZerosAdded ==
  ASSUME NEW mem, NEW m \in Nat, NEW n \in Nat, NEW f \in Nat, n <= f,
         DOMAIN mem \subseteq 1 .. f
  PROVE  DOMAIN Zeroed(mem, m, n) \subseteq 1 .. f
<1>1. m + 1 .. n \subseteq 1 .. f
  OBVIOUS
<1>2. DOMAIN Zeroed(mem, m, n) = DOMAIN mem \cup (m + 1 .. n)
  BY DEF Zeroed
<1> QED
  BY <1>1, <1>2

LEMMA ZerosBehind ==
  ASSUME NEW mem, NEW m \in Nat, NEW n \in Nat, m <= n, DOMAIN mem = 1 .. m
  PROVE  /\ DOMAIN Zeroed(mem, m, n) = 1 .. n
         /\ \A i \in 1 .. m : Zeroed(mem, m, n)[i] = mem[i]
         /\ \A i \in 1 .. n : i > m => Zeroed(mem, m, n)[i] = 0
<1>1. (1 .. m) \cup (m + 1 .. n) = 1 .. n
  OBVIOUS
<1>2. PICK z : z = Zeroed(mem, m, n)
  OBVIOUS
<1>3. DOMAIN z = 1 .. n /\ \A i \in 1 .. n : z[i] = IF i \in m + 1 .. n THEN 0 ELSE mem[i]
  BY <1>1, <1>2 DEF Zeroed
<1>4. \A i \in 1 .. m : i \in 1 .. n /\ i \notin m + 1 .. n
  OBVIOUS
<1>5. \A i \in 1 .. n : i > m => i \in m + 1 .. n
  OBVIOUS
<1> QED
  BY <1>2, <1>3, <1>4, <1>5

LEMMA FrontStored ==
  ASSUME NEW a, IsOpen(a), shape \in Dims, NEW lists, LocalTypes(lists, a), Len(a) > 1
  PROVE  /\ Front(lists) \in Seq(StoredSet) /\ Len(Front(lists)) = Len(a) - 1
         /\ \A i \in 1 .. Len(a) - 1 : Front(lists)[i] = lists[i]
<1>1. PICK k : k = Len(a) - 1
  OBVIOUS
<1>2. lists \in Seq(StoredSet) /\ Len(lists) = Len(a) /\ Len(a) \in Nat
  BY StoredTop DEF LocalTypes
<1>3. k \in 0 .. Len(lists)
  BY <1>1, <1>2
<1>4. Front(lists) = SubSeq(lists, 1, k)
  BY <1>1, <1>2 DEF Front
<1> QED
  BY <1>1, <1>2, <1>3, <1>4, FrontElements

\* The lists of the checker around one that ends.
LEMMA ListsAround ==
  ASSUME NEW a, IsOpen(a), shape \in Dims, Len(a) > 1,
         NEW b, b = Fill(Front(a), Product(Last(a).dims)),
         NEW j, j = Len(a) - 1
  PROVE  /\ j \in Nat /\ j > 0 /\ Len(b) = j /\ Len(a) = j + 1
         /\ \A i \in 1 .. j : i # j => b[i] = a[i]
         /\ b[j].dims = a[j].dims /\ b[j].start = a[j].start
         /\ b[j].filled = a[j].filled + Product(Last(a).dims)
<1>1. PICK c : c = Front(a)
  OBVIOUS
<1>2. IsOpen(c) /\ Len(c) = j /\ \A i \in 1 .. j : c[i] = a[i]
  BY <1>1, OpenEnds
<1>3. Len(a) \in Nat /\ j \in Nat /\ j > 0 /\ Len(a) = j + 1 /\ j \in 1 .. j
  BY DEF IsOpen
<1>4. Product(Last(a).dims) \in Nat
  BY OpenTop
<1>5. c \in Seq(ListSet) /\ Len(c) > 0
  BY <1>2 DEF IsOpen
<1>6. /\ Len(b) = j
      /\ \A i \in 1 .. j : i # j => b[i] = c[i]
      /\ b[j].dims = c[j].dims /\ b[j].start = c[j].start
      /\ b[j].filled = c[j].filled + Product(Last(a).dims)
  BY <1>1, <1>2, <1>4, <1>5, FilledLists
<1> QED
  BY <1>2, <1>3, <1>6

\* translateInitList at the end of a list no sub-array was found for.
LEMMA ListDropped ==
  ASSUME NEW a, IsOpen(a), shape \in Dims, NEW lists, LocalTypes(lists, a), NEW mem,
         Len(a) > 1, NEW b, b = Fill(Front(a), Product(Last(a).dims)),
         Last(lists) = Dropped, NEW after, after = Front(lists)
  PROVE  /\ LocalTypes(after, b)
         /\ ~SameCounts(lists, mem, a)
         /\ Len(shape) <= 2 /\ NoGaps(lists, mem, a) => NoGaps(after, mem, b)
<1>1. PICK j : j = Len(a) - 1
  OBVIOUS
<1>2. /\ j \in Nat /\ j > 0 /\ Len(b) = j /\ Len(a) = j + 1
      /\ b[j].filled = a[j].filled + Product(Last(a).dims)
  BY <1>1, ListsAround
<1>3. /\ after \in Seq(StoredSet) /\ Len(after) = j
      /\ \A i \in 1 .. j : after[i] = lists[i]
  BY <1>1, FrontStored
<1>4. 1 \in 1 .. j /\ j + 1 \in 1 .. j + 1
  BY <1>2
<1>5. LocalTypes(after, b)
  BY <1>2, <1>3, <1>4 DEF LocalTypes
<1>6. Last(lists) = lists[j + 1] /\ Last(a) = a[j + 1]
  BY <1>2, StoredTop, OpenTop
<1>7. ASSUME SameCounts(lists, mem, a)
      PROVE  FALSE
  <2>1. lists[j + 1].dims = a[j + 1].dims
    BY <1>2, <1>4, <1>7 DEF SameCounts
  <2>2. a[j + 1].dims \in Dims
    BY <1>6, OpenTop
  <2> QED
    BY <1>6, <2>1, <2>2 DEF Dropped, Stored, Dims
<1>8. ASSUME Len(shape) <= 2, NoGaps(lists, mem, a)
      PROVE  NoGaps(after, mem, b)
  <2>1. j = 1
    <3>1. j + 1 = 1 \/ j + 1 = 2
      BY <1>2, <1>8, ShortOpen
    <3> QED
      BY <1>2, <3>1
  <2>2. after[1] = lists[1] /\ lists[2] = Dropped
    BY <1>3, <1>4, <1>6, <2>1
  <2>3. StoredTo(after) = lists[1].filled /\ StoredTo(lists) = lists[1].filled
    BY <1>3, <2>1, <2>2 DEF StoredTo
  <2>4. lists[1].filled <= b[1].filled
    <3>1. Product(Last(a).dims) \in Nat /\ a[1].filled \in Nat /\ lists[1].filled \in Nat
      BY <1>2, <1>4, <1>8, ShortOpen, StoredTop, OpenTop
    <3>2. lists[1].filled <= a[1].filled
      BY <1>8 DEF NoGaps
    <3> QED
      BY <1>2, <2>1, <3>1, <3>2
  <2> QED
    BY <1>2, <1>8, <2>1, <2>2, <2>3, <2>4 DEF NoGaps
<1> QED
  BY <1>5, <1>7, <1>8

\* At the end of one that was stored.
LEMMA ListStored ==
  ASSUME NEW a, IsOpen(a), shape \in Dims, NEW lists, LocalTypes(lists, a), NEW mem,
         Len(a) > 1, NEW b, b = Fill(Front(a), Product(Last(a).dims)),
         Filled(b) = Last(a).start + Product(Last(a).dims),
         NEW t, t = Last(lists), t # Dropped,
         NEW after, after = Fill(Front(lists), Product(t.dims)),
         NEW stored, stored = Zeroed(mem, t.offset + t.filled, t.offset + Product(t.dims))
  PROVE  /\ LocalTypes(after, b)
         /\ SameCounts(lists, mem, a) => SameCounts(after, stored, b)
         /\ Len(shape) <= 2 /\ NoGaps(lists, mem, a) =>
              /\ NoGaps(after, stored, b)
              /\ SameCounts(lists, mem, a) /\ SameElements(mem, a)
                 /\ (\A i \in 1 .. Filled(b) : i > Filled(a) => want[i] = 0)
                   => SameElements(stored, b)
<1>1. PICK j : j = Len(a) - 1
  OBVIOUS
<1>2. PICK c : c = Last(a)
  OBVIOUS
<1>3. /\ j \in Nat /\ j > 0 /\ Len(b) = j /\ Len(a) = j + 1
      /\ \A i \in 1 .. j : i # j => b[i] = a[i]
      /\ b[j].dims = a[j].dims /\ b[j].start = a[j].start
      /\ b[j].filled = a[j].filled + Product(c.dims)
  <2>1. j \in Nat /\ j > 0 /\ Len(b) = j /\ Len(a) = j + 1
    BY <1>1, ListsAround
  <2>2. ASSUME NEW i \in 1 .. j, i # j
        PROVE  b[i] = a[i]
    BY <1>1, <2>2, ListsAround
  <2>3. b[j].dims = a[j].dims /\ b[j].start = a[j].start
    BY <1>1, ListsAround
  <2>4. b[j].filled = a[j].filled + Product(Last(a).dims)
    BY <1>1, ListsAround
  <2> QED
    BY <1>2, <2>1, <2>2, <2>3, <2>4
<1>4. j \in 1 .. j + 1 /\ j + 1 \in 1 .. j + 1 /\ 1 \in 1 .. j /\ j \in 1 .. j
  BY <1>3
<1>5. /\ c = a[j + 1] /\ t = lists[j + 1]
      /\ c.dims \in Dims /\ c.filled \in Nat /\ c.start \in Nat
      /\ Product(c.dims) \in Nat /\ c.filled <= Product(c.dims)
      /\ Filled(a) = c.start + c.filled
  BY <1>2, <1>3, StoredTop, OpenTop DEF Filled
<1>6. t.dims \in Seq(Positive) /\ t.filled \in Nat /\ t.offset \in Nat
  BY <1>3, <1>4, <1>5, StoredTop
<1>7. Product(t.dims) \in Nat
  BY <1>6, ProductBounds
<1>8. PICK front : front = Front(lists)
  OBVIOUS
<1>9. /\ front \in Seq(StoredSet) /\ Len(front) = j
      /\ \A i \in 1 .. j : front[i] = lists[i]
  BY <1>1, <1>8, FrontStored
<1>10. /\ after \in Seq(StoredSet) /\ Len(after) = j
       /\ \A i \in 1 .. j : i # j => after[i] = front[i]
       /\ after[j].dims = front[j].dims /\ after[j].offset = front[j].offset
       /\ after[j].filled = front[j].filled + Product(t.dims)
  BY <1>3, <1>7, <1>8, <1>9, FilledStored
<1>11. /\ \A i \in 1 .. j : after[i].dims = lists[i].dims /\ after[i].offset = lists[i].offset
       /\ \A i \in 1 .. j : i # j => after[i].filled = lists[i].filled
       /\ after[j].filled = lists[j].filled + Product(t.dims)
  BY <1>4, <1>9, <1>10
<1>12. \A i \in 1 .. j : b[i].dims = a[i].dims /\ b[i].start = a[i].start
  BY <1>3
<1>13. LocalTypes(after, b)
  BY <1>3, <1>4, <1>10, <1>11 DEF LocalTypes
<1>14. PICK m, n : m = t.offset + t.filled /\ n = t.offset + Product(t.dims)
  OBVIOUS
<1>15. stored = Zeroed(mem, m, n) /\ m \in Nat /\ n \in Nat
  BY <1>6, <1>7, <1>14
<1>16. ASSUME SameCounts(lists, mem, a)
       PROVE  SameCounts(after, stored, b)
  <2>1. ASSUME NEW i \in 1 .. j + 1
        PROVE  lists[i].dims = a[i].dims /\ lists[i].filled = a[i].filled /\ lists[i].offset <= a[i].start
    BY <1>3, <1>16 DEF SameCounts
  <2>2. t.dims = c.dims /\ t.filled = c.filled /\ t.offset <= c.start
    BY <1>4, <1>5, <2>1
  <2>3. ASSUME NEW i \in 1 .. j
        PROVE  /\ after[i].dims = b[i].dims /\ after[i].filled = b[i].filled
               /\ after[i].offset <= b[i].start
    <3>1. i \in 1 .. j + 1
      BY <1>3
    <3>2. lists[i].dims = a[i].dims /\ lists[i].filled = a[i].filled /\ lists[i].offset <= a[i].start
      BY <2>1, <3>1
    <3>3. after[i].filled = b[i].filled
      BY <1>3, <1>11, <2>2, <3>2
    <3> QED
      BY <1>11, <1>12, <3>2, <3>3
  <2>4. PICK f : f = Filled(b)
    OBVIOUS
  <2>5. f = c.start + Product(c.dims)
    BY <1>2, <2>4
  <2>6. f \in Nat /\ n <= f /\ Filled(a) <= f
    BY <1>5, <1>6, <1>14, <2>2, <2>5
  <2>7. DOMAIN mem \subseteq 1 .. f
    <3>1. DOMAIN mem \subseteq 1 .. Filled(a)
      BY <1>16 DEF SameCounts
    <3>2. Filled(a) \in Nat
      BY <1>5
    <3> QED
      BY <2>6, <3>1, <3>2
  <2>8. DOMAIN stored \subseteq 1 .. f
    BY <1>15, <2>6, <2>7, ZerosAdded
  <2> QED
    BY <1>3, <2>3, <2>4, <2>8 DEF SameCounts
<1>17. ASSUME Len(shape) <= 2, NoGaps(lists, mem, a)
       PROVE  /\ NoGaps(after, stored, b) /\ StoredTo(lists) = m /\ m <= n
              /\ SameCounts(lists, mem, a) => n = Filled(b)
  <2>1. j = 1
    <3>1. j + 1 = 1 \/ j + 1 = 2
      BY <1>3, <1>17, ShortOpen
    <3> QED
      BY <1>3, <3>1
  <2>2. StoredTo(lists) = m /\ m <= n
    <3>1. t.offset + t.filled = StoredTo(lists) /\ t.offset + Product(t.dims) >= StoredTo(lists)
      BY <1>17, ShortTop
    <3> QED
      BY <1>14, <1>15, <3>1
  <2>3. DOMAIN mem = 1 .. m
    BY <1>17, <2>2 DEF NoGaps
  <2>4. DOMAIN stored = 1 .. n
    BY <1>15, <2>2, <2>3, ZerosBehind
  <2>5. /\ t.dims = << shape[Len(shape)] >> /\ t.offset = lists[1].filled
        /\ c.dims = << shape[Len(shape)] >> /\ c.start = a[1].filled
        /\ lists[1].filled <= a[1].filled
    <3>1. Len(a) = 2 /\ t = lists[2] /\ c = a[2]
      BY <1>3, <1>5, <2>1
    <3> QED
      BY <1>17, <3>1, ShortOpen DEF NoGaps
  <2>6. lists[1].filled \in Nat /\ a[1].filled \in Nat
    BY <1>3, <1>4, <1>17, ShortOpen, StoredTop
  <2>7. after[1].filled = n /\ after[1].filled <= b[1].filled
    BY <1>3, <1>7, <1>11, <1>14, <2>1, <2>5, <2>6
  <2>8. StoredTo(after) = n /\ Len(b) # 2
    BY <1>3, <1>10, <2>1, <2>7 DEF StoredTo
  <2>9. NoGaps(after, stored, b)
    BY <2>4, <2>7, <2>8 DEF NoGaps
  <2>10. ASSUME SameCounts(lists, mem, a)
         PROVE  n = Filled(b)
    <3>1. lists[1].filled = a[1].filled
      BY <1>3, <1>4, <2>1, <2>10 DEF SameCounts
    <3> QED
      BY <1>2, <1>14, <2>5, <3>1
  <2> QED
    BY <2>2, <2>9, <2>10
<1>18. ASSUME Len(shape) <= 2, NoGaps(lists, mem, a), SameCounts(lists, mem, a), SameElements(mem, a),
              \A i \in 1 .. Filled(b) : i > Filled(a) => want[i] = 0
       PROVE  SameElements(stored, b)
  <2>1. StoredTo(lists) = m /\ m <= n /\ n = Filled(b) /\ m = Filled(a)
    BY <1>17, <1>18, ShortTop
  <2>2. DOMAIN mem = 1 .. m
    BY <1>18, <2>1 DEF NoGaps
  <2>3. /\ \A i \in 1 .. m : stored[i] = mem[i]
        /\ \A i \in 1 .. n : i > m => stored[i] = 0
    <3>1. /\ \A i \in 1 .. m : Zeroed(mem, m, n)[i] = mem[i]
          /\ \A i \in 1 .. n : i > m => Zeroed(mem, m, n)[i] = 0
      <4>1. m \in Nat /\ n \in Nat /\ m <= n
        BY <1>15, <2>1
      <4> QED
        BY <2>2, <4>1, ZerosBehind
    <3> QED
      BY <1>15, <3>1
  <2>4. \A i \in 1 .. m : mem[i] = want[i]
    BY <1>18, <2>1 DEF SameElements
  <2>5. \A i \in 1 .. n : i > m => want[i] = 0
    BY <1>18, <2>1
  <2>6. \A i \in 1 .. n : i \in 1 .. m \/ i > m
    BY <1>15
  <2>7. \A i \in 1 .. n : stored[i] = want[i]
    BY <2>3, <2>4, <2>5, <2>6
  <2> QED
    BY <2>1, <2>7 DEF SameElements
<1> QED
  BY <1>13, <1>16, <1>17, <1>18

-----------------------------------------------------------------------------
(* A global array: the data translateVarDef has put together when the      *)
(* checker was in lists a.                                                 *)

\* The data are not more than the elements that were checked.
DataInside(lists, mem, a) ==
  /\ lists \in Seq(StoredSet) /\ mem \in Seq(Nat)
  /\ Len(lists) = Len(a) /\ (Len(a) = 1 \/ Len(a) = 2)
  /\ Len(a) = 1 => Len(mem) <= Filled(a)
  /\ Len(a) = 2 => lists[2].filled <= a[2].filled /\ Len(mem) <= a[2].start + lists[2].filled

\* They are these elements.
DataSame(lists, mem, a) ==
  /\ Len(mem) = Filled(a) /\ SameElements(mem, a)
  /\ Len(a) = 2 => lists[2].filled = a[2].filled

LEMMA DataTop ==
  ASSUME NEW a, IsOpen(a), shape \in Dims, NEW lists, NEW mem, DataInside(lists, mem, a)
  PROVE  /\ Len(lists) = Len(a) /\ Len(lists) > 0 /\ (Len(a) = 1 \/ Len(a) = 2)
         /\ Len(mem) \in Nat /\ Filled(a) \in Nat
         /\ shape[Len(shape)] \in Nat /\ Last(shape) = shape[Len(shape)]
         /\ Len(a) = 2 => /\ Last(lists) = lists[2] /\ lists[2].filled \in Nat
                          /\ Last(a) = a[2] /\ a[2].start \in Nat /\ a[2].filled \in Nat
                          /\ Filled(a) = a[2].start + a[2].filled
                          /\ Product(a[2].dims) \in Nat /\ a[2].filled <= Product(a[2].dims)
                          /\ shape[Len(shape)] <= Product(a[2].dims)
         /\ Len(mem) <= Filled(a)
<1>1. /\ Len(lists) = Len(a) /\ Len(lists) > 0 /\ (Len(a) = 1 \/ Len(a) = 2)
      /\ Len(mem) \in Nat /\ Filled(a) \in Nat
  BY OpenTop DEF DataInside
<1>2. shape[Len(shape)] \in Nat /\ Last(shape) = shape[Len(shape)]
  BY DEF Dims, Positive, Last
<1>3. ASSUME Len(a) = 2
      PROVE  /\ Last(lists) = lists[2] /\ lists[2].filled \in Nat
             /\ Last(a) = a[2] /\ a[2].start \in Nat /\ a[2].filled \in Nat
             /\ Filled(a) = a[2].start + a[2].filled
             /\ Product(a[2].dims) \in Nat /\ a[2].filled <= Product(a[2].dims)
             /\ shape[Len(shape)] <= Product(a[2].dims)
  <2>1. Last(a) = a[2] /\ Last(lists) = lists[2]
    BY <1>1, <1>3 DEF Last
  <2>2. 2 \in 1 .. Len(lists) /\ 2 \in 1 .. Len(a)
    BY <1>1, <1>3
  <2>3. lists[2] \in StoredSet
    BY <2>2 DEF DataInside
  <2>4. lists[2].filled \in Nat
    BY <2>3 DEF StoredSet
  <2>5. PICK c : c = a[2]
    OBVIOUS
  <2>6. /\ c.start \in Nat /\ c.filled \in Nat /\ c.dims \in Dims
        /\ Product(c.dims) \in Nat /\ c.filled <= Product(c.dims)
    BY <2>1, <2>5, OpenTop
  <2>7. c.dims[Len(c.dims)] = shape[Len(shape)]
    BY <2>2, <2>5 DEF IsOpen
  <2>8. Len(c.dims) > 0 /\ c.dims \in Seq(Positive)
    BY <2>6 DEF Dims
  <2>9. Product(c.dims) >= c.dims[Len(c.dims)]
    BY <2>8, ProductBounds
  <2>10. shape[Len(shape)] <= Product(c.dims)
    BY <1>2, <2>6, <2>7, <2>9
  <2> QED
    BY <2>1, <2>4, <2>5, <2>6, <2>10 DEF Filled
<1>4. Len(mem) <= Filled(a)
  <2>1. CASE Len(a) = 1
    BY <2>1 DEF DataInside
  <2>2. CASE Len(a) = 2
    <3>1. lists[2].filled <= a[2].filled /\ Len(mem) <= a[2].start + lists[2].filled
      BY <2>2 DEF DataInside
    <3> QED
      BY <1>1, <1>3, <2>2, <3>1
  <2> QED
    BY <1>1, <2>1, <2>2
<1> QED
  BY <1>1, <1>2, <1>3, <1>4

\* translateVarDef at a constant.
LEMMA DatumAdded ==
  ASSUME NEW a, IsOpen(a), shape \in Dims, NEW lists, NEW mem, DataInside(lists, mem, a),
         NEW b, b = Fill(a, 1), Filled(b) = Filled(a) + 1, NEW p \in Nat
  PROVE  /\ DataInside(Fill(lists, 1), Append(mem, p), b)
         /\ DataSame(lists, mem, a) /\ want[Filled(b)] = p
              => DataSame(Fill(lists, 1), Append(mem, p), b)
<1>1. PICK k : k = Len(a)
  OBVIOUS
<1>2. PICK after : after = Fill(lists, 1)
  OBVIOUS
<1>3. PICK data : data = Append(mem, p)
  OBVIOUS
<1>4. /\ lists \in Seq(StoredSet) /\ mem \in Seq(Nat) /\ a \in Seq(ListSet)
      /\ Len(lists) = k /\ Len(lists) > 0 /\ (k = 1 \/ k = 2)
  BY <1>1 DEF DataInside, IsOpen
<1>5. Len(after) = k /\ after \in Seq(StoredSet) /\ after[k].filled = lists[k].filled + 1
  BY <1>2, <1>4, FilledStored
<1>6. Len(b) = k /\ b[k].filled = a[k].filled + 1 /\ b[k].start = a[k].start
  BY <1>1, <1>4, FilledLists
<1>7. /\ data \in Seq(Nat) /\ Len(data) = Len(mem) + 1 /\ data[Len(mem) + 1] = p
      /\ \A i \in 1 .. Len(mem) : data[i] = mem[i]
  BY <1>3, <1>4, AppendedElements
<1>8. Len(mem) \in Nat /\ Filled(a) \in Nat /\ Len(mem) <= Filled(a)
  BY DataTop
<1>9. k = 1 => Len(data) <= Filled(b)
  BY <1>7, <1>8
<1>10. ASSUME k = 2
       PROVE  after[2].filled <= b[2].filled /\ Len(data) <= b[2].start + after[2].filled
  <2>1. lists[2].filled <= a[2].filled /\ Len(mem) <= a[2].start + lists[2].filled
    BY <1>1, <1>10 DEF DataInside
  <2>2. lists[2].filled \in Nat /\ a[2].filled \in Nat /\ a[2].start \in Nat
    BY <1>1, <1>10, DataTop
  <2>3. /\ after[2].filled = lists[2].filled + 1
        /\ b[2].filled = a[2].filled + 1 /\ b[2].start = a[2].start
    BY <1>5, <1>6, <1>10
  <2>4. PICK l, c, s, n : l = lists[2].filled /\ c = a[2].filled /\ s = a[2].start /\ n = Len(mem)
    OBVIOUS
  <2>5. /\ l \in Nat /\ c \in Nat /\ s \in Nat /\ n \in Nat /\ l <= c /\ n <= s + l
        /\ after[2].filled = l + 1 /\ b[2].filled = c + 1 /\ b[2].start = s /\ Len(data) = n + 1
    BY <1>7, <1>8, <2>1, <2>2, <2>3, <2>4
  <2>6. l + 1 <= c + 1 /\ n + 1 <= s + (l + 1)
    BY <2>5
  <2> QED
    BY <2>5, <2>6
<1>11. DataInside(after, data, b)
  BY <1>4, <1>5, <1>6, <1>7, <1>9, <1>10 DEF DataInside
<1>12. ASSUME DataSame(lists, mem, a), want[Filled(b)] = p
       PROVE  DataSame(after, data, b)
  <2>1. Len(mem) = Filled(a) /\ (k = 2 => lists[2].filled = a[2].filled)
    BY <1>1, <1>12 DEF DataSame
  <2>2. PICK n : n = Len(mem)
    OBVIOUS
  <2>3. Filled(b) = n + 1 /\ Len(data) = n + 1 /\ n \in Nat
    BY <1>7, <1>8, <2>1, <2>2
  <2>4. \A i \in 1 .. n : data[i] = want[i]
    BY <1>7, <1>12, <2>1, <2>2 DEF DataSame, SameElements
  <2>5. data[n + 1] = want[n + 1]
    BY <1>7, <1>12, <2>2, <2>3
  <2>6. \A i \in 1 .. n + 1 : data[i] = want[i]
    BY <2>3, <2>4, <2>5
  <2>7. k = 2 => after[2].filled = b[2].filled
    BY <1>5, <1>6, <2>1
  <2> QED
    BY <1>6, <2>3, <2>6, <2>7 DEF DataSame, SameElements
<1> QED
  BY <1>2, <1>3, <1>11, <1>12

\* At an element outside of nested lists that is no constant.
LEMMA DatumSkipped ==
  ASSUME NEW a, IsOpen(a), shape \in Dims, NEW lists, NEW mem, DataInside(lists, mem, a),
         NEW b, b = Fill(a, 1), Filled(b) = Filled(a) + 1, Len(lists) = 1
  PROVE  DataInside(lists, mem, b)
<1>1. Len(a) = 1 /\ a \in Seq(ListSet)
  BY DEF DataInside, IsOpen
<1>2. Len(b) = 1
  BY <1>1, FilledLists
<1>3. Len(mem) <= Filled(b)
  BY DataTop
<1> QED
  BY <1>1, <1>2, <1>3 DEF DataInside

LEMMA AppendedAny ==
  ASSUME NEW S, NEW s \in Seq(S), NEW e
  PROVE  Len(Append(s, e)) = Len(s) + 1 /\ Append(s, e)[Len(s) + 1] = e
OBVIOUS

\* The lists of the translator and of the checker at a nested list.
DataEnters(lists, after, a, sub, b) ==
  /\ b = Append(a, List(sub, Filled(a))) /\ Filled(b) = Filled(a)
  /\ Len(lists) = 1 /\ after = Append(lists, Stored(<< Last(shape) >>, 0))

\* At a nested list.
LEMMA DataOpened ==
  ASSUME NEW a, IsOpen(a), shape \in Dims, NEW lists, NEW mem, DataInside(lists, mem, a),
         NEW b, NEW sub, NEW after, DataEnters(lists, after, a, sub, b)
  PROVE  /\ DataInside(after, mem, b)
         /\ DataSame(lists, mem, a) => DataSame(after, mem, b)
<1> USE DEF DataEnters
<1>1. lists \in Seq(StoredSet) /\ Len(a) = 1 /\ a \in Seq(ListSet)
  BY DEF DataInside, IsOpen
<1>2. PICK new : new = Stored(<< Last(shape) >>, 0)
  OBVIOUS
<1>3. new \in StoredSet /\ new.filled = 0
  <2>1. Last(shape) \in Positive
    BY DEF Dims, Last
  <2>2. << Last(shape) >> \in Seq(Positive)
    BY <2>1
  <2> QED
    BY <1>2, <2>2 DEF Stored, StoredSet
<1>4. after \in Seq(StoredSet) /\ Len(after) = 2 /\ after[2] = new
  <2>1. Len(lists) = 1 /\ after = Append(lists, new)
    BY <1>2
  <2>2. /\ after \in Seq(StoredSet) /\ Len(after) = Len(lists) + 1
        /\ after[Len(lists) + 1] = new
    BY <1>1, <1>3, <2>1, AppendedElements
  <2> QED
    BY <2>1, <2>2
<1>5. PICK e : e = List(sub, Filled(a))
  OBVIOUS
<1>6. Len(b) = 2 /\ b[2] = e /\ e.filled = 0 /\ e.start = Filled(a)
  <2>1. Len(b) = Len(a) + 1 /\ b[Len(a) + 1] = e
    <3>1. b = Append(a, e)
      BY <1>5
    <3> QED
      BY <1>1, <3>1, AppendedAny
  <2>2. Len(b) = 2 /\ b[2] = e
    BY <1>1, <2>1
  <2> QED
    BY <1>5, <2>2 DEF List
<1>7. Len(mem) \in Nat /\ Filled(a) \in Nat /\ Len(mem) <= Filled(a)
  BY DataTop
<1>8. Len(mem) <= b[2].start + after[2].filled /\ after[2].filled <= b[2].filled
  BY <1>3, <1>4, <1>6, <1>7
<1>9. DataInside(after, mem, b)
  BY <1>4, <1>6, <1>8 DEF DataInside
<1>10. DataSame(lists, mem, a) => DataSame(after, mem, b)
  BY <1>3, <1>4, <1>6 DEF DataSame, SameElements
<1> QED
  BY <1>9, <1>10

\* data is mem with x zeros behind it.
Pads(data, mem, x) ==
  /\ data \in Seq(Nat) /\ Len(data) = Len(mem) + x
  /\ \A i \in 1 .. Len(mem) : data[i] = mem[i]
  /\ \A i \in 1 .. Len(data) : i > Len(mem) => data[i] = 0

LEMMA Padded ==
  ASSUME NEW mem \in Seq(Nat), NEW x \in Nat, NEW data, data = mem \o [i \in 1 .. x |-> 0]
  PROVE  Pads(data, mem, x)
<1>1. PICK pad : pad = [i \in 1 .. x |-> 0]
  OBVIOUS
<1>2. pad \in Seq(Nat) /\ Len(pad) = x /\ \A i \in 1 .. x : pad[i] = 0
  BY <1>1
<1>3. data = mem \o pad
  BY <1>1
<1>4. data \in Seq(Nat) /\ Len(data) = Len(mem) + x
  BY <1>2, <1>3
<1>5. \A i \in 1 .. Len(mem) : data[i] = mem[i]
  BY <1>2, <1>3
<1>6. ASSUME NEW i \in 1 .. Len(data), i > Len(mem)
      PROVE  data[i] = 0
  <2>1. i - Len(mem) \in 1 .. x
    BY <1>4, <1>6
  <2>2. data[i] = pad[i - Len(mem)]
    BY <1>2, <1>3, <1>4, <1>6
  <2> QED
    BY <1>2, <2>1, <2>2
<1> QED
  BY <1>4, <1>5, <1>6 DEF Pads

LEMMA NotPadded ==
  ASSUME NEW mem \in Seq(Nat), NEW x \in Int, x < 1
  PROVE  mem \o [i \in 1 .. x |-> 0] = mem
<1>1. 1 .. x = {}
  OBVIOUS
<1>2. [i \in 1 .. x |-> 0] = << >>
  <2>1. [i \in 1 .. x |-> 0] = [i \in {} |-> 0]
    BY <1>1
  <2>2. << >> = [i \in {} |-> 0]
    OBVIOUS
  <2> QED
    BY <2>1, <2>2
<1>3. mem \o << >> = mem
  BY ConcatEmptySeq
<1> QED
  BY <1>2, <1>3

\* The lists of the translator and of the checker at the end of a nested list.
DataLeaves(lists, mem, after, data, a, b) ==
  /\ Len(a) > 1 /\ b = Fill(Front(a), Product(Last(a).dims))
  /\ Filled(b) = Last(a).start + Product(Last(a).dims) /\ Filled(b) \in Nat
  /\ after = Front(lists)
  /\ data = mem \o [i \in 1 .. Last(shape) - Last(lists).filled |-> 0]

\* At its end: it is padded to a row.
LEMMA DataClosed ==
  ASSUME NEW a, IsOpen(a), shape \in Dims, NEW lists, NEW mem, DataInside(lists, mem, a),
         NEW b, NEW after, NEW data, DataLeaves(lists, mem, after, data, a, b)
  PROVE  /\ DataInside(after, data, b)
         /\ Len(shape) <= 2 /\ DataSame(lists, mem, a)
            /\ (\A i \in 1 .. Filled(b) : i > Filled(a) => want[i] = 0)
              => DataSame(after, data, b)
<1> USE DEF DataLeaves
<1>1. Len(a) = 2
  BY DEF DataInside
<1>2. PICK l, s, c, r : l = Last(lists).filled /\ s = a[2].start /\ c = a[2].filled /\ r = shape[Len(shape)]
  OBVIOUS
<1>3. PICK n, f, q : n = Len(mem) /\ f = Filled(a) /\ q = Product(a[2].dims)
  OBVIOUS
<1>4. /\ l \in Nat /\ s \in Nat /\ c \in Nat /\ r \in Nat /\ n \in Nat /\ q \in Nat
      /\ f = s + c /\ c <= q /\ r <= q /\ Filled(b) = s + q /\ Last(shape) = r
  BY <1>1, <1>2, <1>3, DataTop
<1>5. l <= c /\ n <= s + l
  BY <1>1, <1>2, <1>3, DataTop DEF DataInside
<1>6. lists \in Seq(StoredSet) /\ Len(lists) = 2 /\ mem \in Seq(Nat)
  BY <1>1 DEF DataInside
<1>7. after \in Seq(StoredSet) /\ Len(after) = 1
  <2>1. after = SubSeq(lists, 1, 1) /\ 1 \in 0 .. Len(lists)
    BY <1>6 DEF Front
  <2> HIDE DEF DataLeaves
  <2> QED
    BY <1>6, <2>1, FrontElements
<1>8. Len(b) = 1
  <2>1. PICK j : j = Len(a) - 1
    OBVIOUS
  <2>2. Len(b) = j
    BY <2>1, ListsAround
  <2> QED
    BY <1>1, <2>1, <2>2
<1>9. ASSUME l <= r
      PROVE  /\ data \in Seq(Nat) /\ Len(data) = n + (r - l)
             /\ \A i \in 1 .. n : data[i] = mem[i]
             /\ \A i \in 1 .. Len(data) : i > n => data[i] = 0
  <2>1. PICK x : x = r - l
    OBVIOUS
  <2>2. x \in Nat
    BY <1>4, <1>9, <2>1
  <2>3. data = mem \o [i \in 1 .. x |-> 0]
    BY <1>2, <1>4, <2>1
  <2>4. Pads(data, mem, x)
    BY <1>6, <2>2, <2>3, Padded
  <2>5. PICK d : d = data
    OBVIOUS
  <2>6. /\ d \in Seq(Nat) /\ Len(d) = n + x
        /\ \A i \in 1 .. n : d[i] = mem[i]
        /\ \A i \in 1 .. Len(d) : i > n => d[i] = 0
    BY <1>3, <2>4, <2>5 DEF Pads
  <2> QED
    BY <2>1, <2>5, <2>6
<1>10. ASSUME ~(l <= r)
       PROVE  data = mem
  <2>1. PICK x : x = r - l
    OBVIOUS
  <2>2. x \in Int /\ x < 1
    BY <1>4, <1>10, <2>1
  <2>3. data = mem \o [i \in 1 .. x |-> 0]
    BY <1>2, <1>4, <2>1
  <2> QED
    BY <1>6, <2>2, <2>3, NotPadded
<1>11. data \in Seq(Nat) /\ Len(data) <= Filled(b)
  <2>1. CASE l <= r
    <3>1. Len(data) = n + (r - l) /\ data \in Seq(Nat)
      BY <1>9, <2>1
    <3>2. n + (r - l) <= s + q
      BY <1>4, <1>5, <2>1
    <3> QED
      BY <1>4, <3>1, <3>2
  <2>2. CASE ~(l <= r)
    <3>1. n <= s + q
      BY <1>4, <1>5
    <3> QED
      BY <1>3, <1>4, <1>6, <1>10, <2>2, <3>1
  <2> QED
    BY <2>1, <2>2
<1>12. DataInside(after, data, b)
  <2>1. Len(after) = Len(b) /\ ~(Len(b) = 2)
    BY <1>7, <1>8
  <2> QED
    BY <1>7, <1>8, <1>11, <2>1 DEF DataInside
<1>13. ASSUME Len(shape) <= 2, DataSame(lists, mem, a),
              \A i \in 1 .. Filled(b) : i > Filled(a) => want[i] = 0
       PROVE  DataSame(after, data, b)
  <2>1. q = r
    <3>1. a[2].dims = << shape[Len(shape)] >>
      BY <1>1, <1>13, ShortOpen
    <3>2. PICK d : d = a[2].dims
      OBVIOUS
    <3>3. d \in Seq(Positive)
      BY <1>1, <3>2, DataTop, OpenTop DEF Dims
    <3>4. Len(d) = 1 /\ d[1] = r
      BY <1>2, <3>1, <3>2
    <3> QED
      BY <1>3, <3>2, <3>3, <3>4, ProductBounds
  <2>2. n = f /\ l = c
    BY <1>1, <1>2, <1>3, <1>13, DataTop DEF DataSame
  <2>3. l <= r /\ n + (r - l) = s + q
    BY <1>4, <2>1, <2>2
  <2>4. /\ Len(data) = s + q
        /\ \A i \in 1 .. n : data[i] = mem[i]
        /\ \A i \in 1 .. Len(data) : i > n => data[i] = 0
    BY <1>9, <2>3
  <2>5. \A i \in 1 .. n : mem[i] = want[i]
    BY <1>3, <1>13, <2>2 DEF DataSame, SameElements
  <2>6. PICK x \in Nat : x = Filled(b)
    OBVIOUS
  <2>7. Len(data) = x
    BY <1>4, <2>4, <2>6
  <2>8. \A i \in 1 .. x : i > n => want[i] = 0
    BY <1>3, <1>13, <2>2, <2>6
  <2>9. \A i \in 1 .. x : i \in 1 .. n \/ i > n
    BY <1>4
  <2>10. \A i \in 1 .. x : data[i] = want[i]
    BY <2>4, <2>5, <2>7, <2>8, <2>9
  <2>11. SameElements(data, b)
    BY <2>6, <2>10 DEF SameElements
  <2>12. ~(Len(b) = 2)
    BY <1>8
  <2> QED
    BY <2>6, <2>7, <2>11, <2>12 DEF DataSame
<1> QED
  BY <1>12, <1>13

-----------------------------------------------------------------------------
(* The invariant of the translation.                                       *)

LocalInv(lists, mem, a) ==
  /\ LocalTypes(lists, a)
  /\ Holds({"const", "lval"}) => SameCounts(lists, mem, a)
  /\ Len(shape) <= 2 => NoGaps(lists, mem, a)
  /\ Len(shape) <= 2 /\ Holds({"const", "lval"}) => SameElements(mem, a)

DataInv(lists, mem, a) ==
  /\ DataInside(lists, mem, a)
  /\ Len(shape) <= 2 /\ Holds({"const"}) => DataSame(lists, mem, a)

\* The translator is where the walk h of the checker was after pos - 1 tokens.
Translating ==
  \E h : /\ Complete(h)
         /\ global => DataInv(open, memory, h[pos - 1])
         /\ ~global => LocalInv(open, memory, h[pos - 1])

EndsWell ==
  /\ (global \/ Len(shape) <= 2 \/ Holds({"const", "lval"})) => DOMAIN memory \subseteq Elements
  /\ Len(shape) <= 2 => DOMAIN memory = Elements
  /\ Supported => memory = want

TransInv ==
  /\ stage = "translate" => Translating
  /\ stage = "done" => EndsWell
  /\ stage = "crashed" => ~Supported

LEMMA KindHeld ==
  ASSUME NEW p \in DOMAIN tokens, tokens[p] \in Kinds, NEW kinds, Holds(kinds)
  PROVE  tokens[p] \in kinds
<1>1. tokens[p] # "{" /\ tokens[p] # "}"
  BY TokenKinds
<1>2. tokens[p] \in Range(tokens)
  BY DEF Range
<1> QED
  BY <1>1, <1>2 DEF Holds

LEMMA SupportedIs ==
  /\ global => (Supported <=> (Len(shape) <= 2 /\ Holds({"const"})))
  /\ ~global => (Supported <=> (Len(shape) <= 2 /\ Holds({"const", "lval"})))
BY DEF Supported

LEMMA CountsNotDropped ==
  ASSUME NEW a, IsOpen(a), shape \in Dims, NEW lists, LocalTypes(lists, a), NEW mem,
         SameCounts(lists, mem, a)
  PROVE  Last(lists) # Dropped
<1>1. Len(a) \in 1 .. Len(a)
  BY StoredTop
<1>2. lists[Len(a)].dims = a[Len(a)].dims
  BY <1>1 DEF SameCounts
<1>3. Last(lists).dims = Last(a).dims /\ Last(a).dims \in Dims
  BY <1>2, StoredTop, OpenTop
<1> QED
  BY <1>3 DEF Dropped, Stored, Dims

\* The lists of a walk around the token at pos.
LEMMA WalkAt ==
  ASSUME TypeInv, NEW h, Complete(h)
  PROVE  /\ shape \in Dims /\ Len(tokens) \in Nat
         /\ IsOpen(h[pos - 1]) /\ Filled(h[pos - 1]) \in Nat
         /\ Filled(h[pos - 1]) <= Filled(h[Len(tokens)]) /\ Filled(h[Len(tokens)]) \in Nat
         /\ Filled(h[pos - 1]) <= Size /\ Size \in Nat
         /\ pos <= Len(tokens) =>
              /\ pos \in DOMAIN tokens /\ tokens[pos] \in Tokens
              /\ IsOpen(h[pos]) /\ Moves(tokens, want, h[pos - 1], pos, h[pos])
              /\ Filled(h[pos]) \in Nat /\ Filled(h[pos]) <= Size
<1>1. shape \in Dims /\ tokens \in Seq(Tokens) /\ Len(tokens) \in Nat /\ pos \in 1 .. Len(tokens) + 1
  BY ShapeDims DEF TypeInv
<1>2. PICK n : n = Len(tokens)
  OBVIOUS
<1>3. pos - 1 \in 0 .. n /\ n \in 0 .. n /\ n \in Nat
  BY <1>1, <1>2
<1>4. Walk(tokens, want, h) /\ Filled(h[n]) <= Size
  BY <1>2 DEF Complete
<1>5. \A p \in 0 .. n : IsOpen(h[p]) /\ Filled(h[p]) <= Filled(h[n])
  BY <1>2, <1>4 DEF Walk
<1>6. \A p \in 0 .. n : Filled(h[p]) \in Nat
  BY <1>5, OpenTop
<1>7. Size \in Nat
  BY <1>1, ProductBounds DEF Size, Dims
<1>8. PICK f \in Nat : f = Filled(h[n])
  BY <1>3, <1>6
<1>9. ASSUME NEW p \in 0 .. n
      PROVE  Filled(h[p]) <= Size
  <2>1. PICK x \in Nat : x = Filled(h[p])
    BY <1>6
  <2>2. x <= f /\ f <= Size
    BY <1>4, <1>5, <1>8, <2>1
  <2> QED
    BY <1>7, <2>1, <2>2
<1>10. ASSUME pos <= n
       PROVE  /\ pos \in DOMAIN tokens /\ tokens[pos] \in Tokens
              /\ IsOpen(h[pos]) /\ Moves(tokens, want, h[pos - 1], pos, h[pos])
              /\ Filled(h[pos]) \in Nat /\ Filled(h[pos]) <= Size
  <2>1. pos \in 1 .. n /\ pos \in 0 .. n
    BY <1>1, <1>2, <1>3, <1>10
  <2>2. pos \in DOMAIN tokens /\ tokens[pos] \in Tokens
    BY <1>1, <1>2, <2>1
  <2>3. Moves(tokens, want, h[pos - 1], pos, h[pos])
    BY <1>2, <1>4, <2>1 DEF Walk
  <2> QED
    BY <1>5, <1>6, <1>9, <2>1, <2>2, <2>3
<1> QED
  BY <1>1, <1>2, <1>3, <1>5, <1>6, <1>7, <1>9, <1>10

LEMMA StillComplete ==
  ASSUME NEW h, Complete(h), UNCHANGED << shape, tokens, want >>
  PROVE  Complete(h)'
BY DEF Complete, Walk, IsOpen, Elements, Size

\* A step of the translator leads from h[pos - 1] to h[pos].
LEMMA LocalGoes ==
  ASSUME TypeInv, NEW h, Complete(h), ~global, stage = "translate", Goes,
         LocalInv(open', memory', h[pos])
  PROVE  TransInv'
<1>1. UNCHANGED << shape, global, tokens, stage, want >> /\ pos' = pos + 1 /\ pos \in Int
  BY DEF Goes, TypeInv
<1>2. Complete(h)'
  BY <1>1, StillComplete
<1>3. pos' - 1 = pos
  BY <1>1
<1>4. LocalInv(open, memory, h[pos - 1])'
  BY <1>1, <1>3 DEF LocalInv, LocalTypes, SameCounts, NoGaps, SameElements, Holds
<1>5. Translating'
  BY <1>1, <1>2, <1>4 DEF Translating
<1> QED
  BY <1>1, <1>5 DEF TransInv

LEMMA DataGoes ==
  ASSUME TypeInv, NEW h, Complete(h), global, stage = "translate", Goes,
         DataInv(open', memory', h[pos])
  PROVE  TransInv'
<1>1. UNCHANGED << shape, global, tokens, stage, want >> /\ pos' = pos + 1 /\ pos \in Int
  BY DEF Goes, TypeInv
<1>2. Complete(h)'
  BY <1>1, StillComplete
<1>3. pos' - 1 = pos
  BY <1>1
<1>4. DataInv(open, memory, h[pos - 1])'
  BY <1>1, <1>3 DEF DataInv, DataInside, DataSame, SameElements, Holds
<1>5. Translating'
  BY <1>1, <1>2, <1>4 DEF Translating
<1> QED
  BY <1>1, <1>5 DEF TransInv

LEMMA StoreElementStep ==
  ASSUME TypeInv, TransInv, NEW kind \in Kinds, StoreElement(kind)
  PROVE  TransInv'
<1>1. ~global /\ stage = "translate" /\ pos <= Len(tokens) /\ tokens[pos] = kind /\ Goes
  BY DEF StoreElement, At
<1>2. PICK h : Complete(h) /\ LocalInv(open, memory, h[pos - 1])
  BY <1>1 DEF TransInv, Translating
<1>3. PICK a, b : a = h[pos - 1] /\ b = h[pos]
  OBVIOUS
<1>4. /\ shape \in Dims /\ IsOpen(a) /\ IsOpen(b) /\ Moves(tokens, want, a, pos, b)
  BY <1>1, <1>2, <1>3, WalkAt
<1>5. b = Fill(a, 1) /\ Filled(b) = Filled(a) + 1 /\ want[Filled(b)] = pos
  BY <1>1, <1>4 DEF Moves
<1>6. /\ LocalTypes(open, a)
      /\ Holds({"const", "lval"}) => SameCounts(open, memory, a)
      /\ Len(shape) <= 2 => NoGaps(open, memory, a)
      /\ Len(shape) <= 2 /\ Holds({"const", "lval"}) => SameElements(memory, a)
  BY <1>2, <1>3 DEF LocalInv
<1>7. CASE InDropped
  <2>1. open' = open /\ memory' = memory /\ Last(open) = Dropped
    BY <1>7 DEF StoreElement, InDropped, Top
  <2>2. ~Holds({"const", "lval"})
    BY <1>4, <1>6, <2>1, CountsNotDropped
  <2>3. LocalTypes(open, b) /\ (Len(shape) <= 2 => NoGaps(open, memory, b))
    BY <1>4, <1>5, <1>6, ElementSkipped
  <2>4. LocalInv(open', memory', b)
    BY <2>1, <2>2, <2>3 DEF LocalInv
  <2> QED
    BY <1>1, <1>2, <1>3, <2>4, LocalGoes
<1>8. CASE ~InDropped
  <2>1. /\ Last(open) # Dropped /\ open' = Fill(open, 1)
        /\ memory' = With(memory, Last(open).offset + Last(open).filled + 1, pos)
    BY <1>8 DEF StoreElement, InDropped, Top
  <2>2. /\ LocalTypes(open', b)
        /\ SameCounts(open, memory, a) => SameCounts(open', memory', b)
        /\ Len(shape) <= 2 /\ NoGaps(open, memory, a) =>
             /\ NoGaps(open', memory', b)
             /\ SameCounts(open, memory, a) /\ SameElements(memory, a) => SameElements(memory', b)
    <3>1. PICK lists, mem, after, stored :
            lists = open /\ mem = memory /\ after = open' /\ stored = memory'
      OBVIOUS
    <3>2. /\ Last(lists) # Dropped /\ after = Fill(lists, 1)
          /\ stored = With(mem, Last(lists).offset + Last(lists).filled + 1, pos)
      BY <2>1, <3>1
    <3>3. LocalTypes(lists, a)
      BY <1>6, <3>1
    <3>4. LocalTypes(after, b)
      BY <1>4, <1>5, <3>2, <3>3, ElementStored
    <3>5. SameCounts(lists, mem, a) => SameCounts(after, stored, b)
      BY <1>4, <1>5, <3>2, <3>3, ElementStored
    <3>6. Len(shape) <= 2 /\ NoGaps(lists, mem, a) => NoGaps(after, stored, b)
      BY <1>4, <1>5, <3>2, <3>3, ElementStored
    <3>7. Len(shape) <= 2 /\ NoGaps(lists, mem, a) /\ SameCounts(lists, mem, a) /\ SameElements(mem, a)
            => SameElements(stored, b)
      BY <1>4, <1>5, <3>2, <3>3, ElementStored
    <3> QED
      BY <3>1, <3>4, <3>5, <3>6, <3>7
  <2>3. LocalInv(open', memory', b)
    BY <1>6, <2>2 DEF LocalInv
  <2> QED
    BY <1>1, <1>2, <1>3, <2>3, LocalGoes
<1> QED
  BY <1>7, <1>8

LEMMA SkipElementStep ==
  ASSUME TypeInv, TransInv, SkipElement
  PROVE  TransInv'
<1>1. /\ ~global /\ stage = "translate" /\ pos <= Len(tokens) /\ tokens[pos] = "exp" /\ Goes
      /\ open' = open /\ memory' = memory
  BY DEF SkipElement, At
<1>2. PICK h : Complete(h) /\ LocalInv(open, memory, h[pos - 1])
  BY <1>1 DEF TransInv, Translating
<1>3. PICK a, b : a = h[pos - 1] /\ b = h[pos]
  OBVIOUS
<1>4. /\ shape \in Dims /\ IsOpen(a) /\ IsOpen(b) /\ Moves(tokens, want, a, pos, b)
      /\ pos \in DOMAIN tokens /\ tokens[pos] \in Tokens
  BY <1>1, <1>2, <1>3, WalkAt
<1>5. tokens[pos] \in Kinds
  <2>1. tokens[pos] # "{" /\ tokens[pos] # "}"
    BY <1>1
  <2> QED
    BY <1>4, <2>1, TokenKinds
<1>6. b = Fill(a, 1)
  BY <1>4, <1>5 DEF Moves
<1>7. ~Holds({"const", "lval"})
  <2>1. tokens[pos] \notin {"const", "lval"}
    BY <1>1
  <2> QED
    BY <1>4, <1>5, <2>1, KindHeld
<1>8. LocalTypes(open, a) /\ (Len(shape) <= 2 => NoGaps(open, memory, a))
  BY <1>2, <1>3 DEF LocalInv
<1>9. LocalTypes(open, b) /\ (Len(shape) <= 2 => NoGaps(open, memory, b))
  BY <1>4, <1>6, <1>8, ElementSkipped
<1>10. LocalInv(open', memory', b)
  BY <1>1, <1>7, <1>9 DEF LocalInv
<1> QED
  BY <1>1, <1>2, <1>3, <1>10, LocalGoes

LEMMA StoreOpenStep ==
  ASSUME TypeInv, TransInv, StoreOpen
  PROVE  TransInv'
<1>1. PICK part : part = SubArray(Last(open).dims, Last(open).filled)
  OBVIOUS
<1>2. /\ ~global /\ stage = "translate" /\ pos <= Len(tokens) /\ tokens[pos] = "{" /\ Goes
      /\ open' = Append(open, IF part = << >> THEN Dropped ELSE Stored(part, Last(open).filled))
      /\ memory' = memory
  BY <1>1 DEF StoreOpen, At, Top
<1>3. PICK h : Complete(h) /\ LocalInv(open, memory, h[pos - 1])
  BY <1>2 DEF TransInv, Translating
<1>4. PICK a, b : a = h[pos - 1] /\ b = h[pos]
  OBVIOUS
<1>5. /\ shape \in Dims /\ IsOpen(a) /\ IsOpen(b) /\ Moves(tokens, want, a, pos, b)
  BY <1>2, <1>3, <1>4, WalkAt
<1>6. PICK sub : sub = SubArray(Last(a).dims, Last(a).filled)
  OBVIOUS
<1>7. sub # << >> /\ b = Append(a, List(sub, Filled(a))) /\ Filled(b) = Filled(a)
  BY <1>2, <1>5, <1>6 DEF Moves
<1>8. /\ LocalTypes(open, a)
      /\ Holds({"const", "lval"}) => SameCounts(open, memory, a)
      /\ Len(shape) <= 2 => NoGaps(open, memory, a)
      /\ Len(shape) <= 2 /\ Holds({"const", "lval"}) => SameElements(memory, a)
  BY <1>3, <1>4 DEF LocalInv
<1>9. /\ LocalTypes(open', b)
      /\ SameCounts(open, memory, a) => SameCounts(open', memory, b)
      /\ Len(shape) <= 2 /\ NoGaps(open, memory, a) => NoGaps(open', memory, b)
      /\ SameElements(memory, a) => SameElements(memory, b)
  <2>1. PICK lists, mem, after : lists = open /\ mem = memory /\ after = open'
    OBVIOUS
  <2>2. /\ part = SubArray(Last(lists).dims, Last(lists).filled)
        /\ after = Opened(lists, part)
    BY <1>1, <1>2, <2>1 DEF Opened
  <2>3. LocalTypes(lists, a) /\ Entered(a, sub, b)
    BY <1>6, <1>7, <1>8, <2>1 DEF Entered
  <2>4. sub # << >>
    BY <1>7
  <2>5. SameCounts(lists, mem, a) => SameCounts(after, mem, b)
    BY <1>5, <2>2, <2>3, <2>4, ListOpened
  <2>6. Len(shape) <= 2 /\ NoGaps(lists, mem, a) => NoGaps(after, mem, b)
    BY <1>5, <2>2, <2>3, ListOpened
  <2>7. SameElements(mem, a) => SameElements(mem, b)
    BY <1>5, <2>2, <2>3, ListOpened
  <2>8. LocalTypes(after, b)
    <3>1. shape \in Dims /\ IsOpen(a) /\ IsOpen(b)
      BY <1>5
    <3> QED
      BY <2>2, <2>3, <3>1, ListOpened, ZenonT(30)
  <2> QED
    BY <2>1, <2>5, <2>6, <2>7, <2>8
<1>10. LocalInv(open', memory', b)
  BY <1>2, <1>8, <1>9 DEF LocalInv
<1> QED
  BY <1>2, <1>3, <1>4, <1>10, LocalGoes

LEMMA StoreCloseStep ==
  ASSUME TypeInv, TransInv, StoreClose
  PROVE  TransInv'
<1>1. ~global /\ stage = "translate" /\ pos <= Len(tokens) /\ tokens[pos] = "}" /\ Goes
  BY DEF StoreClose, At
<1>2. PICK h : Complete(h) /\ LocalInv(open, memory, h[pos - 1])
  BY <1>1 DEF TransInv, Translating
<1>3. PICK a, b : a = h[pos - 1] /\ b = h[pos]
  OBVIOUS
<1>4. /\ shape \in Dims /\ IsOpen(a) /\ IsOpen(b) /\ Moves(tokens, want, a, pos, b)
      /\ Filled(b) <= Size /\ Filled(b) \in Nat /\ Size \in Nat
  BY <1>1, <1>2, <1>3, WalkAt
<1>5. /\ Len(a) > 1 /\ b = Fill(Front(a), Product(Last(a).dims))
      /\ Filled(b) = Last(a).start + Product(Last(a).dims)
      /\ \A i \in DOMAIN want : i > Filled(a) /\ i <= Filled(b) => want[i] = 0
  BY <1>1, <1>4 DEF Moves
<1>6. \A i \in 1 .. Filled(b) : i > Filled(a) => want[i] = 0
  <2>1. PICK f \in Nat : f = Filled(b)
    BY <1>4
  <2>2. \A i \in 1 .. f : i \in 1 .. Size /\ i <= f
    BY <1>4, <2>1
  <2>3. DOMAIN want = 1 .. Size
    BY <1>2 DEF Complete, Elements
  <2> QED
    BY <1>5, <2>1, <2>2, <2>3
<1>7. /\ LocalTypes(open, a)
      /\ Holds({"const", "lval"}) => SameCounts(open, memory, a)
      /\ Len(shape) <= 2 => NoGaps(open, memory, a)
      /\ Len(shape) <= 2 /\ Holds({"const", "lval"}) => SameElements(memory, a)
  BY <1>2, <1>3 DEF LocalInv
<1>8. CASE InDropped
  <2>1. open' = Front(open) /\ memory' = memory /\ Last(open) = Dropped
    BY <1>8 DEF StoreClose, InDropped, Top
  <2>2. /\ LocalTypes(open', b) /\ ~SameCounts(open, memory, a)
        /\ Len(shape) <= 2 /\ NoGaps(open, memory, a) => NoGaps(open', memory, b)
    BY <1>4, <1>5, <1>7, <2>1, ListDropped
  <2>3. LocalInv(open', memory', b)
    BY <1>7, <2>1, <2>2 DEF LocalInv
  <2> QED
    BY <1>1, <1>2, <1>3, <2>3, LocalGoes
<1>9. CASE ~InDropped
  <2>1. PICK t : t = Last(open)
    OBVIOUS
  <2>2. /\ t # Dropped /\ open' = Fill(Front(open), Product(t.dims))
        /\ memory' = Zeroed(memory, t.offset + t.filled, t.offset + Product(t.dims))
    BY <1>9, <2>1 DEF StoreClose, InDropped, Top, ZeroFilled, Zeroed
  <2>3. /\ LocalTypes(open', b)
        /\ SameCounts(open, memory, a) => SameCounts(open', memory', b)
        /\ Len(shape) <= 2 /\ NoGaps(open, memory, a) =>
             /\ NoGaps(open', memory', b)
             /\ SameCounts(open, memory, a) /\ SameElements(memory, a) => SameElements(memory', b)
    BY <1>4, <1>5, <1>6, <1>7, <2>1, <2>2, ListStored
  <2>4. LocalInv(open', memory', b)
    BY <1>7, <2>3 DEF LocalInv
  <2> QED
    BY <1>1, <1>2, <1>3, <2>4, LocalGoes
<1> QED
  BY <1>8, <1>9

LEMMA StoreEndStep ==
  ASSUME TypeInv, TransInv, StoreEnd
  PROVE  TransInv'
<1>1. /\ ~global /\ stage = "translate" /\ pos > Len(tokens) /\ stage' = "done"
      /\ UNCHANGED << shape, global, tokens, want >>
  BY DEF StoreEnd
<1>2. PICK h : Complete(h) /\ LocalInv(open, memory, h[pos - 1])
  BY <1>1 DEF TransInv, Translating
<1>3. pos - 1 = Len(tokens)
  BY <1>1 DEF TypeInv
<1>4. PICK a : a = h[pos - 1]
  OBVIOUS
<1>5. /\ shape \in Dims /\ IsOpen(a) /\ Filled(a) \in Nat /\ Filled(a) <= Size /\ Size \in Nat
  BY <1>2, <1>4, WalkAt
<1>6. Len(a) = 1 /\ want \in [Elements -> Nat] /\ \A i \in Elements : i > Filled(a) => want[i] = 0
  BY <1>2, <1>3, <1>4 DEF Complete
<1>7. /\ LocalTypes(open, a)
      /\ Holds({"const", "lval"}) => SameCounts(open, memory, a)
      /\ Len(shape) <= 2 => NoGaps(open, memory, a)
      /\ Len(shape) <= 2 /\ Holds({"const", "lval"}) => SameElements(memory, a)
  BY <1>2, <1>4 DEF LocalInv
<1>8. PICK m : m = Last(open).filled
  OBVIOUS
<1>9. /\ Last(open) = open[1] /\ Last(open) # Dropped /\ m \in Nat
      /\ Last(open).dims = shape /\ Last(open).offset = 0
  BY <1>5, <1>6, <1>7, <1>8, StoredTop DEF LocalTypes
<1>10. memory' = Zeroed(memory, m, Size)
  <2>1. memory' = Zeroed(memory, Last(open).offset + Last(open).filled,
                         Last(open).offset + Product(Last(open).dims))
    BY DEF StoreEnd, ZeroFilled, Zeroed, Top
  <2>2. 0 + m = m /\ 0 + Size = Size
    BY <1>5, <1>9
  <2> QED
    BY <1>8, <1>9, <2>1, <2>2 DEF Size
<1>11. Holds({"const", "lval"}) => DOMAIN memory' \subseteq 1 .. Size
  <2> SUFFICES ASSUME Holds({"const", "lval"}) PROVE DOMAIN memory' \subseteq 1 .. Size
    OBVIOUS
  <2>1. DOMAIN memory \subseteq 1 .. Filled(a)
    BY <1>7 DEF SameCounts
  <2>2. DOMAIN memory \subseteq 1 .. Size
    BY <1>5, <2>1
  <2>3. Size <= Size
    BY <1>5
  <2> QED
    BY <1>5, <1>9, <1>10, <2>2, <2>3, ZerosAdded
<1>12. ASSUME Len(shape) <= 2
       PROVE  /\ DOMAIN memory' = 1 .. Size
              /\ Holds({"const", "lval"}) => \A i \in 1 .. Size : memory'[i] = want[i]
  <2>1. StoredTo(open) = m /\ DOMAIN memory = 1 .. m
    <3>1. Len(open) = 1
      BY <1>6, <1>7 DEF LocalTypes
    <3>2. StoredTo(open) = m
      BY <1>8, <1>9, <3>1 DEF StoredTo
    <3> QED
      BY <1>7, <1>12, <3>2 DEF NoGaps
  <2>2. m <= Size
    <3>1. StoredTo(open) <= Filled(a)
      BY <1>5, <1>7, <1>12, ShortTop
    <3> QED
      BY <1>5, <1>9, <2>1, <3>1
  <2>3. /\ DOMAIN memory' = 1 .. Size
        /\ \A i \in 1 .. m : memory'[i] = memory[i]
        /\ \A i \in 1 .. Size : i > m => memory'[i] = 0
    <3>1. PICK mem, size : mem = memory /\ size = Size
      OBVIOUS
    <3>2. m \in Nat /\ size \in Nat /\ m <= size /\ DOMAIN mem = 1 .. m
      BY <1>5, <1>9, <2>1, <2>2, <3>1
    <3>3. DOMAIN Zeroed(mem, m, size) = 1 .. size
      BY <3>2, ZerosBehind
    <3>4. \A i \in 1 .. m : Zeroed(mem, m, size)[i] = mem[i]
      BY <3>2, ZerosBehind
    <3>5. \A i \in 1 .. size : i > m => Zeroed(mem, m, size)[i] = 0
      BY <3>2, ZerosBehind
    <3> QED
      BY <1>10, <3>1, <3>3, <3>4, <3>5
  <2>4. ASSUME Holds({"const", "lval"})
        PROVE  \A i \in 1 .. Size : memory'[i] = want[i]
    <3>1. m = Filled(a)
      BY <1>5, <1>7, <1>12, <2>1, <2>4, ShortTop
    <3>2. \A i \in 1 .. m : memory[i] = want[i]
      BY <1>7, <1>12, <2>4, <3>1 DEF SameElements
    <3>3. \A i \in 1 .. Size : i > m => want[i] = 0
      BY <1>6, <3>1 DEF Elements
    <3>4. \A i \in 1 .. Size : i \in 1 .. m \/ i > m
      BY <1>9
    <3> QED
      BY <2>3, <3>2, <3>3, <3>4
  <2> QED
    BY <2>3, <2>4
<1>13. Supported => memory' = want
  <2> SUFFICES ASSUME Supported PROVE memory' = want
    OBVIOUS
  <2>1. Len(shape) <= 2 /\ Holds({"const", "lval"})
    BY <1>1, SupportedIs
  <2>2. DOMAIN memory' = 1 .. Size /\ \A i \in 1 .. Size : memory'[i] = want[i]
    BY <1>12, <2>1
  <2>3. memory' = [i \in DOMAIN memory' |-> memory'[i]]
    BY <1>10 DEF Zeroed
  <2>4. want = [i \in 1 .. Size |-> want[i]]
    BY <1>6 DEF Elements
  <2> QED
    BY <2>2, <2>3, <2>4
<1>14. EndsWell'
  BY <1>1, <1>11, <1>12, <1>13 DEF EndsWell, Elements, Size, Holds, Supported
<1> QED
  BY <1>1, <1>14 DEF TransInv

LEMMA DataElementStep ==
  ASSUME TypeInv, TransInv, NEW kind \in Kinds, DataElement(kind)
  PROVE  TransInv'
<1>1. global /\ stage = "translate" /\ pos <= Len(tokens) /\ tokens[pos] = kind
  BY DEF DataElement, At
<1>2. PICK h : Complete(h) /\ DataInv(open, memory, h[pos - 1])
  BY <1>1 DEF TransInv, Translating
<1>3. PICK a, b : a = h[pos - 1] /\ b = h[pos]
  OBVIOUS
<1>4. /\ shape \in Dims /\ IsOpen(a) /\ IsOpen(b) /\ Moves(tokens, want, a, pos, b)
      /\ pos \in DOMAIN tokens
  BY <1>1, <1>2, <1>3, WalkAt
<1>5. b = Fill(a, 1) /\ Filled(b) = Filled(a) + 1 /\ want[Filled(b)] = pos
  BY <1>1, <1>4 DEF Moves
<1>6. /\ DataInside(open, memory, a)
      /\ Len(shape) <= 2 /\ Holds({"const"}) => DataSame(open, memory, a)
  BY <1>2, <1>3 DEF DataInv
<1>7. kind # "const" => ~Holds({"const"})
  BY <1>1, <1>4, KindHeld
<1>8. CASE kind = "const"
  <2>1. /\ memory' = Append(memory, pos) /\ open' = Fill(open, 1) /\ Goes
    BY <1>8 DEF DataElement
  <2>2. pos \in Nat
    BY DEF TypeInv
  <2>3. DataInside(Fill(open, 1), Append(memory, pos), b)
    BY <1>4, <1>5, <1>6, <2>2, DatumAdded
  <2>4. DataSame(open, memory, a) => DataSame(Fill(open, 1), Append(memory, pos), b)
    BY <1>4, <1>5, <1>6, <2>2, DatumAdded
  <2>5. DataInv(open', memory', b)
    BY <1>6, <2>1, <2>3, <2>4 DEF DataInv
  <2> QED
    BY <1>1, <1>2, <1>3, <2>1, <2>5, DataGoes
<1>9. CASE kind # "const" /\ Len(open) = 1
  <2>1. Goes /\ open' = open /\ memory' = memory
    BY <1>9 DEF DataElement
  <2>2. DataInside(open, memory, b)
    BY <1>4, <1>5, <1>6, <1>9, DatumSkipped
  <2>3. DataInv(open', memory', b)
    BY <1>7, <1>9, <2>1, <2>2 DEF DataInv
  <2> QED
    BY <1>1, <1>2, <1>3, <2>1, <2>3, DataGoes
<1>10. CASE kind # "const" /\ Len(open) # 1
  <2>1. stage' = "crashed" /\ UNCHANGED << shape, global, tokens >>
    BY <1>10 DEF DataElement, Crash
  <2>2. ~Supported
    BY <1>1, <1>7, <1>10, SupportedIs
  <2>3. ~Supported'
    BY <2>1, <2>2 DEF Supported, Holds
  <2> QED
    BY <2>1, <2>3 DEF TransInv
<1> QED
  BY <1>8, <1>9, <1>10

LEMMA DataOpenStep ==
  ASSUME TypeInv, TransInv, DataOpen
  PROVE  TransInv'
<1>1. global /\ stage = "translate" /\ pos <= Len(tokens) /\ tokens[pos] = "{"
  BY DEF DataOpen, At
<1>2. PICK h : Complete(h) /\ DataInv(open, memory, h[pos - 1])
  BY <1>1 DEF TransInv, Translating
<1>3. PICK a, b : a = h[pos - 1] /\ b = h[pos]
  OBVIOUS
<1>4. shape \in Dims /\ IsOpen(a) /\ IsOpen(b) /\ Moves(tokens, want, a, pos, b)
  BY <1>1, <1>2, <1>3, WalkAt
<1>5. PICK sub : sub = SubArray(Last(a).dims, Last(a).filled)
  OBVIOUS
<1>6. b = Append(a, List(sub, Filled(a))) /\ Filled(b) = Filled(a)
  BY <1>1, <1>4, <1>5 DEF Moves
<1>7. /\ DataInside(open, memory, a)
      /\ Len(shape) <= 2 /\ Holds({"const"}) => DataSame(open, memory, a)
  BY <1>2, <1>3 DEF DataInv
<1>8. CASE Len(open) = 1
  <2>1. /\ open' = Append(open, Stored(<< Last(shape) >>, 0)) /\ Goes /\ memory' = memory
    BY <1>8 DEF DataOpen
  <2>2. PICK lists, mem, after : lists = open /\ mem = memory /\ after = open'
    OBVIOUS
  <2>3. after = Append(lists, Stored(<< Last(shape) >>, 0)) /\ DataInside(lists, mem, a) /\ Len(lists) = 1
    BY <1>7, <1>8, <2>1, <2>2
  <2>4. DataInside(after, mem, b)
    <3>1. shape \in Dims /\ IsOpen(a) /\ DataEnters(lists, after, a, sub, b)
      BY <1>4, <1>6, <2>3 DEF DataEnters
    <3> QED
      BY <2>3, <3>1, DataOpened
  <2>5. DataSame(lists, mem, a) => DataSame(after, mem, b)
    <3>1. shape \in Dims /\ IsOpen(a) /\ DataEnters(lists, after, a, sub, b)
      BY <1>4, <1>6, <2>3 DEF DataEnters
    <3> QED
      BY <2>3, <3>1, DataOpened
  <2>6. DataInv(open', memory', b)
    BY <1>7, <2>1, <2>2, <2>4, <2>5 DEF DataInv
  <2> QED
    BY <1>1, <1>2, <1>3, <2>1, <2>6, DataGoes
<1>9. CASE Len(open) # 1
  <2>1. stage' = "crashed" /\ UNCHANGED << shape, global, tokens >>
    BY <1>9 DEF DataOpen, Crash
  <2>2. ~(Len(shape) <= 2)
    <3> SUFFICES ASSUME Len(shape) <= 2 PROVE FALSE
      OBVIOUS
    <3>1. Len(a) = 2
      BY <1>7, <1>9 DEF DataInside
    <3>2. a \in Seq(ListSet)
      BY <1>4 DEF IsOpen
    <3>3. Len(b) = Len(a) + 1
      BY <1>6, <3>2, AppendedAny
    <3>4. Len(b) = 1 \/ Len(b) = 2
      BY <1>4, ShortOpen
    <3> QED
      BY <3>1, <3>3, <3>4
  <2>3. ~Supported'
    BY <2>1, <2>2 DEF Supported
  <2> QED
    BY <2>1, <2>3 DEF TransInv
<1> QED
  BY <1>8, <1>9

LEMMA DataCloseStep ==
  ASSUME TypeInv, TransInv, DataClose
  PROVE  TransInv'
<1>1. /\ global /\ stage = "translate" /\ pos <= Len(tokens) /\ tokens[pos] = "}" /\ Goes
      /\ memory' = memory \o [i \in 1 .. Last(shape) - Last(open).filled |-> 0]
      /\ open' = Front(open)
  BY DEF DataClose, At, Top
<1>2. PICK h : Complete(h) /\ DataInv(open, memory, h[pos - 1])
  BY <1>1 DEF TransInv, Translating
<1>3. PICK a, b : a = h[pos - 1] /\ b = h[pos]
  OBVIOUS
<1>4. /\ shape \in Dims /\ IsOpen(a) /\ IsOpen(b) /\ Moves(tokens, want, a, pos, b)
      /\ Filled(b) <= Size /\ Filled(b) \in Nat /\ Size \in Nat
  BY <1>1, <1>2, <1>3, WalkAt
<1>5. /\ Len(a) > 1 /\ b = Fill(Front(a), Product(Last(a).dims))
      /\ Filled(b) = Last(a).start + Product(Last(a).dims)
      /\ \A i \in DOMAIN want : i > Filled(a) /\ i <= Filled(b) => want[i] = 0
  BY <1>1, <1>4 DEF Moves
<1>6. \A i \in 1 .. Filled(b) : i > Filled(a) => want[i] = 0
  <2>1. PICK f \in Nat : f = Filled(b)
    BY <1>4
  <2>2. \A i \in 1 .. f : i \in 1 .. Size /\ i <= f
    BY <1>4, <2>1
  <2>3. DOMAIN want = 1 .. Size
    BY <1>2 DEF Complete, Elements
  <2> QED
    BY <1>5, <2>1, <2>2, <2>3
<1>7. /\ DataInside(open, memory, a)
      /\ Len(shape) <= 2 /\ Holds({"const"}) => DataSame(open, memory, a)
  BY <1>2, <1>3 DEF DataInv
<1>8. PICK lists, mem, after, data :
        lists = open /\ mem = memory /\ after = open' /\ data = memory'
  OBVIOUS
<1>9. /\ after = Front(lists) /\ DataInside(lists, mem, a)
      /\ data = mem \o [i \in 1 .. Last(shape) - Last(lists).filled |-> 0]
  BY <1>1, <1>7, <1>8
<1>10. DataLeaves(lists, mem, after, data, a, b)
  BY <1>4, <1>5, <1>9 DEF DataLeaves
<1>11. /\ DataInside(after, data, b)
       /\ Len(shape) <= 2 /\ DataSame(lists, mem, a) => DataSame(after, data, b)
  <2>1. shape \in Dims /\ IsOpen(a)
    BY <1>4
  <2>2. DataInside(after, data, b)
    BY <1>9, <1>10, <2>1, DataClosed
  <2>3. ASSUME Len(shape) <= 2, DataSame(lists, mem, a)
        PROVE  DataSame(after, data, b)
    BY <1>6, <1>9, <1>10, <2>1, <2>3, DataClosed
  <2> QED
    BY <2>2, <2>3
<1>12. DataInv(open', memory', b)
  BY <1>7, <1>8, <1>11 DEF DataInv
<1> QED
  BY <1>1, <1>2, <1>3, <1>12, DataGoes

LEMMA DataEndStep ==
  ASSUME TypeInv, TransInv, DataEnd
  PROVE  TransInv'
<1>1. /\ global /\ stage = "translate" /\ pos > Len(tokens) /\ stage' = "done"
      /\ memory' = [i \in 1 .. Size |-> IF i <= Len(memory) THEN memory[i] ELSE 0]
      /\ UNCHANGED << shape, global, tokens, want >>
  BY DEF DataEnd
<1>2. PICK h : Complete(h) /\ DataInv(open, memory, h[pos - 1])
  BY <1>1 DEF TransInv, Translating
<1>3. pos - 1 = Len(tokens)
  BY <1>1 DEF TypeInv
<1>4. PICK a : a = h[pos - 1]
  OBVIOUS
<1>5. /\ shape \in Dims /\ IsOpen(a) /\ Filled(a) \in Nat /\ Filled(a) <= Size /\ Size \in Nat
  BY <1>2, <1>4, WalkAt
<1>6. want \in [Elements -> Nat] /\ \A i \in Elements : i > Filled(a) => want[i] = 0
  BY <1>2, <1>3, <1>4 DEF Complete
<1>7. DOMAIN memory' = 1 .. Size
  BY <1>1
<1>8. Supported => memory' = want
  <2> SUFFICES ASSUME Supported PROVE memory' = want
    OBVIOUS
  <2>1. DataSame(open, memory, a)
    BY <1>1, <1>2, <1>4, SupportedIs DEF DataInv
  <2>2. PICK m : m = Len(memory)
    OBVIOUS
  <2>3. m = Filled(a) /\ \A i \in 1 .. m : memory[i] = want[i]
    BY <2>1, <2>2 DEF DataSame, SameElements
  <2>4. m \in Nat /\ \A i \in 1 .. Size : i > m => want[i] = 0
    BY <1>5, <1>6, <2>3 DEF Elements
  <2>5. ASSUME NEW i \in 1 .. Size
        PROVE  memory'[i] = want[i]
    <3>1. memory'[i] = IF i <= m THEN memory[i] ELSE 0
      BY <1>1, <2>2, <2>5
    <3>2. CASE i <= m
      <4>1. i \in 1 .. m
        BY <2>4, <3>2
      <4> QED
        BY <2>3, <3>1, <3>2, <4>1
    <3>3. CASE ~(i <= m)
      <4>1. i > m
        BY <2>4, <3>3
      <4> QED
        BY <2>4, <3>1, <3>3, <4>1
    <3> QED
      BY <3>2, <3>3
  <2>6. memory' = [i \in 1 .. Size |-> memory'[i]]
    BY <1>1
  <2>7. want = [i \in 1 .. Size |-> want[i]]
    BY <1>6 DEF Elements
  <2> QED
    BY <2>5, <2>6, <2>7
<1>9. EndsWell'
  BY <1>1, <1>7, <1>8 DEF EndsWell, Elements, Size, Holds, Supported
<1> QED
  BY <1>1, <1>9 DEF TransInv

\* When the translation begins, nothing is stored.
LEMMA TranslationBegins ==
  ASSUME TypeInv, OrderInv, CheckInv, CheckEnd
  PROVE  TransInv'
<1>1. /\ stage = "check" /\ stage' = "translate" /\ open' = << Stored(shape, 0) >>
      /\ UNCHANGED << shape, global, tokens, pos, memory, want >>
  BY DEF CheckEnd
<1>2. pos = 1 /\ memory = << >> /\ shape \in Dims
  BY <1>1, ShapeDims DEF CheckInv, TypeInv
<1>3. PICK h : Complete(h)
  BY CheckAccepts
<1>4. PICK a : a = << List(shape, 0) >>
  OBVIOUS
<1>5. h[0] = a /\ Filled(a) = 0
  BY <1>2, <1>3, <1>4, OneOpen DEF Complete, Walk
<1>6. Len(a) = 1 /\ a[1].dims = shape /\ a[1].filled = 0 /\ a[1].start = 0
  BY <1>4 DEF List
<1>7. PICK lists : lists = << Stored(shape, 0) >>
  OBVIOUS
<1>8. /\ Len(lists) = 1 /\ lists[1].dims = shape /\ lists[1].filled = 0 /\ lists[1].offset = 0
      /\ lists \in Seq(StoredSet)
  <2>1. PICK s : s = Stored(shape, 0)
    OBVIOUS
  <2>2. s \in StoredSet /\ s.dims = shape /\ s.filled = 0 /\ s.offset = 0
    BY <1>2, <2>1 DEF Stored, StoredSet, Dims
  <2> QED
    BY <1>7, <2>1, <2>2
<1>9. DOMAIN memory = {} /\ 1 .. 0 = {}
  BY <1>2
<1>10. LocalInv(lists, memory, a)
  <2>1. LocalTypes(lists, a)
    BY <1>6, <1>8 DEF LocalTypes
  <2>2. SameCounts(lists, memory, a)
    BY <1>6, <1>8, <1>9 DEF SameCounts
  <2>3. StoredTo(lists) = 0
    BY <1>8 DEF StoredTo
  <2>4. NoGaps(lists, memory, a)
    BY <1>6, <1>8, <1>9, <2>3 DEF NoGaps
  <2>5. SameElements(memory, a)
    BY <1>5, <1>9 DEF SameElements
  <2> QED
    BY <2>1, <2>2, <2>4, <2>5 DEF LocalInv
<1>11. DataInv(lists, memory, a)
  <2>1. memory \in Seq(Nat) /\ Len(memory) = 0
    BY <1>2
  <2>2. DataInside(lists, memory, a)
    BY <1>5, <1>6, <1>8, <2>1 DEF DataInside
  <2>3. SameElements(memory, a)
    BY <1>5, <1>9 DEF SameElements
  <2>4. DataSame(lists, memory, a)
    BY <1>5, <1>6, <2>1, <2>3 DEF DataSame
  <2> QED
    BY <2>2, <2>4 DEF DataInv
<1>12. Complete(h)'
  BY <1>1, <1>3, StillComplete
<1>13. LocalInv(open, memory, a)'
  BY <1>1, <1>7, <1>10 DEF LocalInv, LocalTypes, SameCounts, NoGaps, SameElements, Holds
<1>14. DataInv(open, memory, a)'
  BY <1>1, <1>7, <1>11 DEF DataInv, DataInside, DataSame, SameElements, Holds
<1>15. pos' - 1 = 0
  BY <1>1, <1>2
<1>16. Translating'
  BY <1>5, <1>12, <1>13, <1>14, <1>15 DEF Translating
<1> QED
  BY <1>1, <1>16 DEF TransInv

LEMMA TransKept ==
  ASSUME TypeInv, TransInv, TranslateLocal \/ TranslateGlobal
  PROVE  TransInv'
<1>1. CASE TranslateLocal
  <2>1. \/ \E kind \in Kinds : StoreElement(kind)
        \/ SkipElement \/ StoreOpen \/ StoreClose \/ StoreEnd
    BY <1>1 DEF TranslateLocal
  <2>2. CASE \E kind \in Kinds : StoreElement(kind)
    BY <2>2, StoreElementStep
  <2>3. CASE SkipElement
    BY <2>3, SkipElementStep
  <2>4. CASE StoreOpen
    BY <2>4, StoreOpenStep
  <2>5. CASE StoreClose
    BY <2>5, StoreCloseStep
  <2>6. CASE StoreEnd
    BY <2>6, StoreEndStep
  <2> QED
    BY <2>1, <2>2, <2>3, <2>4, <2>5, <2>6
<1>2. CASE TranslateGlobal
  <2>1. \/ \E kind \in Kinds : DataElement(kind)
        \/ DataOpen \/ DataClose \/ DataEnd
    BY <1>2 DEF TranslateGlobal
  <2>2. CASE \E kind \in Kinds : DataElement(kind)
    BY <2>2, DataElementStep
  <2>3. CASE DataOpen
    BY <2>3, DataOpenStep
  <2>4. CASE DataClose
    BY <2>4, DataCloseStep
  <2>5. CASE DataEnd
    BY <2>5, DataEndStep
  <2> QED
    BY <2>1, <2>2, <2>3, <2>4, <2>5
<1> QED
  BY <1>1, <1>2

LEMMA TransStep ==
  ASSUME TypeInv, OrderInv, CheckInv, TransInv, [Next]_vars
  PROVE  TransInv'
<1>1. CASE CheckEnd
  BY <1>1, TranslationBegins
<1>2. CASE CheckOpen \/ CheckClose \/ \E kind \in Kinds : CheckElement(kind)
  <2>1. stage' = "check" \/ stage' = "rejected"
    BY <1>2 DEF CheckOpen, CheckClose, CheckElement, Reads
  <2> QED
    BY <2>1 DEF TransInv
<1>3. CASE TranslateLocal \/ TranslateGlobal
  BY <1>3, TransKept
<1>4. CASE UNCHANGED vars
  <2>1. /\ shape' = shape /\ global' = global /\ tokens' = tokens /\ stage' = stage
        /\ open' = open /\ pos' = pos /\ memory' = memory /\ want' = want
    BY <1>4 DEF vars
  <2>2. ASSUME stage = "translate"
        PROVE  Translating'
    <3>1. PICK h : /\ Complete(h)
                   /\ global => DataInv(open, memory, h[pos - 1])
                   /\ ~global => LocalInv(open, memory, h[pos - 1])
      BY <2>2 DEF TransInv, Translating
    <3>2. Complete(h)'
      BY <2>1, <3>1, StillComplete
    <3>3. global => DataInv(open, memory, h[pos - 1])'
      BY <2>1, <3>1 DEF DataInv, DataInside, DataSame, SameElements, Holds
    <3>4. ~global => LocalInv(open, memory, h[pos - 1])'
      BY <2>1, <3>1 DEF LocalInv, LocalTypes, SameCounts, NoGaps, SameElements, Holds
    <3> QED
      BY <2>1, <3>2, <3>3, <3>4 DEF Translating
  <2>3. EndsWell => EndsWell'
    BY <2>1 DEF EndsWell, Elements, Size, Holds, Supported
  <2>4. Supported' <=> Supported
    BY <2>1 DEF Supported, Holds
  <2> QED
    BY <2>1, <2>2, <2>3, <2>4 DEF TransInv
<1> QED
  BY <1>1, <1>2, <1>3, <1>4 DEF Next, Check

LEMMA TransImplied ==
  ASSUME TypeInv, TransInv
  PROVE  StoresInside /\ NothingUnset /\ TranslatedAsChecked
<1>1. ASSUME stage = "translate", global \/ Len(shape) <= 2 \/ Holds({"const", "lval"})
      PROVE  DOMAIN memory \subseteq Elements
  <2>1. PICK h : /\ Complete(h)
                 /\ global => DataInv(open, memory, h[pos - 1])
                 /\ ~global => LocalInv(open, memory, h[pos - 1])
    BY <1>1 DEF TransInv, Translating
  <2>2. PICK a : a = h[pos - 1]
    OBVIOUS
  <2>3. shape \in Dims /\ IsOpen(a)
    BY <2>1, <2>2, WalkAt
  <2>4. PICK f, size : f = Filled(a) /\ size = Size
    OBVIOUS
  <2>5. f \in Nat /\ size \in Nat /\ f <= size
    BY <2>1, <2>2, <2>4, WalkAt
  <2>6. CASE global
    <3>1. DataInside(open, memory, a)
      BY <2>1, <2>2, <2>6 DEF DataInv
    <3>2. Len(memory) \in Nat /\ Len(memory) <= f
      BY <2>3, <2>4, <3>1, DataTop
    <3>3. DOMAIN memory = 1 .. Len(memory)
      BY <3>1 DEF DataInside
    <3> QED
      BY <2>4, <2>5, <3>2, <3>3 DEF Elements
  <2>7. CASE ~global /\ Holds({"const", "lval"})
    <3>1. DOMAIN memory \subseteq 1 .. f
      BY <2>1, <2>2, <2>4, <2>7 DEF LocalInv, SameCounts
    <3> QED
      BY <2>4, <2>5, <3>1 DEF Elements
  <2>8. CASE ~global /\ Len(shape) <= 2
    <3>1. LocalTypes(open, a) /\ NoGaps(open, memory, a)
      BY <2>1, <2>2, <2>8 DEF LocalInv
    <3>2. PICK s : s = StoredTo(open)
      OBVIOUS
    <3>3. s \in Nat /\ s <= f
      BY <2>3, <2>4, <2>8, <3>1, <3>2, ShortTop
    <3>4. DOMAIN memory = 1 .. s
      BY <3>1, <3>2 DEF NoGaps
    <3> QED
      BY <2>4, <2>5, <3>3, <3>4 DEF Elements
  <2> QED
    BY <1>1, <2>6, <2>7, <2>8
<1>2. ASSUME stage = "done"
      PROVE  EndsWell
  BY <1>2 DEF TransInv
<1>3. StoresInside
  BY <1>1, <1>2 DEF StoresInside, EndsWell
<1>4. NothingUnset
  BY <1>2 DEF NothingUnset, EndsWell
<1>5. TranslatedAsChecked
  BY <1>2 DEF TranslatedAsChecked, EndsWell, TransInv
<1> QED
  BY <1>3, <1>4, <1>5

LEMMA InvsKept == Spec => [](TypeInv /\ OrderInv /\ CheckInv /\ TransInv)
<1>1. Init => OrderInv /\ CheckInv /\ TransInv
  <2> SUFFICES ASSUME Init PROVE OrderInv /\ CheckInv /\ TransInv
    OBVIOUS
  <2>1. OrderInv
    BY OrderInit
  <2>2. CheckInv
    <3>1. pos = 1 /\ memory = << >> /\ want = [i \in DOMAIN want |-> want[i]]
      BY DEF Init
    <3> QED
      BY <3>1, WalkedInit DEF CheckInv
  <2>3. TransInv
    BY DEF Init, TransInv
  <2> QED
    BY <2>1, <2>2, <2>3
<1>2. TypeInv /\ OrderInv /\ CheckInv /\ TransInv /\ [Next]_vars
        => OrderInv' /\ CheckInv' /\ TransInv'
  BY OrderStep, CheckStep, TransStep
<1> QED
  BY <1>1, <1>2, TypesKept, PTL DEF Spec

\* No store of translateInitList leaves the array and no datum of a Global is cut
\* off, for arrays of every shape and initialisers of every length, as far as the
\* property goes: all global arrays, all local ones of one or two dimensions, and
\* those of more that hold nothing but constants and variables.
THEOREM StoresStayInside == Spec => []StoresInside
<1>1. TypeInv /\ TransInv => StoresInside
  BY TransImplied
<1> QED
  BY <1>1, InvsKept, PTL

\* The zeros translateInitList and Global's constructor add leave no element of
\* an initialised array of one or two dimensions unset, whatever its size.
THEOREM NothingStaysUnset == Spec => []NothingUnset
<1>1. TypeInv /\ TransInv => NothingUnset
  BY TransImplied
<1> QED
  BY <1>1, InvsKept, PTL

\* What either translator is able to initialise gets the elements where
\* checkInitList counted them, for arrays of every size.
THEOREM TranslatesAsChecked == Spec => []TranslatedAsChecked
<1>1. TypeInv /\ TransInv => TranslatedAsChecked
  BY TransImplied
<1> QED
  BY <1>1, InvsKept, PTL
=============================================================================
