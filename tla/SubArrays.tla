----------------------------- MODULE SubArrays -----------------------------
(***************************************************************************)
(* The sizes of arrays and of the sub-arrays that nested lists initialise, *)
(* as the type checker and the translator both compute them.               *)
(***************************************************************************)
EXTENDS Integers, SequencesExt

Product(dims) ==
  LET product[n \in 0 .. Len(dims)] == IF n = 0 THEN 1 ELSE product[n - 1] * dims[n]
  IN  product[Len(dims)]

\* The dimensions of the sub-array a nested list initialises: the largest one
\* whose size divides what is filled already; none if there is no such one.
SubArray(dims, filled) ==
  LET fits == {i \in 2 .. Len(dims) :
                 filled % Product(SubSeq(dims, i, Len(dims))) = 0}
  IN  IF fits = {} THEN << >>
      ELSE SubSeq(dims, CHOOSE i \in fits : \A j \in fits : i <= j, Len(dims))
=============================================================================
