----------------------------- MODULE MCInitList -----------------------------
(***************************************************************************)
(* InitList for TLC: arrays of one, two and three dimensions.              *)
(***************************************************************************)
EXTENDS InitList

MCShapes == {<< 3 >>, << 2, 2 >>, << 3, 1 >>, << 2, 2, 2 >>, << 2, 1, 2 >>, << 2, 3, 2 >>}
=============================================================================
