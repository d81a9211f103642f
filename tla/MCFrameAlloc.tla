---------------------------- MODULE MCFrameAlloc ----------------------------
(* FrameAlloc for TLC.  int a[0] asks for 0 bytes; a product of dimensions   *)
(* that wraps around asks for a negative number of them.                     *)
EXTENDS FrameAlloc

MCDecSizes == {-4, 0, 4, 8}
=============================================================================
