---------------------------- MODULE MCCFGBuilder ----------------------------
(***************************************************************************)
(* CFGBuilder for TLC.                                                     *)
(***************************************************************************)
EXTENDS CFGBuilder

MCRetLabel(name) == name \o ".ret"

\* A node that stays as it is, and a label of the translator.
MCBodyNodes == {Assign("x", "y"), Label("label1")}

\* A global without values, and one with a value for its first word only.
MCGlobals == {Global("a_in_0", 4, << >>), Global("b_in_0", 8, << 1 >>)}
=============================================================================
