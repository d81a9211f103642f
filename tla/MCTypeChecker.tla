--------------------------- MODULE MCTypeChecker ---------------------------
(***************************************************************************)
(* TypeChecker for TLC.                                                    *)
(***************************************************************************)
EXTENDS TypeChecker, TLC

MCUniqueName(name, depth) == name \o "_in_" \o ToString(depth)

MCVarDims == {<< >>, << 2 >>}
MCParamDims == {<< >>, << 0 >>}
=============================================================================
