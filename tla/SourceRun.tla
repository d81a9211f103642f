----------------------------- MODULE SourceRun -----------------------------
(***************************************************************************)
(* The promise of the compiler: a program it is asked to compile writes    *)
(* what the source program writes, number by number, and then ends with    *)
(* its result.                                                             *)
(***************************************************************************)
EXTENDS Sequences, Integers

CONSTANTS Means(_),     \* of a program: the trace and the result
          NoResult      \* the result before there is one

VARIABLES source,       \* the program
          request,      \* the options it is compiled with
          expected,     \* what it means
          written,      \* the numbers written so far
          returned      \* the result

runVars == << source, request, expected, written, returned >>

\* Every request but a contradictory one is served.
Served == request # {"--ir", "--venus"}

Init ==
  /\ expected = Means(source)
  /\ request \subseteq {"--ir", "--venus"}
  /\ written = << >> /\ returned = NoResult

Write ==
  /\ Served /\ returned = NoResult /\ Len(written) < Len(expected.trace)
  /\ written' = Append(written, expected.trace[Len(written) + 1])
  /\ UNCHANGED << source, request, expected, returned >>

End ==
  /\ Served /\ returned = NoResult /\ written = expected.trace
  /\ returned' = expected.result
  /\ UNCHANGED << source, request, expected, written >>

\* A program that ends also ends when it is compiled.
Spec == Init /\ [][Write \/ End]_runVars /\ WF_runVars(Write \/ End)
=============================================================================
