-------------------------------- MODULE Word --------------------------------
(***************************************************************************)
(* The values a compiled program works with, and what the operators of the *)
(* language mean.  Values are integers; they are not wrapped to 32 bits.   *)
(* Junk is the value of what has not been set; whatever is computed from   *)
(* it is Junk again, or undefined where a machine has to decide.           *)
(***************************************************************************)
EXTENDS Integers, Sequences

CONSTANT Junk

Magnitude(a) == IF a < 0 THEN -a ELSE a

\* Division truncates, and the remainder has the sign of the dividend.
Quotient(a, b) ==
  LET q == Magnitude(a) \div Magnitude(b)
  IN  IF (a < 0) = (b < 0) THEN q ELSE -q

Compare(op, a, b) ==
  CASE op = "Eq" -> a = b
    [] op = "Ne" -> a # b
    [] op = "Lt" -> a < b
    [] op = "Gt" -> a > b
    [] op = "Le" -> a <= b
    [] op = "Ge" -> a >= b

Truth(b) == IF b THEN 1 ELSE 0

Compute(op, a, b) ==
  CASE Junk \in {a, b} -> Junk
    [] op = "Add" -> a + b
    [] op = "Sub" -> a - b
    [] op = "Mul" -> a * b
    [] op = "Div" -> Quotient(a, b)
    [] op = "Mod" -> a - b * Quotient(a, b)
    [] OTHER -> Truth(Compare(op, a, b))

\* The functions a program calls but does not define.
Library == {"read", "write"}

\* The n-th number a program reads.
Input(n) == n * n + 2
=============================================================================
