------------------------------ MODULE IntegerMath ------------------------------
(***************************************************************************)
(* util/math.hpp, in exact arithmetic: a floating-point number is an       *)
(* integer here, and one raised to a negative power a pair <<n, d>> that   *)
(* stands for n / d.  Powers of integers are within their type.            *)
(***************************************************************************)
EXTENDS Bits

\* The uint32 that has value n, and its bits from the highest down.
WordOf(n) == { b \in BitsOf(IntBits) : (n \div 2 ^ b) % 2 = 1 }
Downwards(p) ==
  LET top == clz_index(IntBits, p) IN [k \in 1 .. top + 1 |-> top + 1 - k]

\* Square, and multiply for each bit that is set.
ipow_(val, p) ==
  FoldLeft(LAMBDA res, i : IF i \in p THEN res * res * val ELSE res * res,
           1, Downwards(p))

ipow_float(val, p) ==
  CASE p = 0 -> <<1, 1>>
    [] p > 0 -> <<ipow_(val, WordOf(p)), 1>>
    [] p < 0 -> <<1, ipow_(val, WordOf(-p))>>

\* Of integers all powers that are not positive are 1.
ipow_int(val, p) ==
  IF p <= 0 THEN 1 ELSE FoldLeft(LAMBDA ans, k : ans * val, val, [k \in 1 .. p - 1 |-> k])

\* / and % of C++ round towards 0; div() has them in a type that holds both.
Abs(a) == IF a < 0 THEN -a ELSE a
div(a, b) ==
  LET q == Abs(a) \div Abs(b) IN IF (a < 0) = (b < 0) THEN q ELSE -q
Rest(a, b) == a - b * div(a, b)

\* What a is afterwards, and what is returned, for two numbers of one signed type.
\* The remainder is taken as an unsigned number, which is never below 0, so that
\* neither is corrected; the return makes it what it was.
div_modulo(a, b) == [a |-> div(a, b), m |-> Rest(a, b)]

=============================================================================
