----------------------------- MODULE FixedPoint -----------------------------
(***************************************************************************)
(* libraries/FP96.sol: unsigned fixed-point numbers with denominator Q96,  *)
(* rounded down unless an operator says otherwise, and Math.mulDiv that    *)
(* they are built on.  A zero divisor or a negative difference reverts the *)
(* transaction: whoever uses these operators guards against both.          *)
(***************************************************************************)
EXTENDS Integers

CONSTANTS Q96,   \* the denominator, 2^96 in the code
          Q48    \* half precision, 2^48 in the code

ASSUME FixedPointAssumption ==
  /\ Q96 \in Nat \ {0}
  /\ Q48 \in Nat \ {0}
  /\ Q96 = Q48 * Q48

MulDiv(a, b, c) == (a * b) \div c
MulDivUp(a, b, c) == (a * b + c - 1) \div c

One == Q96
FromRatio(nom, den) == MulDiv(Q96, nom, den)
Mul(x, y) == MulDiv(x, y, Q96)
MulUp(x, y) == MulDivUp(x, y, Q96)
Div(x, y) == MulDiv(x, Q96, y)
RecipMul(x, rhs) == MulDiv(Q96, rhs, x)

\* base ^ e by the first four terms of its series at 1.  The loop stops after
\* min(e, 3) steps; the terms after that are zero, for they have a factor e - e.
\* It reverts unless 1 <= base < 2.
PowTaylorDefined(base) == base >= Q96 /\ base - Q96 < Q96
PowTaylor(base, e) ==
  LET x == base - Q96
      term1 == e * x
      term2 == Mul(term1, ((e - 1) * x) \div 2)
      term3 == Mul(term2, ((e - 2) * x) \div 3)
  IN  Q96 + term1 + term2 + term3
=============================================================================
