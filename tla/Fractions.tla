------------------------------ MODULE Fractions ------------------------------
(***************************************************************************)
(* Exact amounts of money.  The program computes in float64; what its      *)
(* rounding errors do is not modelled.  A fraction is kept in lowest terms *)
(* with a positive denominator, so that equal amounts are equal.  The two  *)
(* functions stand for operators: their arguments are evaluated once.      *)
(***************************************************************************)
EXTENDS Integers

Magnitude(k) == IF k < 0 THEN -k ELSE k

Divides(g, k) == k % g = 0
Fraction == [n : Int, d : Nat \ {0}]

CommonDivisor(g, x) == Divides(g, x.n) /\ Divides(g, x.d)
LowestTerms[x \in Fraction] ==
  LET g == CHOOSE h \in 1 .. x.d : /\ CommonDivisor(h, x)
                                   /\ \A k \in h + 1 .. x.d : ~CommonDivisor(k, x)
  IN  [n |-> x.n \div g, d |-> x.d \div g]

Ratio(n, d) == LowestTerms[[n |-> n, d |-> d]]
Whole(k) == [n |-> k, d |-> 1]
Zero == Whole(0)

Added[xy \in Fraction \X Fraction] ==
  Ratio(xy[1].n * xy[2].d + xy[2].n * xy[1].d, xy[1].d * xy[2].d)
Plus(x, y) == Added[<<x, y>>]
Times(x, k) == Ratio(x.n * k, x.d)
Minus(x, y) == Plus(x, Times(y, -1))
Over(x, k) == IF k < 0 THEN Ratio(-x.n, x.d * (-k)) ELSE Ratio(x.n, x.d * k)
AtMost(x, y) == x.n * y.d <= y.n * x.d
=============================================================================
