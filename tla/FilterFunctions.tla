--------------------------- MODULE FilterFunctions ---------------------------
(***************************************************************************)
(* The piecewise polynomial filters of zoom/filt.c at a rational argument  *)
(* p/q, q > 0: Value(f, p, q) / Unit(f, q), in integers.                   *)
(***************************************************************************)
EXTENDS Integers

Filters == {"point", "box", "triangle", "quadratic", "cubic", "catrom", "mitchell"}

(* Twice the support.                                                      *)
Width == [point |-> 0, box |-> 1, triangle |-> 2, quadratic |-> 3,
          cubic |-> 4, catrom |-> 4, mitchell |-> 4]

Abs(x) == IF x >= 0 THEN x ELSE -x

filt_box(p, q)      == IF -q <= 2 * p /\ 2 * p < q THEN 1 ELSE 0
filt_triangle(r, q) == IF r < q THEN q - r ELSE 0

filt_quadratic(r, q) ==
  IF 2 * r <= q THEN 6 * q * q - 8 * r * r
  ELSE IF 2 * r < 3 * q THEN (2 * r - 3 * q) * (2 * r - 3 * q) ELSE 0

(* The filters of width 4 are two cubics in |x|, given by coefficients.    *)
Poly(c, r, q) == c[1] * q * q * q + c[2] * r * q * q + c[3] * r * r * q + c[4] * r * r * r

TwoPieces(inner, outer, r, q) ==
  IF r < q THEN Poly(inner, r, q) ELSE IF r < 2 * q THEN Poly(outer, r, q) ELSE 0

filt_cubic(r, q)  == TwoPieces(<<4, 0, -6, 3>>, <<8, -12, 6, -1>>, r, q)
filt_catrom(r, q) == TwoPieces(<<2, 0, -5, 3>>, <<4, -8, 5, -1>>, r, q)

(* mitchell_init(1/3, 1/3).                                                *)
filt_mitchell(r, q) == TwoPieces(<<16, 0, -36, 21>>, <<32, -60, 36, -7>>, r, q)

Value(f, p, q) ==
  CASE f \in {"point", "box"} -> filt_box(p, q)
    [] f = "triangle"  -> filt_triangle(Abs(p), q)
    [] f = "quadratic" -> filt_quadratic(Abs(p), q)
    [] f = "cubic"     -> filt_cubic(Abs(p), q)
    [] f = "catrom"    -> filt_catrom(Abs(p), q)
    [] f = "mitchell"  -> filt_mitchell(Abs(p), q)

Unit(f, q) ==
  CASE f \in {"point", "box"} -> 1
    [] f = "triangle"  -> q
    [] f = "quadratic" -> 8 * q * q
    [] f = "cubic"     -> 6 * q * q * q
    [] f = "catrom"    -> 2 * q * q * q
    [] f = "mitchell"  -> 18 * q * q * q

HasLobes(f) == f \in {"catrom", "mitchell"}
Cardinal(f) == f \in {"point", "box", "triangle", "catrom"}
=============================================================================
