----------------------------- MODULE Projector -----------------------------
(***************************************************************************)
(* tileToMercator of tools/statistics/tree2png.py (the same function is   *)
(* copied into leaves2plot.py):                                           *)
(*     n = 1 << zoom                                                       *)
(*     x =  (tx * 2.0 / n - 1) * NORM                                      *)
(*     y = -(ty * 2.0 / n - 1) * NORM                                      *)
(*     return (int(x), int(y))                                             *)
(* with NORM = FACTOR * RADIUS / 2.0 = 100.0 * 6378137.0 / 2.0.  For      *)
(* zoom <= 23 every float operation here is exact (tx * 2.0 / n is a      *)
(* dyadic fraction with at most zoom + 1 significant bits, NORM has 29),  *)
(* so the value is the rational (2tx - n) * NORM / n, and int() truncates *)
(* it toward zero.  NORM is split as q * n + r so that no intermediate    *)
(* leaves TLC's 32-bit integers for zoom <= 15.                           *)
(***************************************************************************)
EXTENDS Integers

RADIUS == 6378137     \* a float in the code, integral in value
FACTOR == 100
NORM == (FACTOR * RADIUS) \div 2   \* 318906850, exactly FACTOR * RADIUS / 2.0

\* Mutant: Python's floor division a // n in place of int(a / n).
FloorDiv(a, n) == a \div n

\* int(a / n) for a float a / n: truncation toward zero (n > 0).
TruncDiv(a, n) == IF a >= 0 THEN a \div n ELSE -((-a) \div n)

\* Mutant: NORM divided by n first, dropping the remainder.
ScaledQuotient(m, n) == m * (NORM \div n)

\* int(m * NORM / n) for an integer m, computed as m*q + int(m*r / n): both
\* terms have the sign of m, so truncating the second truncates the sum.
ScaledTrunc(m, n) == m * (NORM \div n) + TruncDiv(m * (NORM % n), n)

TileToMercator(tx, ty, zoom) ==
    LET n == 2^zoom
    IN  <<ScaledTrunc(2 * tx - n, n), ScaledTrunc(n - 2 * ty, n)>>
=============================================================================
