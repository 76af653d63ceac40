--------------------------------- MODULE Plot ---------------------------------
(* What the charts and the panels share: rounding, and axes.  An axis is what  *)
(* a chart computes before it draws: the values at its two ends, and those     *)
(* that are drawn along it.                                                    *)
EXTENDS Integers, FiniteSetsExt

(* Math.round of a quotient that is not negative. *)
Rounded(n, d) == (n \div d) + IF 2 * (n % d) >= d THEN 1 ELSE 0

Larger(a, b) == IF a < b THEN b ELSE a

(* The ends differ, and all that is drawn lies between them. *)
Fits(axis) ==
  axis.low < axis.high /\ \A v \in axis.drawn : axis.low <= v /\ v <= axis.high
=============================================================================
