-------------------------------- MODULE Floats --------------------------------
(* The two numbers that the backend computes in floating point, of amounts     *)
(* scaled to WadDecimals digits (18 in the code), where a double holds no more *)
(* than 16.                                                                    *)
EXTENDS Integers

CONSTANTS
  WadDecimals,
  AsFloat(_),   \* the double nearest to n / 10^WadDecimals, scaled back to an integer
  Times08(_)    \* int(n * 0.8)

ASSUME WadAssumption == WadDecimals \in Nat \ {0}

\* Rounding to the nearest keeps the order, 0 and 1 are doubles, and 1.2 is
\* neither taken for 1 nor for more than 2.
ASSUME FloatAssumption ==
  /\ \A n \in 0 .. 10^WadDecimals : AsFloat(n) \in 0 .. 10^WadDecimals
  /\ AsFloat((12 * 10^WadDecimals) \div 10) \in (10^WadDecimals + 1) .. (2 * 10^WadDecimals)
=============================================================================
