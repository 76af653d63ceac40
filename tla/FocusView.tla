------------------------------ MODULE FocusView ------------------------------
(* The liquidation page (pages/LiquidationPage) and the simulation of its      *)
(* focus mode (components/liquidation/FocusView.tsx): a counter of steps that  *)
(* an interval advances and stops, sliders, and the banner, which with the     *)
(* sliders is kept in liquidationStore and outlives the view.                  *)
EXTENDS Integers

CONSTANTS MaxSteps,      \* MAX_STEPS
          SliderRanges   \* what the user may set each slider to

\* The slider of the threshold begins at 50 %.
ASSUME FocusViewAssumption ==
  /\ MaxSteps \in Nat \ {0} /\ SliderRanges["ltv"] \subseteq 50..90
  /\ \A name \in {"collateral", "debt", "price"} : SliderRanges[name] \subseteq Nat

VARIABLES
  liqMode,   \* liquidationStore
  sliders,   \* liquidationStore: collateral, debt, price, bonus and ltv, in percent
  redAlert,  \* liquidationStore: what the banner says, or "none"
  run        \* FocusView: running, which holds the interval, and step

focusVars == <<liqMode, sliders, redAlert, run>>

SliderNames == {"collateral", "debt", "price", "bonus", "ltv"}
DefaultSliders == [collateral |-> 10, debt |-> 5000, price |-> 2400, bonus |-> 5, ltv |-> 80]
Fresh == [running |-> FALSE, step |-> 0]

FocusInit ==
  liqMode = "panorama" /\ sliders = DefaultSliders /\ redAlert = "none" /\ run = Fresh

(* The two mode buttons.  The view is unmounted, and its interval cleared, when *)
(* the mode changes; the store keeps the banner.                               *)
SetLiqMode(m) ==
  /\ liqMode' = m
  /\ run' = IF m = liqMode THEN run ELSE Fresh
  /\ UNCHANGED <<sliders, redAlert>>

InView == liqMode = "focus"

HandleStart ==
  /\ InView /\ ~run.running
  /\ run' = [run EXCEPT !.running = TRUE] /\ redAlert' = "running"
  /\ UNCHANGED <<liqMode, sliders>>

HandlePause ==
  /\ InView /\ run.running
  /\ run' = [run EXCEPT !.running = FALSE] /\ redAlert' = "paused"
  /\ UNCHANGED <<liqMode, sliders>>

HandleReset ==
  /\ InView
  /\ run' = Fresh /\ redAlert' = "none"
  /\ UNCHANGED <<liqMode, sliders>>

(* Mutant: the run ends when it reaches the last step.  One that is started    *)
(* there has passed it.                                                        *)
TickUntilLast ==
  /\ run.running
  /\ run' = [running |-> run.step + 1 # MaxSteps,
             step |-> IF run.step < MaxSteps THEN run.step + 1 ELSE MaxSteps]
  /\ UNCHANGED <<liqMode, sliders, redAlert>>

(* The interval of one second.  A run that is started at the last step ends    *)
(* with the next tick; its banner stays.                                       *)
FocusTick ==
  /\ run.running
  /\ run' = [running |-> run.step + 1 < MaxSteps,
             step |-> IF run.step < MaxSteps THEN run.step + 1 ELSE MaxSteps]
  /\ UNCHANGED <<liqMode, sliders, redAlert>>

Search == InView /\ redAlert' = "focused" /\ UNCHANGED <<liqMode, sliders, run>>

SetSlider(name, value) ==
  InView /\ sliders' = [sliders EXCEPT ![name] = value] /\ UNCHANGED <<liqMode, redAlert, run>>

FocusNext ==
  \/ \E m \in {"panorama", "focus"} : SetLiqMode(m)
  \/ HandleStart \/ HandlePause \/ HandleReset \/ FocusTick \/ Search
  \/ \E name \in SliderNames : \E value \in SliderRanges[name] : SetSlider(name, value)

-----------------------------------------------------------------------------
(* What is shown of the sliders.  A health factor is a fraction.               *)

HealthFactor(price, threshold) ==
  IF sliders.debt > 0
  THEN <<sliders.collateral * price[1] * threshold, price[2] * 100 * sliders.debt>>
  ELSE <<5, 1>>

Gauge == HealthFactor(<<sliders.price, 1>>, sliders.ltv)

Level == LET below(n, d) == Gauge[1] * d < n * Gauge[2]
         IN IF below(9, 10) THEN "danger" ELSE IF below(12, 10) THEN "warning" ELSE "safe"

(* The curve sweeps the price from a half to one and a half, at 80 %.          *)
BuildCurve ==
  LET price(i) == <<sliders.price * (19 + 2 * i), 38>>
  IN [i \in 0..19 |-> [price |-> price(i), hf |-> HealthFactor(price(i), 80)]]
=============================================================================
