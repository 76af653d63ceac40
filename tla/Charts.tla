-------------------------------- MODULE Charts --------------------------------
(* The charts of the live page, of the liquidation page, of the fork page and  *)
(* of the report: the axes that each computes from what it is given.           *)
EXTENDS Plot, LivePage, FocusView, ForkPage

(* From the least of the values to the greatest of them, or one further.       *)
Spanning(values) ==
  LET low == Min(values)  high == Max(values)
  IN [low |-> low, high |-> IF high = low THEN low + 1 ELSE high, drawn |-> values]

(* drawLiveAmm: the window of prices. *)
LiveAmmAxis == Spanning(Range(chart.history))

-----------------------------------------------------------------------------
(* The liquidation page. *)

(* drawPriceHfCurve: the prices in 38ths; a health factor from a half, below   *)
(* which it is drawn there, to one and a half or the greatest, in units of the *)
(* half of what makes the factors whole.                                       *)
PriceHfCurve ==
  LET curve == BuildCurve
      hfs == {curve[i].hf[1] : i \in 0..19}
      whole == curve[0].hf[2]
  IN [prices |-> Spanning({curve[i].price[1] : i \in 0..19}),
      hfs |-> [low |-> whole, high |-> Max({3 * whole} \union {2 * hf : hf \in hfs}),
               drawn |-> {2 * whole} \union {Larger(whole, 2 * hf) : hf \in hfs}]]

(* drawHfGauge: the needle's part of the half circle, which is a factor of 3.  *)
Needle == IF Gauge[1] < 3 * Gauge[2] THEN <<Gauge[1], 3 * Gauge[2]>> ELSE <<1, 1>>

(* drawAmmDisturbance and the swap of AmmDisturbanceMap.tsx: the reserves      *)
(* before and after it, with a quarter of their distance on both sides.        *)
AmmDisturbance ==
  LET pre0 == 1000  pre1 == 2000000  attackSize == 200
      post0 == Larger(1, pre0 - attackSize)
      post1 == (pre0 * pre1) \div post0
      span0 == Larger(4, pre0 - post0)
      span1 == Larger(4, post1 - pre1)
  IN [x |-> [low |-> 4 * post0 - span0, high |-> 4 * pre0 + span0, drawn |-> {4 * pre0, 4 * post0}],
      y |-> [low |-> Larger(0, 4 * pre1 - span1), high |-> 4 * post1 + span1,
             drawn |-> {4 * pre1, 4 * post1}]]

-----------------------------------------------------------------------------
(* The fork page. *)

(* drawForkAmm: the reserves of one token, in halves; those of the other are   *)
(* the depths of the curve there, and in the opposite order.                   *)
ForkAmmAxis ==
  LET stage == Result.markers
      xs == {2 * Result.reserve0, stage.pre.x[1], stage.victim.x[1], stage.post.x[1]}
  IN [low |-> Min(xs), high |-> Min(xs) + Larger(2, Max(xs) - Min(xs)), drawn |-> xs]

(* drawForkSankey on a canvas of some height: a recipient of nothing is left   *)
(* out, the others have a ribbon of two pixels at least and six between them.  *)
(* Heights are multiplied with the total.                                      *)
ForkSankey(height) ==
  LET flows == Result.sankey
      amount(i) == flows[i].amount
      one(i) == IF amount(i) > 0 THEN 1 ELSE 0
      total == amount(1) + amount(2) + amount(3) + amount(4)
      gaps == 6 * (one(1) + one(2) + one(3) + one(4) - 1)
      usable == Larger(1, height - 32 - gaps)
      ribbon(i) == IF amount(i) > 0 THEN Larger(2 * total, amount(i) * usable) ELSE 0
  IN [source |-> (height - 32) * total, unit |-> total,
      ribbons |-> gaps * total + ribbon(1) + ribbon(2) + ribbon(3) + ribbon(4)]

-----------------------------------------------------------------------------
(* The report, whose data are those of pages/ReportPage/index.tsx. *)

(* drawReportWaterfall: where the bars end.  The last is the total, which      *)
(* begins at zero again.                                                       *)
WaterfallSteps == <<1240, -456, -89, -12, -45>>
WaterfallTotal == 638

ReportWaterfall ==
  LET step(i, n) == IF i <= n THEN WaterfallSteps[i] ELSE 0
      running == [n \in 0..5 |-> step(1, n) + step(2, n) + step(3, n) + step(4, n) + step(5, n)]
  IN [end |-> running[5],
      axis |-> Spanning({running[n] : n \in 0..5} \union {WaterfallTotal})]

(* drawReportPie and the legend of StrategyPie.tsx: the parts of the whole     *)
(* circle in percent; the values add up to 105.                                *)
StrategySlices == <<42, 28, 18, 12, 5>>
ReportPie ==
  LET s == StrategySlices
  IN [i \in 1..5 |-> Rounded(100 * s[i], s[1] + s[2] + s[3] + s[4] + s[5])]

(* drawReportRadar: a value beyond its axis would be drawn at the end of it.   *)
RiskAxes == <<80, 60, 90, 75, 50>>
ReportRadar == [low |-> 0, high |-> 100, drawn |-> {RiskAxes[i] : i \in 1..5}]

(* AttackerAttribution.tsx: a share in percent and a profit in tenths of a USD.*)
AttackerRows ==
  <<[share |-> 42, profit |-> 12405], [share |-> 28, profit |-> 8242],
    [share |-> 18, profit |-> 5300], [share |-> 7, profit |-> 2078], [share |-> 5, profit |-> 1484]>>

-----------------------------------------------------------------------------
(* From the least that leaves a pixel beside the gaps.                         *)
SankeyHeights == {51, 160, 320}

(* What a chart draws lies on it, and it divides by no distance of zero: not   *)
(* where the window holds one price, where the reserves barely differ or where *)
(* a factor is off the scale.  The ribbons of the fork page fill the column    *)
(* that they come from, and run over it by half of the margin at most; the     *)
(* steps of the waterfall lead to its total, and the parts of the pie and the  *)
(* shares of the attackers are those of a whole (LiveAmm.ts:119-130,           *)
(* PriceHfCurve.ts:46-64, ForkAmm.ts:93-105, ForkSankey.ts:67-101,             *)
(* AmmDisturbance.ts:71-95, ReportWaterfall.ts:58-79).                         *)
ChartsFit ==
  LET rows == AttackerRows
      profit == rows[1].profit + rows[2].profit + rows[3].profit + rows[4].profit + rows[5].profit
      curve == PriceHfCurve
  IN /\ Fits(LiveAmmAxis) /\ Fits(curve.prices) /\ Fits(curve.hfs)
     /\ Fits(AmmDisturbance.x) /\ Fits(AmmDisturbance.y) /\ Fits(ForkAmmAxis)
     /\ Level = "danger" => 10 * Needle[1] < 3 * Needle[2]
     /\ \A height \in SankeyHeights :
          LET sankey == ForkSankey(height)
          IN sankey.source <= sankey.ribbons /\ sankey.ribbons <= sankey.source + 8 * sankey.unit
     /\ Fits(ReportWaterfall.axis) /\ ReportWaterfall.end = WaterfallTotal /\ Fits(ReportRadar)
     /\ ReportPie[1] + ReportPie[2] + ReportPie[3] + ReportPie[4] + ReportPie[5] = 100
     /\ \A i \in 1..5 : rows[i].share = Rounded(100 * rows[i].profit, profit)
=============================================================================
