-------------------------------- MODULE LpLab --------------------------------
(* The page on liquidity positions (pages/LpIlPage, components/lpil): a store  *)
(* with a version and four sliders (store/lpStore.ts), and panels each of      *)
(* which computes what it shows of them by itself.                             *)
(*                                                                             *)
(* The ratio, the concentration and the fee are in hundredths, the deposit in  *)
(* thousands of USD.  A loss is in ten-thousandths and what it costs in tenths *)
(* of a USD; fractions are <<numerator, denominator>>.                         *)
EXTENDS Plot

CONSTANTS LpInputs,  \* what the user may set each slider to
          V2IL       \* calculateV2IL (algorithms/il.ts) of a ratio

(* LpParams.tsx: what the sliders allow. *)
LpSliders ==
  [priceRatio |-> {5 * n : n \in 2..100}, concentration |-> {5 * n : n \in -10..10},
   fee |-> 1..100, depositUsd |-> 1..100]

ASSUME LpInputsAssumption ==
  \A name \in DOMAIN LpSliders : LpInputs[name] \subseteq LpSliders[name]

\* A full-range position loses 43 % at a ratio of 0.1 and as much at 10.
Ratios == 10..1000
Losses == -5000..0

ASSUME V2ILAssumption == V2IL \in [Ratios -> Losses] /\ V2IL[100] = 0

VARIABLE lp   \* lpStore

DefaultLp ==
  [version |-> "v2", priceRatio |-> 100, concentration |-> 0, fee |-> 30, depositUsd |-> 10]

LpInit == lp = DefaultLp

SetVersion(v) == lp' = [lp EXCEPT !.version = v]

ClampPriceRatio(r) == IF r < 10 THEN 10 ELSE IF r > 1000 THEN 1000 ELSE r

SetPriceRatio(r) == lp' = [lp EXCEPT !.priceRatio = ClampPriceRatio(r)]

(* The slider is disabled for a full-range position, and its value stays. *)
SetConcentration(c) == lp.version = "v3" /\ lp' = [lp EXCEPT !.concentration = c]

SetFee(f) == lp' = [lp EXCEPT !.fee = f]

SetDeposit(d) == lp' = [lp EXCEPT !.depositUsd = d]

(* LpScenarios.tsx: the cards set the ratio. *)
ScenarioCards == {200, 50, 100, 500}

LpNext ==
  \/ \E v \in {"v2", "v3"} : SetVersion(v)
  \/ \E r \in LpInputs["priceRatio"] \union ScenarioCards : SetPriceRatio(r)
  \/ \E c \in LpInputs["concentration"] : SetConcentration(c)
  \/ \E f \in LpInputs["fee"] : SetFee(f)
  \/ \E d \in LpInputs["depositUsd"] : SetDeposit(d)

-----------------------------------------------------------------------------
(* The panels. *)

(* How much less than its whole range a concentrated position leaves, at least *)
(* a tenth.                                                                    *)
Left == LET c == lp.concentration
            left == 100 - (IF c < 0 THEN -c ELSE c)
        IN IF left < 10 THEN 10 ELSE left

(* LpParams.tsx: the two readouts. *)
LpParams ==
  LET base == V2IL[lp.priceRatio]
  IN [il |-> IF lp.version = "v3" THEN <<base * 100, Left>> ELSE <<base, 1>>,
      apr |-> lp.fee * lp.depositUsd]

(* IlMetrics.tsx: the four boxes.  The income is the fee on the deposit, once, *)
(* in tenths of a USD; the rate is the same number as hundredths of a percent. *)
IlMetrics ==
  LET amp == IF lp.version = "v3" THEN <<100, Left>> ELSE <<1, 1>>
      base == V2IL[lp.priceRatio]
  IN [il |-> <<base * amp[1], amp[2]>>, netPnl |-> <<base * amp[1] * lp.depositUsd, amp[2]>>,
      apr |-> lp.fee * lp.depositUsd, feeIncome |-> lp.fee * lp.depositUsd]

(* IlPnlPanel.tsx: a pair of bars for each of four ratios, and the current     *)
(* result.                                                                     *)
ScenarioRatios == <<50, 100, 200, 500>>

IlPnlData ==
  LET amp == IF lp.version = "v3" THEN <<100, Left>> ELSE <<1, 1>>
      il(i) == V2IL[ScenarioRatios[i]]
  IN [i \in 1..4 |-> [v2 |-> il(i) * lp.depositUsd,
                      v3 |-> <<il(i) * amp[1] * lp.depositUsd, amp[2]>>]]

CurrentPnl ==
  LET il == V2IL[lp.priceRatio]
  IN IF lp.version = "v3" THEN <<il * 100 * lp.depositUsd, Left>> ELSE <<il * lp.depositUsd, 1>>

(* canvas/IlPnlChart.ts: the axis spans the bars and zero with a tenth to      *)
(* spare on both sides, or one USD; in tenths of what makes the bars whole.    *)
IlPnlAxis ==
  LET data == IlPnlData
      whole(v) == (v[1] * Left) \div v[2]
      bars == {0} \union {data[i].v2 * Left : i \in 1..4} \union {whole(data[i].v3) : i \in 1..4}
      low == Min(bars)  high == Max(bars)
      headroom == IF low = high THEN 100 * Left ELSE high - low
  IN [low |-> 10 * low - headroom, high |-> 10 * high + headroom,
      drawn |-> {10 * bar : bar \in bars}]

(* IlCurvePanel.tsx and canvas/ILCurve.ts: the bounds of the ratio in ticks,   *)
(* which are logarithms of it, and the curves between them.  A concentrated    *)
(* position is given every tick there is; the curve of a whole range goes from *)
(* a half to two.                                                              *)
TickTwo == 6932

IlCurve ==
  LET v3 == lp.version = "v3"
      tickLower == -887272  tickUpper == 887272
      cur == (tickLower + tickUpper) \div 2
      wide == tickUpper - tickLower
      span == IF wide > TickTwo THEN wide ELSE TickTwo
  IN [low |-> IF v3 THEN cur - span ELSE -TickTwo, high |-> IF v3 THEN cur + span ELSE TickTwo,
      curves |-> IF v3 THEN {"v2", "v3"} ELSE {"v2"}]

(* PoolStatePanel.tsx: the reserves of the deposit, squared, of WETH in        *)
(* fiftieths and of USDC in units of 5000; their geometric mean, in tens; and  *)
(* the price in USD.                                                           *)
PoolState ==
  LET d == lp.depositUsd  r == lp.priceRatio
  IN [reserve0 |-> d * d * r, reserve1 |-> <<d * d, r>>, supply |-> d, price |-> 25 * r]

-----------------------------------------------------------------------------
(* The panels of the page say the same of one position: the loss of the        *)
(* readouts is that of the boxes, the result of the boxes the one below the    *)
(* chart, which is that of a bar where the ratio is a bar's; no position loses *)
(* more than its deposit, and none less than one of a whole range; the version *)
(* that is chosen has its curve; and the reserves of a deposit stay on theirs  *)
(* (LpParams.tsx:39-53, IlMetrics.tsx:33-48, IlPnlPanel.tsx:43-59,             *)
(* PoolStatePanel.tsx:31-43).                                                  *)
LpPanelsAgree ==
  LET same(a, b) == a[1] * b[2] = b[1] * a[2]
      data == IlPnlData
      bar(i) == IF lp.version = "v3" THEN data[i].v3 ELSE <<data[i].v2, 1>>
  IN /\ same(LpParams.il, IlMetrics.il) /\ LpParams.apr = IlMetrics.apr
     /\ same(IlMetrics.netPnl, CurrentPnl)
     /\ -(CurrentPnl[1]) <= 10000 * lp.depositUsd * CurrentPnl[2]
     /\ \A i \in 1..4 :
          /\ ScenarioRatios[i] = lp.priceRatio => same(bar(i), CurrentPnl)
          /\ data[i].v3[1] <= data[i].v2 * data[i].v3[2]
     /\ Fits(IlPnlAxis) /\ lp.version \in IlCurve.curves
     /\ PoolState.reserve0 * PoolState.reserve1[1]
          = PoolState.supply * PoolState.supply * PoolState.supply * PoolState.supply * PoolState.reserve1[2]
=============================================================================
