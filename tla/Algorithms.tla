------------------------------ MODULE Algorithms ------------------------------
(* The frontend's own arithmetic (src/frontend/src/algorithms): swaps at the    *)
(* fixed 0.3 % fee and at any fee, the sandwich simulated in the browser,       *)
(* impermanent loss, the attribution of a result and health factors.  Amounts   *)
(* are BigInts there, whose division cuts toward zero.  A function that may     *)
(* throw has a predicate ...Throws beside it.                                   *)
(*                                                                              *)
(* A fraction is scaled by E18, which is 10^18 in the code; ratios of prices    *)
(* are <<p, q>> for (p/q)^2 as in Experiments.                                  *)
EXTENDS Integers, Sequences, FiniteSets

CONSTANT E18
ASSUME E18Assumption == E18 \in Nat \ {0}

Absolute(n) == IF n < 0 THEN -n ELSE n

-----------------------------------------------------------------------------
(* cpmm.ts *)

SwapThrows(amountIn, reserveIn, reserveOut) ==
  amountIn <= 0 \/ reserveIn <= 0 \/ reserveOut <= 0

GetAmountOut(amountIn, reserveIn, reserveOut) ==
  LET paid == amountIn * 997 IN (paid * reserveOut) \div (reserveIn * 1000 + paid)

GetAmountInThrows(amountOut, reserveIn, reserveOut) ==
  amountOut <= 0 \/ reserveIn <= 0 \/ reserveOut <= amountOut

GetAmountIn(amountOut, reserveIn, reserveOut) ==
  (reserveIn * amountOut * 1000) \div ((reserveOut - amountOut) * 997) + 1

PriceImpact(amountIn, reserveIn, reserveOut) ==
  LET ideal  == (amountIn * reserveOut) \div reserveIn
      actual == GetAmountOut(amountIn, reserveIn, reserveOut)
  IN IF ideal = 0 \/ actual >= ideal THEN 0 ELSE ((ideal - actual) * E18) \div ideal

NewReserves(amountIn, amountOut, reserveIn, reserveOut) ==
  LET in == reserveIn + amountIn  out == reserveOut - amountOut
  IN [reserveIn |-> in, reserveOut |-> out,
      kBefore |-> reserveIn * reserveOut, kAfter |-> in * out]

SpotPrice(reserveIn, reserveOut) == (reserveOut * E18) \div reserveIn

-----------------------------------------------------------------------------
(* sandwich.ts *)

(* Mutant: no fee is taken. *)
AmountOutFree(amountIn, reserveIn, reserveOut, fee) ==
  (amountIn * reserveOut) \div (reserveIn + amountIn)

AmountOutAtFee(amountIn, reserveIn, reserveOut, fee) ==
  LET paid == amountIn * (1000000 - fee)
  IN (paid * reserveOut) \div (reserveIn * 1000000 + paid)

(* The back-run asks for a swap of what the front-run bought, and a swap of     *)
(* nothing throws.                                                              *)
SimulateThrows(r) ==
  \/ r.reserve0 <= 0 \/ r.reserve1 <= 0 \/ r.victimAmountIn <= 0 \/ r.attackerAmountIn < 0
  \/ /\ r.attackerAmountIn > 0
     /\ AmountOutAtFee(r.attackerAmountIn, r.reserve0, r.reserve1, r.fee) = 0

(* The baseline is taken at 0.3 % whatever the fee.                             *)
SimulateSandwich(r) ==
  LET step1 == AmountOutAtFee(r.attackerAmountIn, r.reserve0, r.reserve1, r.fee)
      after1 == <<r.reserve0 + r.attackerAmountIn, r.reserve1 - step1>>
      step2 == AmountOutAtFee(r.victimAmountIn, after1[1], after1[2], r.fee)
      after2 == <<after1[1] + r.victimAmountIn, after1[2] - step2>>
      step3 == AmountOutAtFee(step1, after2[2], after2[1], r.fee)
  IN IF r.attackerAmountIn = 0
     THEN [attackerProfit |-> 0, victimLoss |-> 0, steps |-> <<0, 0, 0>>]
     ELSE [attackerProfit |-> step3 - r.attackerAmountIn,
           victimLoss |-> GetAmountOut(r.victimAmountIn, r.reserve0, r.reserve1) - step2,
           steps |-> <<step1, step2, step3>>]

IsSandwichProfitable(result) == result.attackerProfit > 0

-----------------------------------------------------------------------------
(* il.ts: a loss is <<numerator, denominator>>; the bound MIN_IL of -1 is       *)
(* applied as the code does, though no ratio reaches it                         *)

CalculateV2IL(ratio) ==
  LET p == ratio[1]  q == ratio[2]
      loss == <<-((p - q) * (p - q)), p * p + q * q>>
  IN IF loss[1] < -loss[2] THEN <<-1, 1>> ELSE loss

(* Outside the range the loss is that of the bound which the price passed.      *)
CalculateV3IL(price, lower, upper, concentration) ==
  LET less(a, b) == a[1] * b[2] < b[1] * a[2]
      at   == IF less(price, lower) THEN lower ELSE IF less(upper, price) THEN upper ELSE price
      loss == CalculateV2IL(at)
      shared == <<loss[1], loss[2] * concentration>>
  IN IF lower = upper THEN CalculateV2IL(price)
     ELSE IF shared[1] < -shared[2] THEN <<-1, 1>> ELSE shared

-----------------------------------------------------------------------------
(* attribution.ts: a share is of the absolute total, in parts of E18            *)

Components == {"priceImpact", "fees", "gasCost", "rebates"}

AttributeProfit(c) ==
  LET total == c.priceImpact + c.fees - c.gasCost + c.rebates
  IN [total |-> total, breakdown |-> c,
      percentages |-> [k \in Components |->
                         IF total = 0 THEN 0
                         ELSE (Absolute(c[k]) * E18) \div Absolute(total)]]

-----------------------------------------------------------------------------
(* hf.ts *)

InfiniteHF == E18 * E18

HealthFactorThrows(collateral, debt, threshold) ==
  threshold < 0 \/ collateral < 0 \/ debt < 0

CalculateHealthFactor(collateral, debt, threshold) ==
  IF debt = 0 THEN InfiniteHF ELSE (collateral * threshold) \div debt

IsLiquidatable(collateral, debt, threshold) ==
  CalculateHealthFactor(collateral, debt, threshold) < E18

LiquidationPrice(collateralAmount, debt, threshold) ==
  (debt * E18 * E18) \div (threshold * collateralAmount)
=============================================================================
