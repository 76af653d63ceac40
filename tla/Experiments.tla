----------------------------- MODULE Experiments -----------------------------
(* The experiments package of the backend and the routes that serve it: the    *)
(* constant-product swap (cpmm.py), the three-swap sandwich (sandwich.py),     *)
(* impermanent loss (il.py), the attribution of a period's result              *)
(* (attribution.py), the presets and the models that validate a request        *)
(* (types.py).  Nothing here has state: a run is a function of its request.    *)
(*                                                                             *)
(* Python integers have no width, so they are integers here too.  Amounts are  *)
(* natural numbers.  A price ratio is the square of a rational, <<p, q>> for   *)
(* (p/q)^2, so that the square root that il.py takes of it is exact, and a     *)
(* concentration is the square of the natural number k that v3 raises it to.   *)
EXTENDS Integers, Sequences, ErrorEnvelope

FeeScale == 1000000

-----------------------------------------------------------------------------
(* cpmm.py *)

SwapRaises(reserveIn, reserveOut, fee) ==
  reserveIn <= 0 \/ reserveOut <= 0 \/ fee < 0 \/ fee >= FeeScale

(* Mutant: the output is rounded to the nearest number. *)
AmountOutRounded(amountIn, reserveIn, reserveOut, fee) ==
  LET paid == amountIn * (FeeScale - fee)
  IN (2 * paid * reserveOut + reserveIn * FeeScale + paid) \div (2 * (reserveIn * FeeScale + paid))

AmountOut(amountIn, reserveIn, reserveOut, fee) ==
  LET paid == amountIn * (FeeScale - fee)
  IN (paid * reserveOut) \div (reserveIn * FeeScale + paid)

AmountInRaises(amountOut, reserveIn, reserveOut, fee) ==
  SwapRaises(reserveIn, reserveOut, fee) \/ amountOut >= reserveOut

(* Mutant: the input is rounded down. *)
AmountInRoundedDown(amountOut, reserveIn, reserveOut, fee) ==
  (amountOut * reserveIn * FeeScale) \div ((reserveOut - amountOut) * (FeeScale - fee))

AmountIn(amountOut, reserveIn, reserveOut, fee) ==
  LET numerator   == amountOut * reserveIn * FeeScale
      denominator == (reserveOut - amountOut) * (FeeScale - fee)
  IN IF amountOut = 0 THEN 0 ELSE (numerator + denominator - 1) \div denominator

-----------------------------------------------------------------------------
(* sandwich.py *)

(* The three swaps of a sandwich and the pool after each: the attacker buys,   *)
(* the victim buys, the attacker sells what it bought.                         *)
Swaps(r) ==
  LET front == IF r.attackerAmountIn > 0
               THEN AmountOut(r.attackerAmountIn, r.reserve0, r.reserve1, r.fee) ELSE 0
      pool1 == <<r.reserve0 + r.attackerAmountIn, r.reserve1 - front>>
      bought == AmountOut(r.victimAmountIn, pool1[1], pool1[2], r.fee)
      pool2 == <<pool1[1] + r.victimAmountIn, pool1[2] - bought>>
      back  == IF front > 0 THEN AmountOut(front, pool2[2], pool2[1], r.fee) ELSE 0
  IN [front |-> front, bought |-> bought, back |-> back,
      pools |-> << <<r.reserve0, r.reserve1>>, pool1, pool2,
                   <<pool2[1] - back, pool2[2] + front>> >>]

SandwichRaises(r) ==
  \/ SwapRaises(r.reserve0, r.reserve1, r.fee)
  \/ \E i \in {2, 3} : SwapRaises(Swaps(r).pools[i][1], Swaps(r).pools[i][2], r.fee)

Sandwich(r) ==
  LET s == Swaps(r)
  IN [attackerProfit |-> s.back - r.attackerAmountIn,
      victimLoss |-> AmountOut(r.victimAmountIn, r.reserve0, r.reserve1, r.fee) - s.bought]

-----------------------------------------------------------------------------
(* il.py and attribution.py *)

(* 2 sqrt(P) / (1 + P) - 1 at P = (p/q)^2, as numerator and denominator.       *)
IlV2(ratio) ==
  LET p == ratio[1]  q == ratio[2]
  IN <<-((p - q) * (p - q)), p * p + q * q>>

IlV3(ratio, k) == IlV2(<<ratio[1]^k, ratio[2]^k>>)

Il(ratio, variant, k) == IF variant = "v2" THEN IlV2(ratio) ELSE IlV3(ratio, k)

(* int() of a product with a float cuts toward zero; a loss is not positive.   *)
IlComponent(ratio, amount) ==
  LET il == IlV2(ratio) IN -((-il[1] * amount) \div il[2])

AttributionRaises(r) ==
  \/ r.priceRatio[1] <= 0 \/ r.fees < 0 \/ r.rebates < 0
  \/ /\ r.amountIn > 0 /\ r.reserve0 > 0
     /\ SwapRaises(r.reserve0, r.reserve1, r.fee)

Attribution(r) ==
  LET il == IlComponent(r.priceRatio, r.amountIn)
  IN [fees |-> r.fees, il |-> il, rebates |-> r.rebates,
      netPnl |-> r.fees + il + r.rebates]

-----------------------------------------------------------------------------
(* presets.py: reserves in whole tokens, `ticks' empty where there is no range *)

Preset(id, name, protocol, reserves, fee, ticks, runs) ==
  [id |-> id, name |-> name, protocol |-> protocol, reserves |-> reserves,
   fee |-> fee, ticks |-> ticks, runs |-> runs]

Presets ==
  << Preset("sandwich-v2-usdc-weth", "sandwich", "uniswap_v2",
            <<80000, 160000000>>, 3000, <<>>, 100),
     Preset("sandwich-usdc-weth-v3-5bps", "sandwich", "uniswap_v3",
            <<40000, 80000000>>, 500, <<>>, 100),
     Preset("sandwich-wbtc-eth-v3", "sandwich", "uniswap_v3",
            <<1000, 20000>>, 3000, <<250000, 260000>>, 50),
     Preset("attribution-v2-usdc-weth", "attribution", "uniswap_v2",
            <<80000, 160000000>>, 3000, <<>>, 50) >>

PresetsWithId(id) == SelectSeq(Presets, LAMBDA p : p.id = id)

(* The wire form drops the fields that are None.                               *)
PresetToWire(p) ==
  LET ticks == IF p.ticks = <<>> THEN {} ELSE {"tickLower", "tickUpper"}
      value == [name |-> p.name, protocol |-> p.protocol, reserve0 |-> p.reserves[1],
                reserve1 |-> p.reserves[2], fee |-> p.fee, runs |-> p.runs]
  IN [id |-> p.id,
      config |-> [f \in (DOMAIN value) \cup ticks |->
                    IF f \in DOMAIN value THEN value[f]
                    ELSE p.ticks[IF f = "tickLower" THEN 1 ELSE 2]]]

-----------------------------------------------------------------------------
(* types.py: a body is a function from the fields it carries to their values   *)

RequestModel ==
  [sandwich |-> [required |-> {"reserve0", "reserve1", "victimAmountIn",
                               "attackerAmountIn", "fee"},
                 optional |-> {}],
   il |-> [required |-> {"priceRatio"},
           optional |-> {"reserve0", "reserve1", "fee", "variant", "concentration"}],
   attribution |-> [required |-> {"reserve0", "reserve1", "amountIn", "fee", "priceRatio"},
                    optional |-> {"fees", "rebates"}]]

InRange(field, value) ==
  CASE field = "fee"           -> value \in 0..(FeeScale - 1)
    [] field = "priceRatio"    -> value[1] > 0
    [] field = "concentration" -> value > 0
    [] field = "variant"       -> value \in {"v2", "v3"}
    [] OTHER                   -> TRUE

Validates(kind, body) ==
  LET model == RequestModel[kind]
  IN /\ model.required \subseteq DOMAIN body
     /\ DOMAIN body \subseteq model.required \cup model.optional
     /\ \A f \in DOMAIN body : InRange(f, body[f])

FieldOr(body, field, default) == IF field \in DOMAIN body THEN body[field] ELSE default

-----------------------------------------------------------------------------
(* routes/experiments.py *)

ListExperiments == Ok([i \in DOMAIN Presets |-> PresetToWire(Presets[i])])

GetExperiment(id) ==
  IF PresetsWithId(id) = <<>> THEN Handle([class |-> "HTTPException", status |-> 404])
  ELSE Ok(PresetToWire(PresetsWithId(id)[1]))

RunSandwichRoute(body) ==
  IF SandwichRaises(body) THEN Raise("ValueError") ELSE Ok(Sandwich(body))

RunIlRoute(body) ==
  LET variant == FieldOr(body, "variant", "v2")
  IN Ok([il |-> Il(body.priceRatio, variant, FieldOr(body, "concentration", 2)),
         variant |-> variant, priceRatio |-> body.priceRatio])

RunAttributionRoute(body) ==
  LET period == [f \in (DOMAIN body) \cup {"fees", "rebates"} |-> FieldOr(body, f, 0)]
  IN IF AttributionRaises(period) THEN Raise("ValueError")
     ELSE Ok([netPnl |-> Attribution(period).netPnl])

Post(kind, body) ==
  IF ~Validates(kind, body) THEN Raise("RequestValidationError")
  ELSE CASE kind = "sandwich"    -> RunSandwichRoute(body)
         [] kind = "il"          -> RunIlRoute(body)
         [] kind = "attribution" -> RunAttributionRoute(body)
=============================================================================
