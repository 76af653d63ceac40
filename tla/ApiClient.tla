------------------------------ MODULE ApiClient ------------------------------
(* The two implementations of DataAPI in the frontend: HttpAPI                 *)
(* (services/httpApi.ts), which asks the backend and converts what it answers, *)
(* and MockAPI (services/mockApi.ts), which computes in the browser, with its  *)
(* own presets (services/experiments.ts).  services/index.ts picks one.        *)
(*                                                                             *)
(* An outcome is what the promise settles with: a value, or the code of the    *)
(* error it rejects with.                                                      *)
EXTENDS Integers, Sequences, Algorithms, Floats

CONSTANT LowerCase(_)   \* toLowerCase(), of symbols

Resolved(value) == [ok |-> TRUE, value |-> value]
Rejected(code) == [ok |-> FALSE, code |-> code]

-----------------------------------------------------------------------------
(* HttpAPI.request: a response that is not 2xx becomes an HttpApiError with    *)
(* the code of the envelope, a 404 an HttpNotFoundError; fetch() itself        *)
(* rejects when the backend cannot be reached.                                 *)
Unreachable == [status |-> 0, error |-> "network"]

Request(response) ==
  IF response.status \in 200..299 THEN Resolved(response.body)
  ELSE IF response.status = 404 THEN Rejected("not_found")
  ELSE Rejected(response.error)

FieldOf(row, field, default) == IF field \in DOMAIN row THEN row[field] ELSE default

(* What the caller of request() makes of the body, if there is one.            *)
Converted(answer, value) == IF answer.ok THEN Resolved(value) ELSE answer

(* listPools: a missing fee tier is taken for 3000, missing reserves for 0.    *)
ShownPool(p) ==
  [address |-> p.id, protocol |-> p.protocol,
   type |-> IF p.protocol = "uniswap_v3" THEN "concentrated" ELSE "constant_product",
   reserve0 |-> FieldOf(p, "reserve0", 0), reserve1 |-> FieldOf(p, "reserve1", 0),
   fee |-> FieldOf(p, "feeTier", 3000)]

(* listTransactions: every transaction is shown as a swap.                     *)
ShownTransaction(t) ==
  [hash |-> t.hash, type |-> "swap", mevType |-> IF t.type = "arbitrage" THEN "arb" ELSE t.type]

StatusFromHealthFactor(hf, one) ==
  IF hf >= 2 * one THEN "safe"
  ELSE IF hf >= AsFloat((12 * one) \div 10) THEN "warning"
  ELSE IF hf > one THEN "danger"
  ELSE "liquidated"

(* lowercasedBigintMap: of two symbols that differ in case the amount of the   *)
(* last stays.                                                                 *)
Lowercased(map) ==
  [k \in {LowerCase(s) : s \in DOMAIN map} |->
     LET same == {s \in DOMAIN map : LowerCase(s) = k}
     IN map[CHOOSE s \in same : \A t \in same : map[t].at <= map[s].at].amount]

ShownLending(p, one) ==
  [collateral |-> Lowercased(p.collateral), debt |-> Lowercased(p.debt),
   threshold |-> p.threshold,
   healthFactor |-> p.healthFactor, status |-> StatusFromHealthFactor(p.healthFactor, one)]

(* listLpPositions: the liquidity and the tokens owed are shown as 0.          *)
ShownLp(p) ==
  [id |-> p.id, poolAddress |-> p.poolId, protocol |-> "uniswap_v3", status |-> "active",
   liquidity |-> 0, amount0 |-> p.amount0, amount1 |-> p.amount1]

ListPools(response) ==
  LET rows == Request(response)
  IN Converted(rows, [i \in DOMAIN rows.value |-> ShownPool(rows.value[i])])

ListTransactions(response) ==
  LET rows == Request(response)
  IN Converted(rows, [i \in DOMAIN rows.value |-> ShownTransaction(rows.value[i])])

ListLpPositions(response) ==
  LET rows == Request(response)
  IN Converted(rows, [i \in DOMAIN rows.value |-> ShownLp(rows.value[i])])

ListLendingPositions(response, one) ==
  LET rows == Request(response)
  IN Converted(rows, [i \in DOMAIN rows.value |-> ShownLending(rows.value[i], one)])

(* currentAPI.list...() of the page that asks for a list.                      *)
Received(kind, response, one) ==
  CASE kind = "pools"        -> ListPools(response)
    [] kind = "lending"      -> ListLendingPositions(response, one)
    [] kind = "lp"           -> ListLpPositions(response)
    [] kind = "transactions" -> ListTransactions(response)

ListExperimentsOf(response) == Request(response)

GetExperimentOf(response) ==
  LET preset == Request(response)
  IN IF ~preset.ok /\ preset.code = "not_found" THEN Rejected("UNKNOWN_EXPERIMENT") ELSE preset

(* The bodies that the three experiments post: the sandwich wraps its scenario, *)
(* the loss names no variant, and the attribution carries no price ratio.      *)
BodyOf(kind, input) ==
  CASE kind = "sandwich"    -> [scenario |-> input]
    [] kind = "il"          -> [reserve0 |-> input.reserve0, reserve1 |-> input.reserve1,
                                priceRatio |-> input.priceRatio]
    [] kind = "attribution" -> [reserve0 |-> input.reserve0, reserve1 |-> input.reserve1,
                                amountIn |-> input.amountIn, fee |-> input.fee]

(* What they resolve to: one loss is shown as both the v2 and the v3 one.      *)
RunExperimentOf(kind, response) ==
  LET answer == Request(response)  result == answer.value
  IN Converted(answer,
       CASE kind = "sandwich"    -> [attackerProfit |-> result.attackerProfit,
                                     victimLoss |-> result.victimLoss]
         [] kind = "il"          -> [ilV2 |-> result.il, ilV3 |-> result.il]
         [] kind = "attribution" -> [totalE18 |-> result.netPnl])

-----------------------------------------------------------------------------
(* MockAPI.  Its sandwich is the average of five runs on pools that differ by  *)
(* a tenth of a token; the sums of the five are kept here, in place of the     *)
(* averages.                                                                   *)
Jittered(scenario, i) == [scenario EXCEPT !.reserve0 = @ + i * (E18 \div 10)]

MockSandwich(scenario) ==
  LET run(i) == SimulateSandwich(Jittered(scenario, i))
      total(field) == run(0)[field] + run(1)[field] + run(2)[field] + run(3)[field] + run(4)[field]
  IN IF \E i \in 0..4 : SimulateThrows(Jittered(scenario, i)) THEN Rejected("Error")
     ELSE Resolved([count |-> 5, attackerProfit |-> total("attackerProfit"),
                    victimLoss |-> total("victimLoss")])

(* The range 0.1 to 0.9 of the concentrated loss is one of prices, and the     *)
(* ratio is passed for the price.  A bound is given as the ratio <<p, q>> that *)
(* is nearest: 0.1 is (6/19)^2 and 0.9 is (18/19)^2.                           *)
MockIl(input) ==
  IF input.reserve0 <= 0 \/ input.priceRatio[1] <= 0 THEN Rejected("Error")
  ELSE Resolved([ilV2 |-> CalculateV2IL(input.priceRatio),
                 ilV3 |-> CalculateV3IL(input.priceRatio, <<6, 19>>, <<18, 19>>, 1)])

(* 50 000 units of gas at 30 gwei are 0.0015 tokens.                           *)
MockGas == (15 * E18) \div 10000

MockAttribution(input) ==
  IF SwapThrows(input.amountIn, input.reserve0, input.reserve1) THEN Rejected("Error")
  ELSE LET result == AttributeProfit(
             [priceImpact |-> PriceImpact(input.amountIn, input.reserve0, input.reserve1),
              fees |-> (input.amountIn * input.fee) \div 1000000,
              gasCost |-> MockGas, rebates |-> 0])
       IN Resolved([totalE18 |-> result.total])

(* services/experiments.ts *)
MockPresets ==
  << [id |-> "sandwich-eth-usdc", name |-> "sandwich", protocol |-> "uniswap_v2"],
     [id |-> "sandwich-wbtc-eth-v3", name |-> "sandwich", protocol |-> "uniswap_v3"],
     [id |-> "il-eth-usdc", name |-> "il", protocol |-> "uniswap_v2"],
     [id |-> "attribution-eth-usdc", name |-> "attribution", protocol |-> "uniswap_v2"] >>

MockGetExperiment(id) ==
  LET found == SelectSeq(MockPresets, LAMBDA p : p.id = id)
  IN IF found = <<>> THEN Rejected("UNKNOWN_EXPERIMENT") ELSE Resolved(found[1])

MockRun(kind, input) ==
  CASE kind = "sandwich" -> MockSandwich(input)
    [] kind = "il"       -> MockIl(input)
    [] OTHER             -> MockAttribution(input)
=============================================================================
