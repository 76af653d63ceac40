--------------------------------- MODULE Lab ---------------------------------
(* An experiment from the page that asks for it to the result that is shown:   *)
(* DataAPI of the frontend, in its two implementations, and the routes of the  *)
(* backend (Experiments).  A script may post to the routes as well, with the   *)
(* bodies that they document.                                                  *)
EXTENDS Integers, Sequences, Experiments, ApiClient

CONSTANTS Reserves, Amounts, Fees,   \* the numbers that inputs are made of
          Ratios,                    \* price ratios, <<p, q>> for (p/q)^2
          Ids                        \* ids of presets that are asked for

ASSUME LabAssumption ==
  /\ Reserves \subseteq Nat /\ Amounts \subseteq Nat /\ Fees \subseteq Int
  /\ Ratios \subseteq Nat \X (Nat \ {0})

(* Arithmetic, of the exponent that a v3 loss starts with; the proofs have no  *)
(* other fact about powers.                                                    *)
ASSUME SquareAssumption ==
  \A r \in Ratios : \A i \in {1, 2} : r[i]^2 = r[i] * r[i]

VARIABLES
  useBackend,   \* services/index.ts: VITE_USE_BACKEND, fixed when the page loads
  exchange      \* the one experiment under way, and where it has got to

labVars == <<useBackend, exchange>>

None == [stage |-> "none"]

LabInit == useBackend \in BOOLEAN /\ exchange = None

Scenarios == [reserve0 : Reserves, reserve1 : Reserves, victimAmountIn : Amounts,
              attackerAmountIn : Amounts, fee : Fees]
IlInputs == [reserve0 : Reserves, reserve1 : Reserves, priceRatio : Ratios]
AttributionInputs == [reserve0 : Reserves, reserve1 : Reserves, amountIn : Amounts, fee : Fees]

Inputs(kind) == CASE kind = "sandwich"    -> Scenarios
                  [] kind = "il"          -> IlInputs
                  [] kind = "attribution" -> AttributionInputs

ExperimentKinds == {"sandwich", "il", "attribution"}

(* currentAPI.run...Experiment(input)                                          *)
Run(kind, input) ==
  /\ exchange.stage = "none"
  /\ exchange' = IF useBackend
       THEN [stage |-> "posted", by |-> "HttpAPI", kind |-> kind, input |-> input,
             body |-> BodyOf(kind, input)]
       ELSE [stage |-> "settled", by |-> "MockAPI", kind |-> kind, input |-> input,
             outcome |-> MockRun(kind, input)]
  /\ UNCHANGED useBackend

(* A script posts the fields of an input themselves (scripts/e2e-smoke.sh).    *)
ScriptBodies(kind) ==
  CASE kind = "sandwich"    -> Scenarios
    [] kind = "il"          -> [priceRatio : Ratios, variant : {"v2", "v3"}]
    [] kind = "attribution" -> {[reserve0 |-> i.reserve0, reserve1 |-> i.reserve1,
                                 amountIn |-> i.amountIn, fee |-> i.fee, priceRatio |-> r,
                                 fees |-> 1, rebates |-> 0] : i \in AttributionInputs, r \in Ratios}

ScriptPosts(kind, body) ==
  /\ exchange.stage = "none" /\ useBackend
  /\ exchange' = [stage |-> "posted", by |-> "script", kind |-> kind, input |-> body, body |-> body]
  /\ UNCHANGED useBackend

ServerAnswers ==
  /\ exchange.stage = "posted"
  /\ \E response \in {Post(exchange.kind, exchange.body), Unreachable} :
       exchange' = [stage |-> "answered", by |-> exchange.by, kind |-> exchange.kind,
                    input |-> exchange.input, response |-> response]
  /\ UNCHANGED useBackend

Settles ==
  /\ exchange.stage = "answered"
  /\ exchange' = [stage |-> "settled", by |-> exchange.by, kind |-> exchange.kind,
                  input |-> exchange.input,
                  outcome |-> RunExperimentOf(exchange.kind, exchange.response)]
  /\ UNCHANGED useBackend

(* getExperiment(id), and listExperiments() with no id.                        *)
GetPreset(id) ==
  /\ exchange.stage = "none"
  /\ exchange' = [stage |-> "settled", by |-> IF useBackend THEN "HttpAPI" ELSE "MockAPI",
                  kind |-> "preset", input |-> id,
                  outcome |-> IF useBackend THEN GetExperimentOf(GetExperiment(id))
                              ELSE MockGetExperiment(id)]
  /\ UNCHANGED useBackend

ListPresets ==
  /\ exchange.stage = "none"
  /\ exchange' = [stage |-> "settled", by |-> IF useBackend THEN "HttpAPI" ELSE "MockAPI",
                  kind |-> "presets", input |-> "all",
                  outcome |-> IF useBackend THEN ListExperimentsOf(ListExperiments)
                              ELSE Resolved(MockPresets)]
  /\ UNCHANGED useBackend

(* Code that prices a trade asks what to pay for an output (cpmm.py, cpmm.ts). *)
Price(wanted, reserveIn, reserveOut, fee) ==
  /\ exchange.stage = "none"
  /\ ~AmountInRaises(wanted, reserveIn, reserveOut, fee)
  /\ exchange' = [stage |-> "priced", wanted |-> wanted, reserveIn |-> reserveIn,
                  reserveOut |-> reserveOut, fee |-> fee,
                  python |-> AmountIn(wanted, reserveIn, reserveOut, fee),
                  typescript |-> IF GetAmountInThrows(wanted, reserveIn, reserveOut) THEN 0
                                 ELSE GetAmountIn(wanted, reserveIn, reserveOut)]
  /\ UNCHANGED useBackend

Done == exchange.stage \in {"settled", "priced"} /\ exchange' = None /\ UNCHANGED useBackend

LabNext ==
  \/ \E kind \in ExperimentKinds : \/ \E input \in Inputs(kind) : Run(kind, input)
                                   \/ \E body \in ScriptBodies(kind) : ScriptPosts(kind, body)
  \/ ServerAnswers \/ Settles \/ ListPresets \/ Done
  \/ \E id \in Ids : GetPreset(id)
  \/ \E wanted \in Amounts, in, out \in Reserves, fee \in Fees : Price(wanted, in, out, fee)

-----------------------------------------------------------------------------
(* What cpmm.py finds to pay buys what was wanted, and one unit less would     *)
(* not (cpmm.py:81-120).  What cpmm.ts finds at its fixed fee buys it too and  *)
(* is at most one unit more; paying it leaves no smaller product and no better *)
(* price (cpmm.ts:29-74).                                                      *)
InverseIsExact ==
  exchange.stage = "priced" =>
    LET e == exchange
        buys(amount) == AmountOut(amount, e.reserveIn, e.reserveOut, e.fee) >= e.wanted
    IN /\ buys(e.python)
       /\ e.python > 0 => ~buys(e.python - 1)
       /\ e.fee = 3000 /\ e.wanted > 0 =>
            LET bought == GetAmountOut(e.typescript, e.reserveIn, e.reserveOut)
                after == NewReserves(e.typescript, bought, e.reserveIn, e.reserveOut)
            IN /\ bought >= e.wanted
               /\ e.typescript \in e.python .. (e.python + 1)
               /\ after.kAfter >= after.kBefore
               /\ SpotPrice(after.reserveIn, after.reserveOut)
                    <= SpotPrice(e.reserveIn, e.reserveOut)
               /\ PriceImpact(e.typescript, e.reserveIn, e.reserveOut) <= E18

(* A sandwich that the backend answers leaves a pool with both tokens after    *)
(* every swap, never pays out so much that the product of the reserves shrinks,*)
(* does not better the victim's price, and costs an attacker without a victim  *)
(* (sandwich.py:70-131).  It fails only for the pool it was asked about.       *)
SandwichSolvent ==
  exchange.stage = "answered" /\ exchange.kind = "sandwich" /\ exchange.by = "script"
      /\ exchange.response # Unreachable /\ exchange.response.status # 422 =>
    LET r == exchange.input  s == Swaps(r)
        product(i) == s.pools[i][1] * s.pools[i][2]
    IN IF exchange.response.status = 500 THEN r.reserve0 <= 0 \/ r.reserve1 <= 0
       ELSE /\ \A i \in 1..4 : s.pools[i][1] > 0 /\ s.pools[i][2] > 0
            /\ \A i \in 1..3 : product(i + 1) >= product(i)
            /\ exchange.response.body.victimLoss >= 0
            /\ r.victimAmountIn = 0 => ~IsSandwichProfitable(exchange.response.body)

(* What a script is answered is what the browser computes.                     *)
ScriptAgrees ==
  exchange.stage = "answered" /\ exchange.by = "script" /\ exchange.response.status = 200 =>
    LET input == exchange.input  body == exchange.response.body
        browser == SimulateSandwich(input)
        v2 == CalculateV2IL(input.priceRatio)
    IN /\ exchange.kind = "sandwich" /\ input.fee = 3000 /\ ~SimulateThrows(input) =>
            /\ browser.attackerProfit = body.attackerProfit
            /\ browser.victimLoss = body.victimLoss
       /\ exchange.kind = "il" =>
            IF body.variant = "v2" THEN body.il = v2
            ELSE body.il[1] * v2[2] <= v2[1] * body.il[2]

(* What the page posts of a loss has all that the model requires and nothing   *)
(* that it forbids, and no default makes the answer another one.               *)
PageAgrees ==
  exchange.stage = "answered" /\ exchange.by = "HttpAPI" /\ exchange.kind = "il"
      /\ exchange.response # Unreachable /\ exchange.input.priceRatio[1] > 0 =>
    /\ exchange.response.status = 200
    /\ exchange.response.body.il = CalculateV2IL(exchange.input.priceRatio)

(* At the fee of 0.3 % the browser's sandwich is the backend's, wherever the   *)
(* browser has one (algorithms/sandwich.ts:67-135, sandwich.py:70-131); so is  *)
(* its loss of a v2 pool, whether a script or the page (httpApi.ts:377-386)    *)
(* asks for it, and no loss of a v3 pool is smaller (il.ts, il.py).            *)
ImplementationsAgree == ScriptAgrees /\ PageAgrees
=============================================================================
