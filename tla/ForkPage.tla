------------------------------- MODULE ForkPage -------------------------------
(* The fork page: forkStore with its closed-form simulation and its replay,    *)
(* whose timer of 1.2 s takes the flag down, the button that is disabled       *)
(* meanwhile (ForkParams.tsx), and the panels that show the result.            *)
(*                                                                             *)
(* A result is a function of the parameters, so the store keeps no more than   *)
(* the parameters that it was computed from.  Prices are in tenths of a token. *)
EXTENDS Plot, Sequences

CONSTANTS ParamRanges,  \* what the user may set each slider to
          MaxReplays    \* bound of a run: clicks on the replay button

\* The sliders of the depth and of the capital begin above zero.
ASSUME ForkPageAssumption ==
  /\ MaxReplays \in Nat /\ ParamRanges["gasPrice"] \subseteq Nat
  /\ ParamRanges["poolDepth"] \subseteq Nat \ {0}
  /\ ParamRanges["attackerCapital"] \subseteq Nat \ {0}

VARIABLES
  params,      \* forkStore
  resultOf,    \* forkStore.result: the parameters it was computed from
  replaySeq, replaying,   \* forkStore
  replayTimers,           \* how many timers of replay() are set
  activeStep              \* ForkExperimentPage: the pill that is chosen

forkVars == <<params, resultOf, replaySeq, replaying, replayTimers, activeStep>>

ParamNames == {"block", "poolDepth", "slippage", "gasPrice", "attackerCapital"}
DefaultParams == [block |-> 22180542, poolDepth |-> 1000, slippage |-> 5,
                  gasPrice |-> 30, attackerCapital |-> 50]
RefPrice == 2000

ForkInit ==
  /\ params = DefaultParams /\ resultOf = DefaultParams
  /\ replaySeq = 0 /\ replaying = FALSE /\ replayTimers = 0 /\ activeStep = 0

(* Mutant: a slider leaves the result as it is. *)
SetParamAlone(name, value) ==
  /\ params' = [params EXCEPT ![name] = value]
  /\ UNCHANGED <<resultOf, replaySeq, replaying, replayTimers, activeStep>>

(* A slider computes the result anew at once.                                  *)
SetParam(name, value) ==
  /\ params' = [params EXCEPT ![name] = value] /\ resultOf' = params'
  /\ UNCHANGED <<replaySeq, replaying, replayTimers, activeStep>>

(* The button is disabled while a replay shows.                                *)
Replay ==
  /\ ~replaying /\ replaySeq < MaxReplays
  /\ replaySeq' = replaySeq + 1 /\ replaying' = TRUE /\ resultOf' = params
  /\ replayTimers' = replayTimers + 1
  /\ UNCHANGED <<params, activeStep>>

(* The guard of the timer compares the sequence number of the store with       *)
(* itself.                                                                     *)
ReplayTimer ==
  /\ replayTimers > 0 /\ replayTimers' = replayTimers - 1
  /\ replaying' = FALSE
  /\ UNCHANGED <<params, resultOf, replaySeq, activeStep>>

ChooseStep(i) ==
  activeStep' = i /\ UNCHANGED <<params, resultOf, replaySeq, replaying, replayTimers>>

ForkNext ==
  \/ \E name \in ParamNames : \E value \in ParamRanges[name] : SetParam(name, value)
  \/ Replay \/ ReplayTimer
  \/ \E i \in 0..2 : ChooseStep(i)

-----------------------------------------------------------------------------
(* computeResult.  Of the five parameters it reads three.                      *)

(* The three markers: reserves on the curve of constant product, after the     *)
(* front-run, the victim and the back-run, each for half the capital or all of *)
(* it.  Of y only the factors of the product k are kept: y = k / x.            *)
Markers(p) ==
  LET k == <<p.poolDepth, p.poolDepth * RefPrice>>
      at(halves) == [x |-> <<2 * p.poolDepth + halves * p.attackerCapital, 2>>, k |-> k]
  IN [pre |-> at(1), victim |-> at(3), post |-> at(2)]

ComputeResult(p) ==
  LET depth == IF p.poolDepth < 1 THEN 1 ELSE p.poolDepth
      profit == Rounded(p.attackerCapital * 24800, depth)
      cost == p.gasPrice * 5 + 35
      slip == (p.attackerCapital * 200) \div depth
  IN [reserve0 |-> p.poolDepth, reserve1 |-> p.poolDepth * RefPrice, markers |-> Markers(p),
      profitUsd |-> profit, costUsd |-> cost, slippagePct |-> IF slip > 50 THEN 50 ELSE slip,
      sankey |-> <<[to |-> "attacker", amount |-> profit],
                   [to |-> "victim", amount |-> Rounded(profit * 368, 1000)],
                   [to |-> "lpFee", amount |-> Rounded(profit * 226, 10000)],
                   [to |-> "validator", amount |-> cost]>>]

Result == ComputeResult(resultOf)

(* QuantResults.tsx: the gauge and the return, in percent.                     *)
QuantResults ==
  LET r == Result
      score == Rounded(r.profitUsd * 100, 2 * params.poolDepth)
      gauge == IF score > 100 THEN 100 ELSE score
  IN [gauge |-> gauge,
      level |-> IF gauge >= 70 THEN "high" ELSE IF gauge >= 30 THEN "medium" ELSE "low",
      roi |-> Rounded(r.profitUsd * 100, r.costUsd)]

(* ForkConclusion.tsx: the profit it foretells for another depth.              *)
AltDepth == IF params.poolDepth * 5 > 5000 THEN params.poolDepth * 5 ELSE 5000
AltProfit ==
  LET ratio == IF AltDepth = 5 * params.poolDepth THEN <<5, 1>> ELSE <<AltDepth, params.poolDepth>>
  IN Rounded(Result.profitUsd * ratio[2] * ratio[2], ratio[1] * ratio[1])

(* ForkSankeyPanel.tsx: the share of each recipient, in tenths of a percent.   *)
Shares ==
  LET flows == Result.sankey
      total == flows[1].amount + flows[2].amount + flows[3].amount + flows[4].amount
  IN [i \in 1..4 |-> IF total > 0 THEN Rounded(flows[i].amount * 1000, total) ELSE 0]
=============================================================================
