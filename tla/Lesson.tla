-------------------------------- MODULE Lesson --------------------------------
(* The page that teaches (pages/EducationPage, components/edu): a store with a *)
(* scenario and three sliders (store/eduStore.ts), the chart of a swap, which  *)
(* keeps a mirror of what it drew (canvas/EduAmm.ts), and a table whose rows   *)
(* are made up from the sliders.                                               *)
(*                                                                             *)
(* Fractions are <<numerator, denominator>>; amounts of the first token, which *)
(* is 2500 of the second, are in five-thousandths.                             *)
EXTENDS Plot, Sequences

CONSTANT EduInputs   \* what the user may set each slider to

(* EduParams.tsx: what the sliders allow. *)
EduSliders ==
  [swapSize |-> 1..100, liquidity |-> {100 * n : n \in 1..100}, gasPrice |-> 1..500]

ASSUME LessonAssumption ==
  \A name \in DOMAIN EduSliders : EduInputs[name] \subseteq EduSliders[name]

VARIABLES
  activeScenario,   \* eduStore
  eduSliders,       \* eduStore.sliders
  lastState         \* EduAmm: the reserves and the swap of the last frame

eduVars == <<activeScenario, eduSliders, lastState>>

EduScenarios == {"sandwich", "jit", "arbitrage", "liquidation", "front-running"}

EduInit ==
  /\ activeScenario = "sandwich"
  /\ eduSliders = [swapSize |-> 10, liquidity |-> 1000, gasPrice |-> 50]
  /\ lastState = [reserve0 |-> 5000000, reserve1 |-> 1000, swapSize |-> 100]

(* ScenarioList.tsx: the cards. *)
SetActiveScenario(s) == activeScenario' = s /\ UNCHANGED <<eduSliders, lastState>>

ClampNonNegative(v) == IF v < 0 THEN 0 ELSE v

SetEduSlider(name, value) ==
  /\ eduSliders' = [eduSliders EXCEPT ![name] = ClampNonNegative(value)]
  /\ UNCHANGED <<activeScenario, lastState>>

-----------------------------------------------------------------------------
(* EduAmmPanel.tsx: the pool that the sliders stand for, and three estimates.  *)
EduAmmPanel ==
  LET liquidity == Larger(1, eduSliders.liquidity)
      swap == eduSliders.swapSize
  IN [reserve0 |-> 2 * liquidity, reserve1 |-> liquidity,
      slippagePct |-> <<250 * swap, liquidity>>,
      profitUsd |-> Rounded(1250 * swap * swap, liquidity),
      lossUsd |-> Rounded(450 * swap * swap, liquidity)]

(* drawEduAmm: the dot of the reserves in the middle of the plot, that of the  *)
(* reserves after half of the swap, of which one token is left at least, and   *)
(* the impact in percent.                                                      *)
EduAmm ==
  LET r0 == Larger(5000, EduAmmPanel.reserve0)
      r1 == Larger(1, EduAmmPanel.reserve1)
      halfSwap == 2500 * eduSliders.swapSize
      newR0 == Larger(5000, r0 - halfSwap)
  IN [pre |-> [x |-> r0, y |-> r1],
      post |-> [x |-> newR0, y |-> <<r1 * (r0 + halfSwap), r0>>],
      xAxis |-> [low |-> 0, high |-> 2 * r0, drawn |-> {r0, newR0}],
      impactPct |-> <<180 * (r0 - newR0), r0>>]

(* A frame of the chart. *)
EduFrame ==
  /\ lastState' = [reserve0 |-> EduAmm.pre.x, reserve1 |-> EduAmm.pre.y,
                   swapSize |-> eduSliders.swapSize]
  /\ UNCHANGED <<activeScenario, eduSliders>>

(* EduLiveData.tsx: the product of a seed and 0x9e3779b1 modulo 2^32, as its   *)
(* two halves.                                                                 *)
FakeHash(seed) ==
  LET low == seed * 31153
  IN <<(seed * 40503 + low \div 65536) % 65536, low % 65536>>

(* A row is seeded with its number and the length of the scenario's name.      *)
EduRows ==
  LET seeds == [s \in EduScenarios |-> CASE s = "sandwich" -> 8 [] s = "jit" -> 3
                  [] s = "arbitrage" -> 9 [] s = "liquidation" -> 11 [] OTHER -> 13]
      tenths(i) == 10 + 4 * ((i % 3) - 1)
      profit(i) == eduSliders.swapSize * eduSliders.gasPrice * (IF i % 2 = 1 THEN 26 ELSE 14)
  IN [i \in 1..5 |->
       [hash |-> FakeHash(i + seeds[activeScenario]),
        priceChangePct |-> <<10 * tenths(i) * eduSliders.swapSize, Larger(1, eduSliders.liquidity)>>,
        profitUsd |-> Larger(0, Rounded(profit(i), 10))]]

EduNext ==
  \/ \E s \in EduScenarios : SetActiveScenario(s)
  \/ \E name \in DOMAIN EduSliders : \E value \in EduInputs[name] : SetEduSlider(name, value)
  \/ EduFrame

-----------------------------------------------------------------------------
(* The panels tell of one swap: the arrow of the chart leads to the left and   *)
(* up, within the width of the plot, and says that nothing moves only where    *)
(* the pool holds no more than the token that is always left; no victim loses  *)
(* more than the strategy earns; the rows of the table, told apart by their    *)
(* hashes, change the price by what the panel says, but for two fifths, and    *)
(* the first row by exactly that (EduAmmPanel.tsx:29-45, EduAmm.ts:90-166,     *)
(* EduLiveData.tsx:50-65).                                                     *)
LessonAgrees ==
  LET atMost(a, b) == a[1] * b[2] <= b[1] * a[2]
      times(n, d, f) == <<n * f[1], d * f[2]>>
      slip == EduAmmPanel.slippagePct
      rows == EduRows
      change(i) == times(5, 2, rows[i].priceChangePct)
  IN /\ Fits(EduAmm.xAxis) /\ EduAmm.post.x <= EduAmm.pre.x
     /\ atMost(<<EduAmm.pre.y, 1>>, EduAmm.post.y)
     /\ EduAmm.impactPct[1] = 0 <=> eduSliders.liquidity <= 2500
     /\ EduAmmPanel.lossUsd <= EduAmmPanel.profitUsd
     /\ atMost(slip, change(1)) /\ atMost(change(1), slip)
     /\ \A i \in 1..5 :
          /\ atMost(times(3, 5, slip), change(i)) /\ atMost(change(i), times(7, 5, slip))
          /\ \A j \in 1..5 : rows[i].hash = rows[j].hash => i = j
=============================================================================
