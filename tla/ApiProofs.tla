------------------------------ MODULE ApiProofs ------------------------------
(***************************************************************************)
(* Proofs about Api, for any chain, callers, time to live, amounts and     *)
(* bounds: the cached block number is fresh, an error of a list has its    *)
(* cause, a list is the chain's, a lending position adds up, and the       *)
(* experiments are sound.                                                  *)
(*                                                                         *)
(* The cached block.  The age that the cache goes by counts from a moment  *)
(* that is not after the one at which the node read its head (AgeIsSafe).  *)
(* It holds of each answer on its way, so the order in which answers come  *)
(* back is of no account.                                                  *)
(*                                                                         *)
(* The lists.  A handler that goes on reading has had a fetcher and has    *)
(* lost nothing but calls about single logs (ReadersSkip).  If no block    *)
(* has come since it began, it stands somewhere in the loop over its       *)
(* items (OnTheWay): what it has read is the chain's, every item behind it *)
(* has been read or given up for a call that failed, and of the items      *)
(* before it nothing has been asked.                                       *)
(*                                                                         *)
(* The lending position.  It is made of the reserves of one block and of   *)
(* digits read in that block or later ones, so that every amount has a     *)
(* scale (LendingInv).  The rest is that a sum does not depend on the      *)
(* names of its terms (SumOfRenamed): an induction over the parts of a     *)
(* finite set, with a set in place of the predicate (EveryPart).           *)
(*                                                                         *)
(* The experiments.  Their state is one exchange; what is hard is the      *)
(* arithmetic of a division that rounds, which comes first.  tlapm writes  *)
(* numerals out digit by digit for Zenon, so a leaf that expands FeeScale  *)
(* names SMT.                                                              *)
(***************************************************************************)
EXTENDS Api, SequenceTheorems, FiniteSetTheorems, WellFoundedInduction, TLAPS

-----------------------------------------------------------------------------
(* Division. *)

\* Division rounds down.
LEMMA DivBounds ==
  ASSUME NEW a \in Nat, NEW b \in Nat \ {0}
  PROVE  a \div b \in Nat /\ b * (a \div b) <= a /\ a < b * (a \div b) + b
OBVIOUS
LEMMA DivAtMost ==
  ASSUME NEW a \in Nat, NEW b \in Nat \ {0}, NEW q \in Nat, a < b * (q + 1)
  PROVE  a \div b <= q
OBVIOUS
LEMMA DivAtLeast ==
  ASSUME NEW a \in Nat, NEW b \in Nat \ {0}, NEW q \in Nat, b * q <= a
  PROVE  q <= a \div b
OBVIOUS
LEMMA DivScale ==
  ASSUME NEW a \in Nat, NEW b \in Nat \ {0}, NEW m \in Nat \ {0}
  PROVE  (m * a) \div (m * b) = a \div b
OBVIOUS

\* Multiplication keeps order, and may be cancelled.
LEMMA TimesKeepsOrder ==
  ASSUME NEW a \in Int, NEW b \in Int, NEW m \in Nat \ {0}
  PROVE  a <= b <=> m * a <= m * b
OBVIOUS

-----------------------------------------------------------------------------
(* Swaps. *)

\* The fees that a swap takes, and the numbers that a pool may hold.
Fee == 0 .. (FeeScale - 1)
Some == Nat \ {0}

\* What is left of a unit after the fee.
LEMMA FeeLeavesSome ==
  ASSUME NEW fee \in Fee
  PROVE  FeeScale \in Some /\ FeeScale - fee \in Some /\ FeeScale - fee <= FeeScale
<1>1. FeeScale \in Some
  BY SMT DEF FeeScale, Some
<1> QED BY <1>1 DEF Fee, Some

\* A swap pays out less than there is, and the product of the reserves does not shrink.
LEMMA SwapKeepsProduct ==
  ASSUME NEW amount \in Nat, NEW x \in Some, NEW y \in Some, NEW fee \in Fee
  PROVE  LET out == AmountOut(amount, x, y, fee)
         IN /\ out \in Nat /\ out < y
            /\ (x + amount) * (y - out) >= x * y
<1> DEFINE g == FeeScale - fee
           paid == amount * g
           D == x * FeeScale + paid
           out == AmountOut(amount, x, y, fee)
<1>1. g \in Some /\ g <= FeeScale /\ FeeScale \in Some
  BY FeeLeavesSome
<1>2. paid \in Nat /\ x * FeeScale \in Some
  BY <1>1 DEF Some
<1>3. D \in Some /\ paid * y \in Nat
  BY <1>2 DEF Some
<1>4. out = (paid * y) \div D
  BY DEF AmountOut
<1> HIDE DEF out
<1>5. out \in Nat /\ D * out <= paid * y
  BY <1>3, <1>4, DivBounds DEF Some
<1>6. out < y
  <2> HIDE DEF paid
  <2> SUFFICES ASSUME y <= out PROVE FALSE
    BY <1>5 DEF Some
  <2>1. D * y <= D * out
    BY <1>3, <1>5, TimesKeepsOrder DEF Some
  <2>2. D * y = (x * FeeScale) * y + paid * y /\ (x * FeeScale) * y > 0
    BY <1>1, <1>2 DEF Some
  <2> QED BY <2>1, <2>2, <1>5, <1>3, <1>2 DEF Some
<1>7. (x + amount) * out <= amount * y
  <2> HIDE DEF g
  <2>1. x * g <= x * FeeScale
    BY <1>1, TimesKeepsOrder DEF Some
  <2>2. x * g + paid <= D
    BY <2>1, <1>1, <1>2 DEF Some
  <2>3. (x * g + paid) * out <= D * out
    <3>1. x * g + paid \in Int
      BY <1>1, <1>2 DEF Some
    <3> QED BY <3>1, <2>2, <1>3, <1>5 DEF Some
  <2>4. g * ((x + amount) * out) = (x * g + paid) * out /\ g * (amount * y) = paid * y
    BY <1>1, <1>5 DEF Some
  <2>5. g * ((x + amount) * out) <= g * (amount * y)
    BY <2>3, <2>4, <1>5, <1>3, <1>1, <1>2 DEF Some
  <2>6. (x + amount) * out \in Int /\ amount * y \in Int
    BY <1>5 DEF Some
  <2> QED BY <2>5, <2>6, <1>1, TimesKeepsOrder DEF Some
<1>8. (x + amount) * (y - out) = x * y + amount * y - (x + amount) * out
  BY <1>5 DEF Some
<1>9. (x + amount) * out \in Int /\ amount * y \in Int /\ x * y \in Int
  BY <1>5 DEF Some
<1>10. (x + amount) * (y - out) >= x * y
  BY <1>7, <1>8, <1>9
<1> QED BY <1>5, <1>6, <1>10 DEF out

\* A pool that holds more of what is paid and less of what is bought pays out less.
LEMMA WorseReserves ==
  ASSUME NEW amount \in Nat, NEW x \in Some, NEW y \in Some, NEW fee \in Fee,
         NEW more \in Nat, NEW z \in Some, z <= y
  PROVE  AmountOut(amount, x + more, z, fee) <= AmountOut(amount, x, y, fee)
<1> DEFINE g == FeeScale - fee
           paid == amount * g
           D == x * FeeScale + paid
           E == (x + more) * FeeScale + paid
           out == AmountOut(amount, x + more, z, fee)
<1>1. g \in Some /\ FeeScale \in Some
  BY FeeLeavesSome
<1>2. paid \in Nat /\ x * FeeScale \in Some /\ more * FeeScale \in Nat
  BY <1>1 DEF Some
<1>3. D \in Some /\ E \in Some /\ D <= E /\ paid * y \in Nat /\ paid * z \in Nat
  <2>1. (x + more) * FeeScale = x * FeeScale + more * FeeScale
    BY <1>1 DEF Some
  <2> QED BY <1>2, <2>1 DEF Some
<1>4. out = (paid * z) \div E /\ AmountOut(amount, x, y, fee) = (paid * y) \div D
  BY DEF AmountOut
<1> HIDE DEF out, D, E, paid
<1>5. out \in Nat /\ E * out <= paid * z
  BY <1>3, <1>4, DivBounds DEF Some
<1>6. D * out <= E * out
  BY <1>3, <1>5 DEF Some
<1>7. paid * z <= paid * y
  BY <1>2 DEF Some
<1>8. D * out <= paid * y
  BY <1>3, <1>5, <1>6, <1>7 DEF Some
<1> QED BY <1>3, <1>4, <1>5, <1>8, DivAtLeast DEF Some, out

\* The fee of the browser is one of them.
LEMMA BrowserFee == 3000 \in Fee
<1>1. FeeScale \in Nat /\ 3000 <= FeeScale - 1
  BY SMT DEF FeeScale
<1> QED BY <1>1 DEF Fee

\* A swap buys what is wanted when enough is paid for it.
LEMMA BuysWhenPaid ==
  ASSUME NEW wanted \in Nat, NEW x \in Some, NEW y \in Some, NEW fee \in Fee,
         NEW amount \in Nat
  PROVE  AmountOut(amount, x, y, fee) >= wanted
           <=> wanted * x * FeeScale <= amount * ((y - wanted) * (FeeScale - fee))
<1> DEFINE g == FeeScale - fee
           paid == amount * g
           D == x * FeeScale + paid
           out == AmountOut(amount, x, y, fee)
<1>1. g \in Some /\ FeeScale \in Some
  BY FeeLeavesSome
<1>2. paid \in Nat /\ x * FeeScale \in Some
  BY <1>1 DEF Some
<1>3. D \in Some /\ paid * y \in Nat
  BY <1>2 DEF Some
<1>4. out = (paid * y) \div D
  BY DEF AmountOut
<1>5. /\ wanted * x * FeeScale = wanted * (x * FeeScale)
      /\ amount * ((y - wanted) * g) = paid * y - wanted * paid
      /\ D * wanted = wanted * (x * FeeScale) + wanted * paid
  <2> HIDE DEF g
  <2> QED BY <1>1 DEF Some
<1>6. wanted * x * FeeScale <= amount * ((y - wanted) * g) <=> D * wanted <= paid * y
  <2>1. wanted * (x * FeeScale) \in Int /\ wanted * paid \in Int
    BY <1>2 DEF Some
  <2> HIDE DEF g, paid, D
  <2> QED BY <1>5, <1>3, <2>1 DEF Some
<1> HIDE DEF g, paid, D, out
<1>7. ASSUME D * wanted <= paid * y PROVE wanted <= out
  BY <1>3, <1>4, <1>7, DivAtLeast DEF Some
<1>8. ASSUME wanted <= out PROVE D * wanted <= paid * y
  <2>1. out \in Nat /\ D * out <= paid * y
    BY <1>3, <1>4, DivBounds DEF Some
  <2>2. D * wanted <= D * out
    BY <1>3, <1>8, <2>1, TimesKeepsOrder DEF Some
  <2> QED BY <2>1, <2>2, <1>3 DEF Some
<1>9. out \in Nat
  BY <1>3, <1>4, DivBounds DEF Some
<1> QED BY <1>6, <1>7, <1>8, <1>9 DEF out, g

\* What is asked for as input is the least that pays for the output.
LEMMA AmountInIsLeast ==
  ASSUME NEW wanted \in Nat, NEW x \in Some, NEW y \in Some, NEW fee \in Fee, wanted < y
  PROVE  LET cost == wanted * x * FeeScale
             gain == (y - wanted) * (FeeScale - fee)
             least == AmountIn(wanted, x, y, fee)
         IN /\ cost \in Nat /\ gain \in Some /\ least \in Nat
            /\ cost <= least * gain
            /\ least > 0 => (least - 1) * gain < cost
            /\ wanted > 0 => cost > 0 /\ least > 0
<1> DEFINE cost == wanted * x * FeeScale
           gain == (y - wanted) * (FeeScale - fee)
           least == AmountIn(wanted, x, y, fee)
<1>1. FeeScale - fee \in Some /\ FeeScale \in Some /\ y - wanted \in Some
  BY FeeLeavesSome DEF Some
<1>2. gain \in Some /\ cost \in Nat /\ (wanted > 0 => cost > 0)
  <2>1. wanted * x \in Nat /\ (wanted > 0 => wanted * x > 0)
    BY DEF Some
  <2>2. cost \in Nat /\ (wanted > 0 => cost > 0)
    BY <2>1, <1>1 DEF Some
  <2> QED BY <1>1, <2>2 DEF Some
<1>3. CASE wanted = 0
  <2>1. least = 0 /\ cost = 0
    BY <1>1, <1>3 DEF AmountIn, Some
  <2> QED BY <1>2, <1>3, <2>1 DEF Some
<1>4. CASE wanted # 0
  <2>1. least = (cost + gain - 1) \div gain
    BY <1>4 DEF AmountIn
  <2> HIDE DEF cost, gain, least
  <2>2. cost + gain - 1 \in Nat
    BY <1>2 DEF Some
  <2>3. /\ least \in Nat /\ gain * least <= cost + gain - 1
        /\ cost + gain - 1 < gain * least + gain
    BY <1>2, <2>1, <2>2, DivBounds DEF Some
  <2>4. gain * least = least * gain /\ (least - 1) * gain = gain * least - gain
    BY <1>2, <2>3 DEF Some
  <2>5. gain * least \in Nat
    BY <1>2, <2>3 DEF Some
  <2>6. cost <= least * gain /\ (least - 1) * gain < cost
    BY <1>2, <2>3, <2>4, <2>5 DEF Some
  <2>7. least > 0
    <3>1. cost > 0
      BY <1>2, <1>4
    <3>2. 0 * gain = 0
      BY <1>2 DEF Some
    <3> QED BY <2>3, <2>6, <3>1, <3>2, <1>2 DEF Some
  <2> QED BY <1>2, <2>3, <2>6, <2>7 DEF cost, gain, least
<1> QED BY <1>3, <1>4

\* cpmm.ts is cpmm.py at a fee of 0.3 %, for a swap.
LEMMA BrowserSwap ==
  ASSUME NEW amount \in Nat, NEW x \in Some, NEW y \in Some
  PROVE  GetAmountOut(amount, x, y) = AmountOut(amount, x, y, 3000)
<1> DEFINE paid == amount * 997
<1>1. GetAmountOut(amount, x, y) = (paid * y) \div (x * 1000 + paid)
  BY DEF GetAmountOut
<1>2. AmountOut(amount, x, y, 3000) = (1000 * (paid * y)) \div (1000 * (x * 1000 + paid))
  <2>1. amount * (FeeScale - 3000) = 1000 * paid
    BY SMT DEF FeeScale
  <2>2. (1000 * paid) * y = 1000 * (paid * y)
    BY SMT DEF Some
  <2>3. x * FeeScale + 1000 * paid = 1000 * (x * 1000 + paid)
    BY SMT DEF Some, FeeScale
  <2> HIDE DEF paid
  <2> QED BY <2>1, <2>2, <2>3 DEF AmountOut
<1>3. paid * y \in Nat /\ x * 1000 + paid \in Nat \ {0}
  BY SMT DEF Some
<1>4. 1000 \in Nat \ {0}
  BY SMT
<1> HIDE DEF paid
<1> QED BY <1>1, <1>2, <1>3, <1>4, DivScale

\* What cpmm.ts asks as input is what cpmm.py asks at that fee, or one more.
LEMMA BrowserAsksOneMore ==
  ASSUME NEW wanted \in Some, NEW x \in Some, NEW y \in Some, wanted < y
  PROVE  GetAmountIn(wanted, x, y)
           \in AmountIn(wanted, x, y, 3000) .. (AmountIn(wanted, x, y, 3000) + 1)
<1> DEFINE n == x * wanted * 1000
           d == (y - wanted) * 997
           asked == GetAmountIn(wanted, x, y)
           least == AmountIn(wanted, x, y, 3000)
           cost == wanted * x * FeeScale
           gain == (y - wanted) * (FeeScale - 3000)
<1>1. n \in Nat /\ d \in Some
  BY SMT DEF Some
<1>2. cost = 1000 * n /\ gain = 1000 * d
  BY SMT DEF Some, FeeScale
<1>3. asked = n \div d + 1
  BY DEF GetAmountIn
<1>4. /\ least \in Nat /\ cost <= least * gain
      /\ least > 0 => (least - 1) * gain < cost
  <2>1. 3000 \in Fee
    BY BrowserFee
  <2>2. wanted \in Nat
    BY DEF Some
  <2> HIDE DEF cost, gain, least
  <2> QED BY <2>1, <2>2, AmountInIsLeast DEF cost, gain, least
<1> HIDE DEF n, d, asked, least, cost, gain
<1> DEFINE floor == n \div d
<1>5. floor \in Nat /\ d * floor <= n /\ n < d * floor + d
  BY <1>1, DivBounds DEF Some
<1> HIDE DEF floor
<1>6. n <= least * d
  <2>1. least * gain = 1000 * (least * d)
    BY <1>1, <1>2, <1>4, SMT DEF Some
  <2>2. least * d \in Int
    BY <1>1, <1>4 DEF Some
  <2> QED BY <2>1, <2>2, <1>1, <1>2, <1>4, SMT
<1>7. least > 0 => (least - 1) * d < n
  <2>1. (least - 1) * gain = 1000 * ((least - 1) * d)
    BY <1>1, <1>2, <1>4, SMT DEF Some
  <2>2. (least - 1) * d \in Int
    BY <1>1, <1>4 DEF Some
  <2> QED BY <2>1, <2>2, <1>1, <1>2, <1>4, SMT
<1>8. floor <= least
  <2>1. d * floor <= d * least
    BY <1>1, <1>4, <1>5, <1>6 DEF Some
  <2> QED BY <2>1, <1>1, <1>4, <1>5, TimesKeepsOrder DEF Some
<1>9. least <= floor + 1
  <2> SUFFICES ASSUME floor + 1 <= least - 1 PROVE FALSE
    BY <1>4, <1>5
  <2>1. d * (floor + 1) <= d * (least - 1)
    BY <1>1, <1>4, <1>5, TimesKeepsOrder DEF Some
  <2>2. d * (floor + 1) = d * floor + d /\ d * (least - 1) = (least - 1) * d
    BY <1>1, <1>4, <1>5 DEF Some
  <2>3. d * floor \in Int /\ (least - 1) * d \in Int
    BY <1>1, <1>4, <1>5 DEF Some
  <2> QED BY <2>1, <2>2, <2>3, <1>5, <1>7, <1>4, <1>1 DEF Some
<1>10. asked \in least .. (least + 1)
  BY <1>3, <1>4, <1>5, <1>8, <1>9 DEF floor
<1> QED BY <1>10 DEF asked, least

\* More of one token and less of the other is a lower price.
LEMMA PriceFalls ==
  ASSUME NEW x \in Some, NEW y \in Some, NEW more \in Nat, NEW z \in Nat, z <= y
  PROVE  SpotPrice(x + more, z) <= SpotPrice(x, y)
<1> DEFINE price == SpotPrice(x + more, z)
<1>1. price = (z * E18) \div (x + more) /\ SpotPrice(x, y) = (y * E18) \div x
  BY DEF SpotPrice
<1>2. z * E18 \in Nat /\ y * E18 \in Nat /\ z * E18 <= y * E18
  BY E18Assumption DEF Some
<1>3. price \in Nat /\ (x + more) * price <= z * E18
  BY <1>1, <1>2, DivBounds DEF Some
<1> HIDE DEF price
<1>4. (x + more) * price = x * price + more * price
      /\ x * price \in Nat /\ more * price \in Nat
  BY <1>3 DEF Some
<1>5. x * price <= y * E18
  <2>1. (x + more) * price \in Int
    BY <1>4
  <2> QED BY <1>2, <1>3, <1>4, <2>1
<1> QED BY <1>1, <1>2, <1>3, <1>5, DivAtLeast DEF Some, price

\* The impact is a part of the whole.
LEMMA ImpactIsAPart ==
  ASSUME NEW amount \in Nat, NEW x \in Some, NEW y \in Some
  PROVE  PriceImpact(amount, x, y) <= E18
<1> DEFINE ideal  == (amount * y) \div x
           actual == GetAmountOut(amount, x, y)
           part_of == ((ideal - actual) * E18) \div ideal
<1>1. ideal \in Nat
  <2>1. amount * y \in Nat
    BY DEF Some
  <2> QED BY <2>1, DivBounds DEF Some
<1>2. actual \in Nat
  BY BrowserSwap, BrowserFee, SwapKeepsProduct
<1>3. PriceImpact(amount, x, y) = IF ideal = 0 \/ actual >= ideal THEN 0 ELSE part_of
  BY DEF PriceImpact
<1>4. ASSUME ideal # 0, actual < ideal PROVE part_of <= E18
  <2> HIDE DEF ideal, actual
  <2>1. (ideal - actual) * E18 \in Nat /\ (ideal - actual) * E18 <= ideal * E18
    BY <1>1, <1>2, <1>4, E18Assumption
  <2>2. ideal * (E18 + 1) = ideal * E18 + ideal /\ ideal * E18 \in Nat
    BY <1>1, E18Assumption
  <2>3. (ideal - actual) * E18 < ideal * (E18 + 1)
    BY <2>1, <2>2, <1>1, <1>4
  <2> QED BY <2>1, <2>3, <1>1, <1>4, E18Assumption, DivAtMost
<1> HIDE DEF ideal, actual, part_of
<1> QED BY <1>1, <1>2, <1>3, <1>4, E18Assumption

\* What cpmm.py asks buys the output, and one unit less does not.
LEMMA InputIsExact ==
  ASSUME NEW wanted \in Nat, NEW x \in Some, NEW y \in Some, NEW fee \in Fee, wanted < y
  PROVE  LET python == AmountIn(wanted, x, y, fee)
         IN /\ AmountOut(python, x, y, fee) >= wanted
            /\ python > 0 => ~(AmountOut(python - 1, x, y, fee) >= wanted)
<1> DEFINE cost == wanted * x * FeeScale
           gain == (y - wanted) * (FeeScale - fee)
           python == AmountIn(wanted, x, y, fee)
<1>1. /\ cost \in Nat /\ gain \in Some /\ python \in Nat /\ cost <= python * gain
      /\ python > 0 => (python - 1) * gain < cost
  BY AmountInIsLeast
<1>2. \A amount \in Nat : AmountOut(amount, x, y, fee) >= wanted <=> cost <= amount * gain
  BY BuysWhenPaid
<1> HIDE DEF cost, gain, python
<1>3. AmountOut(python, x, y, fee) >= wanted
  BY <1>1, <1>2
<1>4. ASSUME python > 0 PROVE ~(AmountOut(python - 1, x, y, fee) >= wanted)
  <2>1. python - 1 \in Nat /\ (python - 1) * gain \in Int
    BY <1>1, <1>4 DEF Some
  <2>2. ~(cost <= (python - 1) * gain)
    BY <1>1, <1>4, <2>1
  <2> QED BY <1>2, <2>1, <2>2
<1> QED BY <1>3, <1>4 DEF python

\* So does what cpmm.ts asks, and the pool is the better for it.
LEMMA BrowserInputIsExact ==
  ASSUME NEW wanted \in Some, NEW x \in Some, NEW y \in Some, wanted < y
  PROVE  LET asked == GetAmountIn(wanted, x, y)
             bought == GetAmountOut(asked, x, y)
         IN /\ asked \in Nat /\ bought \in Nat /\ bought < y
            /\ bought >= wanted
            /\ (x + asked) * (y - bought) >= x * y
<1> DEFINE asked == GetAmountIn(wanted, x, y)
           least == AmountIn(wanted, x, y, 3000)
           cost == wanted * x * FeeScale
           gain == (y - wanted) * (FeeScale - 3000)
           bought == GetAmountOut(asked, x, y)
<1>1. wanted \in Nat /\ 3000 \in Fee
  BY BrowserFee DEF Some
<1>2. cost \in Nat /\ gain \in Some /\ least \in Nat /\ cost <= least * gain
  BY <1>1, AmountInIsLeast
<1>3. asked \in least .. (least + 1)
  BY BrowserAsksOneMore
<1> HIDE DEF asked, least, cost, gain
<1>4. asked \in Nat /\ least <= asked
  BY <1>2, <1>3
<1>5. cost <= asked * gain
  <2>1. least * gain <= asked * gain /\ least * gain \in Int /\ asked * gain \in Int
    BY <1>2, <1>4 DEF Some
  <2> QED BY <2>1, <1>2
<1>6. bought = AmountOut(asked, x, y, 3000)
  BY <1>4, BrowserSwap
<1>7. bought >= wanted
  BY <1>1, <1>4, <1>5, <1>6, BuysWhenPaid DEF cost, gain
<1>8. bought \in Nat /\ bought < y /\ (x + asked) * (y - bought) >= x * y
  BY <1>1, <1>4, <1>6, SwapKeepsProduct
<1> HIDE DEF bought
<1> QED BY <1>4, <1>7, <1>8 DEF asked, bought

\* The step that prices a trade.
LEMMA PriceIsExact ==
  ASSUME NEW wanted \in Amounts, NEW x \in Reserves, NEW y \in Reserves, NEW fee \in Fees,
         Price(wanted, x, y, fee)
  PROVE  InverseIsExact'
<1> DEFINE python == AmountIn(wanted, x, y, fee)
           typescript == GetAmountIn(wanted, x, y)
           bought == GetAmountOut(typescript, x, y)
<1>1. wanted \in Nat /\ x \in Some /\ y \in Some /\ fee \in Fee /\ wanted < y
  <2>1. wanted \in Nat /\ x \in Nat /\ y \in Nat /\ fee \in Int /\ FeeScale \in Some
    BY LabAssumption, FeeLeavesSome, BrowserFee
  <2>2. ~AmountInRaises(wanted, x, y, fee)
    BY DEF Price
  <2> QED BY <2>1, <2>2 DEF AmountInRaises, SwapRaises, Some, Fee
<1>2. exchange' = [stage |-> "priced", wanted |-> wanted, reserveIn |-> x, reserveOut |-> y,
                   fee |-> fee, python |-> python,
                   typescript |-> IF GetAmountInThrows(wanted, x, y) THEN 0 ELSE typescript]
  BY DEF Price
<1>3. /\ AmountOut(python, x, y, fee) >= wanted
      /\ python > 0 => ~(AmountOut(python - 1, x, y, fee) >= wanted)
  BY <1>1, InputIsExact
<1>4. ASSUME fee = 3000, wanted > 0
      PROVE  LET after == NewReserves(typescript, bought, x, y)
             IN /\ ~GetAmountInThrows(wanted, x, y)
                /\ bought >= wanted
                /\ typescript \in python .. (python + 1)
                /\ after.kAfter >= after.kBefore
                /\ SpotPrice(after.reserveIn, after.reserveOut) <= SpotPrice(x, y)
                /\ PriceImpact(typescript, x, y) <= E18
  <2>1. wanted \in Some
    BY <1>1, <1>4 DEF Some
  <2>2. /\ typescript \in Nat /\ bought \in Nat /\ bought < y /\ bought >= wanted
        /\ (x + typescript) * (y - bought) >= x * y
    BY <1>1, <2>1, BrowserInputIsExact
  <2>3. typescript \in python .. (python + 1)
    BY <1>1, <1>4, <2>1, BrowserAsksOneMore
  <2> HIDE DEF python, typescript, bought
  <2>4. y - bought \in Nat /\ y - bought <= y
    BY <1>1, <2>2 DEF Some
  <2>5. SpotPrice(x + typescript, y - bought) <= SpotPrice(x, y)
    BY <1>1, <2>2, <2>4, PriceFalls
  <2>6. PriceImpact(typescript, x, y) <= E18
    BY <1>1, <2>2, ImpactIsAPart
  <2>7. ~GetAmountInThrows(wanted, x, y)
    BY <1>1, <1>4 DEF GetAmountInThrows, Some
  <2> QED BY <2>2, <2>3, <2>5, <2>6, <2>7 DEF NewReserves
<1> HIDE DEF python, typescript
<1> QED BY <1>2, <1>3, <1>4 DEF InverseIsExact, typescript, python

\* A swap that is left out when there is nothing to pay.
LEMMA SwapIfAny ==
  ASSUME NEW amount \in Nat, NEW x \in Some, NEW y \in Some, NEW fee \in Fee
  PROVE  LET out == IF amount > 0 THEN AmountOut(amount, x, y, fee) ELSE 0
         IN out \in Nat /\ out < y /\ (x + amount) * (y - out) >= x * y
<1>1. CASE amount > 0
  BY <1>1, SwapKeepsProduct
<1>2. CASE amount = 0
  <2>1. x * y \in Int
    BY DEF Some
  <2> QED BY <1>2, <2>1 DEF Some
<1> QED BY <1>1, <1>2

\* The three swaps of a sandwich, on a pool that has both tokens.
LEMMA SwapsAreSound ==
  ASSUME NEW r, r.reserve0 \in Some, r.reserve1 \in Some,
         r.victimAmountIn \in Nat, r.attackerAmountIn \in Nat, r.fee \in Fee
  PROVE  LET s == Swaps(r)
             product(i) == s.pools[i][1] * s.pools[i][2]
         IN /\ \A i \in 1..4 : s.pools[i][1] \in Some /\ s.pools[i][2] \in Some
            /\ \A i \in 1..3 : product(i + 1) >= product(i)
            /\ Sandwich(r).attackerProfit \in Int
            /\ Sandwich(r).victimLoss >= 0
            /\ r.victimAmountIn = 0 => Sandwich(r).attackerProfit <= 0
<1> DEFINE x == r.reserve0
           y == r.reserve1
           a == r.attackerAmountIn
           v == r.victimAmountIn
           fee == r.fee
           front == IF a > 0 THEN AmountOut(a, x, y, fee) ELSE 0
           x1 == x + a
           y1 == y - front
           bought == AmountOut(v, x1, y1, fee)
           x2 == x1 + v
           y2 == y1 - bought
           back == IF front > 0 THEN AmountOut(front, y2, x2, fee) ELSE 0
           x3 == x2 - back
           y3 == y2 + front
           s == Swaps(r)
<1>1. s = [front |-> front, bought |-> bought, back |-> back,
           pools |-> << <<x, y>>, <<x1, y1>>, <<x2, y2>>, <<x3, y3>> >>]
  BY DEF Swaps
<1>2. x \in Some /\ y \in Some /\ a \in Nat /\ v \in Nat /\ fee \in Fee
  OBVIOUS
<1> HIDE DEF x, y, a, v, fee, s
<1>3. front \in Nat /\ front < y /\ x1 * y1 >= x * y
  BY <1>2, SwapIfAny
<1> HIDE DEF front
<1>4. x1 \in Some /\ y1 \in Some /\ y1 <= y
  BY <1>2, <1>3 DEF Some
<1>5. bought <= AmountOut(v, x, y, fee)
  BY <1>2, <1>4, WorseReserves
<1> HIDE DEF x1, y1
<1>6. bought \in Nat /\ bought < y1 /\ x2 * y2 >= x1 * y1
  BY <1>2, <1>4, SwapKeepsProduct
<1>7. v = 0 => bought = 0
  <2> SUFFICES ASSUME v = 0 PROVE bought = 0
    OBVIOUS
  <2>1. (v * (FeeScale - fee)) * y1 = 0
    BY <1>2, <1>4, FeeLeavesSome DEF Some
  <2>2. x1 * FeeScale + v * (FeeScale - fee) \in Some
    BY <1>2, <1>4, FeeLeavesSome DEF Some
  <2> QED BY <2>1, <2>2 DEF AmountOut, Some
<1> HIDE DEF bought
<1>8. x2 \in Some /\ y2 \in Some
  BY <1>2, <1>4, <1>6 DEF Some
<1> HIDE DEF x2, y2
<1>9. back \in Nat /\ back < x2 /\ (y2 + front) * (x2 - back) >= y2 * x2
  BY <1>2, <1>3, <1>8, SwapIfAny
<1> HIDE DEF back
<1>10. x3 \in Some /\ y3 \in Some
  BY <1>3, <1>8, <1>9 DEF Some
<1>11. x3 * y3 >= x2 * y2
  <2>1. x3 * y3 = (y2 + front) * (x2 - back) /\ x2 * y2 = y2 * x2
    BY <1>3, <1>8, <1>9 DEF Some
  <2> QED BY <1>9, <2>1
<1>12. ASSUME v = 0 PROVE back - a <= 0
  <2>1. y3 = y /\ x2 = x + a
    BY <1>2, <1>3, <1>7, <1>12 DEF y2, y1, x2, x1, Some
  <2>2. x3 * y >= x * y
    <3>1. x1 * y1 \in Int /\ x2 * y2 \in Int /\ x3 * y3 \in Int /\ x * y \in Int
      BY <1>2, <1>4, <1>8, <1>10 DEF Some
    <3> QED BY <1>3, <1>6, <1>11, <2>1, <3>1
  <2>3. x * y = y * x /\ x3 * y = y * x3
    BY <1>2, <1>10 DEF Some
  <2>4. x <= x3
    BY <1>2, <1>10, <2>2, <2>3, TimesKeepsOrder DEF Some
  <2> QED BY <1>2, <1>8, <1>9, <2>1, <2>4 DEF Some
<1>13. Sandwich(r) = [attackerProfit |-> back - a,
                      victimLoss |-> AmountOut(v, x, y, fee) - bought]
  BY <1>1 DEF Sandwich, s, x, y, a, v, fee
<1>14. AmountOut(v, x, y, fee) \in Nat
  BY <1>2, SwapKeepsProduct
<1>15. AmountOut(v, x, y, fee) - bought >= 0
  BY <1>5, <1>6, <1>14
<1> HIDE DEF x3, y3
<1>16. \A i \in 1..4 : s.pools[i][1] \in Some /\ s.pools[i][2] \in Some
  <2>1. 1..4 = {1, 2, 3, 4}
    OBVIOUS
  <2> QED BY <1>1, <1>2, <1>4, <1>8, <1>10, <2>1
<1>17. \A i \in 1..3 : s.pools[i + 1][1] * s.pools[i + 1][2] >= s.pools[i][1] * s.pools[i][2]
  <2>1. 1..3 = {1, 2, 3}
    OBVIOUS
  <2>2. /\ s.pools[2][1] * s.pools[2][2] >= s.pools[1][1] * s.pools[1][2]
        /\ s.pools[3][1] * s.pools[3][2] >= s.pools[2][1] * s.pools[2][2]
        /\ s.pools[4][1] * s.pools[4][2] >= s.pools[3][1] * s.pools[3][2]
    BY <1>1, <1>3, <1>6, <1>11 DEF x1, y1, x2, y2, x3, y3
  <2>3. 1 + 1 = 2 /\ 2 + 1 = 3 /\ 3 + 1 = 4
    OBVIOUS
  <2> QED BY <2>1, <2>2, <2>3
<1>18. Sandwich(r).attackerProfit \in Int
  BY <1>2, <1>9, <1>13
<1>19. Sandwich(r).victimLoss >= 0 /\ (v = 0 => Sandwich(r).attackerProfit <= 0)
  BY <1>12, <1>13, <1>15
<1> QED BY <1>16, <1>17, <1>18, <1>19 DEF s, v

\* The browser's sandwich at 0.3 % is the backend's, where the browser has one.
LEMMA SandwichesAgree ==
  ASSUME NEW r, r.reserve0 \in Some, r.reserve1 \in Some,
         r.victimAmountIn \in Nat, r.attackerAmountIn \in Nat, r.fee = 3000,
         ~SimulateThrows(r)
  PROVE  /\ SimulateSandwich(r).attackerProfit = Sandwich(r).attackerProfit
         /\ SimulateSandwich(r).victimLoss = Sandwich(r).victimLoss
<1> DEFINE x == r.reserve0
           y == r.reserve1
           a == r.attackerAmountIn
           v == r.victimAmountIn
<1>1. ASSUME NEW amount, NEW in, NEW out
      PROVE  AmountOutAtFee(amount, in, out, r.fee) = AmountOut(amount, in, out, r.fee)
  BY SMT DEF AmountOutAtFee, AmountOut, FeeScale
<1>2. GetAmountOut(v, x, y) = AmountOut(v, x, y, r.fee)
  BY BrowserSwap
<1>3. CASE a = 0
  <2>1. SimulateSandwich(r) = [attackerProfit |-> 0, victimLoss |-> 0, steps |-> <<0, 0, 0>>]
    BY <1>3 DEF SimulateSandwich
  <2>2. x + 0 = x /\ y - 0 = y
    BY DEF Some
  <2>3. AmountOut(v, x, y, r.fee) \in Nat
    BY BrowserFee, SwapKeepsProduct
  <2>4. Sandwich(r) = [attackerProfit |-> 0 - 0,
                       victimLoss |-> AmountOut(v, x, y, r.fee) - AmountOut(v, x, y, r.fee)]
    BY <1>3, <2>2 DEF Sandwich, Swaps
  <2> QED BY <2>1, <2>3, <2>4
<1>4. CASE a # 0
  <2> DEFINE step1 == AmountOut(a, x, y, r.fee)
             step2 == AmountOut(v, x + a, y - step1, r.fee)
             step3 == AmountOut(step1, y - step1 - step2 , x + a + v, r.fee)
  <2>1. step1 # 0 /\ step1 \in Nat
    BY <1>1, <1>4, BrowserFee, SwapKeepsProduct DEF SimulateThrows
  <2>2. SimulateSandwich(r) = [attackerProfit |-> step3 - a,
                               victimLoss |-> AmountOut(v, x, y, r.fee) - step2,
                               steps |-> <<step1, step2, step3>>]
    BY <1>1, <1>2, <1>4 DEF SimulateSandwich
  <2>3. Sandwich(r) = [attackerProfit |-> step3 - a,
                       victimLoss |-> AmountOut(v, x, y, r.fee) - step2]
    BY <1>4, <2>1 DEF Sandwich, Swaps
  <2> QED BY <2>2, <2>3
<1> QED BY <1>3, <1>4

\* The loss of a v2 pool is more than -1, so the browser's bound does not touch it.
LEMMA LossWithinBound ==
  ASSUME NEW ratio \in Nat \X (Nat \ {0})
  PROVE  CalculateV2IL(ratio) = IlV2(ratio)
<1> DEFINE p == ratio[1]
           q == ratio[2]
<1>1. p \in Nat /\ q \in Nat
  OBVIOUS
<1> HIDE DEF p, q
<1>2. (p - q) * (p - q) = p * p + q * q - 2 * (p * q)
      /\ p * p \in Nat /\ q * q \in Nat /\ p * q \in Nat
  BY <1>1
<1>3. ~(-((p - q) * (p - q)) < -(p * p + q * q))
  BY <1>2
<1> QED BY <1>3 DEF CalculateV2IL, IlV2, p, q

\* Squaring the roots of a ratio makes the loss no smaller.
LEMMA SquareLosesMore ==
  ASSUME NEW p \in Nat, NEW q \in Nat
  PROVE  LET P == p * p  Q == q * q
         IN -((P - Q) * (P - Q)) * (P + Q) <= -((p - q) * (p - q)) * (P * P + Q * Q)
<1> DEFINE P == p * p
           Q == q * q
           gap == (p - q) * (p - q)
           sum == (p + q) * (p + q)
<1>1. P \in Nat /\ Q \in Nat /\ gap \in Nat /\ sum \in Nat
  <2>1. gap >= 0
    OBVIOUS
  <2> QED BY <2>1
<1>2. (P - Q) * (P - Q) = gap * sum
  <2>1. P - Q = (p - q) * (p + q)
    OBVIOUS
  <2>2. ASSUME NEW m \in Int, NEW n \in Int PROVE (m * n) * (m * n) = (m * m) * (n * n)
    OBVIOUS
  <2> QED BY <2>1, <2>2
<1>3. sum = P + Q + 2 * (p * q) /\ p * q \in Nat
  OBVIOUS
<1> HIDE DEF P, Q, gap, sum
<1>4. P + Q <= sum
  BY <1>1, <1>3
<1>5. P * P + Q * Q <= sum * (P + Q)
  <2>1. (P + Q) * (P + Q) <= sum * (P + Q)
    BY <1>1, <1>4
  <2>2. (P + Q) * (P + Q) = P * P + Q * Q + 2 * (P * Q) /\ P * Q \in Nat
    BY <1>1
  <2>3. P * P + Q * Q \in Nat /\ sum * (P + Q) \in Nat
    BY <1>1
  <2> QED BY <2>1, <2>2, <2>3
<1>6. gap * (P * P + Q * Q) <= gap * (sum * (P + Q))
  <2>1. P * P + Q * Q \in Nat /\ sum * (P + Q) \in Nat
    BY <1>1
  <2> QED BY <1>1, <1>5, <2>1
<1>7. gap * (sum * (P + Q)) = (gap * sum) * (P + Q)
  BY <1>1
<1>8. -((P - Q) * (P - Q)) * (P + Q) = -((gap * sum) * (P + Q))
      /\ -gap * (P * P + Q * Q) = -(gap * (P * P + Q * Q))
  BY <1>1, <1>2
<1>9. gap * (P * P + Q * Q) \in Int /\ (gap * sum) * (P + Q) \in Int
  BY <1>1
<1> QED BY <1>6, <1>7, <1>8, <1>9 DEF P, Q, gap

-----------------------------------------------------------------------------
(* The experiments. *)

\* A request that a script has posted carries the fields that it documents.
ScriptPosted ==
  exchange.stage = "posted" /\ exchange.by = "script" =>
    /\ exchange.kind \in ExperimentKinds
    /\ exchange.input \in ScriptBodies(exchange.kind)
    /\ exchange.body = exchange.input

\* What is posted for the page is made of an input.
PagePosted ==
  exchange.stage = "posted" /\ exchange.by = "HttpAPI" =>
    /\ exchange.kind \in ExperimentKinds
    /\ exchange.input \in Inputs(exchange.kind)
    /\ exchange.body = BodyOf(exchange.kind, exchange.input)

\* The answer to a sandwich: 422 for a fee that is out of range, 500 for a pool that
\* lacks a token, and else what the three swaps come to.
LEMMA SandwichAnswered ==
  ASSUME NEW r \in Scenarios
  PROVE  /\ Post("sandwich", r).status \in {200, 422, 500}
         /\ Post("sandwich", r).status # 422 =>
              /\ r.fee \in Fee
              /\ r.reserve0 \in Nat /\ r.reserve1 \in Nat
              /\ r.victimAmountIn \in Nat /\ r.attackerAmountIn \in Nat
         /\ Post("sandwich", r).status = 500 => r.reserve0 <= 0 \/ r.reserve1 <= 0
         /\ Post("sandwich", r).status = 200 =>
              /\ r.reserve0 > 0 /\ r.reserve1 > 0
              /\ Post("sandwich", r).body = Sandwich(r)
<1>1. /\ r.reserve0 \in Nat /\ r.reserve1 \in Nat
      /\ r.victimAmountIn \in Nat /\ r.attackerAmountIn \in Nat
  BY LabAssumption DEF Scenarios
<1>2. CASE ~Validates("sandwich", r)
  <2>1. Post("sandwich", r) = Envelope(422, "validation")
    BY <1>2 DEF Post, Raise, Handle, ValidationFailed
  <2> QED BY <2>1, SMT DEF Envelope
<1>3. CASE Validates("sandwich", r)
  <2>1. r.fee \in Fee
    <3>1. "fee" \in DOMAIN r
      BY DEF Scenarios
    <3>2. InRange("fee", r["fee"])
      BY <1>3, <3>1 DEF Validates
    <3> QED BY <3>2 DEF InRange, Fee
  <2>2. Post("sandwich", r) = RunSandwichRoute(r)
    BY <1>3 DEF Post
  <2>3. CASE SandwichRaises(r)
    <3>1. Post("sandwich", r) = Envelope(500, "internal")
      BY <2>2, <2>3 DEF RunSandwichRoute, Raise, Handle, Unhandled
    <3>2. r.reserve0 <= 0 \/ r.reserve1 <= 0
      <4> SUFFICES ASSUME r.reserve0 \in Some, r.reserve1 \in Some PROVE ~SandwichRaises(r)
        BY <1>1, <2>3 DEF Some
      <4>1. r.fee >= 0 /\ r.fee < FeeScale
        BY <2>1, FeeLeavesSome DEF Fee, Some
      <4>2. \A i \in {2, 3} : /\ Swaps(r).pools[i][1] > 0 /\ Swaps(r).pools[i][2] > 0
                              /\ Swaps(r).pools[i][1] \in Int /\ Swaps(r).pools[i][2] \in Int
        <5>1. \A i \in 1..4 : Swaps(r).pools[i][1] \in Some /\ Swaps(r).pools[i][2] \in Some
          BY <1>1, <2>1, SwapsAreSound
        <5>2. {2, 3} \subseteq 1..4
          OBVIOUS
        <5> QED BY <5>1, <5>2 DEF Some
      <4>3. \A i \in {2, 3} : ~SwapRaises(Swaps(r).pools[i][1], Swaps(r).pools[i][2], r.fee)
        BY <2>1, <4>1, <4>2, FeeLeavesSome DEF SwapRaises, Some, Fee
      <4>4. ~SwapRaises(r.reserve0, r.reserve1, r.fee)
        BY <2>1, <4>1, FeeLeavesSome DEF SwapRaises, Some, Fee
      <4> QED BY <4>3, <4>4 DEF SandwichRaises
    <3> QED BY <1>1, <2>1, <3>1, <3>2, SMT DEF Envelope
  <2>4. CASE ~SandwichRaises(r)
    <3>1. Post("sandwich", r) = [status |-> 200, body |-> Sandwich(r)]
      BY <2>2, <2>4 DEF RunSandwichRoute, Ok
    <3>2. r.reserve0 > 0 /\ r.reserve1 > 0
      BY <1>1, <2>4 DEF SandwichRaises, SwapRaises
    <3> QED BY <1>1, <2>1, <3>1, <3>2, SMT
  <2> QED BY <2>3, <2>4
<1> QED BY <1>2, <1>3

\* The answer to a loss.
LEMMA LossAnswered ==
  ASSUME NEW body \in ScriptBodies("il"), Post("il", body).status = 200
  PROVE  LET loss == Post("il", body).body
             v2 == CalculateV2IL(body.priceRatio)
         IN IF loss.variant = "v2" THEN loss.il = v2
            ELSE loss.il[1] * v2[2] <= v2[1] * loss.il[2]
<1> DEFINE ratio == body.priceRatio
           variant == body.variant
<1>1. body \in [priceRatio : Ratios, variant : {"v2", "v3"}]
  BY DEF ScriptBodies
<1>2. ratio \in Nat \X (Nat \ {0}) /\ variant \in {"v2", "v3"}
  BY <1>1, LabAssumption
<1>3. /\ "variant" \in DOMAIN body /\ "concentration" \notin DOMAIN body
  BY <1>1
<1>4. Post("il", body).body = [il |-> Il(ratio, variant, 2), variant |-> variant,
                               priceRatio |-> ratio]
  <2>1. Validates("il", body)
    <3> SUFFICES ASSUME ~Validates("il", body) PROVE FALSE
      OBVIOUS
    <3>1. Post("il", body) = Envelope(422, "validation")
      BY DEF Post, Raise, Handle, ValidationFailed
    <3> QED BY <3>1, SMT DEF Envelope
  <2>2. Post("il", body) = RunIlRoute(body)
    BY <2>1 DEF Post
  <2>3. FieldOr(body, "variant", "v2") = variant /\ FieldOr(body, "concentration", 2) = 2
    BY <1>3 DEF FieldOr
  <2> QED BY <2>2, <2>3 DEF RunIlRoute, Ok
<1>5. CalculateV2IL(ratio) = IlV2(ratio)
  BY <1>2, LossWithinBound
<1>6. CASE variant = "v2"
  BY <1>4, <1>5, <1>6 DEF Il
<1>7. CASE variant = "v3"
  <2> DEFINE p == ratio[1]
             q == ratio[2]
  <2>1. p \in Nat /\ q \in Nat
    BY <1>2
  <2>2. ratio[1]^2 = p * p /\ ratio[2]^2 = q * q
    BY <1>1, SquareAssumption
  <2>3. Il(ratio, variant, 2)
          = << -((p * p - q * q) * (p * p - q * q)), p * p * (p * p) + q * q * (q * q) >>
    BY <1>7, <2>2 DEF Il, IlV3, IlV2
  <2>4. IlV2(ratio) = << -((p - q) * (p - q)), p * p + q * q >>
    BY DEF IlV2
  <2> HIDE DEF p, q
  <2>5. Il(ratio, variant, 2)[1] * IlV2(ratio)[2] <= IlV2(ratio)[1] * Il(ratio, variant, 2)[2]
    BY <2>1, <2>3, <2>4, SquareLosesMore
  <2> QED BY <1>4, <1>5, <1>7, <2>5
<1> QED BY <1>2, <1>6, <1>7

\* The answer to a loss that the page posts.
LEMMA PostedLossAnswered ==
  ASSUME NEW input \in IlInputs, input.priceRatio[1] > 0
  PROVE  LET answer == Post("il", BodyOf("il", input))
         IN answer.status = 200 /\ answer.body.il = CalculateV2IL(input.priceRatio)
<1> DEFINE body == BodyOf("il", input)
<1>1. input.priceRatio \in Nat \X (Nat \ {0})
  BY LabAssumption DEF IlInputs
<1>2. body = [reserve0 |-> input.reserve0, reserve1 |-> input.reserve1,
              priceRatio |-> input.priceRatio]
  BY DEF BodyOf
<1> HIDE DEF body
<1>3. /\ DOMAIN body = {"reserve0", "reserve1", "priceRatio"}
      /\ body["priceRatio"] = input.priceRatio
  BY <1>2
<1>4. Validates("il", body)
  BY <1>3 DEF Validates, RequestModel, InRange
<1>5. FieldOr(body, "variant", "v2") = "v2"
  BY <1>3 DEF FieldOr
<1>6. Post("il", body) = Ok([il |-> IlV2(input.priceRatio), variant |-> "v2",
                             priceRatio |-> input.priceRatio])
  BY <1>3, <1>4, <1>5 DEF Post, RunIlRoute, Il
<1>7. CalculateV2IL(input.priceRatio) = IlV2(input.priceRatio)
  BY <1>1, LossWithinBound
<1> QED BY <1>6, <1>7 DEF Ok, body

\* What holds of the experiments; a request that is on its way links the two ends.
LabInv == ScriptPosted /\ PagePosted /\ InverseIsExact /\ SandwichSolvent /\ ScriptAgrees /\ PageAgrees

\* The answer that reaches the page.
LEMMA PageIsAnswered ==
  ASSUME LabInv, ServerAnswers
  PROVE  PageAgrees'
<1>1. PICK response \in {Post(exchange.kind, exchange.body), Unreachable} :
         exchange' = [stage |-> "answered", by |-> exchange.by, kind |-> exchange.kind,
                      input |-> exchange.input, response |-> response]
  BY DEF ServerAnswers
<1>2. SUFFICES ASSUME exchange.by = "HttpAPI", exchange.kind = "il", response # Unreachable,
                      exchange.input.priceRatio[1] > 0
               PROVE  /\ response.status = 200
                      /\ response.body.il = CalculateV2IL(exchange.input.priceRatio)
  BY <1>1 DEF PageAgrees
<1>3. exchange.input \in IlInputs /\ exchange.body = BodyOf("il", exchange.input)
  BY <1>2 DEF ServerAnswers, LabInv, PagePosted, Inputs
<1>4. response = Post("il", BodyOf("il", exchange.input))
  BY <1>1, <1>2, <1>3
<1> QED BY <1>2, <1>3, <1>4, PostedLossAnswered

\* The answer that reaches a script.
LEMMA AnswersAreSound ==
  ASSUME LabInv, ServerAnswers
  PROVE  SandwichSolvent' /\ ScriptAgrees'
<1>1. PICK response \in {Post(exchange.kind, exchange.body), Unreachable} :
         exchange' = [stage |-> "answered", by |-> exchange.by, kind |-> exchange.kind,
                      input |-> exchange.input, response |-> response]
  BY DEF ServerAnswers
<1>2. CASE exchange.by # "script" \/ response = Unreachable
  <2>1. Unreachable.status # 200
    BY SMT DEF Unreachable
  <2> QED BY <1>1, <1>2, <2>1 DEF SandwichSolvent, ScriptAgrees
<1>3. CASE exchange.by = "script" /\ response = Post(exchange.kind, exchange.input)
  <2>1. exchange.kind \in ExperimentKinds /\ exchange.input \in ScriptBodies(exchange.kind)
    BY <1>3 DEF ServerAnswers, LabInv, ScriptPosted
  <2>2. CASE exchange.kind = "sandwich"
    <3> DEFINE r == exchange.input
    <3>1. r \in Scenarios
      BY <2>1, <2>2 DEF ScriptBodies
    <3>2. /\ response.status \in {200, 422, 500}
          /\ response.status # 422 =>
               /\ r.fee \in Fee
               /\ r.reserve0 \in Nat /\ r.reserve1 \in Nat
               /\ r.victimAmountIn \in Nat /\ r.attackerAmountIn \in Nat
          /\ response.status = 500 => r.reserve0 <= 0 \/ r.reserve1 <= 0
          /\ response.status = 200 =>
               r.reserve0 > 0 /\ r.reserve1 > 0 /\ response.body = Sandwich(r)
      BY <1>3, <2>2, <3>1, SandwichAnswered
    <3> HIDE DEF r
    <3>3. ASSUME response.status = 200
          PROVE  /\ \A i \in 1..4 : /\ Swaps(r).pools[i][1] > 0
                                    /\ Swaps(r).pools[i][2] > 0
                 /\ \A i \in 1..3 : Swaps(r).pools[i + 1][1] * Swaps(r).pools[i + 1][2]
                                      >= Swaps(r).pools[i][1] * Swaps(r).pools[i][2]
                 /\ response.body.victimLoss >= 0
                 /\ r.victimAmountIn = 0 => ~IsSandwichProfitable(response.body)
      <4>1. r.fee \in Fee /\ r.reserve0 \in Some /\ r.reserve1 \in Some
            /\ r.victimAmountIn \in Nat /\ r.attackerAmountIn \in Nat
        <5>1. response.status # 422
          BY <3>3, SMT
        <5> QED BY <3>2, <3>3, <5>1 DEF Some
      <4>2. IsSandwichProfitable(response.body) <=> Sandwich(r).attackerProfit > 0
        BY <3>2, <3>3 DEF IsSandwichProfitable
      <4>3. Sandwich(r).attackerProfit \in Int
        BY <4>1, SwapsAreSound
      <4>4. /\ \A i \in 1..4 : Swaps(r).pools[i][1] \in Some /\ Swaps(r).pools[i][2] \in Some
            /\ \A i \in 1..3 : Swaps(r).pools[i + 1][1] * Swaps(r).pools[i + 1][2]
                                 >= Swaps(r).pools[i][1] * Swaps(r).pools[i][2]
            /\ Sandwich(r).victimLoss >= 0
            /\ r.victimAmountIn = 0 => Sandwich(r).attackerProfit <= 0
        BY <4>1, SwapsAreSound
      <4>5. \A i \in 1..4 : Swaps(r).pools[i][1] > 0 /\ Swaps(r).pools[i][2] > 0
        BY <4>4 DEF Some
      <4>6. r.victimAmountIn = 0 => ~IsSandwichProfitable(response.body)
        BY <4>2, <4>3, <4>4
      <4>7. response.body.victimLoss >= 0
        BY <3>2, <3>3, <4>4
      <4> QED BY <4>4, <4>5, <4>6, <4>7
    <3>4. ASSUME response.status = 200, r.fee = 3000, ~SimulateThrows(r)
          PROVE  /\ SimulateSandwich(r).attackerProfit = response.body.attackerProfit
                 /\ SimulateSandwich(r).victimLoss = response.body.victimLoss
      <4>1. r.reserve0 \in Some /\ r.reserve1 \in Some
            /\ r.victimAmountIn \in Nat /\ r.attackerAmountIn \in Nat
        <5>1. response.status # 422
          BY <3>4, SMT
        <5> QED BY <3>2, <3>4, <5>1 DEF Some
      <4> QED BY <3>2, <3>4, <4>1, SandwichesAgree
    <3>5. SandwichSolvent'
      BY <1>1, <3>2, <3>3 DEF SandwichSolvent, r
    <3>6. ScriptAgrees'
      BY <1>1, <2>2, <3>4 DEF ScriptAgrees, r
    <3> QED BY <3>5, <3>6
  <2>3. CASE exchange.kind = "il"
    <3>1. SandwichSolvent'
      BY <1>1, <2>3 DEF SandwichSolvent
    <3>2. ScriptAgrees'
      BY <1>1, <1>3, <2>1, <2>3, LossAnswered DEF ScriptAgrees
    <3> QED BY <3>1, <3>2
  <2>4. CASE exchange.kind = "attribution"
    BY <1>1, <2>4 DEF SandwichSolvent, ScriptAgrees
  <2> QED BY <2>1, <2>2, <2>3, <2>4 DEF ExperimentKinds
<1>4. exchange.by = "script" => exchange.body = exchange.input
  BY DEF ServerAnswers, LabInv, ScriptPosted
<1> QED BY <1>1, <1>2, <1>3, <1>4

\* Nothing has been asked.
LEMMA LabBegins == LabInit => LabInv
BY DEF LabInit, None, LabInv, ScriptPosted, PagePosted, PageAgrees, InverseIsExact, SandwichSolvent, ScriptAgrees

\* A step of the page, of a script or of the code that prices a trade.
LEMMA LabKeepsInv ==
  ASSUME LabInv, LabNext
  PROVE  LabInv'
<1> USE DEF LabInv, ScriptPosted, PagePosted
<1>1. ASSUME NEW kind \in ExperimentKinds, NEW input \in Inputs(kind), Run(kind, input)
      PROVE  LabInv'
  BY <1>1 DEF Run, InverseIsExact, SandwichSolvent, ScriptAgrees, PageAgrees
<1>2. ASSUME NEW kind \in ExperimentKinds, NEW body \in ScriptBodies(kind),
             ScriptPosts(kind, body)
      PROVE  LabInv'
  BY <1>2 DEF ScriptPosts, InverseIsExact, SandwichSolvent, ScriptAgrees, PageAgrees
<1>3. CASE ServerAnswers
  <2>1. SandwichSolvent' /\ ScriptAgrees' /\ PageAgrees'
    BY <1>3, AnswersAreSound, PageIsAnswered
  <2>2. exchange'.stage = "answered"
    BY <1>3 DEF ServerAnswers
  <2> QED BY <2>1, <2>2 DEF InverseIsExact
<1>4. ASSUME NEW wanted \in Amounts, NEW in \in Reserves, NEW out \in Reserves,
             NEW fee \in Fees, Price(wanted, in, out, fee)
      PROVE  LabInv'
  <2>1. InverseIsExact'
    BY <1>4, PriceIsExact
  <2>2. exchange'.stage = "priced"
    BY <1>4 DEF Price
  <2> QED BY <2>1, <2>2 DEF SandwichSolvent, ScriptAgrees, PageAgrees
<1>5. ASSUME Settles \/ ListPresets \/ Done \/ (\E id \in Ids : GetPreset(id))
      PROVE  LabInv'
  <2>1. exchange'.stage \in {"settled", "none"}
    BY <1>5 DEF Settles, ListPresets, Done, GetPreset, None
  <2> QED BY <2>1 DEF InverseIsExact, SandwichSolvent, ScriptAgrees, PageAgrees
<1> QED BY <1>1, <1>2, <1>3, <1>4, <1>5 DEF LabNext

\* The steps of the other parts leave the experiments alone.
LEMMA LabAlways == Spec => []LabInv
<1>1. Init => LabInv
  BY LabBegins DEF Init
<1>2. LabInv /\ [Next]_<<part, backendVars, providerVars, labVars>> => LabInv'
  <2>1. ASSUME LabInv, UNCHANGED labVars PROVE LabInv'
    BY <2>1 DEF labVars, LabInv, ScriptPosted, PagePosted, PageAgrees, InverseIsExact, SandwichSolvent,
                ScriptAgrees
  <2> QED BY <2>1, LabKeepsInv DEF Next
<1> QED BY <1>1, <1>2, PTL DEF Spec

\* The input that cpmm.py asks for an output is the least that buys it; cpmm.ts asks that
\* or one more, and paying it never worsens the pool (cpmm.py:81-120, cpmm.ts:29-74).
THEOREM InputsAreExact == Spec => []InverseIsExact
<1>1. LabInv => InverseIsExact
  BY DEF LabInv
<1> QED BY <1>1, LabAlways, PTL

\* A sandwich that is answered leaves both tokens in the pool and no smaller product, does
\* not better the victim's price, and costs an attacker without a victim
\* (sandwich.py:70-131).
THEOREM SandwichesAreSolvent == Spec => []SandwichSolvent
<1>1. LabInv => SandwichSolvent
  BY DEF LabInv
<1> QED BY <1>1, LabAlways, PTL

\* The browser and the backend compute the same sandwich at 0.3 %, and the same loss
\* (algorithms/sandwich.ts:67-135, sandwich.py:70-131, il.ts, il.py).
THEOREM BothSidesAgree == Spec => []ImplementationsAgree
<1>1. LabInv => ImplementationsAgree
  BY DEF LabInv, ImplementationsAgree
<1> QED BY <1>1, LabAlways, PTL

-----------------------------------------------------------------------------
(* The cached block number. *)

Asking == [stage : {"asking"}, now : Nat]
Read == [stage : {"read"}, now : Nat, block : Int, seen : Nat]
Answers == [stage : {"returned"}, asked : Nat, block : Int, seen : Nat]

ProviderOK ==
  /\ clock \in Nat /\ head \in Int
  /\ cache \in [block : Int, at : Nat, seen : Nat]
  /\ probe \in [Callers -> {NotCalling} \cup Asking \cup Read \cup Answers]

AgeIsSafe ==
  /\ cache.at <= cache.seen
  /\ \A c \in Callers :
       /\ probe[c].stage = "asking" => probe[c].now <= clock
       /\ probe[c].stage = "read" => probe[c].now <= probe[c].seen

ProviderInv == ProviderOK /\ AgeIsSafe /\ HealthIsFresh

\* Nobody has called, and the cache is empty.
LEMMA ProviderBegins == ProviderInit => ProviderInv
BY DEF ProviderInit, ProviderInv, ProviderOK, AgeIsSafe, HealthIsFresh, NotCalling

\* Blocks and time.
LEMMA WorldKeepsInv ==
  ASSUME ProviderInv, HeadMoves \/ Tick
  PROVE  ProviderInv'
<1>1. /\ UNCHANGED <<cache, probe>> /\ clock' \in {clock, clock + 1}
      /\ head' \in {head, head + 1}
  BY DEF HeadMoves, Tick
<1>2. \A c \in Callers : probe[c].stage = "asking" => probe[c].now \in Nat
  BY DEF ProviderInv, ProviderOK, NotCalling, Asking, Read, Answers
<1> QED BY <1>1, <1>2 DEF ProviderInv, ProviderOK, AgeIsSafe, HealthIsFresh

\* A step of one caller, by the stage of its call.
LEMMA CallerKeepsInv ==
  ASSUME ProviderInv, NEW c \in Callers,
         Probe(c) \/ NodeReads(c) \/ ProbeReturns(c) \/ ProbeRaises(c) \/ ProbeDone(c)
  PROVE  ProviderInv'
<1>1. CASE Probe(c)
  <2>1. CASE CacheServes
    <3>1. /\ probe' = [probe EXCEPT ![c] = Returned(clock, cache.block, cache.seen)]
          /\ UNCHANGED <<clock, head, cache>>
      BY <1>1, <2>1 DEF Probe
    <3>2. cache.seen > clock - Ttl
      BY <2>1, ProviderAssumption DEF CacheServes, ProviderInv, ProviderOK, AgeIsSafe
    <3>3. Returned(clock, cache.block, cache.seen) \in Answers
      BY DEF Returned, Answers, ProviderInv, ProviderOK
    <3>4. ProviderOK'
      BY <3>1, <3>3 DEF ProviderInv, ProviderOK
    <3>5. AgeIsSafe' /\ HealthIsFresh'
      BY <3>1, <3>2 DEF Returned, ProviderInv, ProviderOK, AgeIsSafe, HealthIsFresh
    <3> QED BY <3>4, <3>5 DEF ProviderInv
  <2>2. CASE ~CacheServes
    BY <1>1, <2>2 DEF Probe, Asking, ProviderInv, ProviderOK, AgeIsSafe, HealthIsFresh
  <2> QED BY <2>1, <2>2
<1>2. CASE NodeReads(c)
  <2>1. /\ probe[c].stage = "asking" /\ UNCHANGED <<clock, head, cache>>
        /\ probe' = [probe EXCEPT ![c] =
             [stage |-> "read", now |-> probe[c].now, block |-> head, seen |-> clock]]
    BY <1>2 DEF NodeReads
  <2>2. probe[c].now \in Nat /\ probe[c].now <= clock
    BY <2>1 DEF ProviderInv, ProviderOK, AgeIsSafe, NotCalling, Asking, Read, Answers
  <2>3. ProviderOK'
    BY <2>1, <2>2 DEF Read, ProviderInv, ProviderOK
  <2>4. AgeIsSafe' /\ HealthIsFresh'
    BY <2>1, <2>2 DEF ProviderInv, ProviderOK, AgeIsSafe, HealthIsFresh
  <2> QED BY <2>3, <2>4 DEF ProviderInv
<1>3. CASE ProbeReturns(c)
  <2>1. /\ probe[c].stage = "read" /\ UNCHANGED <<clock, head>>
        /\ cache' = [block |-> probe[c].block, at |-> probe[c].now, seen |-> probe[c].seen]
        /\ probe' = [probe EXCEPT ![c] = Returned(probe[c].now, probe[c].block, probe[c].seen)]
    BY <1>3 DEF ProbeReturns
  <2>2. probe[c] \in Read /\ probe[c].now <= probe[c].seen
    BY <2>1 DEF ProviderInv, ProviderOK, AgeIsSafe, NotCalling, Asking, Read, Answers
  <2>3. ProviderOK'
    BY <2>1, <2>2 DEF Returned, Read, Answers, ProviderInv, ProviderOK
  <2>4. AgeIsSafe' /\ HealthIsFresh'
    BY <2>1, <2>2, ProviderAssumption
       DEF Returned, Read, ProviderInv, ProviderOK, AgeIsSafe, HealthIsFresh
  <2> QED BY <2>3, <2>4 DEF ProviderInv
<1>4. CASE ProbeRaises(c) \/ ProbeDone(c)
  BY <1>4 DEF ProbeRaises, ProbeDone, NotCalling,
              ProviderInv, ProviderOK, AgeIsSafe, HealthIsFresh
<1> QED BY <1>1, <1>2, <1>3, <1>4

\* What health() returns was the head less than a ttl before it was called,
\* however calls overlap (provider.py:58-73).
THEOREM ProviderIsFresh == Spec => []HealthIsFresh
<1>1. Init => ProviderInv
  BY ProviderBegins DEF Init
<1>2. ProviderInv /\ [Next]_<<part, backendVars, providerVars, labVars>> => ProviderInv'
  <2> SUFFICES ASSUME ProviderInv, [Next]_<<part, backendVars, providerVars, labVars>>
               PROVE  ProviderInv'
    OBVIOUS
  <2>1. CASE ProviderNext
    BY <2>1, WorldKeepsInv, CallerKeepsInv DEF ProviderNext
  <2>2. CASE UNCHANGED providerVars
    BY <2>2 DEF providerVars, ProviderInv, ProviderOK, AgeIsSafe, HealthIsFresh
  <2> QED BY <2>1, <2>2 DEF Next
<1>3. ProviderInv => HealthIsFresh
  BY DEF ProviderInv
<1> QED BY <1>1, <1>2, <1>3, PTL DEF Spec

-----------------------------------------------------------------------------
(* The lists. *)

\* A handler that is reading has had its fetcher, and lost nothing but single logs.
ReaderFields == {"stage", "kind", "began", "pending", "got", "raised"}

\* What app.state holds decides which fetchers there are.
WiredFetchers ==
  /\ wiring \in {"fetchers", "provider", "nothing"}
  /\ wiring = "fetchers" => Kinds \subseteq fetchers
  /\ wiring = "nothing" => fetchers = {}

SkippedOnly(calls) == \A call \in calls : SkipsOnRaise(call)

ReadersSkip ==
  /\ DOMAIN request = Slots
  /\ WiredFetchers
  /\ \A s \in Slots :
       LET r == request[s]
       IN r.stage = "reading" =>
            /\ r = [f \in ReaderFields |-> r[f]]
            /\ r.kind \in Kinds /\ wiring # "nothing" /\ SkippedOnly(r.raised)

CausesInv == ReadersSkip /\ ErrorsHaveCause

\* A body resolves the promise of a list.
LEMMA BodyResolves ==
  ASSUME NEW kind \in Kinds, NEW rows
  PROVE  Received(kind, Ok(rows), E18).ok
<1>1. Request(Ok(rows)) = Resolved(rows)
  BY SMT DEF Request, Ok
<1>2. \A value : Converted(Resolved(rows), value).ok
  BY DEF Converted, Resolved
<1> QED
  BY <1>1, <1>2 DEF Kinds, Received, ListPools, ListTransactions, ListLpPositions,
                    ListLendingPositions

\* An exception rejects it.
LEMMA ExceptionRejects ==
  ASSUME NEW kind \in Kinds, NEW class \in {"RuntimeError", "Exception"}
  PROVE  ~Received(kind, Raise(class), E18).ok
<1>1. Raise(class) = [status |-> 500, error |-> "internal"]
  BY DEF Raise, Handle, Unhandled, Envelope
<1>2. Request(Raise(class)) = Rejected("internal")
  BY <1>1, SMT DEF Request
<1>3. \A value : ~Converted(Rejected("internal"), value).ok
  BY DEF Converted, Rejected
<1> QED
  BY <1>2, <1>3 DEF Kinds, Received, ListPools, ListTransactions, ListLpPositions,
                    ListLendingPositions

\* What may become of the request of one slot: the request goes, is one that keeps the
\* invariant, or has been answered as it should be.
LEMMA OneRequest ==
  ASSUME CausesInv, NEW s \in Slots, NEW r,
         request' = [request EXCEPT ![s] = r],
         UNCHANGED wiring, WiredFetchers',
         r.stage = "reading" =>
           /\ r = [f \in ReaderFields |-> r[f]]
           /\ r.kind \in Kinds /\ wiring # "nothing" /\ SkippedOnly(r.raised),
         r.stage = "answered" /\ r.kind \in Kinds =>
           (Received(r.kind, r.response, E18).ok <=> wiring # "nothing" /\ SkippedOnly(r.raised))
  PROVE  CausesInv'
<1>1. /\ DOMAIN request' = Slots /\ request'[s] = r
      /\ \A t \in Slots \ {s} : request'[t] = request[t]
  BY DEF CausesInv, ReadersSkip
<1>2. ReadersSkip'
  BY <1>1 DEF CausesInv, ReadersSkip
<1>3. ErrorsHaveCause'
  <2> SUFFICES ASSUME NEW t \in Slots,
                      request'[t].stage = "answered", request'[t].kind \in Kinds
               PROVE  Received(request'[t].kind, request'[t].response, E18).ok
                        <=> /\ wiring # "nothing"
                            /\ \A call \in request'[t].raised :
                                 call[1] \in {"getTransaction", "getBlock"}
    BY DEF ErrorsHaveCause
  <2>1. CASE t = s
    BY <1>1, <2>1 DEF SkippedOnly, SkipsOnRaise
  <2>2. CASE t # s
    BY <1>1, <2>2 DEF CausesInv, ErrorsHaveCause
  <2> QED BY <2>1, <2>2
<1> QED BY <1>2, <1>3 DEF CausesInv

\* A handler that goes on, with no call lost but those that it skips.
LEMMA GoingOn ==
  ASSUME NEW r, r = [f \in ReaderFields |-> r[f]], r.stage = "reading", r.kind \in Kinds,
         NEW pending, NEW got, NEW raised, SkippedOnly(raised), wiring # "nothing"
  PROVE  LET next == GoOn(r, pending, got, raised)
         IN /\ next.stage = "reading" =>
                 /\ next = [f \in ReaderFields |-> next[f]]
                 /\ next.kind \in Kinds /\ SkippedOnly(next.raised)
            /\ next.stage = "answered" =>
                 /\ Received(next.kind, next.response, E18).ok
                 /\ SkippedOnly(next.raised)
<1>1. CASE pending = <<>>
  BY <1>1, BodyResolves DEF GoOn, Answered
<1>2. CASE pending # <<>>
  BY <1>2 DEF GoOn, ReaderFields
<1> QED BY <1>1, <1>2

\* A step of one request.
LEMMA RequestKeepsCauses ==
  ASSUME CausesInv, NEW s \in Slots,
         \/ \E kind \in Kinds : Get(s, kind)
         \/ CallReturns(s) \/ CallRaises(s) \/ GetHealth(s) \/ Delivered(s)
  PROVE  CausesInv'
<1>1. ASSUME NEW kind \in Kinds, Get(s, kind) PROVE CausesInv'
  <2> DEFINE bound == kind \in fetchers \/ wiring = "provider"
             r == IF bound
                  THEN [stage |-> "reading", kind |-> kind, began |-> block,
                        pending |-> FirstCalls(kind), got |-> <<>>, raised |-> {}]
                  ELSE Answered(kind, block, <<>>, {}, Raise("RuntimeError"))
  <2>1. /\ request' = [request EXCEPT ![s] = r] /\ UNCHANGED wiring
        /\ fetchers' = IF bound THEN fetchers \cup {kind} ELSE fetchers
    BY <1>1 DEF Get
  <2>2. bound => wiring # "nothing"
    BY DEF CausesInv, ReadersSkip, WiredFetchers
  <2>3. WiredFetchers'
    BY <2>1, <2>2 DEF CausesInv, ReadersSkip, WiredFetchers
  <2>4. CASE bound
    <3>1. r = [stage |-> "reading", kind |-> kind, began |-> block,
               pending |-> FirstCalls(kind), got |-> <<>>, raised |-> {}]
      BY <2>4
    <3>2. r.stage = "reading" /\ r.kind \in Kinds /\ SkippedOnly(r.raised)
      BY <3>1 DEF SkippedOnly
    <3>3. r = [f \in ReaderFields |-> r[f]]
      BY <3>1 DEF ReaderFields
    <3> HIDE DEF r, bound
    <3> QED BY <2>1, <2>2, <2>3, <2>4, <3>2, <3>3, OneRequest
  <2>5. CASE ~bound
    <3>1. r = Answered(kind, block, <<>>, {}, Raise("RuntimeError"))
      BY <2>5
    <3>2. r.stage = "answered" /\ r.kind = kind /\ r.response = Raise("RuntimeError")
      BY <3>1 DEF Answered
    <3>3. ~Received(r.kind, r.response, E18).ok
      BY <3>2, ExceptionRejects
    <3>4. wiring = "nothing"
      BY <2>5 DEF CausesInv, ReadersSkip, WiredFetchers
    <3> HIDE DEF r, bound
    <3> QED BY <2>1, <2>3, <3>2, <3>3, <3>4, OneRequest
  <2> HIDE DEF bound
  <2> QED BY <2>4, <2>5
<1>2. CASE CallReturns(s)
  <2> DEFINE call == Head(request[s].pending)
             value == Answer(Chain[block], call)
             pending == MoreCalls(call, value) \o Tail(request[s].pending)
             got == Append(request[s].got, [call |-> call, value |-> value])
             next == GoOn(request[s], pending, got, request[s].raised)
  <2>1. /\ request[s].stage = "reading"
        /\ request' = [request EXCEPT ![s] = next] /\ UNCHANGED <<wiring, fetchers>>
    BY <1>2 DEF CallReturns
  <2> HIDE DEF call, value, pending, got
  <2>2. /\ request[s] = [f \in ReaderFields |-> request[s][f]] /\ request[s].kind \in Kinds
        /\ SkippedOnly(request[s].raised) /\ wiring # "nothing"
    BY <2>1 DEF CausesInv, ReadersSkip
  <2>3. /\ next.stage = "reading" => next = [f \in ReaderFields |-> next[f]]
                                    /\ next.kind \in Kinds /\ SkippedOnly(next.raised)
        /\ next.stage = "answered" => Received(next.kind, next.response, E18).ok
                                     /\ SkippedOnly(next.raised)
    BY <2>1, <2>2, GoingOn
  <2>4. WiredFetchers'
    BY <2>1 DEF CausesInv, ReadersSkip, WiredFetchers
  <2> HIDE DEF next
  <2> QED BY <2>1, <2>2, <2>3, <2>4, OneRequest
<1>3. CASE CallRaises(s)
  <2> DEFINE call == Head(request[s].pending)
             raised == request[s].raised \cup {call}
             next == GoOn(request[s], Tail(request[s].pending), request[s].got, raised)
             failed == Answered(request[s].kind, request[s].began, request[s].got, raised,
                                Raise("Exception"))
  <2>1. /\ request[s].stage = "reading"
        /\ request' = [request EXCEPT ![s] = IF SkipsOnRaise(call) THEN next ELSE failed]
        /\ UNCHANGED <<wiring, fetchers>>
    BY <1>3 DEF CallRaises
  <2>2. /\ request[s] = [f \in ReaderFields |-> request[s][f]] /\ request[s].kind \in Kinds
        /\ SkippedOnly(request[s].raised) /\ wiring # "nothing"
    BY <2>1 DEF CausesInv, ReadersSkip
  <2>3. WiredFetchers'
    BY <2>1 DEF CausesInv, ReadersSkip, WiredFetchers
  <2> HIDE DEF call
  <2>4. CASE SkipsOnRaise(call)
    <3>1. SkippedOnly(raised)
      BY <2>2, <2>4 DEF SkippedOnly
    <3> HIDE DEF raised
    <3>2. /\ next.stage = "reading" => next = [f \in ReaderFields |-> next[f]]
                                      /\ next.kind \in Kinds /\ SkippedOnly(next.raised)
          /\ next.stage = "answered" => Received(next.kind, next.response, E18).ok
                                       /\ SkippedOnly(next.raised)
      BY <2>1, <2>2, <3>1, GoingOn
    <3>3. request' = [request EXCEPT ![s] = next] /\ UNCHANGED wiring
      BY <2>1, <2>4
    <3> HIDE DEF next
    <3> QED BY <2>2, <2>3, <3>2, <3>3, OneRequest
  <2>5. CASE ~SkipsOnRaise(call)
    <3>1. ~SkippedOnly(raised)
      BY <2>5 DEF SkippedOnly
    <3>2. /\ failed.stage = "answered" /\ failed.kind = request[s].kind
          /\ failed.raised = raised /\ failed.response = Raise("Exception")
      BY DEF Answered
    <3>3. ~Received(failed.kind, failed.response, E18).ok
      BY <2>2, <3>2, ExceptionRejects
    <3>4. request' = [request EXCEPT ![s] = failed] /\ UNCHANGED wiring
      BY <2>1, <2>5
    <3> HIDE DEF failed, raised
    <3> QED BY <2>3, <3>1, <3>2, <3>3, <3>4, OneRequest
  <2> QED BY <2>4, <2>5
<1>4. CASE GetHealth(s)
  <2>1. PICK connected \in BOOLEAN :
          request' = [request EXCEPT ![s] =
                        Answered("health", block, <<>>, {}, HealthResponse(connected))]
    BY <1>4 DEF GetHealth
  <2> DEFINE r == Answered("health", block, <<>>, {}, HealthResponse(connected))
  <2>2. r.stage = "answered" /\ r.kind \notin Kinds
    BY DEF Answered, Kinds
  <2>3. UNCHANGED wiring /\ WiredFetchers'
    BY <1>4 DEF GetHealth, CausesInv, ReadersSkip, WiredFetchers
  <2> HIDE DEF r
  <2>4. request' = [request EXCEPT ![s] = r]
    BY <2>1 DEF r
  <2> QED BY <2>2, <2>3, <2>4, OneRequest
<1>5. CASE Delivered(s)
  <2>1. request' = [request EXCEPT ![s] = Idle] /\ UNCHANGED wiring /\ WiredFetchers'
    BY <1>5 DEF Delivered, CausesInv, ReadersSkip, WiredFetchers
  <2>2. Idle.stage = "idle"
    BY DEF Idle
  <2> QED BY <2>1, <2>2, OneRequest
<1> QED BY <1>1, <1>2, <1>3, <1>4, <1>5

\* The invariant holds always.
LEMMA CausesAlways == Spec => []CausesInv
<1>1. Init => CausesInv
  BY DEF Init, BackendInit, Idle, CausesInv, ReadersSkip, WiredFetchers, ErrorsHaveCause
<1>2. CausesInv /\ [Next]_<<part, backendVars, providerVars, labVars>> => CausesInv'
  <2> SUFFICES ASSUME CausesInv, [Next]_<<part, backendVars, providerVars, labVars>>
               PROVE  CausesInv'
    OBVIOUS
  <2>1. ASSUME UNCHANGED <<wiring, fetchers, request>> PROVE CausesInv'
    BY <2>1 DEF CausesInv, ReadersSkip, WiredFetchers, ErrorsHaveCause
  <2>2. CASE BackendNext
    <3>1. CASE Mine
      BY <2>1, <3>1 DEF Mine
    <3>2. ASSUME NEW s \in Slots,
                 \/ GetPools(s) \/ GetLendingPositions(s) \/ GetLpPositions(s)
                 \/ GetTransactions(s) \/ CallReturns(s) \/ CallRaises(s)
                 \/ GetHealth(s) \/ Delivered(s)
          PROVE  CausesInv'
      BY <3>2, RequestKeepsCauses
         DEF GetPools, GetLendingPositions, GetLpPositions, GetTransactions, Kinds
    <3> QED BY <2>2, <3>1, <3>2 DEF BackendNext
  <2>3. CASE UNCHANGED backendVars
    BY <2>1, <2>3 DEF backendVars
  <2> QED BY <2>2, <2>3 DEF Next
<1> QED BY <1>1, <1>2, PTL DEF Spec

\* The promise of a list resolves exactly when a fetcher could be had and no call failed
\* but those about a single log (transactions.py:104-110, httpApi.ts:190-221).
THEOREM ErrorsAreCaused == Spec => []ErrorsHaveCause
<1>1. CausesInv => ErrorsHaveCause
  BY DEF CausesInv
<1> QED BY <1>1, CausesAlways, PTL

-----------------------------------------------------------------------------
(* What the lists show. *)

\* A sequence of whatever elements.
IsSeq(s) == \E S : s \in Seq(S)

\* A set of indices has a largest one.
LEMMA LargestExists ==
  ASSUME NEW n \in Nat, NEW I \in SUBSET (1..n), I # {}
  PROVE  Max(I) \in I
<1> DEFINE Less == {z \in Nat \X Nat : z[1] < z[2]}
           T == {n - i : i \in I}
<1>1. IsWellFoundedOn(Less, Nat)
  BY NatLessThanWellFounded DEF OpToRel
<1>2. T \subseteq Nat /\ T # {}
  <2>1. \A i \in I : n - i \in Nat
    OBVIOUS
  <2> QED BY <2>1
<1>3. PICK m \in T : \A y \in T : ~(<<y, m>> \in Less)
  <2> HIDE DEF Less, T
  <2> QED BY <1>1, <1>2, WFMin
<1>4. \A y \in T : ~(y < m)
  BY <1>2, <1>3
<1>5. PICK i \in I : m = n - i
  BY <1>3
<1>6. \A j \in I : i >= j
  <2> TAKE j \in I
  <2>1. n - j \in T /\ i \in Int /\ j \in Int
    OBVIOUS
  <2>2. ~(n - j < n - i)
    BY <2>1, <1>4, <1>5
  <2> QED BY <2>1, <2>2
<1> QED BY <1>6 DEF Max

\* An answer more is one more to be had.
LEMMA HasOneMore ==
  ASSUME NEW got, IsSeq(got), NEW g
  PROVE  /\ IsSeq(Append(got, g))
         /\ \A call : Has(Append(got, g), call) <=> Has(got, call) \/ g.call = call
         /\ \A i \in DOMAIN Append(got, g) :
              Append(got, g)[i] = g \/ \E j \in DOMAIN got : Append(got, g)[i] = got[j]
<1>1. PICK S : got \in Seq(S)
  BY DEF IsSeq
<1> DEFINE T == S \cup {g}
<1>2. got \in Seq(T) /\ g \in T
  BY <1>1
<1> HIDE DEF T
<1>3. Append(got, g) \in Seq(T)
  BY <1>2
<1>4. /\ Len(got) \in Nat /\ DOMAIN got = 1..Len(got)
      /\ DOMAIN Append(got, g) = 1..(Len(got) + 1)
      /\ Append(got, g)[Len(got) + 1] = g
      /\ \A i \in 1..Len(got) : Append(got, g)[i] = got[i]
  BY <1>2
<1>5. \A call : Has(Append(got, g), call) <=> Has(got, call) \/ g.call = call
  BY <1>4 DEF Has
<1> QED BY <1>3, <1>4, <1>5 DEF IsSeq

\* The first of the items from the (k+1)-th on, and the others.
LEMMA RestOfItems ==
  ASSUME NEW n \in Nat, NEW f, NEW k \in 0..n, k < n
  PROVE  LET s == [j \in 1..(n - k) |-> f[k + j]]
         IN /\ IsSeq(s) /\ s # <<>> /\ Head(s) = f[k + 1]
            /\ Tail(s) = [j \in 1..(n - (k + 1)) |-> f[(k + 1) + j]]
<1> DEFINE s == [j \in 1..(n - k) |-> f[k + j]]
           S == {f[j] : j \in 1..n}
<1>1. s \in Seq(S) /\ Len(s) = n - k
  BY SMT
<1>2. Tail(s) \in Seq(S) /\ Len(Tail(s)) = n - k - 1 /\ \A j \in 1..(n-k-1) : Tail(s)[j] = s[j+1]
  <2> HIDE DEF S
  <2> QED BY <1>1
<1>3. s # <<>> /\ Head(s) = f[k + 1]
  BY <1>1
<1>4. Tail(s) = [j \in 1..(n - (k + 1)) |-> f[(k + 1) + j]]
  <2>1. DOMAIN Tail(s) = 1..(n - (k + 1))
    BY <1>2
  <2>2. \A j \in 1..(n - (k + 1)) : Tail(s)[j] = f[(k + 1) + j]
    BY <1>2
  <2> DEFINE t == Tail(s)
  <2>3. t \in [1..(n - (k + 1)) -> S]
    <3> HIDE DEF S, s
    <3> QED BY <1>2, <2>1, LenProperties
  <2> HIDE DEF t, S
  <2>4. t = [j \in 1..(n - (k + 1)) |-> t[j]]
    BY <2>3
  <2> QED BY <2>2, <2>4 DEF t
<1>5. IsSeq(s)
  <2> HIDE DEF S
  <2> QED BY <1>1 DEF IsSeq
<1> QED BY <1>3, <1>4, <1>5

\* A call put in front.
LEMMA OneInFront ==
  ASSUME NEW x, NEW s, IsSeq(s)
  PROVE  /\ <<x>> \o s # <<>> /\ Head(<<x>> \o s) = x /\ Tail(<<x>> \o s) = s
         /\ <<>> \o s = s /\ s \o <<>> = s
<1>1. PICK S : s \in Seq(S)
  BY DEF IsSeq
<1> DEFINE T == S \cup {x}
<1>2. s \in Seq(T) /\ <<x>> \in Seq(T)
  BY <1>1
<1> HIDE DEF T
<1>3. <<x>> \o s \in Seq(T) /\ Len(<<x>> \o s) = Len(s) + 1
  BY <1>2
<1>4. (<<x>> \o s)[1] = x /\ \A i \in 1..Len(s) : (<<x>> \o s)[i + 1] = s[i]
  BY <1>2
<1>5. Tail(<<x>> \o s) = s
  BY <1>2, <1>3, <1>4
<1>6. Head(<<x>> \o s) = x /\ <<x>> \o s # <<>>
  BY <1>2, <1>3, <1>4
<1>7. <<>> \o s = s /\ s \o <<>> = s
  BY <1>2
<1> QED BY <1>5, <1>6, <1>7

\* The lists of which QuietAnswerIsTheChain speaks.
QuietKinds == Kinds \ {"lending"}

\* The log that the i-th pair of calls is about.
LogOf(chain, i) == <<i, chain.logs[i].tx>>

\* A reader asks for its items in order, and the answer to one may add a call.
Items(kind, chain) ==
  IF kind = "pools" THEN 7
  ELSE IF kind = "lp" THEN Len(chain.positions) ELSE Len(chain.logs)
Item(kind, chain) ==
  IF kind = "pools" THEN FirstCalls("pools")
  ELSE IF kind = "lp" THEN [i \in 1..Items(kind, chain) |-> <<"tokenOfOwnerByIndex", i>>]
  ELSE [i \in 1..Items(kind, chain) |-> <<"getTransaction", LogOf(chain, i)>>]
Follow(kind, chain, i) ==
  IF kind = "lp" THEN <<"positions", chain.positions[i].id>>
  ELSE <<"getBlock", LogOf(chain, i)>>
After(kind, chain, k) ==
  [j \in 1..(Items(kind, chain) - k) |-> Item(kind, chain)[k + j]]

About(raised, log) == \E call \in raised : call[2] = log

\* What is known of an item that is done with.
Settled(kind, chain, i, got, raised) ==
  IF kind = "transactions"
  THEN /\ Has(got, Follow(kind, chain, i)) <=> ~About(raised, LogOf(chain, i))
       /\ Has(got, Follow(kind, chain, i)) =>
            Has(got, Item(kind, chain)[i]) /\ chain.tx[chain.logs[i].tx].found
  ELSE /\ Has(got, Item(kind, chain)[i])
       /\ kind = "lp" => Has(got, Follow(kind, chain, i))

\* What is known of an item of which the call that it adds is still to come.
Fresh(kind, chain, i, got, raised) ==
  kind = "transactions" =>
    ~Has(got, Follow(kind, chain, i)) /\ ~About(raised, LogOf(chain, i))

\* The items up to the k-th are done with, and those from the l-th on not begun.
UpTo(kind, chain, k, l, got, raised) ==
  /\ \A i \in 1..k : Settled(kind, chain, i, got, raised)
  /\ \A i \in l..Items(kind, chain) : Fresh(kind, chain, i, got, raised)
  /\ kind = "lp" => Has(got, <<"balanceOf", 0>>)
  /\ kind = "transactions" => Has(got, <<"getLogs", 0>>)

\* Nothing has been answered.
AtStart(kind, pending, got, raised) ==
  kind # "pools" /\ pending = FirstCalls(kind) /\ got = <<>> /\ raised = {}

\* The reader is about to ask for the item after the k-th.
Between(kind, chain, k, pending, got, raised) ==
  pending = After(kind, chain, k) /\ UpTo(kind, chain, k, k + 1, got, raised)

\* It is about to make the call that the k-th item adds.
Within(kind, chain, k, pending, got, raised) ==
  /\ kind # "pools"
  /\ pending = <<Follow(kind, chain, k)>> \o After(kind, chain, k)
  /\ UpTo(kind, chain, k - 1, k, got, raised)
  /\ Has(got, Item(kind, chain)[k])
  /\ kind = "transactions" => chain.tx[chain.logs[k].tx].found

\* What was answered is what the chain holds.
Truthful(chain, got) ==
  IsSeq(got) /\ \A i \in DOMAIN got : got[i].value = Answer(chain, got[i].call)

\* A reader that has read the state chain alone.
OnTheWay(kind, chain, pending, got, raised) ==
  /\ Truthful(chain, got)
  /\ \/ AtStart(kind, pending, got, raised)
     \/ \E k \in 0..Items(kind, chain) : Between(kind, chain, k, pending, got, raised)
     \/ \E k \in 1..Items(kind, chain) : Within(kind, chain, k, pending, got, raised)

\* The lists of a state of the chain are sequences.
ListsOf(chain) == IsSeq(chain.positions) /\ IsSeq(chain.logs)

\* A value that is looked up is that of some answer.
LEMMA ValueIsAnswered ==
  ASSUME NEW got, IsSeq(got), NEW call, Has(got, call)
  PROVE  \E i \in DOMAIN got : got[i].call = call /\ Value(got, call) = got[i].value
<1> DEFINE I == {i \in 1..Len(got) : got[i].call = call}
<1>1. Len(got) \in Nat /\ DOMAIN got = 1..Len(got)
  BY DEF IsSeq
<1>2. I # {} /\ I \in SUBSET (1..Len(got))
  BY <1>1 DEF Has
<1>3. Max(I) \in I
  <2> HIDE DEF I
  <2> QED BY <1>1, <1>2, LargestExists
<1>4. Value(got, call) = got[Max(I)].value
  BY <1>2 DEF Value, SelectLastInSeq
<1> QED BY <1>1, <1>3, <1>4

\* A value that is looked up is the chain's.
LEMMA ValueIsTrue ==
  ASSUME NEW chain, NEW got, Truthful(chain, got), NEW call, Has(got, call)
  PROVE  Value(got, call) = Answer(chain, call)
BY ValueIsAnswered DEF Truthful

\* An answer of the chain keeps the rest true.
LEMMA StaysTruthful ==
  ASSUME NEW chain, NEW got, Truthful(chain, got), NEW call
  PROVE  Truthful(chain, Append(got, [call |-> call, value |-> Answer(chain, call)]))
<1> DEFINE g == [call |-> call, value |-> Answer(chain, call)]
<1>1. g.call = call /\ g.value = Answer(chain, call)
  OBVIOUS
<1> HIDE DEF g
<1> QED BY <1>1, HasOneMore DEF Truthful, g

\* There are finitely many items.
LEMMA ItemCount ==
  ASSUME NEW kind \in QuietKinds, NEW chain, ListsOf(chain)
  PROVE  Items(kind, chain) \in Nat
BY DEF Items, ListsOf, IsSeq

\* The items to come, with their first one taken away.
LEMMA NextItem ==
  ASSUME NEW kind \in QuietKinds, NEW chain, ListsOf(chain),
         NEW k \in 0..Items(kind, chain), k < Items(kind, chain)
  PROVE  LET s == After(kind, chain, k)
         IN /\ IsSeq(s) /\ s # <<>> /\ Head(s) = Item(kind, chain)[k + 1]
            /\ Tail(s) = After(kind, chain, k + 1)
<1> DEFINE s == After(kind, chain, k)
<1>1. s = [j \in 1..(Items(kind, chain) - k) |-> Item(kind, chain)[k + j]]
  BY DEF After
<1>2. Tail(s) = [j \in 1..(Items(kind, chain) - (k + 1)) |-> Item(kind, chain)[(k + 1) + j]]
      /\ IsSeq(s) /\ s # <<>> /\ Head(s) = Item(kind, chain)[k + 1]
  <2> DEFINE n == Items(kind, chain)  f == Item(kind, chain)
  <2>1. n \in Nat /\ k \in 0..n /\ k < n
    BY ItemCount
  <2>5. s = [j \in 1..(n - k) |-> f[k + j]]
    BY <1>1
  <2> HIDE DEF s, n, f
  <2>2. IsSeq(s) /\ s # <<>>
    BY <2>1, <2>5, RestOfItems
  <2>3. Head(s) = f[k + 1]
    BY <2>1, <2>5, RestOfItems
  <2>4. Tail(s) = [j \in 1..(n - (k + 1)) |-> f[(k + 1) + j]]
    <3>1. Tail([j \in 1..(n - k) |-> f[k + j]]) = [j \in 1..(n - (k + 1)) |-> f[(k + 1) + j]]
      BY <2>1, RestOfItems
    <3> QED BY <2>5, <3>1, Zenon
  <2> QED BY <2>2, <2>3, <2>4 DEF n, f
<1> QED BY <1>2 DEF After

\* No item is to come exactly when all have been asked for.
LEMMA LastItem ==
  ASSUME NEW kind \in QuietKinds, NEW chain, ListsOf(chain), NEW k \in 0..Items(kind, chain)
  PROVE  IsSeq(After(kind, chain, k)) /\ (After(kind, chain, k) = <<>> <=> k = Items(kind, chain))
<1>1. CASE k = Items(kind, chain)
  <2>1. After(kind, chain, k) = <<>>
    BY <1>1, ItemCount DEF After
  <2> QED BY <1>1, <2>1 DEF IsSeq
<1>2. CASE k # Items(kind, chain)
  BY <1>2, ItemCount, NextItem
<1> QED BY <1>1, <1>2

\* One more answer leaves what is known of the items it is not about.
LEMMA FactsStay ==
  ASSUME NEW kind \in QuietKinds, NEW chain, NEW k, NEW l, NEW got, NEW raised, NEW g,
         IsSeq(got), UpTo(kind, chain, k, l, got, raised),
         kind = "transactions" =>
           \A i \in (1..k) \cup (l..Items(kind, chain)) : g.call # Follow(kind, chain, i)
  PROVE  UpTo(kind, chain, k, l, Append(got, g), raised)
<1>1. \A call : Has(Append(got, g), call) <=> Has(got, call) \/ g.call = call
  BY HasOneMore
<1> DEFINE more == Append(got, g)
<1> HIDE DEF more
<1>2. \A i \in 1..k : Settled(kind, chain, i, more, raised)
  BY <1>1 DEF UpTo, Settled, more
<1>3. \A i \in l..Items(kind, chain) : Fresh(kind, chain, i, more, raised)
  BY <1>1 DEF UpTo, Fresh, more
<1> QED BY <1>1, <1>2, <1>3 DEF UpTo, more

\* The first answer of a list that is not in the catalog brings the items.
LEMMA ItemsCome ==
  ASSUME NEW kind \in QuietKinds, NEW chain, ListsOf(chain), NEW pending, NEW got, NEW raised,
         Truthful(chain, got), AtStart(kind, pending, got, raised)
  PROVE  LET call == Head(pending)
             value == Answer(chain, call)
         IN Between(kind, chain, 0, MoreCalls(call, value) \o Tail(pending),
                    Append(got, [call |-> call, value |-> value]), raised)
<1> DEFINE call == Head(pending)
           value == Answer(chain, call)
           g == [call |-> call, value |-> value]
<1>1. got = <<>> /\ raised = {} /\ kind \in {"lp", "transactions"}
  BY DEF AtStart, QuietKinds, Kinds
<1>2. Tail(pending) = <<>>
  BY <1>1 DEF AtStart, FirstCalls
<1>3. call = IF kind = "lp" THEN <<"balanceOf", 0>> ELSE <<"getLogs", 0>>
  BY <1>1 DEF AtStart, FirstCalls
<1>4. MoreCalls(call, value) = After(kind, chain, 0)
  <2>1. CASE kind = "lp"
    <3>1. call[1] = "balanceOf"
      BY <1>3, <2>1
    <3>2. value = Len(chain.positions)
      BY <3>1 DEF Answer
    <3>3. MoreCalls(call, value) = [i \in 1..value |-> <<"tokenOfOwnerByIndex", i>>]
      BY <3>1 DEF MoreCalls
    <3>4. After(kind, chain, 0) = [i \in 1..Items(kind, chain) |-> Item(kind, chain)[i]]
      BY ItemCount DEF After
    <3> QED BY <2>1, <3>2, <3>3, <3>4 DEF Items, Item
  <2>2. CASE kind = "transactions"
    <3>1. call[1] = "getLogs"
      BY <1>3, <2>2
    <3>2. value = chain.logs /\ DOMAIN value = 1..Len(chain.logs)
      BY <3>1 DEF Answer, ListsOf, IsSeq
    <3>3. MoreCalls(call, value) = [i \in DOMAIN value |-> <<"getTransaction", <<i, value[i].tx>>>>]
      BY <3>1 DEF MoreCalls
    <3>4. After(kind, chain, 0) = [i \in 1..Items(kind, chain) |-> Item(kind, chain)[i]]
      BY ItemCount DEF After
    <3> QED BY <2>2, <3>2, <3>3, <3>4 DEF Items, Item, LogOf
  <2> QED BY <1>1, <2>1, <2>2
<1>5. MoreCalls(call, value) \o Tail(pending) = After(kind, chain, 0)
  <2>1. IsSeq(After(kind, chain, 0))
    BY ItemCount, LastItem
  <2> QED BY <1>2, <1>4, <2>1, OneInFront
<1>6. \A c : Has(Append(got, g), c) <=> g.call = c
  <2>1. \A c : ~Has(got, c)
    BY <1>1 DEF Has
  <2> QED BY <2>1, HasOneMore DEF Truthful
<1>7. UpTo(kind, chain, 0, 1, Append(got, g), raised)
  <2>1. g.call = call
    OBVIOUS
  <2> HIDE DEF g, call, value
  <2>2. \A i : Fresh(kind, chain, i, Append(got, g), raised)
    BY <1>1, <1>3, <1>6, <2>1 DEF Fresh, Follow, About
  <2> QED BY <1>1, <1>3, <1>6, <2>1, <2>2 DEF UpTo
<1> HIDE DEF g, call, value
<1>8. 0 + 1 = 1
  OBVIOUS
<1> QED BY <1>5, <1>7, <1>8, Zenon DEF Between, g, call, value

\* The answer to an item adds the call that follows it, if there is one.
LEMMA ItemAnswered ==
  ASSUME NEW kind \in QuietKinds, NEW chain, ListsOf(chain), NEW pending, NEW got, NEW raised,
         Truthful(chain, got), NEW k \in 0..Items(kind, chain), pending # <<>>,
         Between(kind, chain, k, pending, got, raised), ~Refused(chain, Head(pending))
  PROVE  LET call == Head(pending)
             value == Answer(chain, call)
             next == MoreCalls(call, value) \o Tail(pending)
             more == Append(got, [call |-> call, value |-> value])
         IN /\ k < Items(kind, chain)
            /\ \/ Between(kind, chain, k + 1, next, more, raised)
               \/ Within(kind, chain, k + 1, next, more, raised)
<1> DEFINE call == Head(pending)
           value == Answer(chain, call)
           next == MoreCalls(call, value) \o Tail(pending)
           g == [call |-> call, value |-> value]
           more == Append(got, g)
<1>1. k < Items(kind, chain) /\ k \in Nat /\ Items(kind, chain) \in Nat
  BY ItemCount, LastItem DEF Between
<1>2. /\ call = Item(kind, chain)[k + 1]
      /\ Tail(pending) = After(kind, chain, k + 1) /\ IsSeq(Tail(pending))
  <2>1. pending = After(kind, chain, k) /\ k + 1 \in 0..Items(kind, chain)
    BY <1>1 DEF Between
  <2>2. /\ Head(After(kind, chain, k)) = Item(kind, chain)[k + 1]
        /\ Tail(After(kind, chain, k)) = After(kind, chain, k + 1)
    BY <1>1, NextItem
  <2>3. IsSeq(After(kind, chain, k + 1))
    BY <2>1, LastItem
  <2> QED BY <2>1, <2>2, <2>3
<1>3. g.call = call
  OBVIOUS
<1>4. \A c : Has(more, c) <=> Has(got, c) \/ call = c
  BY <1>3, HasOneMore DEF Truthful
<1> HIDE DEF g, call
<1>5. CASE kind = "pools"
  <2>1. MoreCalls(call, value) = <<>>
    BY <1>1, <1>2, <1>5 DEF MoreCalls, Item, FirstCalls, Items
  <2>2. next = After(kind, chain, k + 1)
    BY <1>2, <2>1, OneInFront
  <2>3. UpTo(kind, chain, k, k + 1, more, raised)
    BY <1>5, FactsStay DEF Between, Truthful
  <2> HIDE DEF more
  <2>4. Settled(kind, chain, k + 1, more, raised)
    BY <1>2, <1>4, <1>5 DEF Settled
  <2>5. UpTo(kind, chain, k + 1, k + 2, more, raised)
    BY <1>1, <1>5, <2>3, <2>4 DEF UpTo
  <2>6. (k + 1) + 1 = k + 2
    BY <1>1
  <2> QED BY <1>1, <2>2, <2>5, <2>6 DEF Between, more, g, call
<1>6. CASE kind \in {"lp", "transactions"}
  <2>1. call = IF kind = "lp" THEN <<"tokenOfOwnerByIndex", k + 1>>
               ELSE <<"getTransaction", LogOf(chain, k + 1)>>
    BY <1>1, <1>2, <1>6 DEF Item
  <2>2. MoreCalls(call, value) = <<Follow(kind, chain, k + 1)>>
    <3>1. CASE kind = "lp"
      BY <2>1, <3>1 DEF MoreCalls, Answer, Follow
    <3>2. CASE kind = "transactions"
      BY <2>1, <3>2 DEF MoreCalls, Follow
    <3> QED BY <1>6, <3>1, <3>2
  <2>3. kind = "transactions" => chain.tx[chain.logs[k + 1].tx].found
    BY <2>1 DEF Refused, LogOf, call
  <2>4. kind = "transactions" => \A i : call # Follow(kind, chain, i)
    BY <2>1 DEF Follow
  <2>5. UpTo(kind, chain, k, k + 1, more, raised)
    BY <1>3, <2>4, FactsStay DEF Between, Truthful
  <2>6. next = <<Follow(kind, chain, k + 1)>> \o After(kind, chain, k + 1)
    BY <1>2, <2>2
  <2>7. Has(more, Item(kind, chain)[k + 1])
    BY <1>2, <1>4
  <2> HIDE DEF more, next
  <2>8. (k + 1) - 1 = k
    BY <1>1
  <2>9. Within(kind, chain, k + 1, next, more, raised)
    BY <1>6, <2>3, <2>5, <2>6, <2>7, <2>8 DEF Within
  <2> QED BY <1>1, <2>9 DEF next, more, g, call
<1> QED BY <1>5, <1>6 DEF QuietKinds, Kinds

\* What a call that follows an item leaves to be read.
LEMMA FollowIsNext ==
  ASSUME NEW kind \in QuietKinds, NEW chain, ListsOf(chain), NEW pending, NEW got, NEW raised,
         NEW k \in 1..Items(kind, chain), Within(kind, chain, k, pending, got, raised)
  PROVE  /\ kind \in {"lp", "transactions"} /\ k \in 0..Items(kind, chain)
         /\ Head(pending) = Follow(kind, chain, k)
         /\ Tail(pending) = After(kind, chain, k) /\ IsSeq(Tail(pending))
<1>1. k \in 0..Items(kind, chain)
  BY ItemCount
<1>2. IsSeq(After(kind, chain, k))
  BY <1>1, LastItem
<1>3. pending = <<Follow(kind, chain, k)>> \o After(kind, chain, k)
  BY DEF Within
<1>4. Head(pending) = Follow(kind, chain, k) /\ Tail(pending) = After(kind, chain, k)
  BY <1>2, <1>3, OneInFront
<1> QED BY <1>1, <1>2, <1>4 DEF Within, QuietKinds, Kinds

\* Its answer ends the item.
LEMMA FollowAnswered ==
  ASSUME NEW kind \in QuietKinds, NEW chain, ListsOf(chain), NEW pending, NEW got, NEW raised,
         Truthful(chain, got), NEW k \in 1..Items(kind, chain),
         Within(kind, chain, k, pending, got, raised)
  PROVE  LET call == Head(pending)
             value == Answer(chain, call)
             next == MoreCalls(call, value) \o Tail(pending)
             more == Append(got, [call |-> call, value |-> value])
         IN Between(kind, chain, k, next, more, raised)
<1> DEFINE call == Head(pending)
           value == Answer(chain, call)
           next == MoreCalls(call, value) \o Tail(pending)
           g == [call |-> call, value |-> value]
           more == Append(got, g)
<1>1. /\ kind \in {"lp", "transactions"} /\ call = Follow(kind, chain, k)
      /\ Tail(pending) = After(kind, chain, k) /\ IsSeq(Tail(pending))
  BY FollowIsNext
<1>2. g.call = call /\ \A c : Has(more, c) <=> Has(got, c) \/ call = c
  <2>1. g.call = call
    OBVIOUS
  <2> QED BY <2>1, HasOneMore DEF Truthful
<1> HIDE DEF g, call
<1>3. MoreCalls(call, value) = <<>>
  BY <1>1 DEF MoreCalls, Follow
<1>4. next = After(kind, chain, k)
  BY <1>1, <1>3, OneInFront
<1> HIDE DEF more
<1>5. k \in Nat /\ k >= 1 /\ Items(kind, chain) \in Nat
  BY ItemCount
<1>6. kind = "transactions" => \A i : call = Follow(kind, chain, i) => i = k
  BY <1>1 DEF Follow, LogOf
<1>7. /\ \A i \in 1..(k - 1) : Settled(kind, chain, i, got, raised)
      /\ \A i \in k..Items(kind, chain) : Fresh(kind, chain, i, got, raised)
  BY DEF Within, UpTo
<1>8. \A i \in 1..(k - 1) : Settled(kind, chain, i, more, raised)
  <2> TAKE i \in 1..(k - 1)
  <2>1. i # k /\ Settled(kind, chain, i, got, raised)
    BY <1>5, <1>7
  <2>2. kind = "transactions" => call # Follow(kind, chain, i)
    BY <1>6, <2>1
  <2> QED BY <1>2, <2>1, <2>2 DEF Settled
<1>9. Settled(kind, chain, k, more, raised)
  <2>1. Fresh(kind, chain, k, got, raised)
    BY <1>5, <1>7
  <2> QED BY <1>1, <1>2, <2>1 DEF Within, Settled, Fresh
<1>10. \A i \in (k + 1)..Items(kind, chain) : Fresh(kind, chain, i, more, raised)
  <2> TAKE i \in (k + 1)..Items(kind, chain)
  <2>1. i # k /\ Fresh(kind, chain, i, got, raised)
    BY <1>5, <1>7
  <2> QED BY <1>2, <1>6, <2>1 DEF Fresh
<1>11. \A i \in 1..k : i \in 1..(k - 1) \/ i = k
  BY <1>5
<1>12. UpTo(kind, chain, k, k + 1, more, raised)
  BY <1>2, <1>8, <1>9, <1>10, <1>11 DEF UpTo, Within
<1> QED BY <1>4, <1>12 DEF Between, more, g, call, next

\* A call that is answered leaves the reader on its way.
LEMMA AnswerAdvances ==
  ASSUME NEW kind \in QuietKinds, NEW chain, ListsOf(chain), NEW pending, NEW got, NEW raised,
         pending # <<>>, OnTheWay(kind, chain, pending, got, raised),
         ~Refused(chain, Head(pending))
  PROVE  LET call == Head(pending)
             value == Answer(chain, call)
         IN OnTheWay(kind, chain, MoreCalls(call, value) \o Tail(pending),
                     Append(got, [call |-> call, value |-> value]), raised)
<1> DEFINE call == Head(pending)
           value == Answer(chain, call)
           next == MoreCalls(call, value) \o Tail(pending)
           more == Append(got, [call |-> call, value |-> value])
<1>1. Truthful(chain, got) /\ Truthful(chain, more)
  BY StaysTruthful DEF OnTheWay
<1>2. Items(kind, chain) \in Nat
  BY ItemCount
<1>3. ASSUME AtStart(kind, pending, got, raised)
      PROVE  OnTheWay(kind, chain, next, more, raised)
  <2>1. Between(kind, chain, 0, next, more, raised)
    BY <1>1, <1>3, ItemsCome
  <2> HIDE DEF next, more
  <2>2. 0 \in 0..Items(kind, chain)
    BY <1>2
  <2> QED BY <1>1, <2>1, <2>2 DEF OnTheWay
<1>4. ASSUME NEW k \in 0..Items(kind, chain), Between(kind, chain, k, pending, got, raised)
      PROVE  OnTheWay(kind, chain, next, more, raised)
  <2>1. /\ k < Items(kind, chain)
        /\ \/ Between(kind, chain, k + 1, next, more, raised)
           \/ Within(kind, chain, k + 1, next, more, raised)
    BY <1>1, <1>4, ItemAnswered
  <2> HIDE DEF next, more
  <2>2. k + 1 \in 0..Items(kind, chain) /\ k + 1 \in 1..Items(kind, chain)
    BY <1>2, <2>1
  <2> QED BY <1>1, <2>1, <2>2 DEF OnTheWay
<1>5. ASSUME NEW k \in 1..Items(kind, chain), Within(kind, chain, k, pending, got, raised)
      PROVE  OnTheWay(kind, chain, next, more, raised)
  <2>1. Between(kind, chain, k, next, more, raised)
    BY <1>1, <1>5, FollowAnswered
  <2> HIDE DEF next, more
  <2>2. k \in 0..Items(kind, chain)
    BY <1>2
  <2> QED BY <1>1, <2>1, <2>2 DEF OnTheWay
<1> HIDE DEF next, more
<1>6. OnTheWay(kind, chain, next, more, raised)
  <2>1. \/ AtStart(kind, pending, got, raised)
        \/ \E k \in 0..Items(kind, chain) : Between(kind, chain, k, pending, got, raised)
        \/ \E k \in 1..Items(kind, chain) : Within(kind, chain, k, pending, got, raised)
    BY DEF OnTheWay
  <2> QED BY <1>3, <1>4, <1>5, <2>1
<1> QED BY <1>6 DEF next, more

\* The log of a call that failed is shown no more, and no other log is touched.
LEMMA SkippedLogSettles ==
  ASSUME NEW chain, NEW k \in Nat, NEW got, NEW raised, NEW call,
         Items("transactions", chain) \in Nat,
         k + 1 \in 1..Items("transactions", chain),
         UpTo("transactions", chain, k, k + 1, got, raised),
         call[2] = LogOf(chain, k + 1)
  PROVE  UpTo("transactions", chain, k + 1, k + 2, got, raised \cup {call})
<1> DEFINE kind == "transactions"
           n == Items(kind, chain)
<1>1. \A log : About(raised \cup {call}, log) <=> About(raised, log) \/ call[2] = log
  BY DEF About
<1>2. \A i : LogOf(chain, i) = LogOf(chain, k + 1) => i = k + 1
  BY DEF LogOf
<1>3. \A i \in 1..k : Settled(kind, chain, i, got, raised \cup {call})
  <2> TAKE i \in 1..k
  <2>1. i # k + 1 /\ Settled(kind, chain, i, got, raised)
    BY DEF UpTo
  <2> QED BY <1>1, <1>2, <2>1 DEF Settled
<1>4. Settled(kind, chain, k + 1, got, raised \cup {call})
  <2>1. Fresh(kind, chain, k + 1, got, raised)
    BY DEF UpTo
  <2> QED BY <1>1, <2>1 DEF Settled, Fresh
<1>5. \A i \in (k + 2)..n : Fresh(kind, chain, i, got, raised \cup {call})
  <2> TAKE i \in (k + 2)..n
  <2>1. i # k + 1 /\ Fresh(kind, chain, i, got, raised)
    BY DEF UpTo
  <2> QED BY <1>1, <1>2, <2>1 DEF Fresh
<1>6. \A i \in 1..(k + 1) : i \in 1..k \/ i = k + 1
  OBVIOUS
<1>7. Has(got, <<"getLogs", 0>>)
  BY DEF UpTo
<1> QED BY <1>3, <1>4, <1>5, <1>6, <1>7 DEF UpTo

\* A call that is skipped leaves the reader on its way.
LEMMA SkipAdvances ==
  ASSUME NEW kind \in QuietKinds, NEW chain, ListsOf(chain), NEW pending, NEW got, NEW raised,
         pending # <<>>, OnTheWay(kind, chain, pending, got, raised),
         SkipsOnRaise(Head(pending))
  PROVE  OnTheWay(kind, chain, Tail(pending), got, raised \cup {Head(pending)})
<1> DEFINE call == Head(pending)
           n == Items(kind, chain)
<1>1. Truthful(chain, got) /\ n \in Nat /\ call[1] \in {"getTransaction", "getBlock"}
  BY ItemCount DEF OnTheWay, SkipsOnRaise
<1>2. ~AtStart(kind, pending, got, raised)
  BY <1>1 DEF AtStart, FirstCalls, QuietKinds, Kinds
<1>3. ASSUME NEW k \in 0..n, Between(kind, chain, k, pending, got, raised)
      PROVE  OnTheWay(kind, chain, Tail(pending), got, raised \cup {call})
  <2>1. k < n /\ k \in Nat /\ k + 1 \in 1..n /\ k + 1 \in 0..n /\ (k + 1) + 1 = k + 2
    BY <1>1, <1>3, LastItem DEF Between
  <2>2. call = Item(kind, chain)[k + 1] /\ Tail(pending) = After(kind, chain, k + 1)
    <3>1. /\ Head(After(kind, chain, k)) = Item(kind, chain)[k + 1]
          /\ Tail(After(kind, chain, k)) = After(kind, chain, k + 1)
      BY <2>1, NextItem
    <3> QED BY <1>3, <3>1 DEF Between
  <2>3. kind = "transactions" /\ call[2] = LogOf(chain, k + 1)
    <3> HIDE DEF call
    <3>1. kind # "pools"
      BY <1>1, <2>1, <2>2 DEF Item, FirstCalls, Items
    <3>2. kind # "lp"
      BY <1>1, <2>1, <2>2 DEF Item
    <3>3. kind = "transactions"
      BY <3>1, <3>2 DEF QuietKinds, Kinds
    <3> QED BY <2>1, <2>2, <3>3 DEF Item
  <2> HIDE DEF call
  <2>4. UpTo(kind, chain, k + 1, k + 2, got, raised \cup {call})
    BY <1>1, <1>3, <2>1, <2>3, SkippedLogSettles DEF Between
  <2> HIDE DEF n
  <2>5. Between(kind, chain, k + 1, Tail(pending), got, raised \cup {call})
    BY <2>1, <2>2, <2>4 DEF Between
  <2> QED BY <1>1, <2>1, <2>5 DEF OnTheWay, n
<1>4. ASSUME NEW k \in 1..n, Within(kind, chain, k, pending, got, raised)
      PROVE  OnTheWay(kind, chain, Tail(pending), got, raised \cup {call})
  <2>1. k - 1 \in Nat /\ (k - 1) + 1 = k /\ (k - 1) + 2 = k + 1
    BY <1>1
  <2>2. /\ kind \in {"lp", "transactions"} /\ k \in 0..n /\ call = Follow(kind, chain, k)
        /\ Tail(pending) = After(kind, chain, k)
    BY <1>4, FollowIsNext
  <2> HIDE DEF call
  <2>3. kind = "transactions" /\ call[2] = LogOf(chain, k)
    BY <1>1, <2>2 DEF Follow
  <2>4. UpTo(kind, chain, k - 1, k, got, raised)
    BY <1>4 DEF Within
  <2>5. UpTo(kind, chain, k, k + 1, got, raised \cup {call})
    <3> HIDE DEF n
    <3>1. k \in 1..Items("transactions", chain) /\ Items("transactions", chain) \in Nat
      BY <1>1, <2>3 DEF n
    <3>2. UpTo("transactions", chain, k - 1, (k - 1) + 1, got, raised)
      BY <2>1, <2>3, <2>4
    <3> DEFINE m == k - 1
    <3>3. m \in Nat /\ m + 1 = k /\ m + 2 = k + 1
      BY <2>1
    <3> HIDE DEF m
    <3>4. UpTo("transactions", chain, m + 1, m + 2, got, raised \cup {call})
      BY <2>3, <3>1, <3>2, <3>3, SkippedLogSettles DEF m
    <3> QED BY <2>3, <3>3, <3>4
  <2>6. Between(kind, chain, k, Tail(pending), got, raised \cup {call})
    BY <2>2, <2>5 DEF Between
  <2> HIDE DEF n
  <2> QED BY <1>1, <2>2, <2>6 DEF OnTheWay, n
<1> HIDE DEF call
<1> QED BY <1>2, <1>3, <1>4 DEF OnTheWay, call

\* A reader with nothing left to ask is done with every item.
LEMMA WayEnds ==
  ASSUME NEW kind \in QuietKinds, NEW chain, ListsOf(chain), NEW got, NEW raised,
         OnTheWay(kind, chain, <<>>, got, raised)
  PROVE  /\ Truthful(chain, got) /\ Items(kind, chain) \in Nat
         /\ \A i \in 1..Items(kind, chain) : Settled(kind, chain, i, got, raised)
         /\ kind = "lp" => Has(got, <<"balanceOf", 0>>)
         /\ kind = "transactions" => Has(got, <<"getLogs", 0>>)
<1>1. Items(kind, chain) \in Nat
  BY ItemCount
<1>2. ~AtStart(kind, <<>>, got, raised)
  BY DEF AtStart, FirstCalls, QuietKinds, Kinds
<1>3. ASSUME NEW k \in 1..Items(kind, chain), Within(kind, chain, k, <<>>, got, raised)
      PROVE  FALSE
  <2>1. k \in 0..Items(kind, chain)
    BY <1>1
  <2>2. <<Follow(kind, chain, k)>> \o After(kind, chain, k) # <<>>
    BY <2>1, LastItem, OneInFront
  <2> QED BY <1>3, <2>2 DEF Within
<1>4. PICK k \in 0..Items(kind, chain) : Between(kind, chain, k, <<>>, got, raised)
  BY <1>2, <1>3 DEF OnTheWay
<1>5. k = Items(kind, chain)
  BY <1>4, LastItem DEF Between
<1> QED BY <1>1, <1>4, <1>5 DEF Between, UpTo, OnTheWay

\* What the page shows of the rows that an answer carries.
ShownRows(kind, rows) == LET r == Received(kind, Ok(rows), E18).value
                         IN [i \in DOMAIN r |-> Shown(kind, r[i])]

\* The page converts the rows one by one.
LEMMA RowsAsReceived ==
  ASSUME NEW kind \in QuietKinds, NEW rows
  PROVE  Received(kind, Ok(rows), E18).value =
           [i \in DOMAIN rows |-> IF kind = "pools" THEN ShownPool(rows[i])
                                  ELSE IF kind = "lp" THEN ShownLp(rows[i])
                                  ELSE ShownTransaction(rows[i])]
<1>1. Request(Ok(rows)) = Resolved(rows)
  BY SMT DEF Request, Ok
<1>2. \A value : Converted(Resolved(rows), value) = Resolved(value)
  BY DEF Converted, Resolved
<1>3. Resolved(rows).value = rows /\ \A value : Resolved(value).value = value
  BY DEF Resolved
<1>4. CASE kind = "pools"
  BY <1>1, <1>2, <1>3, <1>4 DEF Received, ListPools
<1>5. CASE kind = "lp"
  BY <1>1, <1>2, <1>3, <1>5 DEF Received, ListLpPositions
<1>6. CASE kind = "transactions"
  BY <1>1, <1>2, <1>3, <1>6 DEF Received, ListTransactions
<1> QED BY <1>4, <1>5, <1>6 DEF QuietKinds, Kinds

\* The pools of the catalog are shown with the chain's reserves and prices.
LEMMA PoolsShown ==
  ASSUME NEW chain, ListsOf(chain), NEW got, NEW raised,
         OnTheWay("pools", chain, <<>>, got, raised)
  PROVE  ShownRows("pools", ListAll(got)) = Snapshot("pools", chain, raised)
<1> DEFINE rows == ListAll(got)
<1>1. "pools" \in QuietKinds
  BY DEF QuietKinds, Kinds
<1>2. Truthful(chain, got) /\ \A i \in 1..7 : Has(got, FirstCalls("pools")[i])
  BY <1>1, WayEnds DEF Settled, Items, Item
<1>3. /\ Value(got, <<"getReserves", 1>>) = chain.v2
      /\ Value(got, <<"slot0", 2>>) = chain.v3[2].price
      /\ Value(got, <<"slot0", 3>>) = chain.v3[3].price
  <2>1. /\ Has(got, <<"getReserves", 1>>) /\ Has(got, <<"slot0", 2>>)
        /\ Has(got, <<"slot0", 3>>)
    BY <1>2 DEF FirstCalls
  <2> QED BY <1>2, <2>1, ValueIsTrue DEF Answer
<1>4. DOMAIN rows = {1, 2, 3}
  BY DEF ListAll, Catalog
<1>5. rows[1].id = 1 /\ rows[1].reserve0 = chain.v2[1]
  BY <1>3 DEF ListAll, Catalog, BuildV2
<1>6. rows[2].id = 2 /\ rows[2].reserve0 = chain.v3[2].price
  BY <1>3 DEF ListAll, Catalog, BuildV3
<1>7. rows[3].id = 3 /\ rows[3].reserve0 = chain.v3[3].price
  BY <1>3 DEF ListAll, Catalog, BuildV3
<1>8. \A i \in {1, 2, 3} : "reserve0" \in DOMAIN rows[i]
  BY DEF ListAll, Catalog, BuildV2, BuildV3
<1> HIDE DEF rows
<1> DEFINE shown == [i \in DOMAIN rows |-> ShownPool(rows[i])]
<1>9. shown = Received("pools", Ok(rows), E18).value
  BY <1>1, RowsAsReceived
<1>10. \A i \in {1, 2, 3} : ShownPool(rows[i]).address = rows[i].id
                             /\ ShownPool(rows[i]).reserve0 = rows[i].reserve0
  BY <1>8 DEF ShownPool, FieldOf
<1>11. \A i \in {1, 2, 3} : Shown("pools", shown[i]) = <<rows[i].id, rows[i].reserve0>>
  BY <1>4, <1>10 DEF Shown
<1>12. ShownRows("pools", rows) = [i \in {1, 2, 3} |-> <<rows[i].id, rows[i].reserve0>>]
  <2>1. DOMAIN shown = {1, 2, 3}
    BY <1>4
  <2> HIDE DEF shown
  <2> QED BY <1>9, <1>11, <2>1 DEF ShownRows
<1>13. Snapshot("pools", chain, raised) = << <<1, chain.v2[1]>>, <<2, chain.v3[2].price>>,
                                             <<3, chain.v3[3].price>> >>
  BY DEF Snapshot
<1>14. [i \in {1, 2, 3} |-> <<rows[i].id, rows[i].reserve0>>]
         = << <<rows[1].id, rows[1].reserve0>>, <<rows[2].id, rows[2].reserve0>>,
              <<rows[3].id, rows[3].reserve0>> >>
  OBVIOUS
<1> QED BY <1>5, <1>6, <1>7, <1>12, <1>13, <1>14 DEF rows

\* So is every position with its liquidity.
LEMMA LpPositionsShown ==
  ASSUME NEW chain, ListsOf(chain), NEW got, NEW raised,
         OnTheWay("lp", chain, <<>>, got, raised)
  PROVE  ShownRows("lp", ListPositions(got)) = Snapshot("lp", chain, raised)
<1> DEFINE rows == ListPositions(got)
           n == Len(chain.positions)
<1>1. "lp" \in QuietKinds /\ n \in Nat /\ DOMAIN chain.positions = 1..n
  BY DEF QuietKinds, Kinds, ListsOf, IsSeq
<1>2. /\ Truthful(chain, got) /\ Has(got, <<"balanceOf", 0>>)
      /\ \A i \in 1..n : /\ Has(got, <<"tokenOfOwnerByIndex", i>>)
                         /\ Has(got, <<"positions", chain.positions[i].id>>)
  BY <1>1, WayEnds DEF Settled, Items, Item, Follow
<1>3. Value(got, <<"balanceOf", 0>>) = n
  BY <1>2, ValueIsTrue DEF Answer
<1>4. \A i \in 1..n : /\ Value(got, <<"tokenOfOwnerByIndex", i>>) = chain.positions[i].id
                      /\ Value(got, <<"positions", chain.positions[i].id>>)
                           = chain.position[chain.positions[i].id]
  <2> TAKE i \in 1..n
  <2>1. Value(got, <<"tokenOfOwnerByIndex", i>>) = chain.positions[i].id
    <3> DEFINE call == <<"tokenOfOwnerByIndex", i>>
    <3>1. call[1] = "tokenOfOwnerByIndex" /\ call[2] = i
      OBVIOUS
    <3>2. Has(got, call)
      BY <1>2
    <3> HIDE DEF call
    <3>3. Value(got, call) = Answer(chain, call)
      BY <1>2, <3>2, ValueIsTrue
    <3> QED BY <3>1, <3>3 DEF Answer, call
  <2>2. Value(got, <<"positions", chain.positions[i].id>>)
          = chain.position[chain.positions[i].id]
    <3> DEFINE call == <<"positions", chain.positions[i].id>>
    <3>1. call[1] = "positions" /\ call[2] = chain.positions[i].id
      OBVIOUS
    <3>2. Has(got, call)
      BY <1>2
    <3> HIDE DEF call
    <3>3. Value(got, call) = Answer(chain, call)
      BY <1>2, <3>2, ValueIsTrue
    <3> QED BY <3>1, <3>3 DEF Answer, call
  <2> QED BY <2>1, <2>2
<1>5. /\ DOMAIN rows = 1..n
      /\ \A i \in 1..n : /\ rows[i].id = chain.positions[i].id
                         /\ rows[i].amount0 = chain.position[chain.positions[i].id]
  BY <1>3, <1>4 DEF ListPositions
<1> HIDE DEF rows
<1> DEFINE shown == [i \in DOMAIN rows |-> ShownLp(rows[i])]
<1>6. shown = Received("lp", Ok(rows), E18).value
  BY <1>1, RowsAsReceived
<1>7. \A i \in 1..n : Shown("lp", shown[i]) = <<rows[i].id, rows[i].amount0>>
  BY <1>5 DEF Shown, ShownLp
<1>8. ShownRows("lp", rows) = [i \in 1..n |-> <<rows[i].id, rows[i].amount0>>]
  <2>1. DOMAIN shown = 1..n
    BY <1>5
  <2> HIDE DEF shown, n
  <2> QED BY <1>6, <1>7, <2>1 DEF ShownRows
<1>9. Snapshot("lp", chain, raised) =
        [i \in 1..n |-> <<chain.positions[i].id, chain.position[chain.positions[i].id]>>]
  BY <1>1 DEF Snapshot
<1> QED BY <1>5, <1>8, <1>9 DEF rows

\* And every transaction that could be enriched, in the order of the logs.
LEMMA TransactionsShown ==
  ASSUME NEW chain, ListsOf(chain), NEW got, NEW raised,
         OnTheWay("transactions", chain, <<>>, got, raised)
  PROVE  ShownRows("transactions", ListRecent(got)) = Snapshot("transactions", chain, raised)
<1> DEFINE rows == ListRecent(got)
           logs == chain.logs
           n == Len(logs)
           kept == InOrder({i \in DOMAIN logs : Enriched(got, <<i, logs[i].tx>>)})
           order == InOrder({i \in DOMAIN logs : /\ chain.tx[logs[i].tx].found
                                                 /\ chain.tx[logs[i].tx].to # "None"
                                                 /\ \A call \in raised :
                                                      call[2] # <<i, logs[i].tx>>})
<1>1. "transactions" \in QuietKinds /\ n \in Nat /\ DOMAIN logs = 1..n
  BY DEF QuietKinds, Kinds, ListsOf, IsSeq
<1>2. /\ Truthful(chain, got) /\ Has(got, <<"getLogs", 0>>)
      /\ \A i \in 1..n :
           /\ Has(got, <<"getBlock", LogOf(chain, i)>>) <=> ~About(raised, LogOf(chain, i))
           /\ Has(got, <<"getBlock", LogOf(chain, i)>>) =>
                Has(got, <<"getTransaction", LogOf(chain, i)>>) /\ chain.tx[logs[i].tx].found
  BY <1>1, WayEnds DEF Settled, Items, Item, Follow
<1>3. Value(got, <<"getLogs", 0>>) = logs
  BY <1>2, ValueIsTrue DEF Answer
<1>4. ASSUME NEW i \in 1..n, Has(got, <<"getTransaction", LogOf(chain, i)>>)
      PROVE  Value(got, <<"getTransaction", LogOf(chain, i)>>) = chain.tx[logs[i].tx].to
  <2> DEFINE call == <<"getTransaction", LogOf(chain, i)>>
  <2>1. call[1] = "getTransaction" /\ call[2][2] = logs[i].tx
    BY DEF LogOf
  <2>2. Has(got, call)
    BY <1>4
  <2> HIDE DEF call
  <2>3. Value(got, call) = Answer(chain, call)
    BY <1>2, <2>2, ValueIsTrue
  <2> QED BY <2>1, <2>3 DEF Answer, call
<1>5. \A i \in DOMAIN logs :
        Enriched(got, <<i, logs[i].tx>>) <=>
          /\ chain.tx[logs[i].tx].found /\ chain.tx[logs[i].tx].to # "None"
          /\ \A call \in raised : call[2] # <<i, logs[i].tx>>
  <2> TAKE i \in DOMAIN logs
  <2> DEFINE log == LogOf(chain, i)
  <2>1. log = <<i, logs[i].tx>> /\ i \in 1..n
    BY <1>1 DEF LogOf
  <2>2. About(raised, log) <=> ~ \A call \in raised : call[2] # <<i, logs[i].tx>>
    BY <2>1 DEF About
  <2>3. /\ Has(got, <<"getBlock", log>>) <=> ~About(raised, log)
        /\ Has(got, <<"getBlock", log>>) =>
             Has(got, <<"getTransaction", log>>) /\ chain.tx[logs[i].tx].found
    BY <1>2, <2>1
  <2>4. Has(got, <<"getTransaction", log>>) =>
          Value(got, <<"getTransaction", log>>) = chain.tx[logs[i].tx].to
    BY <1>4, <2>1
  <2>5. Enriched(got, log) <=> /\ Has(got, <<"getBlock", log>>)
                               /\ Value(got, <<"getTransaction", log>>) # "None"
    BY DEF Enriched
  <2> HIDE DEF log
  <2> QED BY <2>1, <2>2, <2>3, <2>4, <2>5
<1>6. kept = order
  BY <1>5
<1>7. rows = [j \in DOMAIN kept |->
                [hash |-> logs[kept[j]].tx,
                 timestamp |-> Value(got, <<"getBlock", <<kept[j], logs[kept[j]].tx>>>>),
                 type |-> ClassifyLog(logs[kept[j]])]]
  BY <1>3 DEF ListRecent
<1>8. Snapshot("transactions", chain, raised) =
        [j \in DOMAIN order |-> <<logs[order[j]].tx, ClassifyLog(logs[order[j]])>>]
  BY DEF Snapshot
<1> HIDE DEF rows, kept, order
<1>9. /\ DOMAIN rows = DOMAIN kept
      /\ \A j \in DOMAIN kept : /\ rows[j].hash = logs[kept[j]].tx
                                 /\ rows[j].type = ClassifyLog(logs[kept[j]])
  BY <1>7
<1> DEFINE shown == [i \in DOMAIN rows |-> ShownTransaction(rows[i])]
<1>10. shown = Received("transactions", Ok(rows), E18).value
  BY <1>1, RowsAsReceived
<1>11. \A j \in DOMAIN kept :
         Shown("transactions", shown[j]) = <<logs[kept[j]].tx, ClassifyLog(logs[kept[j]])>>
  <2> TAKE j \in DOMAIN kept
  <2>1. ClassifyLog(logs[kept[j]]) # "arbitrage"
    BY DEF ClassifyLog
  <2>2. shown[j] = ShownTransaction(rows[j])
    BY <1>9
  <2>3. /\ ShownTransaction(rows[j]).hash = rows[j].hash
        /\ ShownTransaction(rows[j]).mevType =
             IF rows[j].type = "arbitrage" THEN "arb" ELSE rows[j].type
    BY DEF ShownTransaction
  <2>4. Shown("transactions", shown[j]) = <<shown[j].hash, shown[j].mevType>>
    BY DEF Shown
  <2> HIDE DEF shown
  <2> QED BY <1>9, <2>1, <2>2, <2>3, <2>4
<1>12. ShownRows("transactions", rows) =
         [j \in DOMAIN kept |-> <<logs[kept[j]].tx, ClassifyLog(logs[kept[j]])>>]
  <2>1. DOMAIN shown = DOMAIN kept
    BY <1>9
  <2> HIDE DEF shown
  <2> QED BY <1>10, <1>11, <2>1 DEF ShownRows
<1> QED BY <1>6, <1>8, <1>12 DEF rows

\* A reader that has seen one block has read that block alone.
QuietReader(r) ==
  /\ r.began \in 1..block /\ r.pending # <<>>
  /\ r.kind \in QuietKinds /\ r.began = block =>
       OnTheWay(r.kind, Chain[block], r.pending, r.got, r.raised)

\* An answer of one block shows that block.
QuietAnswer(r) ==
  r.kind \in QuietKinds /\ r.began = r.ended /\ r.response.status = 200 =>
    LET rows == Received(r.kind, r.response, E18).value
    IN [i \in DOMAIN rows |-> Shown(r.kind, rows[i])] = Snapshot(r.kind, Chain[r.ended], r.raised)

QuietInv ==
  /\ block \in 1..Len(Chain)
  /\ \A s \in Slots : request[s].stage = "reading" => QuietReader(request[s])
  /\ \A s \in Slots : request[s].stage = "answered" => QuietAnswer(request[s])

\* The lists of the chain are sequences, block after block.
LEMMA ChainIsLists ==
  ASSUME NEW b \in 1..Len(Chain)
  PROVE  ListsOf(Chain[b])
BY ChainAssumption DEF ListsOf, IsSeq

\* What may become of the request of one slot.
LEMMA OneList ==
  ASSUME QuietInv, DOMAIN request = Slots, NEW s \in Slots, NEW r,
         request' = [request EXCEPT ![s] = r], UNCHANGED block,
         r.stage = "reading" => QuietReader(r), r.stage = "answered" => QuietAnswer(r)
  PROVE  QuietInv'
<1>1. request'[s] = r /\ \A t \in Slots \ {s} : request'[t] = request[t]
  OBVIOUS
<1>2. ASSUME NEW t \in Slots, request'[t].stage = "reading" PROVE QuietReader(request[t])'
  <2>1. QuietReader(request'[t])
    BY <1>1, <1>2 DEF QuietInv
  <2> QED BY <2>1 DEF QuietReader
<1>3. ASSUME NEW t \in Slots, request'[t].stage = "answered" PROVE QuietAnswer(request[t])'
  <2>1. QuietAnswer(request'[t])
    BY <1>1, <1>3 DEF QuietInv
  <2> QED BY <2>1 DEF QuietAnswer
<1> QED BY <1>2, <1>3 DEF QuietInv

\* A reader starts on its way.
LEMMA WayBegins ==
  ASSUME NEW kind \in QuietKinds, NEW chain, ListsOf(chain)
  PROVE  OnTheWay(kind, chain, FirstCalls(kind), <<>>, {})
<1>1. Truthful(chain, <<>>)
  BY DEF Truthful, IsSeq
<1>2. CASE kind # "pools"
  BY <1>1, <1>2 DEF OnTheWay, AtStart
<1>3. CASE kind = "pools"
  <2>1. After(kind, chain, 0) = FirstCalls(kind)
    BY <1>3 DEF After, Items, Item, FirstCalls
  <2>2. UpTo(kind, chain, 0, 0 + 1, <<>>, {})
    BY <1>3 DEF UpTo, Fresh
  <2>3. 0 \in 0..Items(kind, chain)
    BY ItemCount
  <2> QED BY <1>1, <2>1, <2>2, <2>3 DEF OnTheWay, Between
<1> QED BY <1>2, <1>3

\* A list that is answered shows the chain.
LEMMA ListShown ==
  ASSUME NEW kind \in QuietKinds, NEW chain, ListsOf(chain), NEW got, NEW raised,
         OnTheWay(kind, chain, <<>>, got, raised)
  PROVE  ShownRows(kind, Rows(kind, got)) = Snapshot(kind, chain, raised)
<1>1. CASE kind = "pools"
  BY <1>1, PoolsShown DEF Rows
<1>2. CASE kind = "lp"
  BY <1>2, LpPositionsShown DEF Rows
<1>3. CASE kind = "transactions"
  BY <1>3, TransactionsShown DEF Rows
<1> QED BY <1>1, <1>2, <1>3 DEF QuietKinds, Kinds

\* A handler goes on, or answers, as it should.
LEMMA ListGoesOn ==
  ASSUME NEW r, r = [f \in ReaderFields |-> r[f]], r.stage = "reading", r.began \in 1..block,
         block \in 1..Len(Chain), NEW pending, NEW got, NEW raised,
         r.kind \in QuietKinds /\ r.began = block =>
           OnTheWay(r.kind, Chain[block], pending, got, raised)
  PROVE  LET next == GoOn(r, pending, got, raised)
         IN /\ next.stage = "reading" => QuietReader(next)
            /\ next.stage = "answered" => QuietAnswer(next)
<1> DEFINE next == GoOn(r, pending, got, raised)
<1>1. CASE pending = <<>>
  <2>1. /\ next.stage = "answered" /\ next.kind = r.kind /\ next.began = r.began
        /\ next.ended = block /\ next.raised = raised
        /\ next.response = Ok(Rows(r.kind, got))
    BY <1>1 DEF GoOn, Answered
  <2> HIDE DEF next
  <2>2. ASSUME r.kind \in QuietKinds, r.began = block
        PROVE  ShownRows(r.kind, Rows(r.kind, got)) = Snapshot(r.kind, Chain[block], raised)
    BY <1>1, <2>2, ChainIsLists, ListShown
  <2> QED BY <2>1, <2>2 DEF QuietAnswer, ShownRows, next
<1>2. CASE pending # <<>>
  <2>1. /\ next.stage = "reading" /\ next.kind = r.kind /\ next.began = r.began
        /\ next.pending = pending /\ next.got = got /\ next.raised = raised
    BY <1>2 DEF GoOn, ReaderFields
  <2> HIDE DEF next
  <2> QED BY <1>2, <2>1 DEF QuietReader, next
<1> QED BY <1>1, <1>2

\* A step of one request.
LEMMA RequestKeepsLists ==
  ASSUME CausesInv, QuietInv, NEW s \in Slots,
         \/ \E kind \in Kinds : Get(s, kind)
         \/ CallReturns(s) \/ CallRaises(s) \/ GetHealth(s) \/ Delivered(s)
  PROVE  QuietInv'
<1> DEFINE r == request[s]
           call == Head(r.pending)
<1>1. DOMAIN request = Slots /\ block \in 1..Len(Chain)
  BY DEF CausesInv, ReadersSkip, QuietInv
<1>2. r.stage = "reading" => r = [f \in ReaderFields |-> r[f]] /\ QuietReader(r)
  BY DEF CausesInv, ReadersSkip, QuietInv
<1>3. ASSUME NEW kind \in Kinds, Get(s, kind) PROVE QuietInv'
  <2> DEFINE start == [stage |-> "reading", kind |-> kind, began |-> block,
                       pending |-> FirstCalls(kind), got |-> <<>>, raised |-> {}]
             failed == Answered(kind, block, <<>>, {}, Raise("RuntimeError"))
  <2>1. /\ request' = [request EXCEPT ![s] = start] \/ request' = [request EXCEPT ![s] = failed]
        /\ UNCHANGED block
    BY <1>3 DEF Get
  <2>2. QuietReader(start) /\ start.stage = "reading"
    <3>1. block \in 1..block /\ FirstCalls(kind) # <<>>
      BY <1>1, ChainAssumption DEF FirstCalls, Kinds
    <3>2. ASSUME kind \in QuietKinds
          PROVE  OnTheWay(kind, Chain[block], FirstCalls(kind), <<>>, {})
      BY <1>1, <3>2, WayBegins, ChainIsLists
    <3> QED BY <3>1, <3>2 DEF QuietReader
  <2>3. QuietAnswer(failed) /\ failed.stage = "answered"
    <3>1. Raise("RuntimeError").status = 500
      BY DEF Raise, Handle, Unhandled, Envelope
    <3> QED BY <3>1 DEF QuietAnswer, Answered
  <2> HIDE DEF start, failed
  <2> QED BY <1>1, <2>1, <2>2, <2>3, OneList
<1>4. CASE CallReturns(s)
  <2> DEFINE value == Answer(Chain[block], call)
             pending == MoreCalls(call, value) \o Tail(r.pending)
             got == Append(r.got, [call |-> call, value |-> value])
             next == GoOn(r, pending, got, r.raised)
  <2>1. /\ r.stage = "reading" /\ ~Refused(Chain[block], call)
        /\ request' = [request EXCEPT ![s] = next] /\ UNCHANGED block
    BY <1>4 DEF CallReturns
  <2>2. r.kind \in QuietKinds /\ r.began = block =>
          OnTheWay(r.kind, Chain[block], pending, got, r.raised)
    BY <1>1, <1>2, <2>1, ChainIsLists, AnswerAdvances DEF QuietReader
  <2> HIDE DEF pending, got
  <2>3. /\ next.stage = "reading" => QuietReader(next)
        /\ next.stage = "answered" => QuietAnswer(next)
    <3>1. r.began \in 1..block
      BY <1>2, <2>1 DEF QuietReader
    <3> HIDE DEF r
    <3> QED BY <1>1, <1>2, <2>1, <2>2, <3>1, ListGoesOn
  <2> HIDE DEF next
  <2> QED BY <1>1, <2>1, <2>3, OneList
<1>5. CASE CallRaises(s)
  <2> DEFINE raised == r.raised \cup {call}
             next == GoOn(r, Tail(r.pending), r.got, raised)
             failed == Answered(r.kind, r.began, r.got, raised, Raise("Exception"))
  <2>1. /\ r.stage = "reading" /\ UNCHANGED block
        /\ request' = [request EXCEPT ![s] = IF SkipsOnRaise(call) THEN next ELSE failed]
    BY <1>5 DEF CallRaises
  <2>2. CASE SkipsOnRaise(call)
    <3>1. r.kind \in QuietKinds /\ r.began = block =>
            OnTheWay(r.kind, Chain[block], Tail(r.pending), r.got, raised)
      BY <1>1, <1>2, <2>1, <2>2, ChainIsLists, SkipAdvances DEF QuietReader
    <3>2. r.began \in 1..block /\ request' = [request EXCEPT ![s] = next]
      BY <1>2, <2>1, <2>2 DEF QuietReader
    <3> HIDE DEF raised
    <3>3. /\ next.stage = "reading" => QuietReader(next)
          /\ next.stage = "answered" => QuietAnswer(next)
      <4> HIDE DEF r
      <4> QED BY <1>1, <1>2, <2>1, <3>1, <3>2, ListGoesOn
    <3> HIDE DEF next
    <3> QED BY <1>1, <2>1, <3>2, <3>3, OneList
  <2>3. CASE ~SkipsOnRaise(call)
    <3>1. Raise("Exception").status = 500
      BY DEF Raise, Handle, Unhandled, Envelope
    <3>2. QuietAnswer(failed) /\ failed.stage = "answered"
      BY <3>1 DEF QuietAnswer, Answered
    <3>3. request' = [request EXCEPT ![s] = failed]
      BY <2>1, <2>3
    <3> HIDE DEF failed
    <3> QED BY <1>1, <2>1, <3>2, <3>3, OneList
  <2> QED BY <2>2, <2>3
<1>6. CASE GetHealth(s)
  <2>1. PICK connected \in BOOLEAN :
          request' = [request EXCEPT ![s] =
                        Answered("health", block, <<>>, {}, HealthResponse(connected))]
    BY <1>6 DEF GetHealth
  <2> DEFINE answer == Answered("health", block, <<>>, {}, HealthResponse(connected))
  <2>2. QuietAnswer(answer) /\ answer.stage = "answered"
    BY DEF QuietAnswer, Answered, QuietKinds, Kinds
  <2>3. UNCHANGED block
    BY <1>6 DEF GetHealth
  <2> HIDE DEF answer
  <2>4. request' = [request EXCEPT ![s] = answer]
    BY <2>1 DEF answer
  <2> QED BY <1>1, <2>2, <2>3, <2>4, OneList
<1>7. CASE Delivered(s)
  <2>1. request' = [request EXCEPT ![s] = Idle] /\ UNCHANGED block
    BY <1>7 DEF Delivered
  <2>2. Idle.stage = "idle"
    BY DEF Idle
  <2> QED BY <1>1, <2>1, <2>2, OneList
<1> QED BY <1>3, <1>4, <1>5, <1>6, <1>7

\* So it is always.
LEMMA QuietAlways == Spec => [](CausesInv /\ QuietInv)
<1>1. Init => QuietInv
  BY BackendAssumption, ChainAssumption DEF Init, BackendInit, Idle, QuietInv
<1>2. CausesInv /\ QuietInv /\ [Next]_<<part, backendVars, providerVars, labVars>> => QuietInv'
  <2> SUFFICES ASSUME CausesInv, QuietInv, [Next]_<<part, backendVars, providerVars, labVars>>
               PROVE  QuietInv'
    OBVIOUS
  <2>1. CASE BackendNext
    <3>1. CASE Mine
      <4>1. /\ block' \in 1..Len(Chain) /\ block < block' /\ UNCHANGED request
            /\ block \in 1..Len(Chain)
        BY <3>1, ChainAssumption DEF Mine, QuietInv
      <4>2. ASSUME NEW s \in Slots, request[s].stage = "reading"
            PROVE  QuietReader(request[s])'
        <5>1. request[s].began \in 1..block /\ request[s].pending # <<>>
          BY <4>2 DEF QuietInv, QuietReader
        <5>2. request[s].began \in 1..block' /\ request[s].began # block'
          BY <4>1, <5>1
        <5> QED BY <4>1, <5>1, <5>2 DEF QuietReader
      <4>3. ASSUME NEW s \in Slots, request[s].stage = "answered"
            PROVE  QuietAnswer(request[s])'
        BY <4>1, <4>3 DEF QuietInv, QuietAnswer
      <4> QED BY <4>1, <4>2, <4>3 DEF QuietInv
    <3>2. ASSUME NEW s \in Slots,
                 \/ GetPools(s) \/ GetLendingPositions(s) \/ GetLpPositions(s)
                 \/ GetTransactions(s) \/ CallReturns(s) \/ CallRaises(s)
                 \/ GetHealth(s) \/ Delivered(s)
          PROVE  QuietInv'
      BY <3>2, RequestKeepsLists
         DEF GetPools, GetLendingPositions, GetLpPositions, GetTransactions, Kinds
    <3> QED BY <2>1, <3>1, <3>2 DEF BackendNext
  <2>2. CASE UNCHANGED backendVars
    BY <2>2 DEF backendVars, QuietInv, QuietReader, QuietAnswer
  <2> QED BY <2>1, <2>2 DEF Next
<1> QED BY <1>1, <1>2, CausesAlways, PTL DEF Spec

\* A list that was read while no block arrived shows the chain as it is, whatever the
\* other requests do meanwhile (chain/pools.py:188-203, lp.py:61-96,
\* transactions.py:96-111, httpApi.ts:225-344).
THEOREM QuietListsAreTheChain == Spec => []QuietAnswerIsTheChain
<1>1. QuietInv => QuietAnswerIsTheChain
  BY DEF QuietInv, QuietAnswer, QuietAnswerIsTheChain, QuietKinds
<1> QED BY <1>1, QuietAlways, PTL

-----------------------------------------------------------------------------
\* Induction over the naturals, of a set in place of a predicate.
LEMMA EveryNatural ==
  ASSUME NEW S, 0 \in S, \A n \in Nat : n \in S => n + 1 \in S
  PROVE  \A n \in Nat : n \in S
<1> DEFINE Less == {z \in Nat \X Nat : z[1] < z[2]}
           T == Nat \ S
<1>1. IsWellFoundedOn(Less, Nat)
  BY NatLessThanWellFounded DEF OpToRel
<1> SUFFICES ASSUME T # {} PROVE FALSE
  OBVIOUS
<1>2. PICK m \in T : \A y \in T : ~(<<y, m>> \in Less)
  <2>1. T \subseteq Nat
    OBVIOUS
  <2> HIDE DEF Less, T
  <2> QED BY <1>1, <2>1, WFMin
<1>3. m \in Nat /\ m # 0 /\ m \notin S
  OBVIOUS
<1>4. m - 1 \in Nat /\ m - 1 < m /\ m = (m - 1) + 1
  BY <1>3
<1>5. m - 1 \notin S
  BY <1>3, <1>4
<1>6. <<m - 1, m>> \in Less
  BY <1>3, <1>4
<1> QED BY <1>2, <1>4, <1>5, <1>6

-----------------------------------------------------------------------------
(* Sums.  SumOf takes the elements of a domain off one by one, in an order that *)
(* CHOOSE settles; Sums(f) is what it computes for every part of the domain.    *)

One(s) == CHOOSE x \in s : TRUE

Sums(f) ==
  CHOOSE h : h = [s \in SUBSET (DOMAIN f) |->
                    IF s = {} THEN 0 ELSE f[One(s)] + h[s \ {One(s)}]]

LEMMA SumIsSums == ASSUME NEW f PROVE SumOf(f) = Sums(f)[DOMAIN f]
BY DEF SumOf, FoldFunction, FoldFunctionOnSet, MapThenFoldSet, Sums, One

\* The parts of a domain that have at most n elements.
Small(f, n) == {s \in SUBSET (DOMAIN f) : Cardinality(s) <= n}

\* A finite part without one of its elements.
LEMMA OneLess ==
  ASSUME NEW D, IsFiniteSet(D), NEW s \in SUBSET D
  PROVE  /\ IsFiniteSet(s) /\ Cardinality(s) \in Nat /\ (Cardinality(s) = 0 <=> s = {})
         /\ s # {} => One(s) \in s
         /\ \A x \in s : s \ {x} \in SUBSET D /\ Cardinality(s \ {x}) = Cardinality(s) - 1
<1>1. IsFiniteSet(s)
  BY FS_Subset
<1>2. Cardinality(s) \in Nat
  BY <1>1, FS_CardinalityType
<1>3. Cardinality(s) = 0 <=> s = {}
  BY <1>1, FS_EmptySet
<1>4. \A x \in s : Cardinality(s \ {x}) = Cardinality(s) - 1
  BY <1>1, FS_RemoveElement
<1> QED BY <1>1, <1>2, <1>3, <1>4 DEF One

\* There is such a function, so that Sums is one.
LEMMA SumsDefined ==
  ASSUME NEW f, IsFiniteSet(DOMAIN f)
  PROVE  Sums(f) = [s \in SUBSET (DOMAIN f) |->
                      IF s = {} THEN 0 ELSE f[One(s)] + Sums(f)[s \ {One(s)}]]
<1> DEFINE D == DOMAIN f
           Right(h, P) == h = [s \in P |-> IF s = {} THEN 0 ELSE f[One(s)] + h[s \ {One(s)}]]
           S == {n \in Nat : \E h : Right(h, Small(f, n))}
<1>1. 0 \in S
  <2> DEFINE h == [s \in Small(f, 0) |-> 0]
  <2>1. \A s \in Small(f, 0) : s = {}
    BY OneLess DEF Small
  <2>2. Right(h, Small(f, 0))
    BY <2>1
  <2> QED BY <2>2
<1>2. ASSUME NEW n \in Nat, n \in S PROVE n + 1 \in S
  <2>1. PICK h : Right(h, Small(f, n))
    BY <1>2
  <2> DEFINE g == [s \in Small(f, n + 1) |->
                     IF s = {} THEN 0 ELSE f[One(s)] + h[s \ {One(s)}]]
  <2>2. ASSUME NEW s \in Small(f, n + 1), s # {}
        PROVE  g[s \ {One(s)}] = h[s \ {One(s)}]
    <3>1. s \ {One(s)} \in Small(f, n) /\ s \ {One(s)} \in Small(f, n + 1)
      BY <2>2, OneLess DEF Small
    <3> QED BY <2>1, <3>1
  <2>3. Right(g, Small(f, n + 1))
    BY <2>2
  <2> HIDE DEF g, Right
  <2> QED BY <2>3
<1>3. Cardinality(D) \in S
  <2>1. Cardinality(D) \in Nat
    BY FS_CardinalityType
  <2> HIDE DEF S
  <2> QED BY <1>1, <1>2, <2>1, EveryNatural
<1>4. Small(f, Cardinality(D)) = SUBSET D
  BY FS_Subset DEF Small
<1>5. \E h : Right(h, SUBSET D)
  BY <1>3, <1>4
<1> QED BY <1>5 DEF Sums

\* What holds of a part of a domain if it holds of the smaller ones.
LEMMA EveryPart ==
  ASSUME NEW D, IsFiniteSet(D), NEW G,
         \A s \in SUBSET D : (\A x \in s : s \ {x} \in G) => s \in G
  PROVE  \A s \in SUBSET D : s \in G
<1> DEFINE S == {n \in Nat : \A s \in SUBSET D : Cardinality(s) = n => s \in G}
<1>1. 0 \in S
  BY OneLess
<1>2. ASSUME NEW n \in Nat, n \in S PROVE n + 1 \in S
  <2>1. ASSUME NEW s \in SUBSET D, Cardinality(s) = n + 1 PROVE s \in G
    <3>1. \A x \in s : s \ {x} \in SUBSET D /\ Cardinality(s \ {x}) = n
      BY <2>1, OneLess
    <3> QED BY <1>2, <3>1
  <2> QED BY <2>1
<1>3. \A n \in Nat : n \in S
  <2> HIDE DEF S
  <2> QED BY <1>1, <1>2, EveryNatural
<1> QED BY <1>3, OneLess

\* The sums of naturals are naturals, and any element may be taken off first.
LEMMA AnyFirst ==
  ASSUME NEW f, IsFiniteSet(DOMAIN f), \A x \in DOMAIN f : f[x] \in Nat
  PROVE  /\ Sums(f)[{}] = 0
         /\ \A s \in SUBSET (DOMAIN f) :
              /\ Sums(f)[s] \in Nat
              /\ \A x \in s : Sums(f)[s] = f[x] + Sums(f)[s \ {x}]
<1> DEFINE D == DOMAIN f
           h == Sums(f)
           N == {s \in SUBSET D : h[s] \in Nat}
           G == {s \in SUBSET D : \A x \in s : h[s] = f[x] + h[s \ {x}]}
<1>1. \A s \in SUBSET D : h[s] = IF s = {} THEN 0 ELSE f[One(s)] + h[s \ {One(s)}]
  <2> HIDE DEF h
  <2> QED BY SumsDefined DEF h
<1> HIDE DEF h
<1>2. \A s \in SUBSET D : s \in N
  <2>1. ASSUME NEW s \in SUBSET D, \A x \in s : s \ {x} \in N PROVE s \in N
    <3>1. CASE s = {}
      <4>1. h[{}] = 0
        BY <1>1
      <4> QED BY <3>1, <4>1
    <3>2. CASE s # {}
      <4>1. One(s) \in s /\ h[s] = f[One(s)] + h[s \ {One(s)}]
        BY <1>1, <3>2, OneLess
      <4>2. f[One(s)] \in Nat /\ h[s \ {One(s)}] \in Nat
        BY <2>1, <4>1
      <4> QED BY <4>1, <4>2
    <3> QED BY <3>1, <3>2
  <2> HIDE DEF N
  <2> QED BY <2>1, EveryPart
<1>3. \A s \in SUBSET D : s \in G
  <2>1. ASSUME NEW s \in SUBSET D, \A x \in s : s \ {x} \in G, NEW x \in s
        PROVE  h[s] = f[x] + h[s \ {x}]
    <3> DEFINE c == One(s)
    <3>1. c \in s
      BY OneLess
    <3> HIDE DEF c
    <3>2. h[s] = f[c] + h[s \ {c}]
      BY <1>1 DEF c
    <3>3. CASE x = c
      BY <3>2, <3>3
    <3>4. CASE x # c
      <4>1. x \in s \ {c} /\ c \in s \ {x} /\ (s \ {c}) \ {x} = (s \ {x}) \ {c}
        BY <3>1, <3>4
      <4>2. h[s \ {c}] = f[x] + h[(s \ {c}) \ {x}]
        BY <2>1, <3>1, <4>1
      <4>3. h[s \ {x}] = f[c] + h[(s \ {x}) \ {c}]
        BY <2>1, <4>1
      <4>4. f[x] \in Nat /\ f[c] \in Nat /\ h[(s \ {x}) \ {c}] \in Nat
        BY <1>2, <3>1
      <4> DEFINE rest == h[(s \ {x}) \ {c}]
      <4>5. h[s] = f[c] + (f[x] + rest) /\ h[s \ {x}] = f[c] + rest /\ rest \in Nat
        BY <3>2, <4>1, <4>2, <4>3, <4>4
      <4> HIDE DEF rest
      <4> QED BY <4>4, <4>5
    <3> QED BY <3>3, <3>4
  <2>2. \A s \in SUBSET D : (\A x \in s : s \ {x} \in G) => s \in G
    BY <2>1
  <2> HIDE DEF G
  <2> QED BY <2>2, EveryPart
<1> QED BY <1>1, <1>2, <1>3 DEF h

\* The same numbers under other names add up to the same.
LEMMA SumOfRenamed ==
  ASSUME NEW f, IsFiniteSet(DOMAIN f), \A x \in DOMAIN f : f[x] \in Nat,
         NEW T, NEW name \in [DOMAIN f -> T],
         \A x, y \in DOMAIN f : x # y => name[x] # name[y],
         NEW g, DOMAIN g = {name[x] : x \in DOMAIN f},
         \A x \in DOMAIN f : g[name[x]] = f[x]
  PROVE  SumOf(g) = SumOf(f) /\ SumOf(f) \in Nat
<1> DEFINE D == DOMAIN f
           Named(s) == {name[x] : x \in s}
           G == {s \in SUBSET D : Sums(g)[Named(s)] = Sums(f)[s]}
<1>1. IsFiniteSet(DOMAIN g) /\ \A y \in DOMAIN g : g[y] \in Nat
  <2>1. name \in Surjection(D, Named(D))
    BY SMT DEF Surjection
  <2> QED BY <2>1, FS_Surjection
<1>2. ASSUME NEW s \in SUBSET D, \A x \in s : s \ {x} \in G PROVE s \in G
  <2>1. CASE s = {}
    <3>1. Named({}) = {}
      OBVIOUS
    <3> QED BY <1>1, <2>1, <3>1, AnyFirst
  <2>2. CASE s # {}
    <3>1. PICK x : x \in s
      BY <2>2
    <3>2. Named(s) \in SUBSET (DOMAIN g) /\ name[x] \in Named(s)
      BY <3>1
    <3>3. Named(s) \ {name[x]} = Named(s \ {x})
      BY <3>1
    <3>4. Sums(g)[Named(s)] = g[name[x]] + Sums(g)[Named(s) \ {name[x]}]
      <4> DEFINE names == Named(s)  y == name[x]
      <4> HIDE DEF Named, names, y
      <4>1. names \in SUBSET (DOMAIN g) /\ y \in names
        BY <3>2 DEF names, y
      <4>2. Sums(g)[names] = g[y] + Sums(g)[names \ {y}]
        BY <1>1, <4>1, AnyFirst
      <4> QED BY <4>2 DEF names, y
    <3>5. Sums(f)[s] = f[x] + Sums(f)[s \ {x}]
      BY <3>1, AnyFirst
    <3>6. Sums(g)[Named(s \ {x})] = Sums(f)[s \ {x}]
      BY <1>2, <3>1
    <3> HIDE DEF Named
    <3>7. Sums(g)[Named(s)] = Sums(f)[s]
      BY <3>1, <3>3, <3>4, <3>5, <3>6
    <3> QED BY <3>7
  <2> QED BY <2>1, <2>2
<1>3. D \in G
  <2>1. \A s \in SUBSET D : (\A x \in s : s \ {x} \in G) => s \in G
    BY <1>2
  <2> HIDE DEF G, D
  <2>2. IsFiniteSet(D) => \A s \in SUBSET D : s \in G
    BY <2>1, EveryPart
  <2>3. IsFiniteSet(D)
    BY DEF D
  <2> QED BY <2>2, <2>3
<1> QED BY <1>3, SumIsSums, AnyFirst

-----------------------------------------------------------------------------
(* The lending position.  Its reader asks for the reserves of one block and for *)
(* the tokens they name in that block or in later ones.                         *)

ReservesCall == <<"getUserReservesData", 0>>
DecimalsCall(chain, i) == <<"decimals", chain.reserves[i].asset>>

\* The reserves are those of block b.
ReservesOf(b, got) ==
  /\ IsSeq(got) /\ Has(got, ReservesCall)
  /\ \A i \in DOMAIN got : got[i].call = ReservesCall => got[i].value = Chain[b].reserves

\* The digits of a token were read in block b or later, up to the one given.
DecimalsSince(b, last, got) ==
  \A i \in DOMAIN got : got[i].call[1] = "decimals" =>
    \E c \in b..last : got[i].value = Chain[c].token[got[i].call[2]].decimals

\* The digits of every token are known or still to be asked for.
DecimalsCome(b, pending, got) ==
  \A i \in 1..Len(Chain[b].reserves) :
    \/ Has(got, DecimalsCall(Chain[b], i))
    \/ \E j \in DOMAIN pending : pending[j] = DecimalsCall(Chain[b], i)

TokensOf(b, last, pending, got) ==
  /\ IsSeq(pending) /\ \A j \in DOMAIN pending : pending[j][1] \in {"symbol", "decimals"}
  /\ ReservesOf(b, got) /\ DecimalsSince(b, last, got) /\ DecimalsCome(b, pending, got)

LendingWay(last, pending, got) ==
  \/ pending = <<ReservesCall>> /\ got = <<>>
  \/ \E b \in 1..last : TokensOf(b, last, pending, got)

LendingReader(r) == r.kind = "lending" => LendingWay(block, r.pending, r.got)

\* An answer is the position of the reserves of some block, with a scale to every asset.
ScalesKnown(b, got) ==
  \A i \in 1..Len(Chain[b].reserves) :
    Scale(Value(got, DecimalsCall(Chain[b], i))) \in Nat

LendingAnswer(r) ==
  r.kind = "lending" /\ r.response.status = 200 =>
    /\ r.response = Ok(<<GetPosition(r.got)>>)
    /\ \E b \in 1..Len(Chain) :
         Value(r.got, ReservesCall) = Chain[b].reserves /\ ScalesKnown(b, r.got)

LendingInv ==
  /\ \A s \in Slots : request[s].stage = "reading" => LendingReader(request[s])
  /\ \A s \in Slots : request[s].stage = "answered" => LendingAnswer(request[s])

\* What a sequence holds past its head.
LEMMA TailHolds ==
  ASSUME NEW s, IsSeq(s), s # <<>>
  PROVE  /\ IsSeq(Tail(s)) /\ 1 \in DOMAIN s /\ Head(s) = s[1]
         /\ \A j \in DOMAIN Tail(s) : \E i \in DOMAIN s : Tail(s)[j] = s[i]
         /\ \A i \in DOMAIN s : s[i] = Head(s) \/ \E j \in DOMAIN Tail(s) : Tail(s)[j] = s[i]
<1>1. PICK S : s \in Seq(S)
  BY DEF IsSeq
<1>2. /\ Tail(s) \in Seq(S) /\ Len(s) \in Nat /\ Len(s) > 0 /\ Len(Tail(s)) = Len(s) - 1
      /\ DOMAIN s = 1..Len(s) /\ DOMAIN Tail(s) = 1..(Len(s) - 1)
      /\ \A j \in 1..(Len(s) - 1) : Tail(s)[j] = s[j + 1]
  BY <1>1
<1>3. \A i \in 2..Len(s) : i - 1 \in 1..(Len(s) - 1) /\ s[i] = Tail(s)[i - 1]
  BY <1>2
<1>4. Head(s) = s[1]
  BY <1>1, <1>2
<1>5. IsSeq(Tail(s))
  BY <1>2 DEF IsSeq
<1>6. \A j \in DOMAIN Tail(s) : j + 1 \in DOMAIN s /\ Tail(s)[j] = s[j + 1]
  BY <1>2
<1>7. \A i \in DOMAIN s : i = 1 \/ i \in 2..Len(s)
  BY <1>2
<1>8. 1 \in DOMAIN s /\ DOMAIN Tail(s) = 1..(Len(s) - 1)
  BY <1>2
<1>9. \A i \in DOMAIN s : s[i] = Head(s) \/ \E j \in DOMAIN Tail(s) : Tail(s)[j] = s[i]
  BY <1>3, <1>4, <1>7, <1>8, Zenon
<1> QED BY <1>4, <1>5, <1>6, <1>8, <1>9

\* The reserves bring the calls for the tokens.
LEMMA TokensCome ==
  ASSUME NEW b \in 1..Len(Chain)
  PROVE  LET value == Answer(Chain[b], ReservesCall)
         IN TokensOf(b, b, MoreCalls(ReservesCall, value),
                     Append(<<>>, [call |-> ReservesCall, value |-> value]))
<1> DEFINE value == Chain[b].reserves
           g == [call |-> ReservesCall, value |-> value]
           got == Append(<<>>, g)
           pending == MoreCalls(ReservesCall, value)
           n == Len(value)
<1>1. Answer(Chain[b], ReservesCall) = value
  BY DEF Answer, ReservesCall
<1>2. n \in Nat
  BY ChainAssumption
<1>3. pending = [i \in 1..(2 * n) |->
                   <<IF i % 2 = 1 THEN "symbol" ELSE "decimals", value[(i + 1) \div 2].asset>>]
  BY DEF MoreCalls, ReservesCall
<1> HIDE DEF pending, value
<1>4. IsSeq(pending) /\ \A j \in DOMAIN pending : pending[j][1] \in {"symbol", "decimals"}
  <2> DEFINE S == {pending[j] : j \in 1..(2 * n)}
  <2>1. pending \in [1..(2 * n) -> S] /\ 2 * n \in Nat
    BY <1>2, <1>3
  <2>2. pending \in Seq(S)
    <3> HIDE DEF S
    <3> QED BY <2>1, SeqDef
  <2> HIDE DEF S
  <2>3. IsSeq(pending)
    BY <2>2 DEF IsSeq
  <2> QED BY <1>3, <2>3
<1>5. g.call = ReservesCall /\ g.value = value
  OBVIOUS
<1>6. got = <<g>> /\ DOMAIN got = {1} /\ got[1] = g /\ IsSeq(got)
  <2> HIDE DEF g
  <2>1. got = <<g>> /\ <<g>> \in Seq({g}) /\ DOMAIN got = {1} /\ got[1] = g
    BY SMT
  <2>2. IsSeq(<<g>>)
    BY <2>1 DEF IsSeq
  <2> QED BY <2>1, <2>2
<1> HIDE DEF g, got
<1>7. ReservesOf(b, got) /\ DecimalsSince(b, b, got)
  BY <1>5, <1>6 DEF ReservesOf, DecimalsSince, Has, ReservesCall, value
<1>8. DecimalsCome(b, pending, got)
  <2> SUFFICES ASSUME NEW i \in 1..n
               PROVE  \E j \in DOMAIN pending : pending[j] = DecimalsCall(Chain[b], i)
    BY DEF DecimalsCome, value
  <2>1. 2 * i \in 1..(2 * n) /\ (2 * i) % 2 = 0 /\ (2 * i + 1) \div 2 = i
    BY <1>2
  <2>2. pending[2 * i] = <<"decimals", value[i].asset>>
    BY <1>3, <2>1
  <2> QED BY <1>3, <2>1, <2>2 DEF DecimalsCall, value
<1>9. TokensOf(b, b, pending, got)
  BY <1>4, <1>7, <1>8 DEF TokensOf
<1> QED BY <1>1, <1>9 DEF pending, got, g

\* A token's answer leaves the rest to come.
LEMMA TokenAnswered ==
  ASSUME block \in 1..Len(Chain), NEW b \in 1..block, NEW pending, pending # <<>>, NEW got,
         TokensOf(b, block, pending, got)
  PROVE  LET call == Head(pending)
             value == Answer(Chain[block], call)
         IN TokensOf(b, block, MoreCalls(call, value) \o Tail(pending),
                     Append(got, [call |-> call, value |-> value]))
<1> DEFINE call == Head(pending)
           value == Answer(Chain[block], call)
           g == [call |-> call, value |-> value]
           more == Append(got, g)
           rest == MoreCalls(call, value) \o Tail(pending)
<1>1. block \in Nat /\ b \in Nat /\ block \in b..block
  BY ChainAssumption
<1>2. /\ IsSeq(Tail(pending)) /\ call[1] \in {"symbol", "decimals"}
      /\ \A j \in DOMAIN Tail(pending) : \E i \in DOMAIN pending : Tail(pending)[j] = pending[i]
      /\ \A i \in DOMAIN pending :
           pending[i] = call \/ \E j \in DOMAIN Tail(pending) : Tail(pending)[j] = pending[i]
  BY TailHolds DEF TokensOf
<1>3. g.call = call /\ g.value = value
  OBVIOUS
<1>4. MoreCalls(call, value) = <<>>
  BY <1>2 DEF MoreCalls
<1>5. rest = Tail(pending)
  BY <1>2, <1>4, OneInFront
<1>6. call[1] = "decimals" => value = Chain[block].token[call[2]].decimals
  BY DEF Answer
<1>7. /\ IsSeq(more) /\ \A c : Has(more, c) <=> Has(got, c) \/ call = c
      /\ \A i \in DOMAIN more : more[i] = g \/ \E j \in DOMAIN got : more[i] = got[j]
  <2>1. IsSeq(got)
    BY DEF TokensOf, ReservesOf
  <2> QED BY <1>3, <2>1, HasOneMore
<1> HIDE DEF more, g, rest, value, call
<1>8. ReservesOf(b, more)
  <2>1. call # ReservesCall
    BY <1>2 DEF ReservesCall
  <2> QED BY <1>3, <1>7, <2>1 DEF TokensOf, ReservesOf
<1>9. DecimalsSince(b, block, more)
  BY <1>1, <1>3, <1>6, <1>7 DEF TokensOf, DecimalsSince
<1>10. DecimalsCome(b, rest, more)
  BY <1>2, <1>5, <1>7 DEF TokensOf, DecimalsCome
<1>11. IsSeq(rest) /\ \A j \in DOMAIN rest : rest[j][1] \in {"symbol", "decimals"}
  BY <1>2, <1>5 DEF TokensOf
<1>12. TokensOf(b, block, rest, more)
  BY <1>8, <1>9, <1>10, <1>11 DEF TokensOf
<1> QED BY <1>12 DEF rest, more, g, value, call

\* An answer keeps the reader of a position on its way.
LEMMA LendingAdvances ==
  ASSUME block \in 1..Len(Chain), NEW pending, pending # <<>>, NEW got,
         LendingWay(block, pending, got)
  PROVE  LET call == Head(pending)
             value == Answer(Chain[block], call)
         IN LendingWay(block, MoreCalls(call, value) \o Tail(pending),
                       Append(got, [call |-> call, value |-> value]))
<1> DEFINE call == Head(pending)
           value == Answer(Chain[block], call)
           rest == MoreCalls(call, value) \o Tail(pending)
           more == Append(got, [call |-> call, value |-> value])
<1>1. block \in Nat /\ block \in 1..block
  BY ChainAssumption
<1>2. ASSUME pending = <<ReservesCall>>, got = <<>> PROVE LendingWay(block, rest, more)
  <2>1. call = ReservesCall /\ Tail(pending) = <<>>
    BY <1>2
  <2>2. TokensOf(block, block, MoreCalls(call, value), more)
    BY <1>2, <2>1, TokensCome
  <2>3. rest = MoreCalls(call, value)
    <3> HIDE DEF value, call
    <3>1. IsSeq(MoreCalls(call, value))
      BY <2>2 DEF TokensOf
    <3> QED BY <2>1, <3>1, OneInFront
  <2> HIDE DEF rest, more, value, call
  <2> QED BY <1>1, <2>2, <2>3 DEF LendingWay
<1>3. ASSUME NEW b \in 1..block, TokensOf(b, block, pending, got)
      PROVE  LendingWay(block, rest, more)
  <2>1. TokensOf(b, block, rest, more)
    BY <1>3, TokenAnswered
  <2> HIDE DEF rest, more
  <2> QED BY <2>1 DEF LendingWay
<1> HIDE DEF rest, more
<1>4. LendingWay(block, rest, more)
  BY <1>2, <1>3 DEF LendingWay
<1> QED BY <1>4 DEF rest, more

\* A position is shown from the reserves of one block, and every asset has a scale.
LEMMA LendingEnds ==
  ASSUME block \in 1..Len(Chain), NEW got, LendingWay(block, <<>>, got)
  PROVE  \E b \in 1..Len(Chain) :
           Value(got, ReservesCall) = Chain[b].reserves /\ ScalesKnown(b, got)
<1>1. PICK b \in 1..block : TokensOf(b, block, <<>>, got)
  BY DEF LendingWay
<1>2. b \in 1..Len(Chain) /\ \A c \in b..block : c \in b..Len(Chain)
  BY ChainAssumption
<1>3. Value(got, ReservesCall) = Chain[b].reserves
  BY <1>1, ValueIsAnswered DEF TokensOf, ReservesOf
<1>4. ScalesKnown(b, got)
  <2> SUFFICES ASSUME NEW i \in 1..Len(Chain[b].reserves)
               PROVE  Scale(Value(got, DecimalsCall(Chain[b], i))) \in Nat
    BY DEF ScalesKnown
  <2> DEFINE call == DecimalsCall(Chain[b], i)
  <2>1. call[1] = "decimals" /\ call[2] = Chain[b].reserves[i].asset
    BY DEF DecimalsCall
  <2>2. Has(got, call) /\ IsSeq(got)
    BY <1>1 DEF TokensOf, DecimalsCome, ReservesOf
  <2> HIDE DEF call
  <2>3. PICK k \in DOMAIN got : got[k].call = call /\ Value(got, call) = got[k].value
    BY <2>2, ValueIsAnswered
  <2>4. PICK c \in b..block : Value(got, call) = Chain[c].token[call[2]].decimals
    BY <1>1, <2>1, <2>3 DEF TokensOf, DecimalsSince
  <2>5. Scale(Chain[c].token[Chain[b].reserves[i].asset].decimals) \in Nat
    BY <1>2, TokenAssumption
  <2> QED BY <2>1, <2>4, <2>5 DEF call
<1> QED BY <1>2, <1>3, <1>4

\* What may become of the request of one slot.
LEMMA OnePosition ==
  ASSUME LendingInv, DOMAIN request = Slots, NEW s \in Slots, NEW r,
         request' = [request EXCEPT ![s] = r], UNCHANGED block,
         r.stage = "reading" => LendingReader(r), r.stage = "answered" => LendingAnswer(r)
  PROVE  LendingInv'
<1>1. request'[s] = r /\ \A t \in Slots \ {s} : request'[t] = request[t]
  OBVIOUS
<1>2. ASSUME NEW t \in Slots, request'[t].stage = "reading" PROVE LendingReader(request[t])'
  <2>1. LendingReader(request'[t])
    BY <1>1, <1>2 DEF LendingInv
  <2> QED BY <2>1 DEF LendingReader
<1>3. ASSUME NEW t \in Slots, request'[t].stage = "answered" PROVE LendingAnswer(request[t])'
  <2>1. LendingAnswer(request'[t])
    BY <1>1, <1>3 DEF LendingInv
  <2> QED BY <2>1 DEF LendingAnswer
<1> QED BY <1>2, <1>3 DEF LendingInv

\* A handler goes on, or answers, as it should.
LEMMA PositionGoesOn ==
  ASSUME NEW r, r = [f \in ReaderFields |-> r[f]], r.stage = "reading", block \in 1..Len(Chain),
         NEW pending, NEW got, NEW raised,
         r.kind = "lending" => LendingWay(block, pending, got)
  PROVE  LET next == GoOn(r, pending, got, raised)
         IN /\ next.stage = "reading" => LendingReader(next)
            /\ next.stage = "answered" => LendingAnswer(next)
<1> DEFINE next == GoOn(r, pending, got, raised)
<1>1. CASE pending = <<>>
  <2>1. /\ next.stage = "answered" /\ next.kind = r.kind /\ next.got = got
        /\ next.response = Ok(Rows(r.kind, got))
    BY <1>1 DEF GoOn, Answered
  <2> HIDE DEF next
  <2>2. ASSUME r.kind = "lending"
        PROVE  \E b \in 1..Len(Chain) :
                 Value(got, ReservesCall) = Chain[b].reserves /\ ScalesKnown(b, got)
    BY <1>1, <2>2, LendingEnds
  <2>3. r.kind = "lending" => Rows(r.kind, got) = <<GetPosition(got)>>
    BY DEF Rows
  <2> QED BY <2>1, <2>2, <2>3 DEF LendingAnswer, next
<1>2. CASE pending # <<>>
  <2>1. /\ next.stage = "reading" /\ next.kind = r.kind
        /\ next.pending = pending /\ next.got = got
    BY <1>2 DEF GoOn, ReaderFields
  <2> HIDE DEF next
  <2> QED BY <1>2, <2>1 DEF LendingReader, next
<1> QED BY <1>1, <1>2

\* A call for a position that fails ends the reading.
LEMMA LendingSkipsNothing ==
  ASSUME NEW last, NEW pending, pending # <<>>, NEW got, LendingWay(last, pending, got)
  PROVE  ~SkipsOnRaise(Head(pending))
<1>1. CASE pending = <<ReservesCall>>
  BY <1>1 DEF SkipsOnRaise, ReservesCall
<1>2. ASSUME NEW b \in 1..last, TokensOf(b, last, pending, got)
      PROVE  ~SkipsOnRaise(Head(pending))
  BY <1>2, TailHolds DEF TokensOf, SkipsOnRaise
<1> QED BY <1>1, <1>2 DEF LendingWay

\* A step of one request.
LEMMA RequestKeepsPositions ==
  ASSUME CausesInv, QuietInv, LendingInv, NEW s \in Slots,
         \/ \E kind \in Kinds : Get(s, kind)
         \/ CallReturns(s) \/ CallRaises(s) \/ GetHealth(s) \/ Delivered(s)
  PROVE  LendingInv'
<1> DEFINE r == request[s]
           call == Head(r.pending)
<1>1. DOMAIN request = Slots /\ block \in 1..Len(Chain)
  BY DEF CausesInv, ReadersSkip, QuietInv
<1>2. r.stage = "reading" => /\ r = [f \in ReaderFields |-> r[f]] /\ r.pending # <<>>
                             /\ LendingReader(r)
  BY DEF CausesInv, ReadersSkip, QuietInv, QuietReader, LendingInv
<1>3. ASSUME NEW kind \in Kinds, Get(s, kind) PROVE LendingInv'
  <2> DEFINE start == [stage |-> "reading", kind |-> kind, began |-> block,
                       pending |-> FirstCalls(kind), got |-> <<>>, raised |-> {}]
             failed == Answered(kind, block, <<>>, {}, Raise("RuntimeError"))
  <2>1. /\ request' = [request EXCEPT ![s] = start] \/ request' = [request EXCEPT ![s] = failed]
        /\ UNCHANGED block
    BY <1>3 DEF Get
  <2>2. LendingReader(start) /\ start.stage = "reading"
    BY DEF LendingReader, LendingWay, FirstCalls, ReservesCall
  <2>3. LendingAnswer(failed) /\ failed.stage = "answered"
    <3>1. Raise("RuntimeError").status = 500
      BY DEF Raise, Handle, Unhandled, Envelope
    <3> QED BY <3>1 DEF LendingAnswer, Answered
  <2> HIDE DEF start, failed
  <2> QED BY <1>1, <2>1, <2>2, <2>3, OnePosition
<1>4. CASE CallReturns(s)
  <2> DEFINE value == Answer(Chain[block], call)
             pending == MoreCalls(call, value) \o Tail(r.pending)
             got == Append(r.got, [call |-> call, value |-> value])
             next == GoOn(r, pending, got, r.raised)
  <2>1. /\ r.stage = "reading" /\ request' = [request EXCEPT ![s] = next] /\ UNCHANGED block
    BY <1>4 DEF CallReturns
  <2>2. r.kind = "lending" => LendingWay(block, pending, got)
    BY <1>1, <1>2, <2>1, LendingAdvances DEF LendingReader
  <2> HIDE DEF pending, got
  <2>3. /\ next.stage = "reading" => LendingReader(next)
        /\ next.stage = "answered" => LendingAnswer(next)
    <3> HIDE DEF r
    <3> QED BY <1>1, <1>2, <2>1, <2>2, PositionGoesOn
  <2> HIDE DEF next
  <2> QED BY <1>1, <2>1, <2>3, OnePosition
<1>5. CASE CallRaises(s)
  <2> DEFINE raised == r.raised \cup {call}
             next == GoOn(r, Tail(r.pending), r.got, raised)
             failed == Answered(r.kind, r.began, r.got, raised, Raise("Exception"))
  <2>1. /\ r.stage = "reading" /\ UNCHANGED block
        /\ request' = [request EXCEPT ![s] = IF SkipsOnRaise(call) THEN next ELSE failed]
    BY <1>5 DEF CallRaises
  <2>2. CASE SkipsOnRaise(call)
    <3>1. r.kind # "lending"
      BY <1>2, <2>1, <2>2, LendingSkipsNothing DEF LendingReader
    <3>2. request' = [request EXCEPT ![s] = next]
      BY <2>1, <2>2
    <3> HIDE DEF raised
    <3>3. /\ next.stage = "reading" => LendingReader(next)
          /\ next.stage = "answered" => LendingAnswer(next)
      <4> HIDE DEF r
      <4> QED BY <1>1, <1>2, <2>1, <3>1, PositionGoesOn
    <3> HIDE DEF next
    <3> QED BY <1>1, <2>1, <3>2, <3>3, OnePosition
  <2>3. CASE ~SkipsOnRaise(call)
    <3>1. Raise("Exception").status = 500
      BY DEF Raise, Handle, Unhandled, Envelope
    <3>2. LendingAnswer(failed) /\ failed.stage = "answered"
      BY <3>1 DEF LendingAnswer, Answered
    <3>3. request' = [request EXCEPT ![s] = failed]
      BY <2>1, <2>3
    <3> HIDE DEF failed
    <3> QED BY <1>1, <2>1, <3>2, <3>3, OnePosition
  <2> QED BY <2>2, <2>3
<1>6. CASE GetHealth(s)
  <2>1. PICK connected \in BOOLEAN :
          request' = [request EXCEPT ![s] =
                        Answered("health", block, <<>>, {}, HealthResponse(connected))]
    BY <1>6 DEF GetHealth
  <2> DEFINE answer == Answered("health", block, <<>>, {}, HealthResponse(connected))
  <2>2. LendingAnswer(answer) /\ answer.stage = "answered"
    BY DEF LendingAnswer, Answered
  <2>3. UNCHANGED block
    BY <1>6 DEF GetHealth
  <2> HIDE DEF answer
  <2>4. request' = [request EXCEPT ![s] = answer]
    BY <2>1 DEF answer
  <2> QED BY <1>1, <2>2, <2>3, <2>4, OnePosition
<1>7. CASE Delivered(s)
  <2>1. request' = [request EXCEPT ![s] = Idle] /\ UNCHANGED block
    BY <1>7 DEF Delivered
  <2>2. Idle.stage = "idle"
    BY DEF Idle
  <2> QED BY <1>1, <2>1, <2>2, OnePosition
<1> QED BY <1>3, <1>4, <1>5, <1>6, <1>7

\* So it is always.
LEMMA PositionsFromReserves ==
  Spec => [](CausesInv /\ QuietInv /\ LendingInv)
<1>1. Init => LendingInv
  BY DEF Init, BackendInit, Idle, LendingInv
<1>2. CausesInv /\ QuietInv /\ LendingInv /\ [Next]_<<part, backendVars, providerVars, labVars>>
        => LendingInv'
  <2> SUFFICES ASSUME CausesInv, QuietInv, LendingInv,
                      [Next]_<<part, backendVars, providerVars, labVars>>
               PROVE  LendingInv'
    OBVIOUS
  <2>1. CASE BackendNext
    <3>1. CASE Mine
      <4>1. block' = block + 1 /\ UNCHANGED request /\ block \in Nat
        BY <3>1, ChainAssumption DEF Mine, QuietInv
      <4>2. \A b \in 1..block : b \in 1..block' /\ \A c \in b..block : c \in b..block'
        BY <4>1
      <4>3. ASSUME NEW s \in Slots, request[s].stage = "reading"
            PROVE  LendingReader(request[s])'
        <5>1. LendingReader(request[s])
          BY <4>3 DEF LendingInv
        <5>2. ASSUME NEW pending, NEW got, LendingWay(block, pending, got)
              PROVE  LendingWay(block', pending, got)
          <6>1. ASSUME NEW b \in 1..block, TokensOf(b, block, pending, got)
                PROVE  LendingWay(block', pending, got)
            <7>1. TokensOf(b, block', pending, got)
              BY <4>2, <6>1 DEF TokensOf, DecimalsSince
            <7> QED BY <4>2, <7>1 DEF LendingWay
          <6> QED BY <5>2, <6>1 DEF LendingWay
        <5>3. LendingReader(request[s])' <=>
                (request'[s].kind = "lending" =>
                   LendingWay(block', request'[s].pending, request'[s].got))
          BY DEF LendingReader
        <5> QED BY <4>1, <5>1, <5>2, <5>3 DEF LendingReader
      <4>4. ASSUME NEW s \in Slots, request[s].stage = "answered"
            PROVE  LendingAnswer(request[s])'
        BY <4>1, <4>4 DEF LendingInv, LendingAnswer
      <4> QED BY <4>1, <4>3, <4>4 DEF LendingInv
    <3>2. ASSUME NEW s \in Slots,
                 \/ GetPools(s) \/ GetLendingPositions(s) \/ GetLpPositions(s)
                 \/ GetTransactions(s) \/ CallReturns(s) \/ CallRaises(s)
                 \/ GetHealth(s) \/ Delivered(s)
          PROVE  LendingInv'
      BY <3>2, RequestKeepsPositions
         DEF GetPools, GetLendingPositions, GetLpPositions, GetTransactions, Kinds
    <3> QED BY <2>1, <3>1, <3>2 DEF BackendNext
  <2>2. CASE UNCHANGED backendVars
    BY <2>2 DEF backendVars, LendingInv, LendingReader, LendingAnswer
  <2> QED BY <2>1, <2>2 DEF Next
<1> QED BY <1>1, <1>2, CausesAlways, QuietAlways, PTL DEF Spec

\* The collateral of a position at a price of its token, times the threshold.
LEMMA WorthAtPrice ==
  ASSUME NEW held \in Nat, NEW share \in Nat, NEW one \in Nat, one > 0, NEW unit \in Nat
  PROVE  LET worth == (held * unit) \div one
         IN worth \in Nat /\ one * (worth * share) <= (share * held) * unit
<1> DEFINE worth == (held * unit) \div one
<1>1. held * unit \in Nat
  OBVIOUS
<1>2. worth \in Nat /\ one * worth <= held * unit
  BY <1>1, DivBounds
<1> HIDE DEF worth
<1>3. share * (one * worth) <= share * (held * unit)
  <2> DEFINE a == one * worth  c == held * unit
  <2>1. a \in Nat /\ c \in Nat /\ a <= c
    BY <1>1, <1>2
  <2> HIDE DEF a, c
  <2>2. share * a <= share * c
    BY <2>1
  <2> QED BY <2>2 DEF a, c
<1>4. /\ share * (one * worth) = one * (worth * share)
      /\ share * (held * unit) = (share * held) * unit
  BY <1>2
<1> QED BY <1>2, <1>3, <1>4 DEF worth

\* At the price that is found for it a position is worth no more than its debt, and at
\* any lower one it is worth less (hf.ts:17-60).
LEMMA PriceIsLow ==
  ASSUME NEW held \in Nat, held > 0, NEW owed \in Nat, owed > 0, NEW share \in Nat, share > 0,
         NEW one \in Nat, one > 0
  PROVE  LET price == (owed * one * one) \div (share * held)
             factor(unit) == (((held * unit) \div one) * share) \div owed
         IN factor(price) <= one /\ (price > 0 => factor(price - 1) < one)
<1> DEFINE price == (owed * one * one) \div (share * held)
           worth(unit) == (held * unit) \div one
           factor(unit) == (worth(unit) * share) \div owed
           per == share * held
           whole == owed * one
<1>1. per \in Nat /\ per > 0 /\ whole \in Nat /\ whole * one \in Nat /\ owed * one * one = whole * one
  OBVIOUS
<1>2. price \in Nat /\ per * price <= one * whole
  <2>1. price = (whole * one) \div per /\ whole * one = one * whole
    BY <1>1
  <2> HIDE DEF price, per, whole
  <2> QED BY <1>1, <2>1, DivBounds
<1> HIDE DEF price
<1>3. ASSUME NEW unit \in Nat
      PROVE  worth(unit) * share \in Nat /\ one * (worth(unit) * share) <= per * unit
  <2>1. worth(unit) \in Nat /\ one * (worth(unit) * share) <= (share * held) * unit
    BY <1>3, WorthAtPrice
  <2> HIDE DEF worth
  <2> QED BY <2>1
<1>4. factor(price) <= one
  <2> DEFINE a == worth(price) * share
  <2>1. a \in Nat /\ one * a <= per * price
    BY <1>2, <1>3
  <2> HIDE DEF a, per
  <2>2. one * a <= one * whole
    BY <1>1, <1>2, <2>1
  <2> HIDE DEF whole
  <2>3. a <= whole
    BY <1>1, <2>1, <2>2, TimesKeepsOrder
  <2>4. whole < owed * (one + 1)
    BY DEF whole
  <2>5. a \div owed <= one
    BY <1>1, <2>1, <2>3, <2>4, DivAtMost
  <2> QED BY <2>5 DEF a
<1>5. ASSUME price > 0 PROVE factor(price - 1) < one
  <2> DEFINE a == worth(price - 1) * share
  <2>1. a \in Nat /\ one * a <= per * (price - 1)
    BY <1>2, <1>3, <1>5
  <2> HIDE DEF a, per
  <2>2. per * (price - 1) = per * price - per /\ per * price \in Nat
    BY <1>1, <1>2
  <2>3. one * a < one * whole
    BY <1>1, <1>2, <2>1, <2>2
  <2> HIDE DEF whole
  <2>4. a < whole
    BY <1>1, <2>1, <2>3, TimesKeepsOrder
  <2>5. whole = owed * ((one - 1) + 1) /\ one - 1 \in Nat
    BY DEF whole
  <2>6. a \div owed <= one - 1 /\ a \div owed \in Nat
    BY <1>1, <2>1, <2>4, <2>5, DivAtMost, DivBounds
  <2>7. a \div owed < one
    BY <2>6
  <2> QED BY <2>7 DEF a
<1> QED BY <1>4, <1>5 DEF price

\* The map from symbols to amounts of one side, as GetPosition builds it, and as it is
\* shown.
BySymbol(got, side) ==
  LET entry == Value(got, ReservesCall)
      symbol(i) == Value(got, <<"symbol", entry[i].asset>>)
      amounts == ScaledAmounts(got, side)
      of(s) == {i \in DOMAIN amounts : symbol(i) = s}
  IN [s \in {symbol(i) : i \in DOMAIN amounts} |->
        [at |-> Min(of(s)), amount |-> amounts[Max(of(s))]]]

Listed(got, side) == Lowercased(BySymbol(got, side))

Distinct(got) ==
  LET entry == Value(got, ReservesCall)
      key(i) == LowerCase(Value(got, <<"symbol", entry[i].asset>>))
  IN \A i, j \in DOMAIN entry : i # j => key(i) # key(j)

\* The amounts of a side that are listed add up to its total when no symbol repeats.
LEMMA ListedIsTotal ==
  ASSUME NEW got, NEW b \in 1..Len(Chain), Value(got, ReservesCall) = Chain[b].reserves,
         ScalesKnown(b, got), Distinct(got), NEW side \in {"collateral", "debt"}
  PROVE  SumOf(Listed(got, side)) = Total(got, side) /\ Total(got, side) \in Nat
<1> DEFINE entry == Chain[b].reserves
           n == Len(entry)
           amounts == ScaledAmounts(got, side)
           D == {j \in 1..n : entry[j][side] > 0}
           symbol(i) == Value(got, <<"symbol", entry[i].asset>>)
           key(i) == LowerCase(symbol(i))
           label == [i \in D |-> key(i)]
           Symbols == {symbol(i) : i \in D}
           Labels == {key(i) : i \in D}
           map == BySymbol(got, side)
           listed == Listed(got, side)
<1>1. n \in Nat /\ DOMAIN entry = 1..n /\ \A i \in 1..n : entry[i][side] \in Nat
  <2>1. entry \in Seq([asset : STRING, collateral : Nat, debt : Nat])
    BY ChainAssumption
  <2> HIDE DEF entry
  <2>2. n \in Nat /\ DOMAIN entry = 1..n
    BY <2>1
  <2>3. \A i \in 1..n : entry[i] \in [asset : STRING, collateral : Nat, debt : Nat]
    BY <2>1, ElementOfSeq
  <2>4. CASE side = "collateral"
    BY <2>2, <2>3, <2>4
  <2>5. CASE side = "debt"
    BY <2>2, <2>3, <2>5
  <2> QED BY <2>4, <2>5
<1>2. amounts = [i \in D |-> entry[i][side] * Scale(Value(got, DecimalsCall(Chain[b], i)))]
  BY <1>1 DEF ScaledAmounts, DecimalsCall, ReservesCall
<1>3. \A i \in D : amounts[i] \in Nat
  <2> TAKE i \in D
  <2> DEFINE scale == Scale(Value(got, DecimalsCall(Chain[b], i)))
  <2>1. scale \in Nat
    BY DEF ScalesKnown
  <2>2. entry[i][side] \in Nat /\ amounts[i] = entry[i][side] * scale
    BY <1>1, <1>2
  <2> HIDE DEF scale, amounts, entry
  <2> QED BY <2>1, <2>2
<1>4. IsFiniteSet(D)
  <2>1. IsFiniteSet(1..n)
    <3>1. 1 \in Int /\ n \in Int
      BY <1>1
    <3> HIDE DEF n
    <3> QED BY <3>1, FS_Interval
  <2>2. D \subseteq 1..n
    OBVIOUS
  <2> HIDE DEF D, n
  <2> QED BY <2>1, <2>2, FS_Subset
<1>5. \A i, j \in D : i # j => key(i) # key(j)
  BY <1>1 DEF Distinct
<1>6. map = [s \in Symbols |->
               [at |-> Min({i \in D : symbol(i) = s}),
                amount |-> amounts[Max({i \in D : symbol(i) = s})]]]
  <2>1. DOMAIN amounts = D
    BY <1>2
  <2> HIDE DEF amounts
  <2> QED BY <2>1 DEF BySymbol, amounts
<1>7. D \subseteq Nat
  BY <1>1
<1> HIDE DEF amounts, entry, symbol
<1>8. \A i \in D : symbol(i) \in DOMAIN map /\ map[symbol(i)] = [at |-> i, amount |-> amounts[i]]
  <2> TAKE i \in D
  <2>1. {j \in D : symbol(j) = symbol(i)} = {i}
    BY <1>5
  <2>2. i \in Nat
    BY <1>7
  <2>3. Max({i}) = i /\ Min({i}) = i
    BY <2>2 DEF Max, Min
  <2>4. symbol(i) \in Symbols
    OBVIOUS
  <2> HIDE DEF map, D, Symbols
  <2> QED BY <1>6, <2>1, <2>3, <2>4
<1>9. DOMAIN map = Symbols
  <2> HIDE DEF Symbols
  <2> QED BY <1>6
<1> HIDE DEF map
<1>10. listed = [k \in {LowerCase(s) : s \in DOMAIN map} |->
                   LET same == {s \in DOMAIN map : LowerCase(s) = k}
                   IN map[CHOOSE s \in same : \A t \in same : map[t].at <= map[s].at].amount]
  BY DEF Listed, Lowercased, map
<1>11. {LowerCase(s) : s \in DOMAIN map} = Labels
  BY <1>9
<1>12. \A i \in D : listed[key(i)] = amounts[i]
  <2> TAKE i \in D
  <2> DEFINE same == {s \in DOMAIN map : LowerCase(s) = key(i)}
             last == CHOOSE s \in same : \A t \in same : map[t].at <= map[s].at
  <2>1. symbol(i) \in same /\ \A s \in same : s = symbol(i)
    <3>1. \A s \in DOMAIN map : LowerCase(s) = LowerCase(symbol(i)) => s = symbol(i)
      BY <1>5, <1>9
    <3>2. symbol(i) \in DOMAIN map
      BY <1>8
    <3> QED BY <3>1, <3>2
  <2>2. i \in Nat /\ map[symbol(i)].at = i /\ map[symbol(i)].amount = amounts[i]
    <3>1. i \in Nat
      BY <1>7
    <3>2. map[symbol(i)] = [at |-> i, amount |-> amounts[i]]
      BY <1>8
    <3> QED BY ONLY <3>1, <3>2
  <2> HIDE DEF same
  <2>3. last = symbol(i)
    <3>1. \A t \in same : map[t].at <= map[symbol(i)].at
      BY <2>1, <2>2
    <3>2. last \in same
      BY <2>1, <3>1
    <3> HIDE DEF last
    <3> QED BY <2>1, <3>2
  <2>4. key(i) \in {LowerCase(s) : s \in DOMAIN map}
    BY <1>8
  <2>5. listed[key(i)] = map[last].amount
    <3> HIDE DEF listed, key
    <3> QED BY <1>10, <2>4 DEF same
  <2> HIDE DEF listed, last
  <2> QED BY <2>2, <2>3, <2>5
<1>13. DOMAIN listed = {label[i] : i \in D}
  <2>1. DOMAIN listed = Labels
    <3> HIDE DEF listed, Labels
    <3> QED BY <1>10, <1>11
  <2> HIDE DEF listed
  <2> QED BY <2>1
<1>14. DOMAIN amounts = D /\ label \in [D -> Labels]
  BY <1>2
<1>15. SumOf(listed) = SumOf(amounts) /\ SumOf(amounts) \in Nat
  <2>1. \A x, y \in DOMAIN amounts : x # y => label[x] # label[y]
    BY <1>5, <1>14
  <2>2. \A x \in DOMAIN amounts : listed[label[x]] = amounts[x] /\ amounts[x] \in Nat
    BY <1>3, <1>12, <1>14
  <2>3. /\ IsFiniteSet(DOMAIN amounts) /\ DOMAIN listed = {label[x] : x \in DOMAIN amounts}
        /\ label \in [DOMAIN amounts -> Labels]
    BY <1>4, <1>13, <1>14
  <2>4. \A x \in DOMAIN amounts : amounts[x] \in Nat
    BY <2>2
  <2>5. \A x \in DOMAIN amounts : listed[label[x]] = amounts[x]
    BY <2>2
  <2> HIDE DEF listed, label, Labels, D
  <2> QED BY ONLY <2>1, <2>3, <2>4, <2>5, SumOfRenamed, ZenonT(30)
<1> QED BY <1>15 DEF Total, amounts

\* The position that is shown.
LEMMA PositionShown ==
  ASSUME NEW got, Value(got, ReservesCall) # <<>>
  PROVE  LET p == Received("lending", Ok(<<GetPosition(got)>>), E18).value[1]
         IN /\ p.collateral = Listed(got, "collateral") /\ p.debt = Listed(got, "debt")
            /\ p.healthFactor = AsFloat(IF Total(got, "debt") = 0 THEN 100 * E18
                                  ELSE (Total(got, "collateral") * E18) \div Total(got, "debt"))
            /\ p.status = StatusFromHealthFactor(p.healthFactor, E18)
<1> DEFINE rows == <<GetPosition(got)>>
<1>1. Request(Ok(rows)) = Resolved(rows)
  BY SMT DEF Request, Ok
<1>2. \A value : Converted(Resolved(rows), value) = Resolved(value)
  BY DEF Converted, Resolved
<1>3. Resolved(rows).value = rows /\ \A value : Resolved(value).value = value
  BY DEF Resolved
<1>4. Received("lending", Ok(rows), E18).value = [i \in DOMAIN rows |-> ShownLending(rows[i], E18)]
  BY <1>1, <1>2, <1>3 DEF Received, ListLendingPositions
<1>5. Received("lending", Ok(rows), E18).value[1] = ShownLending(GetPosition(got), E18)
  BY <1>4
<1>6. GetPosition(got) =
        [collateral |-> BySymbol(got, "collateral"), debt |-> BySymbol(got, "debt"),
         threshold |-> Times08(Total(got, "collateral")),
         healthFactor |-> AsFloat(IF Total(got, "debt") = 0 THEN 100 * 10^WadDecimals
                            ELSE (Total(got, "collateral") * 10^WadDecimals) \div Total(got, "debt"))]
  BY DEF GetPosition, BySymbol, ReservesCall
<1>7. E18 = 10^WadDecimals
  BY BackendAssumption
<1> HIDE DEF rows
<1> QED BY <1>5, <1>6, <1>7 DEF ShownLending, Listed, rows

\* The statement of LendingAddsUp about one answer.
LEMMA PositionAddsUp ==
  ASSUME NEW got, NEW b \in 1..Len(Chain), Value(got, ReservesCall) = Chain[b].reserves,
         ScalesKnown(b, got), Value(got, ReservesCall) # <<>>, Distinct(got)
  PROVE  LET p == Received("lending", Ok(<<GetPosition(got)>>), E18).value[1]
             held == SumOf(p.collateral)  owed == SumOf(p.debt)
         IN /\ p.healthFactor = AsFloat(IF owed = 0 THEN 100 * E18 ELSE (held * E18) \div owed)
            /\ owed > held => p.status = "liquidated"
            /\ owed > 0 /\ held > 0 =>
                 \A share \in (1..E18 \cup {p.threshold}) \cap (Nat \ {0}) :
                   LET price == LiquidationPrice(held, owed, share)
                       worth(unit) == (held * unit) \div E18
                   IN /\ CalculateHealthFactor(worth(price), owed, share) <= E18
                      /\ price > 0 => IsLiquidatable(worth(price - 1), owed, share)
<1> DEFINE p == Received("lending", Ok(<<GetPosition(got)>>), E18).value[1]
           held == SumOf(p.collateral)
           owed == SumOf(p.debt)
<1>1. /\ p.collateral = Listed(got, "collateral") /\ p.debt = Listed(got, "debt")
      /\ p.healthFactor = AsFloat(IF Total(got, "debt") = 0 THEN 100 * E18
                            ELSE (Total(got, "collateral") * E18) \div Total(got, "debt"))
      /\ p.status = StatusFromHealthFactor(p.healthFactor, E18)
  BY PositionShown
<1> HIDE DEF p
<1>2. /\ held = Total(got, "collateral") /\ held \in Nat
      /\ owed = Total(got, "debt") /\ owed \in Nat
  BY <1>1, ListedIsTotal
<1> HIDE DEF held, owed
<1>3. E18 \in Nat /\ E18 >= 10 /\ E18 = 10^WadDecimals
  BY TokenAssumption, E18Assumption, BackendAssumption
<1>4. p.healthFactor = AsFloat(IF owed = 0 THEN 100 * E18 ELSE (held * E18) \div owed)
  BY <1>1, <1>2
<1>5. ASSUME owed > held PROVE p.status = "liquidated"
  <2> DEFINE ratio == (held * E18) \div owed
             hf == AsFloat(ratio)
  <2>1. ratio \in 0..E18
    <3>1. held * E18 \in Nat /\ owed \in Nat \ {0}
      BY <1>2, <1>3, <1>5
    <3>2. held * E18 < owed * (E18 + 1)
      <4>1. E18 * held <= E18 * owed
        BY <1>2, <1>3, <1>5, TimesKeepsOrder
      <4>2. owed * (E18 + 1) = E18 * owed + owed /\ E18 * held = held * E18
        BY <1>2, <1>3
      <4>3. E18 * held \in Nat /\ E18 * owed \in Nat
        BY <1>2, <1>3
      <4>4. owed \in Int /\ owed > 0
        BY <1>2, <1>5
      <4> DEFINE a == E18 * held  c == E18 * owed
      <4>5. a \in Int /\ c \in Int /\ a <= c
        BY <4>1, <4>3
      <4>6. held * E18 = a /\ owed * (E18 + 1) = c + owed
        BY <4>2
      <4> HIDE DEF a, c
      <4>7. a < c + owed
        BY <4>4, <4>5
      <4> QED BY <4>6, <4>7
    <3>3. ratio \in Nat
      BY <3>1, DivBounds
    <3>4. ratio <= E18
      BY <1>3, <3>1, <3>2, DivAtMost
    <3> HIDE DEF ratio
    <3> QED BY <1>3, <3>3, <3>4
  <2> HIDE DEF ratio
  <2>2. hf \in 0..E18
    BY <1>3, <2>1, FloatAssumption
  <2>3. p.healthFactor = hf
    BY <1>2, <1>4, <1>5 DEF ratio
  <2> HIDE DEF hf
  <2>4. p.status = StatusFromHealthFactor(hf, E18)
    BY <1>1, <2>3
  <2>5. ~(hf >= 2 * E18) /\ ~(hf > E18)
    BY <1>3, <2>2
  <2>6. ~(hf >= AsFloat((12 * E18) \div 10))
    <3>1. AsFloat((12 * E18) \div 10) \in (E18 + 1) .. (2 * E18)
      BY <1>3, FloatAssumption
    <3> DEFINE bound == AsFloat((12 * E18) \div 10)
    <3>2. bound \in (E18 + 1) .. (2 * E18)
      BY <3>1
    <3> HIDE DEF bound
    <3>3. ~(hf >= bound)
      BY <3>2, <2>2, <1>3
    <3> QED BY <3>3 DEF bound
  <2> QED BY <2>4, <2>5, <2>6 DEF StatusFromHealthFactor
<1>6. ASSUME owed > 0, held > 0, NEW share \in (1..E18 \cup {p.threshold}) \cap (Nat \ {0})
      PROVE  LET price == LiquidationPrice(held, owed, share)
                 worth(unit) == (held * unit) \div E18
             IN /\ CalculateHealthFactor(worth(price), owed, share) <= E18
                /\ price > 0 => IsLiquidatable(worth(price - 1), owed, share)
  <2> DEFINE price == LiquidationPrice(held, owed, share)
             worth(unit) == (held * unit) \div E18
             found == (owed * E18 * E18) \div (share * held)
  <2>1. /\ share \in Nat /\ share > 0 /\ E18 > 0 /\ E18 \in Nat
        /\ held \in Nat /\ held > 0 /\ owed \in Nat /\ owed > 0
    BY <1>2, <1>3, <1>6
  <2>2. price = found
    BY DEF LiquidationPrice
  <2>3. /\ (worth(found) * share) \div owed <= E18
        /\ found > 0 => (worth(found - 1) * share) \div owed < E18
    BY ONLY <2>1, PriceIsLow, Zenon
  <2> HIDE DEF found
  <2>4. \A amount : CalculateHealthFactor(amount, owed, share) = (amount * share) \div owed
    BY <1>2, <1>6 DEF CalculateHealthFactor
  <2> HIDE DEF price, worth
  <2> QED BY <2>2, <2>3, <2>4 DEF IsLiquidatable, price, worth
<1> QED BY <1>4, <1>5, <1>6 DEF p, held, owed

\* Unless two of its assets share a symbol but for case, the health factor that is
\* shown of a lending position is, up to the rounding of a double, the ratio of the
\* amounts that are listed of it, a debt larger than its collateral is shown as
\* liquidated, and the price that the browser finds is the one below which it takes the
\* position for liquidatable (chain/lending.py:115-149, httpApi.ts:175-184, hf.ts:13-60).
THEOREM LendingPositionsAddUp == Spec => []LendingAddsUp
<1>1. LendingInv => LendingAddsUp
  <2> SUFFICES ASSUME LendingInv, NEW s \in Slots, request[s].stage = "answered",
                      request[s].kind = "lending", request[s].response.status = 200,
                      Value(request[s].got, ReservesCall) # <<>>, Distinct(request[s].got)
               PROVE  LET r == request[s]
                          p == Received(r.kind, r.response, E18).value[1]
                          held == SumOf(p.collateral)  owed == SumOf(p.debt)
                      IN /\ p.healthFactor =
                              AsFloat(IF owed = 0 THEN 100 * E18 ELSE (held * E18) \div owed)
                         /\ owed > held => p.status = "liquidated"
                         /\ owed > 0 /\ held > 0 =>
                              \A share \in (1..E18 \cup {p.threshold}) \cap (Nat \ {0}) :
                                LET price == LiquidationPrice(held, owed, share)
                                    worth(unit) == (held * unit) \div E18
                                IN /\ CalculateHealthFactor(worth(price), owed, share) <= E18
                                   /\ price > 0 => IsLiquidatable(worth(price - 1), owed, share)
    BY Zenon DEF LendingAddsUp, ReservesCall, Distinct
  <2> DEFINE got == request[s].got
  <2>1. request[s].response = Ok(<<GetPosition(got)>>)
    BY DEF LendingInv, LendingAnswer
  <2>2. PICK b \in 1..Len(Chain) :
          Value(got, ReservesCall) = Chain[b].reserves /\ ScalesKnown(b, got)
    BY DEF LendingInv, LendingAnswer
  <2> QED BY <2>1, <2>2, PositionAddsUp
<1> QED BY <1>1, PositionsFromReserves, PTL
=============================================================================
