----------------------------- MODULE ChainReaders -----------------------------
(* The readers of the chain (chain/pools.py, lending.py, lp.py, transactions.py *)
(* with classify.py and types.py): what each asks of the chain, one awaited     *)
(* call after the other, and what it makes of the answers.                      *)
(*                                                                              *)
(* The chain itself is external.  Its state is a record: the reserves of the V2 *)
(* pool, the slots of the V3 pools, the reserves and positions of the watched   *)
(* user, and the logs of the pools with their transactions.  A call is          *)
(* <<function, argument>>; those about the i-th log carry <<i, hash>>.          *)
EXTENDS Integers, Sequences, SequencesExt, Floats

Kinds == {"pools", "lending", "lp", "transactions"}

(* The catalog: one V2 pool and two V3 pools.                                   *)
Catalog == << [pool |-> 1, protocol |-> "uniswap_v2"],
              [pool |-> 2, protocol |-> "uniswap_v3"],
              [pool |-> 3, protocol |-> "uniswap_v3"] >>

-----------------------------------------------------------------------------
(* What the contracts and the node answer; a call they refuse raises.           *)

Refused(chain, call) ==
  CASE call[1] = "tokenOfOwnerByIndex" -> call[2] > Len(chain.positions)
    [] call[1] = "getTransaction"      -> ~chain.tx[call[2][2]].found
    [] OTHER                           -> FALSE

Answer(chain, call) ==
  CASE call[1] = "getReserves"         -> chain.v2
    [] call[1] = "slot0"               -> chain.v3[call[2]].price
    [] call[1] = "liquidity"           -> chain.v3[call[2]].liquidity
    [] call[1] = "fee"                 -> chain.v3[call[2]].fee
    [] call[1] = "getUserReservesData" -> chain.reserves
    [] call[1] = "symbol"              -> chain.token[call[2]].symbol
    [] call[1] = "decimals"            -> chain.token[call[2]].decimals
    [] call[1] = "balanceOf"           -> Len(chain.positions)
    [] call[1] = "tokenOfOwnerByIndex" -> chain.positions[call[2]].id
    [] call[1] = "positions"           -> chain.position[call[2]]
    [] call[1] = "getLogs"             -> chain.logs
    [] call[1] = "getTransaction"      -> chain.tx[call[2][2]].to
    [] call[1] = "getBlock"            -> chain.tx[call[2][2]].timestamp

-----------------------------------------------------------------------------
(* The calls, in order: those a reader starts with, and those an answer adds    *)
(* before the ones still to come.                                               *)

FirstCalls(kind) ==
  CASE kind = "pools"        -> << <<"getReserves", 1>>,
                                   <<"slot0", 2>>, <<"liquidity", 2>>, <<"fee", 2>>,
                                   <<"slot0", 3>>, <<"liquidity", 3>>, <<"fee", 3>> >>
    [] kind = "lending"      -> << <<"getUserReservesData", 0>> >>
    [] kind = "lp"           -> << <<"balanceOf", 0>> >>
    [] kind = "transactions" -> << <<"getLogs", 0>> >>

MoreCalls(call, answer) ==
  CASE call[1] = "getUserReservesData" ->
         [i \in 1..(2 * Len(answer)) |->
            <<IF i % 2 = 1 THEN "symbol" ELSE "decimals", answer[(i + 1) \div 2].asset>>]
    [] call[1] = "balanceOf"           -> [i \in 1..answer |-> <<"tokenOfOwnerByIndex", i>>]
    [] call[1] = "tokenOfOwnerByIndex" -> << <<"positions", answer>> >>
    [] call[1] = "getLogs"             ->
         [i \in DOMAIN answer |-> <<"getTransaction", <<i, answer[i].tx>>>>]
    [] call[1] = "getTransaction"      -> << <<"getBlock", call[2]>> >>
    [] OTHER                           -> <<>>

(* Mutant: no log may be skipped. *)
SkipsOnRaiseNever(call) == FALSE

(* list_recent skips a log that it cannot enrich; any other call that raises    *)
(* ends the reading.                                                            *)
SkipsOnRaise(call) == call[1] \in {"getTransaction", "getBlock"}

-----------------------------------------------------------------------------
(* What is made of the answers, got: a sequence of [call, value]                *)

Value(got, call) == got[SelectLastInSeq(got, LAMBDA g : g.call = call)].value
Has(got, call) == \E i \in DOMAIN got : got[i].call = call

(* fee_tier is 3000 for V2, in 1/100 of a basis point; V3 divides that unit by  *)
(* 100.  A V3 pool shows its square root price as both reserves.                *)
BuildV2(pool, got) ==
  LET reserves == Value(got, <<"getReserves", pool>>)
  IN [id |-> pool, protocol |-> "uniswap_v2",
      reserve0 |-> reserves[1], reserve1 |-> reserves[2], feeTier |-> 3000]

BuildV3(pool, got) ==
  LET price == Value(got, <<"slot0", pool>>)
  IN [id |-> pool, protocol |-> "uniswap_v3",
      reserve0 |-> price, reserve1 |-> price, sqrtPriceX96 |-> price,
      feeTier |-> Value(got, <<"fee", pool>>) \div 100,
      liquidity |-> Value(got, <<"liquidity", pool>>)]

ListAll(got) ==
  [i \in DOMAIN Catalog |-> IF Catalog[i].protocol = "uniswap_v2"
                            THEN BuildV2(i, got) ELSE BuildV3(i, got)]

Scale(decimals) ==
  IF decimals <= WadDecimals THEN 10^(WadDecimals - decimals)
  ELSE 10^WadDecimals \div 10^decimals

SumOf(f) == FoldFunction(LAMBDA a, b : a + b, 0, f)

(* The amounts on one side, "collateral" or "debt", of the assets that have any.*)
ScaledAmounts(got, side) ==
  LET entry == Value(got, <<"getUserReservesData", 0>>)
  IN [i \in {j \in DOMAIN entry : entry[j][side] > 0} |->
        entry[i][side] * Scale(Value(got, <<"decimals", entry[i].asset>>))]

(* Mutant: the total adds the raw amounts. *)
TotalUnscaled(got, side) ==
  LET entry == Value(got, <<"getUserReservesData", 0>>)
  IN SumOf([i \in DOMAIN entry |-> entry[i][side]])

Total(got, side) == SumOf(ScaledAmounts(got, side))

(* The maps are keyed by symbol, so of two assets with one symbol the amount of *)
(* the last stays, at the place of the first, while the totals count both.  The *)
(* threshold is an amount, and the health factor takes none.                    *)
GetPosition(got) ==
  LET entry == Value(got, <<"getUserReservesData", 0>>)
      symbol(i) == Value(got, <<"symbol", entry[i].asset>>)
      bySymbol(side) ==
        LET amounts == ScaledAmounts(got, side)
            of(s) == {i \in DOMAIN amounts : symbol(i) = s}
        IN [s \in {symbol(i) : i \in DOMAIN amounts} |->
              [at |-> Min(of(s)), amount |-> amounts[Max(of(s))]]]
  IN IF entry = <<>>
     THEN [collateral |-> <<>>, debt |-> <<>>, threshold |-> 0,
           healthFactor |-> 999 * 10^WadDecimals]
     ELSE [collateral |-> bySymbol("collateral"), debt |-> bySymbol("debt"),
           threshold |-> Times08(Total(got, "collateral")),
           healthFactor |-> AsFloat(
             IF Total(got, "debt") = 0 THEN 100 * 10^WadDecimals
             ELSE (Total(got, "collateral") * 10^WadDecimals) \div Total(got, "debt"))]

(* Every position is given the first pool of the catalog, and its liquidity as  *)
(* both amounts; a token the metadata does not know is "UNKNOWN".               *)
ListPositions(got) ==
  LET raw(i) == Value(got, <<"positions", Value(got, <<"tokenOfOwnerByIndex", i>>)>>)
  IN [i \in 1..Value(got, <<"balanceOf", 0>>) |->
        [id |-> Value(got, <<"tokenOfOwnerByIndex", i>>), poolId |-> Catalog[1].pool,
         amount0 |-> raw(i), amount1 |-> raw(i)]]

ClassifyLog(log) == IF log.topic = "LIQUIDATION" THEN "liquidation" ELSE "normal"

(* Mutant: a transaction without a recipient is kept. *)
EnrichedAnyRecipient(got, log) == Has(got, <<"getBlock", log>>)

(* A transaction without a recipient fails the validation of Transaction.       *)
Enriched(got, log) ==
  /\ Has(got, <<"getBlock", log>>)
  /\ Value(got, <<"getTransaction", log>>) # "None"

(* Indices of logs, in the order of the logs.                                   *)
InOrder(indices) == SetToSortSeq(indices, <)

ListRecent(got) ==
  LET logs == Value(got, <<"getLogs", 0>>)
      kept == InOrder({i \in DOMAIN logs : Enriched(got, <<i, logs[i].tx>>)})
  IN [j \in DOMAIN kept |->
        LET log == logs[kept[j]]
        IN [hash |-> log.tx, timestamp |-> Value(got, <<"getBlock", <<kept[j], log.tx>>>>),
            type |-> ClassifyLog(log)]]

Rows(kind, got) ==
  CASE kind = "pools"        -> ListAll(got)
    [] kind = "lending"      -> <<GetPosition(got)>>
    [] kind = "lp"           -> ListPositions(got)
    [] kind = "transactions" -> ListRecent(got)
=============================================================================
