------------------------------- MODULE Backend -------------------------------
(* The HTTP side of the backend: GET requests whose handlers await one call of *)
(* the chain after another while blocks arrive and calls fail, the fetchers    *)
(* that routes/*.py keep on app.state.                                         *)
(*                                                                             *)
(* The handlers run on one event loop, so an action is what a handler does     *)
(* from one await to the next.  A call of the chain is answered, or refused,   *)
(* in the step that resumes the handler.                                       *)
EXTENDS Integers, Sequences, ChainReaders, ErrorEnvelope, ApiClient

CONSTANTS Chain,                 \* the states of the chain, block after block
          Slots,                 \* requests that may be in flight together
          MaxGets, MaxRaises     \* bounds of a run

ASSUME BackendAssumption ==
  Len(Chain) > 0 /\ {MaxGets, MaxRaises} \subseteq Nat /\ E18 = 10^WadDecimals

\* The lists of a chain are sequences.
ASSUME ChainAssumption ==
  /\ Len(Chain) \in Nat
  /\ \A b \in 1..Len(Chain) : /\ Chain[b].positions \in Seq([id : Int])
                              /\ Chain[b].logs \in Seq([topic : STRING, tx : STRING])
                              /\ Chain[b].reserves \in
                                   Seq([asset : STRING, collateral : Nat, debt : Nat])

\* A token that a reserve names keeps its contract, and powers of ten are numbers.
ASSUME TokenAssumption ==
  /\ E18 >= 10
  /\ \A b \in 1..Len(Chain) : \A c \in b..Len(Chain) :
       \A i \in 1..Len(Chain[b].reserves) :
         Scale(Chain[c].token[Chain[b].reserves[i].asset].decimals) \in Nat

VARIABLES
  block,     \* the head of the chain, an index into Chain
  wiring,    \* what app.state holds: "fetchers", a chain "provider", "nothing"
  fetchers,  \* the kinds of which app.state holds a fetcher
  request,   \* per slot, the request and what its handler has read
  gets, raises    \* how many requests were made and calls have failed

backendVars == <<block, wiring, fetchers, request, gets, raises>>

Idle == [stage |-> "idle"]

BackendInit ==
  /\ block = 1
  /\ wiring \in {"fetchers", "provider", "nothing"}
  /\ fetchers = IF wiring = "fetchers" THEN Kinds ELSE {}
  /\ request = [s \in Slots |-> Idle]
  /\ gets = 0 /\ raises = 0

(* The world: a block arrives. *)
Mine ==
  /\ block < Len(Chain)
  /\ block' = block + 1
  /\ UNCHANGED <<wiring, fetchers, request, gets, raises>>

-----------------------------------------------------------------------------
(* The routes. *)

Answered(kind, began, got, raised, response) ==
  [stage |-> "answered", kind |-> kind, began |-> began, ended |-> block,
   got |-> got, raised |-> raised, response |-> response]

(* GET of one of the four lists: the fetcher on app.state, or one bound to the *)
(* provider and kept there, or a RuntimeError.                                 *)
Get(s, kind) ==
  LET bound == kind \in fetchers \/ wiring = "provider"
  IN /\ request[s].stage = "idle" /\ gets < MaxGets
     /\ gets' = gets + 1
     /\ fetchers' = IF bound THEN fetchers \cup {kind} ELSE fetchers
     /\ request' = [request EXCEPT ![s] =
          IF bound
          THEN [stage |-> "reading", kind |-> kind, began |-> block,
                pending |-> FirstCalls(kind), got |-> <<>>, raised |-> {}]
          ELSE Answered(kind, block, <<>>, {}, Raise("RuntimeError"))]
     /\ UNCHANGED <<block, wiring, raises>>

GetPools(s) == Get(s, "pools")
GetLendingPositions(s) == Get(s, "lending")
GetLpPositions(s) == Get(s, "lp")
GetTransactions(s) == Get(s, "transactions")

(* The handler goes on reading, or answers when no call is left.               *)
GoOn(r, pending, got, raised) ==
  IF pending = <<>>
  THEN Answered(r.kind, r.began, got, raised, Ok(Rows(r.kind, got)))
  ELSE [r EXCEPT !.pending = pending, !.got = got, !.raised = raised]

CallReturns(s) ==
  LET r == request[s]
      call == Head(r.pending)
      value == Answer(Chain[block], call)
  IN /\ r.stage = "reading" /\ ~Refused(Chain[block], call)
     /\ request' = [request EXCEPT ![s] =
          GoOn(r, MoreCalls(call, value) \o Tail(r.pending),
               Append(r.got, [call |-> call, value |-> value]), r.raised)]
     /\ UNCHANGED <<block, wiring, fetchers, gets, raises>>

(* The node or the contract refuses the call, or the connection to it fails.   *)
CallRaises(s) ==
  LET r == request[s]
      call == Head(r.pending)
      raised == r.raised \cup {call}
  IN /\ r.stage = "reading"
     /\ \/ Refused(Chain[block], call) /\ UNCHANGED raises
        \/ /\ ~Refused(Chain[block], call) /\ raises < MaxRaises
           /\ raises' = raises + 1
     /\ request' = [request EXCEPT ![s] =
          IF SkipsOnRaise(call) THEN GoOn(r, Tail(r.pending), r.got, raised)
          ELSE Answered(r.kind, r.began, r.got, raised, Raise("Exception"))]
     /\ UNCHANGED <<block, wiring, fetchers, gets>>

(* GET /health reads the hub and nothing of the chain.                         *)
HealthResponse(wsConnected) ==
  Ok([status |-> "ok", chain |-> "mainnet", blockNumber |-> 0, wsConnected |-> wsConnected])

GetHealth(s) ==
  /\ request[s].stage = "idle" /\ gets < MaxGets
  /\ gets' = gets + 1
  /\ \E connected \in BOOLEAN :
       request' = [request EXCEPT ![s] =
                     Answered("health", block, <<>>, {}, HealthResponse(connected))]
  /\ UNCHANGED <<block, wiring, fetchers, raises>>

Delivered(s) ==
  /\ request[s].stage = "answered"
  /\ request' = [request EXCEPT ![s] = Idle]
  /\ UNCHANGED <<block, wiring, fetchers, gets, raises>>

-----------------------------------------------------------------------------
BackendNext ==
  \/ Mine
  \/ \E s \in Slots : \/ GetPools(s) \/ GetLendingPositions(s)
                      \/ GetLpPositions(s) \/ GetTransactions(s)
                      \/ CallReturns(s) \/ CallRaises(s)
                      \/ GetHealth(s) \/ Delivered(s)

-----------------------------------------------------------------------------
(* The page's promise of a list resolves exactly when a fetcher could be had   *)
(* and no call failed but those about a single log, which hide that log alone  *)
(* (transactions.py:104-110, routes/pools.py:31-41, httpApi.ts:190-221).       *)
ErrorsHaveCause ==
  \A s \in Slots :
    LET r == request[s]
    IN r.stage = "answered" /\ r.kind \in Kinds =>
         (Received(r.kind, r.response, E18).ok <=>
            /\ wiring # "nothing"
            /\ \A call \in r.raised : call[1] \in {"getTransaction", "getBlock"})

(* What the page may show of a list when no block arrived while it was read:   *)
(* the catalog, the positions one by one, and the transactions of the logs but *)
(* those that were not found, lack a recipient or could not be fetched.        *)
Snapshot(kind, chain, raised) ==
  LET shown == {i \in DOMAIN chain.logs :
                  /\ chain.tx[chain.logs[i].tx].found
                  /\ chain.tx[chain.logs[i].tx].to # "None"
                  /\ \A call \in raised : call[2] # <<i, chain.logs[i].tx>>}
  IN CASE kind = "pools"        -> << <<1, chain.v2[1]>>, <<2, chain.v3[2].price>>,
                                      <<3, chain.v3[3].price>> >>
       [] kind = "lp"           -> [i \in DOMAIN chain.positions |->
                                      <<chain.positions[i].id, chain.position[chain.positions[i].id]>>]
       [] kind = "transactions" -> LET order == InOrder(shown)
                                   IN [j \in DOMAIN order |->
                                         <<chain.logs[order[j]].tx, ClassifyLog(chain.logs[order[j]])>>]

Shown(kind, row) ==
  CASE kind = "pools"        -> <<row.address, row.reserve0>>
    [] kind = "lp"           -> <<row.id, row.amount0>>
    [] kind = "transactions" -> <<row.hash, row.mevType>>

(* A list read while the chain stood still shows the chain's state, whatever   *)
(* the other requests do meanwhile, from the contracts to the page             *)
(* (chain/pools.py:188-203, lp.py:61-96, transactions.py:96-111,               *)
(* httpApi.ts:225-344).                                                        *)
QuietAnswerIsTheChain ==
  \A s \in Slots :
    LET r == request[s]
        rows == Received(r.kind, r.response, E18).value
    IN r.stage = "answered" /\ r.kind \in Kinds \ {"lending"}
         /\ r.began = r.ended /\ r.response.status = 200
       => [i \in DOMAIN rows |-> Shown(r.kind, rows[i])]
            = Snapshot(r.kind, Chain[r.ended], r.raised)

(* The health factor of a lending position is, up to the rounding of a double, *)
(* the ratio of the amounts that the page lists of it, unless two assets share *)
(* a symbol but for case; so a debt goes unnoticed only where its listed       *)
(* amount is zero, the token having more than WadDecimals digits, and a debt   *)
(* that is larger than its collateral is shown as liquidated                   *)
(* (chain/lending.py:115-149, httpApi.ts:175-184, 267-277).  Whether a share   *)
(* or the amount that is shown for it be taken for the threshold, at the price *)
(* that the browser finds for the amounts the health factor is at most one,    *)
(* and at any lower one it takes the position for liquidatable; a threshold of *)
(* zero is refused (hf.ts:13-60).                                              *)
LendingAddsUp ==
  \A s \in Slots :
    LET r == request[s]
        p == Received(r.kind, r.response, E18).value[1]
        held == SumOf(p.collateral)  owed == SumOf(p.debt)
        entry == Value(r.got, <<"getUserReservesData", 0>>)
        key(i) == LowerCase(Value(r.got, <<"symbol", entry[i].asset>>))
        distinct == \A i, j \in DOMAIN entry : i # j => key(i) # key(j)
    IN r.stage = "answered" /\ r.kind = "lending" /\ r.response.status = 200
         /\ entry # <<>> /\ distinct
       => /\ p.healthFactor = AsFloat(IF owed = 0 THEN 100 * E18 ELSE (held * E18) \div owed)
          /\ owed > held => p.status = "liquidated"
          /\ owed > 0 /\ held > 0 =>
               \A share \in (1..E18 \cup {p.threshold}) \cap (Nat \ {0}) :
                 LET price == LiquidationPrice(held, owed, share)
                     worth(unit) == (held * unit) \div E18
                 IN /\ CalculateHealthFactor(worth(price), owed, share) <= E18
                    /\ price > 0 => IsLiquidatable(worth(price - 1), owed, share)
=============================================================================
