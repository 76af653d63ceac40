---------------------------- MODULE ChainProvider ----------------------------
(* The cached block number of chain/provider.py under concurrent calls of      *)
(* health().  The node reads its head and the answer comes back in two steps,  *)
(* since the age of the answer is what the cache is about.                     *)
EXTENDS Integers

CONSTANTS Callers,   \* concurrent callers of health()
          Ttl,       \* how long a block number is served from the cache
          MaxTime, MaxHead, MaxProbes    \* bounds of a run

ASSUME ProviderAssumption == Ttl \in Nat \ {0}

VARIABLES
  head,      \* the node's block number
  clock,     \* time.monotonic()
  cache,     \* _cached_block, _cached_at; and when that block was the head
  probe,     \* per caller, its call of health()
  probes     \* how many calls were made

providerVars == <<head, clock, cache, probe, probes>>

NotCalling == [stage |-> "idle"]

ProviderInit ==
  /\ head = 1 /\ clock = 0
  /\ cache = [block |-> 0, at |-> 0, seen |-> 0]
  /\ probe = [c \in Callers |-> NotCalling]
  /\ probes = 0

(* The world: blocks arrive and time passes. *)
HeadMoves ==
  /\ head < MaxHead /\ head' = head + 1
  /\ UNCHANGED <<clock, cache, probe, probes>>

Tick ==
  /\ clock < MaxTime /\ clock' = clock + 1
  /\ UNCHANGED <<head, cache, probe, probes>>

CacheServes == cache.block # 0 /\ clock - cache.at < Ttl

Returned(asked, block, seen) ==
  [stage |-> "returned", asked |-> asked, block |-> block, seen |-> seen]

(* `now' is taken before the node is asked, and kept as the age of the answer. *)
Probe(c) ==
  /\ probe[c].stage = "idle" /\ probes < MaxProbes
  /\ probes' = probes + 1
  /\ probe' = [probe EXCEPT ![c] =
       IF CacheServes THEN Returned(clock, cache.block, cache.seen)
       ELSE [stage |-> "asking", now |-> clock]]
  /\ UNCHANGED <<head, clock, cache>>

NodeReads(c) ==
  /\ probe[c].stage = "asking"
  /\ probe' = [probe EXCEPT ![c] = [stage |-> "read", now |-> @.now, block |-> head,
                                    seen |-> clock]]
  /\ UNCHANGED <<head, clock, cache, probes>>

(* Mutant: the age is counted from the moment the answer came back. *)
ProbeReturnsLate(c) ==
  /\ probe[c].stage = "read"
  /\ cache' = [block |-> probe[c].block, at |-> clock, seen |-> probe[c].seen]
  /\ probe' = [probe EXCEPT ![c] = Returned(@.now, @.block, @.seen)]
  /\ UNCHANGED <<head, clock, probes>>

(* Of two calls that overlap the one that comes back last fills the cache.     *)
ProbeReturns(c) ==
  /\ probe[c].stage = "read"
  /\ cache' = [block |-> probe[c].block, at |-> probe[c].now, seen |-> probe[c].seen]
  /\ probe' = [probe EXCEPT ![c] = Returned(@.now, @.block, @.seen)]
  /\ UNCHANGED <<head, clock, probes>>

ProbeRaises(c) ==
  /\ probe[c].stage \in {"asking", "read"}
  /\ probe' = [probe EXCEPT ![c] = NotCalling]
  /\ UNCHANGED <<head, clock, cache, probes>>

ProbeDone(c) ==
  /\ probe[c].stage = "returned"
  /\ probe' = [probe EXCEPT ![c] = NotCalling]
  /\ UNCHANGED <<head, clock, cache, probes>>

ProviderNext ==
  \/ HeadMoves \/ Tick
  \/ \E c \in Callers : \/ Probe(c) \/ NodeReads(c)
                        \/ ProbeReturns(c) \/ ProbeRaises(c) \/ ProbeDone(c)

-----------------------------------------------------------------------------
(* However calls overlap, health() returns a number that was the head at a     *)
(* moment less than a ttl before it was called (provider.py:65-70): the age is *)
(* counted from before the request, and the answer that fills the cache last   *)
(* brings its own.                                                             *)
HealthIsFresh ==
  \A c \in Callers :
    probe[c].stage = "returned" => probe[c].seen > probe[c].asked - Ttl
=============================================================================
