----------------------------- MODULE WSHubProofs -----------------------------
(***************************************************************************)
(* The hub's invariants, and that it implements LossyFeed, for any set of  *)
(* connections, any topics, any queue size and any bounds.                 *)
(***************************************************************************)
EXTENDS WSHub, SequenceTheorems, FiniteSetTheorems, TLAPS

-----------------------------------------------------------------------------
(* The queue                                                               *)

\* put_nowait never takes a queue past its bound, and either appends or does
\* nothing.
LEMMA OfferBounded ==
  ASSUME NEW q \in Seq(Message), Len(q) <= QueueSize, NEW m \in Message
  PROVE  /\ Offer(q, m) \in Seq(Message) /\ Len(Offer(q, m)) <= QueueSize
         /\ Offer(q, m) = Append(q, m) \/ Offer(q, m) = q
  BY HubAssumption DEF Offer

\* What the hub puts into a queue is a message.
LEMMA HubMessages ==
  /\ \A type \in Types : Plain(type) \in Message
  /\ Welcome \in Message /\ Sentinel \in Message
  /\ \A ts \in SUBSET Topics : Subscribed(ts) \in Message /\ Unsubscribed(ts) \in Message
  /\ \A t \in Topics, n \in Nat : Event(t, n) \in Message
<1>1. \A type \in Types : Plain(type) \in Message
  BY DEF Plain, Message
<1>2. Welcome \in Message /\ Sentinel \in Message
  BY <1>1 DEF Welcome, Sentinel, Types
<1>3. ASSUME NEW ts \in SUBSET Topics
      PROVE  Subscribed(ts) \in Message /\ Unsubscribed(ts) \in Message
  BY DEF Subscribed, Unsubscribed, Message, Types
<1>4. ASSUME NEW t \in Topics, NEW n \in Nat
      PROVE  Event(t, n) \in Message
  BY DEF Event, Message, Types
<1> QED BY <1>1, <1>2, <1>3, <1>4

-----------------------------------------------------------------------------
(* The inductive invariant                                                 *)

\* Nothing has happened to a connection that is not accepted yet.
Untouched(c) ==
  /\ sender[c] = "none" /\ receiver[c] = "none"
  /\ queue[c] = <<>> /\ inflight[c] = <<>> /\ pending[c] = <<>>
  /\ topics[c] = {} /\ view[c] = {} /\ lastSeq[c] = 0 /\ ~heard[c]

\* unregister() joins the receiver after the sender is done.
JoinOrder ==
  \A c \in Conns : route[c] = "joinReceiver" => sender[c] \in {"none", "done"}

NotYet == \A c \in Conns : route[c] = "accept" => Untouched(c)

HubInv == TypeOK /\ NoOrphans /\ JoinOrder /\ NotYet

\* The hub starts in its invariant: every route is about to accept.
LEMMA HubInit == Init => HubInv
  BY EmptySeq, HubAssumption
     DEF Init, HubInv, TypeOK, NoOrphans, JoinOrder, NotYet, Untouched

\* The steps of the route keep the invariant.
LEMMA RouteKeepsInv ==
  ASSUME HubInv, NEW c \in Conns, RouteStep(c)
  PROVE  HubInv'
<1> USE HubAssumption DEF HubInv, connVars, taskVars, envVars, histVars
<1>1. CASE Register(c)
  <2>1. Offer(<<>>, Welcome) \in Seq(Message) /\ Len(Offer(<<>>, Welcome)) <= QueueSize
    <3>1. <<>> \in Seq(Message) /\ Len(<<>>) <= QueueSize /\ Welcome \in Message
      BY HubMessages, EmptySeq
    <3> QED BY <3>1, OfferBounded
  <2>2. TypeOK'
    BY <2>1, <1>1 DEF Register, TypeOK, NoOrphans, NotYet, Untouched
  <2>3. (NoOrphans /\ JoinOrder /\ NotYet)'
    BY <1>1 DEF Register, TypeOK, NoOrphans, JoinOrder, NotYet, Untouched
  <2> QED BY <2>2, <2>3
<1>2. CASE AcceptFails(c)
  <2>1. TypeOK'
    BY <1>2 DEF AcceptFails, TypeOK
  <2>2. (NoOrphans /\ JoinOrder /\ NotYet)'
    BY <1>2 DEF AcceptFails, TypeOK, NoOrphans, JoinOrder, NotYet, Untouched
  <2> QED BY <2>1, <2>2
<1>3. CASE Unregister(c)
  <2>1. Offer(queue[c], Sentinel) \in Seq(Message) /\ Len(Offer(queue[c], Sentinel)) <= QueueSize
    BY HubMessages, OfferBounded DEF TypeOK
  <2>2. TypeOK'
    BY <2>1, <1>3 DEF Unregister, TypeOK
  <2>3. (NoOrphans /\ JoinOrder /\ NotYet)'
    BY <1>3 DEF Unregister, TypeOK, NoOrphans, JoinOrder, NotYet, Untouched
  <2> QED BY <2>2, <2>3
<1>4. CASE JoinSender(c)
  BY <1>4 DEF JoinSender, TypeOK, NoOrphans, JoinOrder, NotYet, Untouched
<1>5. CASE JoinReceiver(c)
  BY <1>5 DEF JoinReceiver, TypeOK, NoOrphans, JoinOrder, NotYet, Untouched
<1>6. CASE CloseSocket(c)
  BY <1>6 DEF CloseSocket, TypeOK, NoOrphans, JoinOrder, NotYet, Untouched
<1> QED
  BY <1>1, <1>2, <1>3, <1>4, <1>5, <1>6
     DEF RouteStep, RouteWakes, RouteCancelled

\* Sending a message changes what one client was told, to something of the
\* same kind.
LEMMA SentTypes ==
  ASSUME TypeOK, NEW c \in Conns, sender[c] = "send", Sent(c)
  PROVE  /\ view' \in [Conns -> SUBSET Topics] /\ lastSeq' \in [Conns -> Nat]
         /\ heard' \in [Conns -> BOOLEAN]
         /\ \A d \in Conns \ {c} :
              view'[d] = view[d] /\ lastSeq'[d] = lastSeq[d] /\ heard'[d] = heard[d]
<1>1. inflight[c] \in Seq(Message) /\ Len(inflight[c]) = 1
  BY DEF TypeOK
<1>2. Head(inflight[c]) \in Message
  BY <1>1
<1>3. /\ AfterReading(view[c], Head(inflight[c])) \in SUBSET Topics
      /\ Head(inflight[c]).seq \in Nat
  BY <1>2 DEF AfterReading, Message, TypeOK
<1> QED BY <1>3 DEF Sent, TypeOK

\* The steps of the sender keep the invariant.
LEMMA SenderKeepsInv ==
  ASSUME HubInv, NEW c \in Conns, SenderStep(c)
  PROVE  HubInv'
<1> USE DEF HubInv, connVars, taskVars, envVars, histVars
<1>1. CASE SenderGets(c)
  <2> DEFINE m == Head(queue[c])
  <2>1. /\ m \in Message /\ Tail(queue[c]) \in Seq(Message)
        /\ Len(Tail(queue[c])) <= QueueSize
        /\ <<m>> \in Seq(Message) /\ Len(<<m>>) = 1
    <3>1. queue[c] \in Seq(Message) /\ queue[c] # <<>> /\ Len(queue[c]) <= QueueSize
      BY <1>1 DEF SenderGets, TypeOK
    <3> QED BY <3>1, HubAssumption, HeadTailProperties
  <2>2. /\ queue' = [queue EXCEPT ![c] = Tail(@)]
        /\ \/ sender' = [sender EXCEPT ![c] = "done"] /\ UNCHANGED inflight
           \/ /\ sender' = [sender EXCEPT ![c] = "send"]
              /\ inflight' = [inflight EXCEPT ![c] = <<m>>]
    BY <1>1 DEF SenderGets
  <2> HIDE DEF m
  <2>3. queue' \in [Conns -> Seq(Message)] /\ \A d \in Conns : Len(queue'[d]) <= QueueSize
    BY <2>1, <2>2 DEF TypeOK
  <2>4. /\ sender' \in [Conns -> {"none", "get", "send", "done"}]
        /\ inflight' \in [Conns -> Seq(Message)]
        /\ \A d \in Conns : Len(inflight'[d]) = IF sender'[d] = "send" THEN 1 ELSE 0
    <3>1. sender[c] = "get"
      BY <1>1 DEF SenderGets
    <3>2. CASE sender' = [sender EXCEPT ![c] = "done"] /\ UNCHANGED inflight
      BY <3>1, <3>2 DEF TypeOK
    <3>3. CASE /\ sender' = [sender EXCEPT ![c] = "send"]
               /\ inflight' = [inflight EXCEPT ![c] = <<m>>]
      BY <3>3, <2>1 DEF TypeOK
    <3> QED BY <2>2, <3>2, <3>3
  <2>5. TypeOK'
    <3>1. UNCHANGED <<registry, topics, closed, closedEvent, route, receiver,
                      pending, heartbeat, peer, frames, published, view,
                      lastSeq, heard>>
      BY <1>1 DEF SenderGets
    <3> QED BY <3>1, <2>3, <2>4 DEF TypeOK
  <2>6. (NoOrphans /\ JoinOrder /\ NotYet)'
    <3>1. route[c] = "parked"
      BY <1>1 DEF SenderGets, Cancelling, TypeOK, NoOrphans, NotYet, Untouched
    <3>2. /\ \A d \in Conns \ {c} : /\ sender'[d] = sender[d] /\ queue'[d] = queue[d]
                                   /\ inflight'[d] = inflight[d]
          /\ UNCHANGED <<registry, topics, route, receiver, pending, view, lastSeq,
                         heard>>
      BY <2>2, <1>1 DEF SenderGets, TypeOK
    <3>3. (NoOrphans /\ JoinOrder)'
      BY <3>1, <3>2 DEF NoOrphans, JoinOrder
    <3>4. NotYet'
      BY <3>1, <3>2 DEF NotYet, Untouched
    <3> QED BY <3>3, <3>4
  <2> QED BY <2>5, <2>6
<1>2. CASE SendReturns(c)
  <2>1. /\ inflight' \in [Conns -> Seq(Message)]
        /\ sender' \in [Conns -> {"none", "get", "send", "done"}]
        /\ \A d \in Conns : Len(inflight'[d]) = IF sender'[d] = "send" THEN 1 ELSE 0
    BY <1>2, EmptySeq DEF SendReturns, TypeOK
  <2>2. TypeOK'
    BY <2>1, <1>2, SentTypes DEF SendReturns, TypeOK
  <2>3. (NoOrphans /\ JoinOrder)'
    BY <1>2 DEF SendReturns, Cancelling, TypeOK, NoOrphans, JoinOrder
  <2>4. NotYet'
    BY <1>2, SentTypes DEF SendReturns, TypeOK, NotYet, Untouched
  <2> QED BY <2>2, <2>3, <2>4
<1>3. ASSUME sender' = [sender EXCEPT ![c] = "done"],
             inflight' = [inflight EXCEPT ![c] = <<>>],
             sender[c] \in {"get", "send"},
             closed' \in [Conns -> BOOLEAN],
             (sender[c] = "send" /\ Sent(c)) \/ UNCHANGED histVars,
             UNCHANGED <<registry, topics, queue, closedEvent, route, receiver,
                         pending, envVars>>
      PROVE  HubInv'
  <2>1. /\ inflight' \in [Conns -> Seq(Message)]
        /\ sender' \in [Conns -> {"none", "get", "send", "done"}]
        /\ \A d \in Conns : Len(inflight'[d]) = IF sender'[d] = "send" THEN 1 ELSE 0
    BY <1>3, EmptySeq DEF TypeOK
  <2>2. /\ view' \in [Conns -> SUBSET Topics] /\ lastSeq' \in [Conns -> Nat]
        /\ heard' \in [Conns -> BOOLEAN]
        /\ \A d \in Conns \ {c} :
             view'[d] = view[d] /\ lastSeq'[d] = lastSeq[d] /\ heard'[d] = heard[d]
    BY <1>3, SentTypes DEF TypeOK
  <2>3. TypeOK'
    BY <2>1, <2>2, <1>3 DEF TypeOK
  <2>4. (NoOrphans /\ JoinOrder)'
    BY <1>3 DEF TypeOK, NoOrphans, JoinOrder
  <2>5. NotYet'
    BY <2>2, <1>3 DEF TypeOK, NotYet, Untouched
  <2> QED BY <2>3, <2>4, <2>5
<1>4. CASE SendRaises(c)
  BY <1>3, <1>4 DEF SendRaises, TypeOK
<1>5. CASE SenderCancelled(c)
  BY <1>3, <1>5 DEF SenderCancelled, TypeOK
<1> QED
  BY <1>1, <1>2, <1>4, <1>5 DEF SenderStep

\* A reply is put, or waits; either way the types are kept.
LEMMA ReplyTypes ==
  ASSUME TypeOK, NEW c \in Conns, NEW m \in Message, receiver[c] = "receive",
         Reply(c, m)
  PROVE  /\ queue' \in [Conns -> Seq(Message)]
         /\ receiver' \in [Conns -> {"none", "receive", "put", "done"}]
         /\ pending' \in [Conns -> Seq(Message)]
         /\ \A d \in Conns :
              /\ Len(queue'[d]) <= QueueSize
              /\ Len(pending'[d]) = IF receiver'[d] = "put" THEN 1 ELSE 0
         /\ \A d \in Conns \ {c} :
              /\ queue'[d] = queue[d] /\ receiver'[d] = receiver[d]
              /\ pending'[d] = pending[d]
<1> USE HubAssumption DEF TypeOK
<1>1. <<m>> \in Seq(Message) /\ Len(<<m>>) = 1
  OBVIOUS
<1>2. CASE /\ Len(queue[c]) < QueueSize
           /\ queue' = [queue EXCEPT ![c] = Append(@, m)]
           /\ UNCHANGED <<receiver, pending>>
  <2>1. Append(queue[c], m) \in Seq(Message)
        /\ Len(Append(queue[c], m)) <= QueueSize
    BY <1>2
  <2> QED BY <2>1, <1>2
<1>3. CASE /\ receiver' = [receiver EXCEPT ![c] = "put"]
           /\ pending' = [pending EXCEPT ![c] = <<m>>]
           /\ UNCHANGED queue
  BY <1>1, <1>3
<1> QED BY <1>2, <1>3 DEF Reply

\* The steps of the receiver keep the invariant.
LEMMA ReceiverKeepsInv ==
  ASSUME HubInv, NEW c \in Conns, ReceiverStep(c)
  PROVE  HubInv'
<1> USE DEF HubInv
<1>1. ASSUME queue' \in [Conns -> Seq(Message)],
             receiver' \in [Conns -> {"none", "receive", "put", "done"}],
             pending' \in [Conns -> Seq(Message)],
             topics' \in [Conns -> SUBSET Topics],
             \A d \in Conns :
               /\ Len(queue'[d]) <= QueueSize
               /\ Len(pending'[d]) = IF receiver'[d] = "put" THEN 1 ELSE 0,
             \A d \in Conns \ {c} :
               /\ queue'[d] = queue[d] /\ receiver'[d] = receiver[d]
               /\ pending'[d] = pending[d] /\ topics'[d] = topics[d],
             receiver[c] \in {"receive", "put"},
             receiver'[c] = "done" \/ ~Cancelling(c),
             closed' \in [Conns -> BOOLEAN], closedEvent' \in [Conns -> BOOLEAN],
             frames' \in [Conns -> 0 .. MaxFrames],
             UNCHANGED <<registry, route, sender, inflight, heartbeat, peer,
                         published, histVars>>
      PROVE  HubInv'
  <2>1. TypeOK'
    BY <1>1 DEF TypeOK, histVars
  <2>2. route[c] \notin {"accept", "close", "done"}
    BY <1>1 DEF NoOrphans, NotYet, Untouched
  <2>3. NoOrphans' /\ JoinOrder'
    BY <2>2, <1>1 DEF NoOrphans, JoinOrder
  <2>4. NotYet'
    BY <2>2, <1>1 DEF NotYet, Untouched, histVars
  <2> QED BY <2>1, <2>3, <2>4
<1>2. ASSUME ReceivesFrame(c), topics' \in [Conns -> SUBSET Topics],
             \A d \in Conns \ {c} : topics'[d] = topics[d],
             \/ \E m \in Message : Reply(c, m)
             \/ UNCHANGED <<queue, receiver, pending>>
      PROVE  HubInv'
  <2>1. TypeOK /\ receiver[c] = "receive" /\ ~Cancelling(c)
    BY <1>2 DEF ReceivesFrame
  <2>2. /\ queue' \in [Conns -> Seq(Message)]
        /\ receiver' \in [Conns -> {"none", "receive", "put", "done"}]
        /\ pending' \in [Conns -> Seq(Message)]
        /\ \A d \in Conns :
             /\ Len(queue'[d]) <= QueueSize
             /\ Len(pending'[d]) = IF receiver'[d] = "put" THEN 1 ELSE 0
        /\ \A d \in Conns \ {c} :
             /\ queue'[d] = queue[d] /\ receiver'[d] = receiver[d]
             /\ pending'[d] = pending[d]
    <3>1. CASE \E m \in Message : Reply(c, m)
      BY <2>1, <3>1, ReplyTypes
    <3>2. CASE UNCHANGED <<queue, receiver, pending>>
      BY <3>2 DEF TypeOK
    <3> QED BY <1>2, <3>1, <3>2
  <2>3. frames' \in [Conns -> 0 .. MaxFrames]
    BY <1>2, HubAssumption DEF ReceivesFrame, TypeOK
  <2>4. UNCHANGED <<registry, closed, closedEvent, route, sender, inflight,
                    heartbeat, peer, published, histVars>>
    BY <1>2 DEF ReceivesFrame
  <2>5. closed' \in [Conns -> BOOLEAN] /\ closedEvent' \in [Conns -> BOOLEAN]
    BY <2>4 DEF TypeOK
  <2> QED BY <1>1, <1>2, <2>1, <2>2, <2>3, <2>4, <2>5
<1>3. ASSUME NEW ts \in SUBSET (Topics \union {BadTopic}), Subscribe(c, ts)
      PROVE  HubInv'
  <2>1. Valid(ts) \in SUBSET Topics /\ Subscribed(Valid(ts)) \in Message
    BY HubMessages DEF Valid
  <2>2. topics' \in [Conns -> SUBSET Topics]
        /\ \A d \in Conns \ {c} : topics'[d] = topics[d]
    BY <2>1, <1>3 DEF Subscribe, TypeOK
  <2> QED BY <2>1, <2>2, <1>2, <1>3 DEF Subscribe
<1>4. ASSUME NEW ts \in SUBSET (Topics \union {BadTopic}), Unsubscribe(c, ts)
      PROVE  HubInv'
  <2>1. Valid(ts) \in SUBSET Topics /\ Unsubscribed(Valid(ts)) \in Message
    BY HubMessages DEF Valid
  <2>2. topics' \in [Conns -> SUBSET Topics]
        /\ \A d \in Conns \ {c} : topics'[d] = topics[d]
    BY <2>1, <1>4 DEF Unsubscribe, TypeOK
  <2> QED BY <2>1, <2>2, <1>2, <1>4 DEF Unsubscribe
<1>5. CASE PingOrBadFrame(c)
  <2>1. \A type \in {"pong", "error"} : Plain(type) \in Message
    BY HubMessages DEF Types
  <2>2. topics' \in [Conns -> SUBSET Topics]
        /\ \A d \in Conns \ {c} : topics'[d] = topics[d]
    BY <1>5 DEF PingOrBadFrame, TypeOK
  <2> QED BY <2>1, <2>2, <1>2, <1>5 DEF PingOrBadFrame
<1>6. CASE ReplyQueued(c)
  <2>1. /\ queue[c] \in Seq(Message) /\ pending[c] \in Seq(Message)
        /\ Len(queue[c]) < QueueSize /\ Len(pending[c]) = 1
    BY <1>6 DEF ReplyQueued, TypeOK
  <2>2. /\ queue[c] \o pending[c] \in Seq(Message)
        /\ Len(queue[c] \o pending[c]) <= QueueSize
    <3>1. /\ queue[c] \o pending[c] \in Seq(Message)
          /\ Len(queue[c] \o pending[c]) = Len(queue[c]) + Len(pending[c])
      BY <2>1, ConcatProperties
    <3>2. Len(queue[c]) \in Nat /\ QueueSize \in Nat
      BY <2>1, HubAssumption
    <3> QED BY <2>1, <3>1, <3>2
  <2>3. queue' \in [Conns -> Seq(Message)] /\ \A d \in Conns : Len(queue'[d]) <= QueueSize
    BY <2>2, <1>6 DEF ReplyQueued, TypeOK
  <2>4. /\ receiver' \in [Conns -> {"none", "receive", "put", "done"}]
        /\ pending' \in [Conns -> Seq(Message)]
        /\ \A d \in Conns : Len(pending'[d]) = IF receiver'[d] = "put" THEN 1 ELSE 0
    BY <1>6, EmptySeq DEF ReplyQueued, TypeOK
  <2>5. /\ \A d \in Conns \ {c} :
             /\ queue'[d] = queue[d] /\ receiver'[d] = receiver[d]
             /\ pending'[d] = pending[d] /\ topics'[d] = topics[d]
        /\ receiver[c] = "put" /\ ~Cancelling(c)
        /\ UNCHANGED <<registry, topics, closed, closedEvent, route, sender,
                       inflight, heartbeat, peer, frames, published, histVars>>
    BY <1>6 DEF ReplyQueued, TypeOK, envVars
  <2>6. /\ topics' \in [Conns -> SUBSET Topics]
        /\ closed' \in [Conns -> BOOLEAN] /\ closedEvent' \in [Conns -> BOOLEAN]
        /\ frames' \in [Conns -> 0 .. MaxFrames]
    BY <2>5 DEF TypeOK
  <2> QED BY <1>1, <2>3, <2>4, <2>5, <2>6
<1>7. ASSUME ReceiverEnds(c), receiver[c] \in {"receive", "put"},
             frames' \in [Conns -> 0 .. MaxFrames]
      PROVE  HubInv'
  <2>1. Offer(queue[c], Sentinel) \in Seq(Message) /\ Len(Offer(queue[c], Sentinel)) <= QueueSize
    BY HubMessages, OfferBounded DEF TypeOK
  <2>2. queue' \in [Conns -> Seq(Message)] /\ \A d \in Conns : Len(queue'[d]) <= QueueSize
    BY <2>1, <1>7 DEF ReceiverEnds, TypeOK
  <2>3. /\ receiver' \in [Conns -> {"none", "receive", "put", "done"}]
        /\ pending' \in [Conns -> Seq(Message)]
        /\ \A d \in Conns : Len(pending'[d]) = IF receiver'[d] = "put" THEN 1 ELSE 0
    BY <1>7, EmptySeq DEF ReceiverEnds, TypeOK
  <2>4. /\ \A d \in Conns \ {c} :
             /\ queue'[d] = queue[d] /\ receiver'[d] = receiver[d]
             /\ pending'[d] = pending[d] /\ topics'[d] = topics[d]
        /\ receiver'[c] = "done"
        /\ UNCHANGED <<registry, topics, route, sender, inflight, heartbeat, peer,
                       published, histVars>>
    BY <1>7 DEF ReceiverEnds, TypeOK
  <2>5. /\ topics' \in [Conns -> SUBSET Topics]
        /\ closed' \in [Conns -> BOOLEAN] /\ closedEvent' \in [Conns -> BOOLEAN]
    BY <2>4, <1>7 DEF ReceiverEnds, TypeOK
  <2> QED BY <1>1, <1>7, <2>2, <2>3, <2>4, <2>5
<1>8. CASE Disconnects(c)
  BY <1>7, <1>8 DEF Disconnects, TypeOK
<1>9. CASE BinaryFrame(c)
  <2>1. frames' \in [Conns -> 0 .. MaxFrames]
    BY <1>9, HubAssumption DEF BinaryFrame, TypeOK
  <2> QED BY <2>1, <1>7, <1>9 DEF BinaryFrame
<1>10. CASE ReceiverCancelled(c)
  BY <1>7, <1>10 DEF ReceiverCancelled, TypeOK
<1> QED
  BY <1>3, <1>4, <1>5, <1>6, <1>8, <1>9, <1>10 DEF ReceiverStep

\* A publisher's message to a set of registered connections keeps the invariant.
LEMMA OfferKeepsInv ==
  ASSUME HubInv, NEW cs \in SUBSET registry, NEW m \in Message, OfferToAll(cs, m),
         published' \in 0 .. MaxEvents,
         UNCHANGED <<registry, topics, closed, closedEvent, taskVars, heartbeat,
                     peer, frames, histVars>>
  PROVE  HubInv'
<1> USE DEF HubInv
<1>1. \A d \in Conns : /\ Offer(queue[d], m) \in Seq(Message)
                       /\ Len(Offer(queue[d], m)) <= QueueSize
  BY OfferBounded DEF TypeOK
<1>2. /\ queue' \in [Conns -> Seq(Message)]
      /\ \A d \in Conns : Len(queue'[d]) <= QueueSize
  BY <1>1 DEF OfferToAll, TypeOK
<1>3. \A d \in Conns : route[d] = "accept" => queue'[d] = queue[d]
  BY DEF OfferToAll, NoOrphans
<1>4. TypeOK'
  BY <1>2 DEF TypeOK, taskVars, histVars
<1>5. (NoOrphans /\ JoinOrder)'
  BY DEF NoOrphans, JoinOrder, taskVars
<1>6. NotYet'
  BY <1>3 DEF NotYet, Untouched, taskVars, histVars
<1> QED BY <1>4, <1>5, <1>6

\* Every step of the hub keeps the invariant.
LEMMA HubInvStep == HubInv /\ [Next]_vars => HubInv'
<1> SUFFICES ASSUME HubInv, [Next]_vars PROVE HubInv'
  OBVIOUS
<1>1. ASSUME NEW c \in Conns, RouteStep(c) \/ SenderStep(c) \/ ReceiverStep(c)
      PROVE  HubInv'
  BY <1>1, RouteKeepsInv, SenderKeepsInv, ReceiverKeepsInv
<1>2. ASSUME NEW c \in Conns, ClientLeaves(c)
      PROVE  HubInv'
  BY <1>2 DEF ClientLeaves, HubInv, TypeOK, NoOrphans, JoinOrder, NotYet,
              Untouched,
              connVars, taskVars, histVars
<1>3. ASSUME NEW t \in Topics, Broadcast(t)
      PROVE  HubInv'
  <2>1. /\ published' \in 0 .. MaxEvents /\ published + 1 \in Nat
    BY <1>3, HubAssumption DEF Broadcast, HubInv, TypeOK
  <2>2. Event(t, published + 1) \in Message
    BY <2>1, HubMessages
  <2>3. {c \in Open : t \in topics[c]} \in SUBSET registry
    BY DEF Open
  <2> QED BY <2>1, <2>2, <2>3, <1>3, OfferKeepsInv DEF Broadcast
<1>4. CASE HeartbeatTick
  <2>1. /\ published' \in 0 .. MaxEvents
    BY <1>4, HubAssumption DEF HeartbeatTick, HubInv, TypeOK
  <2>2. Plain("ping") \in Message /\ Open \in SUBSET registry
    BY HubMessages DEF Open, Types
  <2> QED BY <2>1, <2>2, <1>4, OfferKeepsInv DEF HeartbeatTick
<1>5. CASE StartHeartbeat \/ StopHeartbeat \/ HeartbeatUnwinds
  <2>1. /\ heartbeat' \in {"idle", "running", "stopping", "stopped"}
        /\ UNCHANGED <<connVars, taskVars, peer, frames, published, histVars>>
    BY <1>5 DEF StartHeartbeat, StopHeartbeat, HeartbeatUnwinds, HeartbeatMoves
  <2>2. TypeOK'
    BY <2>1 DEF HubInv, TypeOK, connVars, taskVars, histVars
  <2>3. (NoOrphans /\ JoinOrder /\ NotYet)'
    BY <2>1 DEF HubInv, NoOrphans, JoinOrder, NotYet, Untouched, connVars, taskVars,
                histVars
  <2> QED BY <2>2, <2>3 DEF HubInv
<1>6. CASE UNCHANGED vars
  BY <1>6 DEF vars, connVars, taskVars, envVars, histVars,
              HubInv, TypeOK, NoOrphans, JoinOrder, NotYet, Untouched
<1> QED
  BY <1>1, <1>2, <1>3, <1>4, <1>5, <1>6 DEF Next, HeartbeatStep

\* For any connections, topics and bounds: the types hold, no queue outgrows its
\* size, and when a route returns no task of its connection is left running.
THEOREM HubTypeOK == Spec => []TypeOK
<1>1. Spec => []HubInv
  BY HubInit, HubInvStep, PTL DEF Spec
<1>2. HubInv => TypeOK
  BY DEF HubInv
<1> QED BY <1>1, <1>2, PTL

\* A connection is registered exactly while its route is parked, and a route that
\* returned leaves no sender and no receiver running (unregister's cancel and join).
THEOREM HubNoOrphans == Spec => []NoOrphans
<1>1. Spec => []HubInv
  BY HubInit, HubInvStep, PTL DEF Spec
<1>2. HubInv => NoOrphans
  BY DEF HubInv
<1> QED BY <1>1, <1>2, PTL

-----------------------------------------------------------------------------
(* The refinement                                                          *)

Subs   == WhileServing(topics, {})
Answer == WhileServing(pending, <<>>)
Told   == WhileServing(view, {})
Last   == WhileServing(lastSeq, 0)
Heard  == WhileServing(heard, FALSE)

\* The abstract specification builds its messages as the hub does.
LEMMA SameMessages ==
  /\ Feed!Welcome = Welcome
  /\ \A type : Feed!Plain(type) = Plain(type)
  /\ \A ts : Feed!Subscribed(ts) = Subscribed(ts) /\ Feed!Unsubscribed(ts) = Unsubscribed(ts)
  /\ \A t, n : Feed!Event(t, n) = Event(t, n)
  /\ \A v, m : Feed!AfterReading(v, m) = AfterReading(v, m)
  BY DEF Feed!Welcome, Feed!Plain, Feed!Subscribed, Feed!Unsubscribed, Feed!Event,
         Feed!AfterReading, Welcome, Plain, Subscribed, Unsubscribed, Event,
         AfterReading

\* A step of connection c's own tasks leaves the other connections alone.
OnlyMoves(c) ==
  \A d \in Conns \ {c} :
    /\ topics'[d] = topics[d] /\ queue'[d] = queue[d] /\ route'[d] = route[d]
    /\ sender'[d] = sender[d] /\ inflight'[d] = inflight[d]
    /\ pending'[d] = pending[d] /\ view'[d] = view[d]
    /\ lastSeq'[d] = lastSeq[d] /\ heard'[d] = heard[d]

\* What the lines look like while they are served and when they are not.
LEMMA Picture ==
  ASSUME NEW c \in Conns
  PROVE  /\ Serving(c) =>
              /\ Line[c] = "open" /\ Subs[c] = topics[c]
              /\ Owed[c] = inflight[c] \o queue[c] /\ Answer[c] = pending[c]
              /\ Told[c] = view[c] /\ Last[c] = lastSeq[c] /\ Heard[c] = heard[c]
         /\ ~Serving(c) =>
              /\ Line[c] = (IF route[c] = "accept" THEN "new" ELSE "shut")
              /\ Subs[c] = {} /\ Owed[c] = <<>> /\ Answer[c] = <<>>
              /\ Told[c] = {} /\ Last[c] = 0 /\ Heard[c] = FALSE
  BY DEF Line, Subs, Owed, Answer, Told, Last, Heard, WhileServing

\* The same of the next state.
LEMMA PictureNext ==
  ASSUME NEW c \in Conns
  PROVE  /\ Serving(c)' =>
              /\ Line'[c] = "open" /\ Subs'[c] = topics'[c]
              /\ Owed'[c] = inflight'[c] \o queue'[c] /\ Answer'[c] = pending'[c]
              /\ Told'[c] = view'[c] /\ Last'[c] = lastSeq'[c] /\ Heard'[c] = heard'[c]
         /\ ~Serving(c)' =>
              /\ Line'[c] = (IF route'[c] = "accept" THEN "new" ELSE "shut")
              /\ Subs'[c] = {} /\ Owed'[c] = <<>> /\ Answer'[c] = <<>>
              /\ Told'[c] = {} /\ Last'[c] = 0 /\ Heard'[c] = FALSE
  BY DEF Line, Subs, Owed, Answer, Told, Last, Heard, WhileServing, Serving

\* A function that differs from another at c at most.
LEMMA OneEntry ==
  ASSUME NEW f, NEW g, NEW c \in Conns,
         f = [d \in Conns |-> f[d]], g = [d \in Conns |-> g[d]],
         \A d \in Conns \ {c} : g[d] = f[d]
  PROVE  g = [f EXCEPT ![c] = g[c]] /\ (g[c] = f[c] => g = f)
<1> DEFINE h == [f EXCEPT ![c] = g[c]]
<1>1. h = [d \in Conns |-> IF d = c THEN g[c] ELSE f[d]]
  OBVIOUS
<1>2. \A d \in Conns : g[d] = IF d = c THEN g[c] ELSE f[d]
  OBVIOUS
<1>3. g = h
  BY <1>1, <1>2
<1>4. ASSUME g[c] = f[c] PROVE g = f
  <2>1. \A d \in Conns : g[d] = f[d]
    BY <1>4
  <2> QED BY <2>1
<1> QED BY <1>3, <1>4

\* A step that touches one connection and no event counter changes at most the
\* picture of that connection.
LEMMA OnlyOneLineMoves ==
  ASSUME NEW c \in Conns, OnlyMoves(c)
  PROVE  /\ Line' = [Line EXCEPT ![c] = Line'[c]]
         /\ Subs' = [Subs EXCEPT ![c] = Subs'[c]]
         /\ Owed' = [Owed EXCEPT ![c] = Owed'[c]]
         /\ Answer' = [Answer EXCEPT ![c] = Answer'[c]]
         /\ Told' = [Told EXCEPT ![c] = Told'[c]]
         /\ Last' = [Last EXCEPT ![c] = Last'[c]]
         /\ Heard' = [Heard EXCEPT ![c] = Heard'[c]]
         /\ Line'[c] = Line[c] => Line' = Line
         /\ Subs'[c] = Subs[c] => Subs' = Subs
         /\ Owed'[c] = Owed[c] => Owed' = Owed
         /\ Answer'[c] = Answer[c] => Answer' = Answer
         /\ Told'[c] = Told[c] => Told' = Told
         /\ Last'[c] = Last[c] => Last' = Last
         /\ Heard'[c] = Heard[c] => Heard' = Heard
<1>1. ASSUME NEW d \in Conns \ {c}
      PROVE  /\ Line'[d] = Line[d] /\ Subs'[d] = Subs[d] /\ Owed'[d] = Owed[d]
             /\ Answer'[d] = Answer[d] /\ Told'[d] = Told[d] /\ Last'[d] = Last[d]
             /\ Heard'[d] = Heard[d]
  <2>1. Serving(d)' <=> Serving(d)
    BY DEF Serving, OnlyMoves
  <2>2. d \in Conns
    OBVIOUS
  <2>3. /\ topics'[d] = topics[d] /\ queue'[d] = queue[d] /\ route'[d] = route[d]
        /\ inflight'[d] = inflight[d] /\ pending'[d] = pending[d]
        /\ view'[d] = view[d] /\ lastSeq'[d] = lastSeq[d] /\ heard'[d] = heard[d]
    BY DEF OnlyMoves
  <2>4. CASE Serving(d)
    BY <2>1, <2>2, <2>3, <2>4, Picture, PictureNext
  <2>5. CASE ~Serving(d)
    BY <2>1, <2>2, <2>3, <2>5, Picture, PictureNext
  <2> QED BY <2>4, <2>5
<1>2. /\ Line = [d \in Conns |-> Line[d]] /\ Line' = [d \in Conns |-> Line'[d]]
      /\ Owed = [d \in Conns |-> Owed[d]] /\ Owed' = [d \in Conns |-> Owed'[d]]
  BY DEF Line, Owed
<1>3. /\ Subs = [d \in Conns |-> Subs[d]] /\ Subs' = [d \in Conns |-> Subs'[d]]
      /\ Answer = [d \in Conns |-> Answer[d]] /\ Answer' = [d \in Conns |-> Answer'[d]]
      /\ Told = [d \in Conns |-> Told[d]] /\ Told' = [d \in Conns |-> Told'[d]]
      /\ Last = [d \in Conns |-> Last[d]] /\ Last' = [d \in Conns |-> Last'[d]]
      /\ Heard = [d \in Conns |-> Heard[d]] /\ Heard' = [d \in Conns |-> Heard'[d]]
  BY DEF Subs, Answer, Told, Last, Heard, WhileServing
<1>4. Line' = [Line EXCEPT ![c] = Line'[c]] /\ (Line'[c] = Line[c] => Line' = Line)
  BY <1>1, <1>2, OneEntry
<1>5. Owed' = [Owed EXCEPT ![c] = Owed'[c]] /\ (Owed'[c] = Owed[c] => Owed' = Owed)
  BY <1>1, <1>2, OneEntry
<1>6. Subs' = [Subs EXCEPT ![c] = Subs'[c]] /\ (Subs'[c] = Subs[c] => Subs' = Subs)
  BY <1>1, <1>3, OneEntry
<1>7. Answer' = [Answer EXCEPT ![c] = Answer'[c]] /\ (Answer'[c] = Answer[c] => Answer' = Answer)
  BY <1>1, <1>3, OneEntry
<1>8. Told' = [Told EXCEPT ![c] = Told'[c]] /\ (Told'[c] = Told[c] => Told' = Told)
  BY <1>1, <1>3, OneEntry
<1>9. Last' = [Last EXCEPT ![c] = Last'[c]] /\ (Last'[c] = Last[c] => Last' = Last)
  BY <1>1, <1>3, OneEntry
<1>10. Heard' = [Heard EXCEPT ![c] = Heard'[c]] /\ (Heard'[c] = Heard[c] => Heard' = Heard)
  BY <1>1, <1>3, OneEntry
<1> QED BY <1>4, <1>5, <1>6, <1>7, <1>8, <1>9, <1>10

\* Whatever a connection's tasks do, if it is not served afterwards its line
\* shuts or stays shut.
LEMMA ShutWhenNotServed ==
  ASSUME NEW c \in Conns, OnlyMoves(c), published' = published,
         ~Serving(c)', route'[c] # "accept"
  PROVE  Feed!ShutLine(c)
<1>1. /\ Line'[c] = "shut" /\ Subs'[c] = {} /\ Owed'[c] = <<>> /\ Answer'[c] = <<>>
      /\ Told'[c] = {} /\ Last'[c] = 0 /\ Heard'[c] = FALSE
  BY PictureNext
<1> QED
  BY <1>1, OnlyOneLineMoves DEF Feed!ShutLine, Subs, Answer, Told, Last, Heard

\* Nothing moves on any line when the variables it is made of do not.
LEMMA StutterWhenStill ==
  ASSUME UNCHANGED <<Line, Subs, Owed, Answer, Told, Last, Heard, published>>
  PROVE  UNCHANGED Feed!feedVars
  BY DEF Feed!feedVars, Subs, Answer, Told, Last, Heard

\* The route's steps open a line, shut it, or leave it shut.
LEMMA RouteRefines ==
  ASSUME HubInv, NEW c \in Conns, RouteStep(c)
  PROVE  Feed!OpenLine(c) \/ Feed!ShutLine(c)
<1> USE DEF connVars, taskVars, envVars, histVars
<1>1. CASE Register(c)
  <2>1. /\ OnlyMoves(c) /\ published' = published
    BY <1>1 DEF Register, OnlyMoves, HubInv, TypeOK
  <2>2. Untouched(c) /\ ~Serving(c)
    BY <1>1 DEF Register, HubInv, NotYet, Serving
  <2>3. Offer(<<>>, Welcome) = <<Welcome>>
    <3>1. Len(<<>>) < QueueSize /\ Append(<<>>, Welcome) = <<Welcome>>
      BY HubAssumption
    <3> QED BY <3>1 DEF Offer
  <2>4. /\ Serving(c)'
        /\ queue'[c] = <<Welcome>> /\ inflight'[c] = <<>> /\ pending'[c] = <<>>
        /\ topics'[c] = {} /\ view'[c] = {} /\ lastSeq'[c] = 0 /\ heard'[c] = FALSE
    BY <1>1, <2>2, <2>3 DEF Register, Serving, HubInv, TypeOK, Untouched
  <2>5. inflight'[c] \o queue'[c] = <<Welcome>>
    <3>1. <<Welcome>> \in Seq(Message)
      BY HubMessages
    <3> QED BY <3>1, <2>4, ConcatEmptySeq
  <2>6. /\ Line[c] = "new" /\ Line'[c] = "open" /\ Subs'[c] = Subs[c]
        /\ Owed'[c] = <<Welcome>> /\ Answer'[c] = Answer[c]
        /\ Told'[c] = Told[c] /\ Last'[c] = Last[c] /\ Heard'[c] = Heard[c]
    BY <1>1, <2>2, <2>4, <2>5, Picture, PictureNext DEF Register
  <2>7. /\ Subs' = Subs /\ Answer' = Answer /\ Told' = Told
        /\ Last' = Last /\ Heard' = Heard
    BY <2>1, <2>6, OnlyOneLineMoves
  <2>8. Line' = [Line EXCEPT ![c] = "open"] /\ Owed' = [Owed EXCEPT ![c] = <<Welcome>>]
    BY <2>1, <2>6, OnlyOneLineMoves
  <2>9. Feed!OpenLine(c)
    BY <2>1, <2>6, <2>7, <2>8, SameMessages
       DEF Feed!OpenLine, Subs, Answer, Told, Last, Heard
  <2> QED BY <2>9
<1>2. CASE AcceptFails(c) \/ Unregister(c) \/ JoinSender(c) \/ JoinReceiver(c)
           \/ CloseSocket(c)
  <2>1. /\ OnlyMoves(c) /\ published' = published
        /\ route'[c] \in {"joinSender", "joinReceiver", "close", "done"}
    BY <1>2 DEF AcceptFails, Unregister, JoinSender, JoinReceiver, CloseSocket,
                OnlyMoves, HubInv, TypeOK
  <2>2. ~Serving(c)' /\ route'[c] # "accept"
    BY <2>1 DEF Serving
  <2> QED BY <2>1, <2>2, ShutWhenNotServed
<1> QED
  BY <1>1, <1>2 DEF RouteStep, RouteWakes, RouteCancelled

\* What is appended to the queue is appended to what the client is owed.
LEMMA ConcatAppend ==
  ASSUME NEW s \in Seq(Message), NEW q \in Seq(Message), NEW m \in Message
  PROVE  s \o Append(q, m) = Append(s \o q, m)
  OBVIOUS

\* Concatenation is associative with one message in front.
LEMMA ConcatThree ==
  ASSUME NEW s \in Seq(Message), NEW q \in Seq(Message), NEW p \in Seq(Message)
  PROVE  s \o (q \o p) = (s \o q) \o p
  OBVIOUS

\* Concatenation, of what the sender holds and what the queue holds.
LEMMA ConcatFacts ==
  ASSUME NEW s \in Seq(Message), NEW q \in Seq(Message)
  PROVE  /\ s \o q \in Seq(Message)
         /\ <<>> \o q = q /\ q \o <<>> = q
         /\ \A m \in Message :
              /\ <<m>> \in Seq(Message) /\ <<m>> # <<>>
              /\ <<m>> \o q # <<>> /\ Head(<<m>> \o q) = m /\ Tail(<<m>> \o q) = q
         /\ q # <<>> => <<Head(q)>> \o Tail(q) = q
<1>1. s \o q \in Seq(Message) /\ <<>> \o q = q /\ q \o <<>> = q
  BY ConcatProperties, ConcatEmptySeq
<1>2. ASSUME NEW m \in Message
      PROVE  /\ <<m>> \in Seq(Message) /\ <<m>> # <<>>
             /\ <<m>> \o q # <<>> /\ Head(<<m>> \o q) = m /\ Tail(<<m>> \o q) = q
  OBVIOUS
<1>3. ASSUME q # <<>> PROVE <<Head(q)>> \o Tail(q) = q
  BY <1>3
<1> QED BY <1>1, <1>2, <1>3

\* The sender's steps deliver the next message, shut the line, or only move a
\* message from the queue to the sender.
LEMMA SenderRefines ==
  ASSUME HubInv, NEW c \in Conns, SenderStep(c)
  PROVE  Feed!ShutLine(c) \/ Feed!Deliver(c) \/ UNCHANGED Feed!feedVars
<1> USE DEF connVars, taskVars, envVars, histVars
<1>1. /\ queue[c] \in Seq(Message) /\ inflight[c] \in Seq(Message)
      /\ Len(inflight[c]) = IF sender[c] = "send" THEN 1 ELSE 0
  BY DEF HubInv, TypeOK
<1>2. sender[c] \in {"get", "send"} => route[c] \notin {"accept", "close", "done"}
  BY DEF HubInv, NoOrphans, NotYet, Untouched
<1>3. CASE SenderGets(c)
  <2>1. /\ OnlyMoves(c) /\ published' = published /\ route' = route
    BY <1>3 DEF SenderGets, OnlyMoves, HubInv, TypeOK
  <2>2. Serving(c)
    BY <1>2, <1>3 DEF SenderGets, Cancelling, Serving, HubInv, TypeOK
  <2>3. CASE Head(queue[c]) = Sentinel
    <3>1. ~Serving(c)' /\ route'[c] # "accept"
      BY <1>3, <2>1, <2>2, <2>3 DEF SenderGets, Serving, HubInv, TypeOK
    <3> QED BY <3>1, <2>1, ShutWhenNotServed
  <2>4. CASE Head(queue[c]) # Sentinel
    <3>1. /\ Serving(c)' /\ queue[c] # <<>> /\ queue'[c] = Tail(queue[c])
          /\ inflight'[c] = <<Head(queue[c])>> /\ inflight[c] = <<>>
          /\ UNCHANGED <<topics, pending, view, lastSeq, heard>>
      BY <1>1, <1>3, <2>1, <2>2, <2>4 DEF SenderGets, Serving, HubInv, TypeOK
    <3>2. inflight'[c] \o queue'[c] = inflight[c] \o queue[c]
      BY <3>1, <1>1, ConcatFacts
    <3>3. /\ Line'[c] = Line[c] /\ Subs'[c] = Subs[c] /\ Owed'[c] = Owed[c]
          /\ Answer'[c] = Answer[c] /\ Told'[c] = Told[c] /\ Last'[c] = Last[c]
          /\ Heard'[c] = Heard[c]
      BY <2>2, <3>1, <3>2, Picture, PictureNext
    <3> QED BY <2>1, <3>3, OnlyOneLineMoves, StutterWhenStill
  <2> QED BY <2>3, <2>4
<1>4. CASE SendReturns(c)
  <2> DEFINE m == Head(inflight[c])
  <2>1. /\ OnlyMoves(c) /\ published' = published /\ route' = route
    BY <1>4 DEF SendReturns, Sent, OnlyMoves, HubInv, TypeOK
  <2>2. Serving(c) /\ Serving(c)'
    BY <1>2, <1>4 DEF SendReturns, Cancelling, Serving, HubInv, TypeOK
  <2>3. m \in Message /\ inflight[c] = <<m>>
    BY <1>1, <1>4 DEF SendReturns
  <2>4. /\ inflight'[c] = <<>>
        /\ view'[c] = AfterReading(view[c], m)
        /\ lastSeq'[c] = (IF m.type = "event" THEN m.seq ELSE lastSeq[c])
        /\ heard'[c] = TRUE
        /\ UNCHANGED <<topics, queue, pending>>
    BY <1>4 DEF SendReturns, Sent, HubInv, TypeOK
  <2> HIDE DEF m
  <2>5. /\ inflight[c] \o queue[c] # <<>> /\ Head(inflight[c] \o queue[c]) = m
        /\ inflight'[c] \o queue'[c] = Tail(inflight[c] \o queue[c])
    BY <2>3, <2>4, <1>1, ConcatFacts
  <2>6. /\ Line[c] = "open" /\ Line'[c] = Line[c] /\ Subs'[c] = Subs[c]
        /\ Answer'[c] = Answer[c]
        /\ Owed[c] # <<>> /\ Head(Owed[c]) = m /\ Owed'[c] = Tail(Owed[c])
        /\ Told'[c] = AfterReading(Told[c], m)
        /\ Last'[c] = (IF m.type = "event" THEN m.seq ELSE Last[c])
        /\ Heard'[c] = TRUE
    BY <2>2, <2>4, <2>5, Picture, PictureNext
  <2>7. /\ Line' = Line /\ Subs' = Subs /\ Answer' = Answer
        /\ Owed' = [Owed EXCEPT ![c] = Tail(Owed[c])]
        /\ Told' = [Told EXCEPT ![c] = AfterReading(Told[c], m)]
        /\ Last' = [Last EXCEPT ![c] = IF m.type = "event" THEN m.seq ELSE Last[c]]
        /\ Heard' = [Heard EXCEPT ![c] = TRUE]
    BY <2>1, <2>6, OnlyOneLineMoves
  <2>8. Feed!Deliver(c)
    BY <2>1, <2>6, <2>7, SameMessages
       DEF Feed!Deliver, Subs, Answer, Told, Last, Heard
  <2> QED BY <2>8
<1>5. CASE SendRaises(c) \/ SenderCancelled(c)
  <2>1. /\ OnlyMoves(c) /\ published' = published /\ route' = route
        /\ sender'[c] = "done" /\ sender[c] \in {"get", "send"}
    BY <1>5 DEF SendRaises, SenderCancelled, Sent, OnlyMoves, HubInv, TypeOK
  <2>2. ~Serving(c)' /\ route'[c] # "accept"
    BY <2>1, <1>2 DEF Serving
  <2> QED BY <2>1, <2>2, ShutWhenNotServed
<1> QED
  BY <1>3, <1>4, <1>5 DEF SenderStep

\* A reply becomes owed, or becomes the answer that waits, in the step that
\* changes the topics.
LEMMA ReplyIsGiven ==
  ASSUME HubInv, NEW c \in Conns, NEW m \in Message, ReceivesFrame(c), Reply(c, m),
         topics' = [topics EXCEPT ![c] = topics'[c]], Serving(c)
  PROVE  Feed!Give(c, m) /\ Subs' = [Subs EXCEPT ![c] = topics'[c]]
<1>1. /\ queue[c] \in Seq(Message) /\ inflight[c] \in Seq(Message)
      /\ receiver[c] = "receive" /\ pending[c] = <<>>
      /\ UNCHANGED <<route, sender, inflight, published, view, lastSeq, heard>>
  BY DEF HubInv, TypeOK, ReceivesFrame, histVars
<1>2. Serving(c)'
  BY <1>1 DEF Serving
<1>3. CASE /\ queue' = [queue EXCEPT ![c] = Append(@, m)]
           /\ UNCHANGED <<receiver, pending>>
  <2>1. OnlyMoves(c) /\ queue'[c] = Append(queue[c], m)
    BY <1>1, <1>3 DEF OnlyMoves, HubInv, TypeOK
  <2>2. inflight'[c] \o queue'[c] = Append(inflight[c] \o queue[c], m)
    <3>1. inflight[c] \o Append(queue[c], m) = Append(inflight[c] \o queue[c], m)
      BY <1>1, ConcatAppend
    <3>2. inflight'[c] = inflight[c] /\ queue'[c] = Append(queue[c], m)
      BY <1>1, <2>1
    <3> QED BY <3>1, <3>2
  <2>3. /\ Line[c] = "open" /\ Line'[c] = Line[c] /\ Subs'[c] = topics'[c]
        /\ Owed'[c] = Append(Owed[c], m)
        /\ Answer[c] = <<>> /\ Answer'[c] = Answer[c]
        /\ Told'[c] = Told[c] /\ Last'[c] = Last[c] /\ Heard'[c] = Heard[c]
    BY <1>1, <1>2, <1>3, <2>2, Picture, PictureNext
  <2>4. /\ Line' = Line /\ Answer' = Answer /\ Told' = Told /\ Last' = Last
        /\ Heard' = Heard /\ Subs' = [Subs EXCEPT ![c] = topics'[c]]
        /\ Owed' = [Owed EXCEPT ![c] = Append(Owed[c], m)]
    BY <2>1, <2>3, OnlyOneLineMoves
  <2> QED BY <1>1, <2>3, <2>4 DEF Feed!Give, Subs, Answer, Told, Last, Heard
<1>4. CASE /\ receiver' = [receiver EXCEPT ![c] = "put"]
           /\ pending' = [pending EXCEPT ![c] = <<m>>]
           /\ UNCHANGED queue
  <2>1. OnlyMoves(c) /\ pending'[c] = <<m>>
    BY <1>1, <1>4 DEF OnlyMoves, HubInv, TypeOK
  <2>2. /\ Line[c] = "open" /\ Line'[c] = Line[c] /\ Subs'[c] = topics'[c]
        /\ Owed'[c] = Owed[c] /\ Answer[c] = <<>> /\ Answer'[c] = <<m>>
        /\ Told'[c] = Told[c] /\ Last'[c] = Last[c] /\ Heard'[c] = Heard[c]
    BY <1>1, <1>2, <1>4, <2>1, Picture, PictureNext
  <2>3. /\ Line' = Line /\ Owed' = Owed /\ Told' = Told /\ Last' = Last
        /\ Heard' = Heard /\ Subs' = [Subs EXCEPT ![c] = topics'[c]]
        /\ Answer' = [Answer EXCEPT ![c] = <<m>>]
    BY <2>1, <2>2, OnlyOneLineMoves
  <2> QED BY <1>1, <2>2, <2>3 DEF Feed!Give, Subs, Answer, Told, Last, Heard
<1> QED BY <1>3, <1>4 DEF Reply

\* A frame that changes no topic and gets no reply changes no line.
LEMMA SilentFrame ==
  ASSUME HubInv, NEW c \in Conns, ReceivesFrame(c),
         UNCHANGED <<topics, queue, receiver, pending>>
  PROVE  UNCHANGED Feed!feedVars
<1>1. UNCHANGED <<Line, Subs, Owed, Answer, Told, Last, Heard, published>>
  BY DEF ReceivesFrame, histVars, Line, Subs, Owed, Answer, Told, Last, Heard,
         WhileServing, Serving
<1> QED BY <1>1, StutterWhenStill

\* The end of a receiver that waited for a frame is at most a "stop" notice.
LEMMA ReceiverEndRefines ==
  ASSUME HubInv, NEW c \in Conns, ReceiverEnds(c), receiver[c] = "receive", Serving(c)
  PROVE  Feed!Notice({c}, "stop") \/ UNCHANGED Feed!feedVars
<1>1. /\ queue[c] \in Seq(Message) /\ inflight[c] \in Seq(Message)
      /\ Len(queue[c]) <= QueueSize
      /\ pending[c] = <<>> /\ pending'[c] = <<>> /\ queue'[c] = Offer(queue[c], Sentinel)
      /\ UNCHANGED <<topics, route, sender, inflight, published, view, lastSeq, heard>>
      /\ OnlyMoves(c)
  BY DEF HubInv, TypeOK, ReceiverEnds, histVars, OnlyMoves
<1>2. Serving(c)'
  BY <1>1 DEF Serving
<1>3. /\ Line[c] = "open" /\ Line'[c] = Line[c] /\ Subs'[c] = Subs[c]
      /\ Owed[c] = inflight[c] \o queue[c] /\ Owed'[c] = inflight[c] \o queue'[c]
      /\ Answer'[c] = Answer[c]
      /\ Told'[c] = Told[c] /\ Last'[c] = Last[c] /\ Heard'[c] = Heard[c]
  BY <1>1, <1>2, Picture, PictureNext
<1>4. /\ Line' = Line /\ Subs' = Subs /\ Answer' = Answer /\ Told' = Told
      /\ Last' = Last /\ Heard' = Heard
  BY <1>1, <1>3, OnlyOneLineMoves
<1>5. CASE queue'[c] = queue[c]
  <2>1. Owed' = Owed
    <3>1. Owed'[c] = Owed[c]
      BY <1>3, <1>5
    <3> QED BY <3>1, <1>1, OnlyOneLineMoves
  <2> QED BY <1>1, <1>4, <2>1, StutterWhenStill
<1>6. CASE queue'[c] = Append(queue[c], Sentinel)
  <2>1. Owed'[c] = Append(Owed[c], Sentinel)
    <3>1. Sentinel \in Message
      BY HubMessages
    <3>2. inflight[c] \o Append(queue[c], Sentinel) = Append(inflight[c] \o queue[c], Sentinel)
      BY <3>1, <1>1, ConcatAppend
    <3> QED BY <3>2, <1>3, <1>6
  <2>2. Owed' = [Owed EXCEPT ![c] = Append(Owed[c], Sentinel)]
    BY <1>1, <2>1, OnlyOneLineMoves
  <2>3. Owed' = [d \in Conns |-> IF d \in {c} THEN Append(Owed[d], Sentinel) ELSE Owed[d]]
    BY <2>2 DEF Owed
  <2>4. Feed!Notice({c}, "stop")
    BY <1>1, <1>3, <1>4, <2>3, SameMessages
       DEF Feed!Notice, Sentinel, Subs, Answer, Told, Last, Heard
  <2> QED BY <2>4
<1>7. queue'[c] = queue[c] \/ queue'[c] = Append(queue[c], Sentinel)
  BY <1>1, HubMessages, OfferBounded
<1> QED BY <1>5, <1>6, <1>7

\* What a step of the receiver may be to the feed.
FeedReceiverStep(c) ==
  \/ Feed!ShutLine(c) \/ Feed!Settle(c) \/ Feed!Notice({c}, "stop")
  \/ \E type \in {"pong", "error"} : Feed!Reply(c, type)
  \/ \E ts \in SUBSET Topics : Feed!Grant(c, ts) \/ Feed!Withdraw(c, ts)
  \/ UNCHANGED Feed!feedVars

\* Every step of a receiver is a step of the feed, or none.
LEMMA ReceiverRefines ==
  ASSUME HubInv, NEW c \in Conns, ReceiverStep(c)
  PROVE  FeedReceiverStep(c)
<1>1. /\ OnlyMoves(c) /\ route' = route /\ sender' = sender /\ published' = published
      /\ receiver[c] \in {"receive", "put"}
  <2>1. ASSUME ReceivesFrame(c), \A d \in Conns \ {c} : topics'[d] = topics[d],
               \/ \E m \in Message : Reply(c, m)
               \/ UNCHANGED <<queue, receiver, pending>>
        PROVE  OnlyMoves(c)
    BY <2>1 DEF ReceivesFrame, Reply, histVars, OnlyMoves, HubInv, TypeOK
  <2>2. ASSUME NEW ts \in SUBSET (Topics \union {BadTopic}),
               Subscribe(c, ts) \/ Unsubscribe(c, ts)
        PROVE  OnlyMoves(c)
    <3>1. Subscribed(Valid(ts)) \in Message /\ Unsubscribed(Valid(ts)) \in Message
      BY HubMessages DEF Valid
    <3>2. \A d \in Conns \ {c} : topics'[d] = topics[d]
      BY <2>2 DEF Subscribe, Unsubscribe, HubInv, TypeOK
    <3> QED BY <2>1, <2>2, <3>1, <3>2 DEF Subscribe, Unsubscribe
  <2>3. ASSUME PingOrBadFrame(c) PROVE OnlyMoves(c)
    <3>1. \A type \in {"pong", "error"} : Plain(type) \in Message
      BY HubMessages DEF Types
    <3> QED BY <2>1, <2>3, <3>1 DEF PingOrBadFrame
  <2>4. ASSUME ReplyQueued(c) PROVE OnlyMoves(c)
    BY <2>4 DEF ReplyQueued, histVars, OnlyMoves, HubInv, TypeOK
  <2>5. ASSUME ReceiverEnds(c) PROVE OnlyMoves(c)
    BY <2>5 DEF ReceiverEnds, histVars, OnlyMoves, HubInv, TypeOK
  <2>6. OnlyMoves(c)
    BY <2>2, <2>3, <2>4, <2>5
       DEF ReceiverStep, Disconnects, BinaryFrame, ReceiverCancelled
  <2> QED
    BY <2>6 DEF ReceiverStep, Subscribe, Unsubscribe, PingOrBadFrame, ReceivesFrame,
       ReplyQueued, Disconnects, BinaryFrame, ReceiverCancelled, ReceiverEnds, envVars
<1>2. CASE ~Serving(c)
  <2>1. route[c] # "accept"
    BY <1>1 DEF HubInv, NotYet, Untouched
  <2>2. ~Serving(c)'
    BY <1>1, <1>2 DEF Serving
  <2> QED BY <1>1, <2>1, <2>2, ShutWhenNotServed DEF FeedReceiverStep
<1>3. ASSUME Serving(c), NEW ts \in SUBSET (Topics \union {BadTopic}), Subscribe(c, ts)
      PROVE  FeedReceiverStep(c)
  <2>1. /\ Valid(ts) \in SUBSET Topics /\ Subscribed(Valid(ts)) \in Message
        /\ ReceivesFrame(c)
        /\ topics'[c] = topics[c] \union Valid(ts)
        /\ topics' = [topics EXCEPT ![c] = topics'[c]]
    BY <1>3, HubMessages DEF Valid, Subscribe, HubInv, TypeOK
  <2>2. CASE Valid(ts) # {}
    <3>1. /\ Feed!Give(c, Subscribed(Valid(ts)))
          /\ Subs' = [Subs EXCEPT ![c] = Subs[c] \union Valid(ts)]
      BY <1>3, <2>1, <2>2, ReplyIsGiven, Picture DEF Subscribe
    <3>2. Feed!Grant(c, Valid(ts))
      BY <3>1, SameMessages DEF Feed!Grant, Subs
    <3> QED BY <2>1, <3>2 DEF FeedReceiverStep
  <2>3. CASE Valid(ts) = {}
    <3>1. UNCHANGED <<topics, queue, receiver, pending>>
      BY <1>3, <2>1, <2>3 DEF Subscribe, HubInv, TypeOK
    <3> QED BY <2>1, <3>1, SilentFrame DEF FeedReceiverStep
  <2> QED BY <2>2, <2>3
<1>4. ASSUME Serving(c), NEW ts \in SUBSET (Topics \union {BadTopic}), Unsubscribe(c, ts)
      PROVE  FeedReceiverStep(c)
  <2>1. /\ Valid(ts) \in SUBSET Topics /\ Unsubscribed(Valid(ts)) \in Message
        /\ ReceivesFrame(c)
        /\ topics'[c] = topics[c] \ Valid(ts)
        /\ topics' = [topics EXCEPT ![c] = topics'[c]]
    BY <1>4, HubMessages DEF Valid, Unsubscribe, HubInv, TypeOK
  <2>2. CASE Valid(ts) # {}
    <3>1. /\ Feed!Give(c, Unsubscribed(Valid(ts)))
          /\ Subs' = [Subs EXCEPT ![c] = Subs[c] \ Valid(ts)]
      BY <1>4, <2>1, <2>2, ReplyIsGiven, Picture DEF Unsubscribe
    <3>2. Feed!Withdraw(c, Valid(ts))
      BY <3>1, SameMessages DEF Feed!Withdraw, Subs
    <3> QED BY <2>1, <3>2 DEF FeedReceiverStep
  <2>3. CASE Valid(ts) = {}
    <3>1. UNCHANGED <<topics, queue, receiver, pending>>
      BY <1>4, <2>1, <2>3 DEF Unsubscribe, HubInv, TypeOK
    <3> QED BY <2>1, <3>1, SilentFrame DEF FeedReceiverStep
  <2> QED BY <2>2, <2>3
<1>5. ASSUME Serving(c), PingOrBadFrame(c)
      PROVE  FeedReceiverStep(c)
  <2>1. PICK type \in {"pong", "error"} : Reply(c, Plain(type))
    BY <1>5 DEF PingOrBadFrame
  <2>2. Plain(type) \in Message /\ ReceivesFrame(c) /\ topics' = topics
        /\ topics' = [topics EXCEPT ![c] = topics'[c]]
    BY <1>5, HubMessages DEF PingOrBadFrame, Types, HubInv, TypeOK
  <2>3. Feed!Give(c, Plain(type)) /\ Subs' = [Subs EXCEPT ![c] = Subs[c]]
    BY <1>5, <2>1, <2>2, ReplyIsGiven, Picture
  <2>4. Subs' = Subs
    BY <2>3 DEF Subs, WhileServing
  <2>5. Feed!Reply(c, type)
    BY <2>3, <2>4, SameMessages DEF Feed!Reply, Subs
  <2> QED BY <2>5 DEF FeedReceiverStep
<1>6. ASSUME Serving(c), ReplyQueued(c)
      PROVE  FeedReceiverStep(c)
  <2>1. /\ queue[c] \in Seq(Message) /\ inflight[c] \in Seq(Message)
        /\ pending[c] \in Seq(Message) /\ pending[c] # <<>>
        /\ queue'[c] = queue[c] \o pending[c] /\ pending'[c] = <<>>
        /\ UNCHANGED <<topics, inflight, view, lastSeq, heard>>
    <3>1. Len(pending[c]) = 1
      BY <1>6 DEF ReplyQueued, HubInv, TypeOK
    <3>2. pending[c] # <<>>
      BY <3>1
    <3> QED BY <3>2, <1>6 DEF ReplyQueued, histVars, HubInv, TypeOK
  <2>2. inflight'[c] \o queue'[c] = (inflight[c] \o queue[c]) \o pending[c]
    <3>1. inflight[c] \o (queue[c] \o pending[c])
            = (inflight[c] \o queue[c]) \o pending[c]
      BY <2>1, ConcatThree
    <3>2. inflight'[c] = inflight[c] /\ queue'[c] = queue[c] \o pending[c]
      BY <2>1
    <3> QED BY <3>1, <3>2
  <2>3. Serving(c)'
    BY <1>1, <1>6 DEF Serving
  <2>4. /\ Line[c] = "open" /\ Line'[c] = Line[c] /\ Subs'[c] = Subs[c]
        /\ Owed'[c] = Owed[c] \o Answer[c] /\ Answer[c] # <<>> /\ Answer'[c] = <<>>
        /\ Told'[c] = Told[c] /\ Last'[c] = Last[c] /\ Heard'[c] = Heard[c]
    BY <1>6, <2>1, <2>2, <2>3, Picture, PictureNext
  <2>5. /\ Line' = Line /\ Subs' = Subs /\ Told' = Told /\ Last' = Last
        /\ Heard' = Heard /\ Owed' = [Owed EXCEPT ![c] = Owed[c] \o Answer[c]]
        /\ Answer' = [Answer EXCEPT ![c] = <<>>]
    BY <1>1, <2>4, OnlyOneLineMoves
  <2>6. Feed!Settle(c)
    BY <1>1, <2>4, <2>5 DEF Feed!Settle, Subs, Answer, Told, Last, Heard
  <2> QED BY <2>6 DEF FeedReceiverStep
<1>7. ASSUME Serving(c), Disconnects(c) \/ BinaryFrame(c)
      PROVE  FeedReceiverStep(c)
  BY <1>7, ReceiverEndRefines DEF Disconnects, BinaryFrame, FeedReceiverStep
<1>8. ReceiverCancelled(c) => ~Serving(c)
  BY DEF ReceiverCancelled, Cancelling, Serving
<1> QED
  BY <1>2, <1>3, <1>4, <1>5, <1>6, <1>7, <1>8 DEF ReceiverStep

\* The lines a message offered to the connections cs reaches.
Reached(cs) == {d \in cs : Serving(d) /\ Len(queue[d]) < QueueSize}

\* A message offered to some connections is owed to those it reaches, and
\* nothing else changes on any line.
LEMMA OfferRefines ==
  ASSUME HubInv, NEW cs \in SUBSET Conns, NEW m \in Message, OfferToAll(cs, m),
         UNCHANGED <<topics, taskVars, histVars>>
  PROVE  /\ UNCHANGED <<Line, Subs, Answer, Told, Last, Heard>>
         /\ Owed' = [d \in Conns |->
                       IF d \in Reached(cs) THEN Append(Owed[d], m) ELSE Owed[d]]
         /\ \A d \in Reached(cs) : Line[d] = "open" /\ Subs[d] = topics[d]
<1>1. UNCHANGED <<Line, Subs, Answer, Told, Last, Heard>>
  BY DEF taskVars, histVars, Line, Subs, Answer, Told, Last, Heard, WhileServing,
         Serving
<1>2. ASSUME NEW d \in Conns
      PROVE  Owed'[d] = IF d \in Reached(cs) THEN Append(Owed[d], m) ELSE Owed[d]
  <2>1. /\ Serving(d)' <=> Serving(d)
        /\ inflight'[d] = inflight[d]
        /\ queue'[d] = IF d \in cs THEN Offer(queue[d], m) ELSE queue[d]
    BY DEF taskVars, Serving, OfferToAll
  <2>2. queue[d] \in Seq(Message) /\ inflight[d] \in Seq(Message)
    BY DEF HubInv, TypeOK
  <2>3. inflight[d] \o Append(queue[d], m) = Append(inflight[d] \o queue[d], m)
    BY <2>2, ConcatAppend
  <2>4. CASE ~Serving(d)
    BY <2>1, <2>4, Picture, PictureNext DEF Reached
  <2>5. CASE Serving(d)
    <3>1. Owed[d] = inflight[d] \o queue[d] /\ Owed'[d] = inflight'[d] \o queue'[d]
      BY <2>1, <2>5, Picture, PictureNext
    <3>2. CASE d \in Reached(cs)
      <4>1. queue'[d] = Append(queue[d], m)
        BY <2>1, <3>2 DEF Reached, Offer
      <4> QED BY <2>1, <2>3, <3>1, <3>2, <4>1
    <3>3. CASE d \notin Reached(cs)
      <4>1. queue'[d] = queue[d]
        BY <2>1, <2>5, <3>3 DEF Reached, Offer
      <4> QED BY <2>1, <3>1, <3>3, <4>1
    <3> QED BY <3>2, <3>3
  <2> QED BY <2>4, <2>5
<1>3. Owed' = [d \in Conns |-> Owed'[d]]
  BY DEF Owed
<1>4. Owed' = [d \in Conns |->
                 IF d \in Reached(cs) THEN Append(Owed[d], m) ELSE Owed[d]]
  BY <1>2, <1>3
<1>5. \A d \in Reached(cs) : Line[d] = "open" /\ Subs[d] = topics[d]
  BY Picture DEF Reached
<1> QED BY <1>1, <1>4, <1>5

\* A broadcast is a Publish: each subscribed line takes the event or loses it.
LEMMA BroadcastRefines ==
  ASSUME HubInv, NEW t \in Topics, Broadcast(t)
  PROVE  \E cs \in SUBSET Conns : Feed!Publish(t, cs)
<1> DEFINE all == {c \in Open : t \in topics[c]}
           m == Event(t, published + 1)
<1>1. /\ all \in SUBSET Conns /\ m \in Message
      /\ OfferToAll(all, m) /\ published' = published + 1
      /\ UNCHANGED <<topics, taskVars, histVars>>
  <2>1. registry \in SUBSET Conns /\ published + 1 \in Nat
    BY HubAssumption DEF HubInv, TypeOK
  <2> QED BY <2>1, HubMessages DEF Broadcast, Open
<1>2. \A d \in Reached(all) : t \in topics[d]
  BY DEF Reached
<1> HIDE DEF all, m
<1>3. /\ UNCHANGED <<Line, Subs, Answer, Told, Last, Heard>>
      /\ Owed' = [d \in Conns |->
                    IF d \in Reached(all) THEN Append(Owed[d], m) ELSE Owed[d]]
      /\ \A d \in Reached(all) : Line[d] = "open" /\ t \in Subs[d]
      /\ Reached(all) \in SUBSET Conns
  <2>1. Reached(all) \in SUBSET Conns
    BY <1>1 DEF Reached
  <2> QED BY <2>1, <1>1, <1>2, OfferRefines
<1>4. m = Feed!Event(t, published + 1)
  BY SameMessages DEF m
<1>5. Feed!Publish(t, Reached(all))
  BY <1>1, <1>3, <1>4 DEF Feed!Publish, Subs, Answer, Told, Last, Heard
<1> QED BY <1>3, <1>5

\* A heartbeat round is a Notice; starting and stopping it is no step.
LEMMA HeartbeatRefines ==
  ASSUME HubInv, HeartbeatTick
  PROVE  \E cs \in SUBSET Conns : Feed!Notice(cs, "ping")
<1>1. /\ Open \in SUBSET Conns /\ Plain("ping") \in Message
      /\ OfferToAll(Open, Plain("ping")) /\ published' = published
      /\ UNCHANGED <<topics, taskVars, histVars>>
  BY HubMessages DEF HeartbeatTick, Open, Types, HubInv, TypeOK
<1>2. /\ UNCHANGED <<Line, Subs, Answer, Told, Last, Heard>>
      /\ Owed' = [d \in Conns |->
                    IF d \in Reached(Open) THEN Append(Owed[d], Plain("ping"))
                    ELSE Owed[d]]
      /\ \A d \in Reached(Open) : Line[d] = "open"
      /\ Reached(Open) \in SUBSET Conns
  <2>1. Reached(Open) \in SUBSET Conns
    BY <1>1 DEF Reached
  <2> QED BY <2>1, <1>1, OfferRefines
<1>3. Feed!Notice(Reached(Open), "ping")
  BY <1>1, <1>2, SameMessages DEF Feed!Notice, Subs, Answer, Told, Last, Heard
<1> QED BY <1>2, <1>3

\* Every step of the hub is a step of the feed, or changes nothing of it.
LEMMA HubRefinesStep ==
  ASSUME HubInv, [Next]_vars
  PROVE  [Feed!FeedNext]_(Feed!feedVars)
<1>1. ASSUME NEW c \in Conns, RouteStep(c) PROVE Feed!FeedNext
  BY <1>1, RouteRefines DEF Feed!FeedNext
<1>2. ASSUME NEW c \in Conns, SenderStep(c)
      PROVE  Feed!FeedNext \/ UNCHANGED Feed!feedVars
  BY <1>2, SenderRefines DEF Feed!FeedNext
<1>3. ASSUME NEW c \in Conns, ReceiverStep(c)
      PROVE  Feed!FeedNext \/ UNCHANGED Feed!feedVars
  <2>1. {c} \in SUBSET Conns
    OBVIOUS
  <2> QED BY <2>1, <1>3, ReceiverRefines DEF FeedReceiverStep, Feed!FeedNext
<1>4. ASSUME \/ \E c \in Conns : ClientLeaves(c)
             \/ StartHeartbeat \/ StopHeartbeat \/ HeartbeatUnwinds
             \/ UNCHANGED vars
      PROVE  UNCHANGED Feed!feedVars
  <2>1. UNCHANGED <<topics, queue, route, sender, inflight, pending, published,
                    view, lastSeq, heard>>
    BY <1>4 DEF ClientLeaves, StartHeartbeat, StopHeartbeat, HeartbeatUnwinds,
                HeartbeatMoves, vars, connVars, taskVars, envVars, histVars
  <2>2. UNCHANGED <<Line, Subs, Owed, Answer, Told, Last, Heard, published>>
    BY <2>1 DEF Line, Subs, Owed, Answer, Told, Last, Heard, WhileServing, Serving
  <2> QED BY <2>2, StutterWhenStill
<1>5. ASSUME NEW t \in Topics, Broadcast(t) PROVE Feed!FeedNext
  BY <1>5, BroadcastRefines DEF Feed!FeedNext
<1>6. HeartbeatTick => Feed!FeedNext
  BY HeartbeatRefines DEF Feed!FeedNext
<1> QED
  BY <1>1, <1>2, <1>3, <1>4, <1>5, <1>6 DEF Next, HeartbeatStep

\* The hub starts where the feed starts.
LEMMA HubRefinesInit == Init => Feed!FeedInit
<1> SUFFICES ASSUME Init PROVE Feed!FeedInit
  OBVIOUS
<1>1. /\ Line = [c \in Conns |-> "new"] /\ Subs = [c \in Conns |-> {}]
      /\ Owed = [c \in Conns |-> <<>>] /\ Answer = [c \in Conns |-> <<>>]
      /\ Told = [c \in Conns |-> {}] /\ Last = [c \in Conns |-> 0]
      /\ Heard = [c \in Conns |-> FALSE] /\ published = 0
  BY DEF Init, Line, Subs, Owed, Answer, Told, Last, Heard, WhileServing, Serving
<1> QED BY <1>1 DEF Feed!FeedInit, Subs, Answer, Told, Last, Heard

\* The hub, with its bounded queues, blocking puts and tasks that are cancelled,
\* implements the feed.
THEOREM HubImplementsFeed == Spec => FeedSpec
<1>1. Spec => []HubInv
  BY HubInit, HubInvStep, PTL DEF Spec
<1>2. HubInv /\ [Next]_vars => [Feed!FeedNext]_(Feed!feedVars)
  BY HubRefinesStep
<1> QED BY <1>1, <1>2, HubRefinesInit, PTL DEF Spec, FeedSpec, Feed!FeedSpec

-----------------------------------------------------------------------------
(* What the feed promises, the hub keeps                                   *)

FP == INSTANCE LossyFeedProofs WITH
  line  <- Line,
  subs  <- WhileServing(topics, {}),
  owed  <- Owed,
  answer <- WhileServing(pending, <<>>),
  told  <- WhileServing(view, {}),
  last  <- WhileServing(lastSeq, 0),
  heard <- WhileServing(heard, FALSE),
  count <- published

\* The two instances of the feed speak of the same thing.
LEMMA SamePromises ==
  /\ FP!AckLedger <=> AckLedger
  /\ FP!EventsCovered <=> EventsCovered
  /\ FP!EventOrder <=> EventOrder
  /\ FP!WelcomeFirst <=> WelcomeFirst
<1>1. \A v, s, t : FP!Believes(v, s, t) <=> Feed!Believes(v, s, t)
  BY DEF FP!Believes, FP!Mentions, FP!IsAck, Feed!Believes, Feed!Mentions, Feed!IsAck
<1>2. \A v, s, i : FP!CoveredAt(v, s, i) <=> Feed!CoveredAt(v, s, i)
  BY <1>1 DEF FP!CoveredAt, FP!Mentions, FP!IsAck,
              Feed!CoveredAt, Feed!Mentions, Feed!IsAck
<1>3. FP!AckLedger <=> AckLedger
  BY <1>1 DEF FP!AckLedger, AckLedger, Feed!AckLedger
<1>4. FP!EventsCovered <=> EventsCovered
  BY <1>2 DEF FP!EventsCovered, EventsCovered, Feed!EventsCovered
<1>5. FP!EventOrder <=> EventOrder
  BY DEF FP!EventOrder, EventOrder, Feed!EventOrder
<1>6. FP!WelcomeFirst <=> WelcomeFirst
  BY DEF FP!WelcomeFirst, WelcomeFirst, Feed!WelcomeFirst,
         FP!Welcome, FP!Plain, Feed!Welcome, Feed!Plain
<1> QED BY <1>3, <1>4, <1>5, <1>6

\* A step of the feed as the hub sees it is one of the feed as its proofs see it.
LEMMA SameSteps ==
  /\ Feed!FeedInit => FP!FeedInit
  /\ [Feed!FeedNext]_(Feed!feedVars) => [FP!FeedNext]_(FP!feedVars)
<1>1. Feed!FeedInit => FP!FeedInit
  BY DEF Feed!FeedInit, FP!FeedInit
<1>2. /\ FP!Welcome = Feed!Welcome
      /\ \A type : FP!Plain(type) = Feed!Plain(type)
      /\ \A ts : /\ FP!Subscribed(ts) = Feed!Subscribed(ts)
                 /\ FP!Unsubscribed(ts) = Feed!Unsubscribed(ts)
      /\ \A t, n : FP!Event(t, n) = Feed!Event(t, n)
      /\ \A v, m : FP!AfterReading(v, m) = Feed!AfterReading(v, m)
  BY DEF Feed!Welcome, Feed!Plain, Feed!Subscribed, Feed!Unsubscribed, Feed!Event,
         Feed!AfterReading, FP!Welcome, FP!Plain, FP!Subscribed, FP!Unsubscribed,
         FP!Event, FP!AfterReading
<1>3. ASSUME NEW c \in Conns
      PROVE  /\ Feed!OpenLine(c) => FP!OpenLine(c)
             /\ Feed!ShutLine(c) => FP!ShutLine(c)
             /\ Feed!Settle(c) => FP!Settle(c)
             /\ Feed!Deliver(c) => FP!Deliver(c)
  <2>1. Feed!OpenLine(c) => FP!OpenLine(c)
    BY <1>2 DEF Feed!OpenLine, FP!OpenLine
  <2>2. Feed!ShutLine(c) => FP!ShutLine(c)
    BY DEF Feed!ShutLine, FP!ShutLine
  <2>3. Feed!Settle(c) => FP!Settle(c)
    BY DEF Feed!Settle, FP!Settle
  <2>4. Feed!Deliver(c) => FP!Deliver(c)
    BY <1>2 DEF Feed!Deliver, FP!Deliver
  <2> QED BY <2>1, <2>2, <2>3, <2>4
<1>4. ASSUME NEW c \in Conns, NEW m, Feed!Give(c, m) PROVE FP!Give(c, m)
  BY <1>4 DEF Feed!Give, FP!Give
<1>5. ASSUME NEW c \in Conns, NEW type, Feed!Reply(c, type) PROVE FP!Reply(c, type)
  BY <1>2, <1>4, <1>5 DEF Feed!Reply, FP!Reply
<1>6. ASSUME NEW c \in Conns, NEW ts, Feed!Grant(c, ts) PROVE FP!Grant(c, ts)
  BY <1>2, <1>4, <1>6 DEF Feed!Grant, FP!Grant
<1>7. ASSUME NEW c \in Conns, NEW ts, Feed!Withdraw(c, ts) PROVE FP!Withdraw(c, ts)
  BY <1>2, <1>4, <1>7 DEF Feed!Withdraw, FP!Withdraw
<1>8. ASSUME NEW cs \in SUBSET Conns, NEW type, Feed!Notice(cs, type)
      PROVE  FP!Notice(cs, type)
  BY <1>2, <1>8 DEF Feed!Notice, FP!Notice
<1>9. ASSUME NEW cs \in SUBSET Conns, NEW t \in Topics, Feed!Publish(t, cs)
      PROVE  FP!Publish(t, cs)
  BY <1>2, <1>9 DEF Feed!Publish, FP!Publish
<1>10. Feed!FeedNext => FP!FeedNext
  BY <1>3, <1>5, <1>6, <1>7, <1>8, <1>9 DEF Feed!FeedNext, FP!FeedNext
<1>11. UNCHANGED Feed!feedVars => UNCHANGED FP!feedVars
  BY DEF Feed!feedVars, FP!feedVars
<1> QED BY <1>1, <1>10, <1>11

\* What each client can rely on, for any connections, topics, queue size and
\* bounds: the acknowledgements on their way bring it to the topics it has, no
\* event follows the end of its subscription, events come in order and at most
\* once, and the welcome comes first.
LEMMA HubPromises ==
  Spec => [](AckLedger /\ EventsCovered /\ EventOrder /\ WelcomeFirst)
<1>1. FP!FeedSpec => []FP!FeedInv
  BY FP!FeedCorrect, TopicAssumption, PTL
<1>2. FP!FeedInv => AckLedger /\ EventsCovered /\ EventOrder /\ WelcomeFirst
  BY SamePromises DEF FP!FeedInv
<1>3. FeedSpec => FP!FeedSpec
  BY SameSteps, PTL DEF FeedSpec, Feed!FeedSpec, FP!FeedSpec
<1> QED BY <1>1, <1>2, <1>3, HubImplementsFeed, PTL

\* The acknowledgements on their way to a client, behind those it has had, bring
\* it to the topics that the hub keeps for it (ws/hub.py:169-185, 247-252).
THEOREM HubKeepsLedger == Spec => []AckLedger
<1>1. AckLedger /\ EventsCovered /\ EventOrder /\ WelcomeFirst => AckLedger
  OBVIOUS
<1> QED BY <1>1, HubPromises, PTL

\* No event reaches a client, or waits for it, that its subscriptions do not
\* cover (ws/hub.py:189-205).
THEOREM HubEventsCovered == Spec => []EventsCovered
<1>1. AckLedger /\ EventsCovered /\ EventOrder /\ WelcomeFirst => EventsCovered
  OBVIOUS
<1> QED BY <1>1, HubPromises, PTL

\* The welcome comes first and events come in the order of their publication,
\* each at most once (ws/hub.py:118-138, 239-274).
THEOREM HubDeliversInOrder == Spec => []DeliveredInOrder
<1>1. AckLedger /\ EventsCovered /\ EventOrder /\ WelcomeFirst => DeliveredInOrder
  BY DEF DeliveredInOrder
<1> QED BY <1>1, HubPromises, PTL

-----------------------------------------------------------------------------
(* A closed connection                                                     *)

Published == {"event", "ping"}

PublishedIn(q) == {i \in 1 .. Len(q) : q[i].type \in Published}

Replies == {m \in Message : m.type \notin Published}

\* There are finitely many published messages in a queue; an answer or a sentinel
\* is none more, and taking a message leaves at most as many.
LEMMA PublishedCounts ==
  ASSUME NEW q \in Seq(Message)
  PROVE  /\ IsFiniteSet(PublishedIn(q)) /\ Cardinality(PublishedIn(q)) \in Nat
         /\ \A m \in Replies : PublishedIn(Append(q, m)) = PublishedIn(q)
         /\ q # <<>> => Cardinality(PublishedIn(Tail(q))) <= Cardinality(PublishedIn(q))
<1>1. ASSUME NEW r \in Seq(Message)
      PROVE  IsFiniteSet(PublishedIn(r)) /\ Cardinality(PublishedIn(r)) \in Nat
  <2>1. Len(r) \in Nat /\ PublishedIn(r) \subseteq 1 .. Len(r)
    BY DEF PublishedIn
  <2>2. IsFiniteSet(1 .. Len(r))
    BY <2>1, FS_Interval
  <2> QED BY <2>1, <2>2, FS_Subset, FS_CardinalityType
<1>2. ASSUME NEW m \in Replies
      PROVE  PublishedIn(Append(q, m)) = PublishedIn(q)
  <2>1. /\ Len(q) \in Nat /\ Len(Append(q, m)) = Len(q) + 1
        /\ \A i \in 1 .. Len(q) : Append(q, m)[i] = q[i]
        /\ Append(q, m)[Len(q) + 1] = m
    BY DEF Replies
  <2>2. m.type \notin Published
    BY DEF Replies
  <2>3. \A i \in 1 .. Len(q) + 1 : i \in 1 .. Len(q) \/ i = Len(q) + 1
    BY <2>1
  <2>4. \A i \in 1 .. Len(q) : i \in 1 .. Len(q) + 1
    BY <2>1
  <2> QED BY <2>1, <2>2, <2>3, <2>4 DEF PublishedIn
<1>3. ASSUME q # <<>>
      PROVE  Cardinality(PublishedIn(Tail(q))) <= Cardinality(PublishedIn(q))
  <2> DEFINE r == Tail(q)
             f == [i \in PublishedIn(r) |-> i + 1]
  <2>1. /\ r \in Seq(Message) /\ Len(q) \in Nat /\ Len(r) = Len(q) - 1
        /\ \A i \in 1 .. Len(r) : r[i] = q[i + 1] /\ i + 1 \in 1 .. Len(q)
    BY <1>3
  <2> HIDE DEF r
  <2>2. \A i \in PublishedIn(r) : i \in Nat /\ i + 1 \in PublishedIn(q)
    BY <2>1 DEF PublishedIn
  <2>3. f \in [PublishedIn(r) -> PublishedIn(q)]
    BY <2>2
  <2>4. \A i, j \in PublishedIn(r) : f[i] = f[j] => i = j
    BY <2>2
  <2> HIDE DEF f
  <2>5. ~(Cardinality(PublishedIn(q)) < Cardinality(PublishedIn(r)))
    BY <1>1, <2>1, <2>3, <2>4, FS_PigeonHole
  <2>6. Cardinality(PublishedIn(q)) \in Nat /\ Cardinality(PublishedIn(r)) \in Nat
    BY <1>1, <2>1
  <2> QED BY <2>5, <2>6 DEF r
<1> QED BY <1>1, <1>2, <1>3

\* A connection is closed after it is registered, and what its receiver waits to
\* put is an answer.
ClosedLater == \A c \in Conns : route[c] = "accept" => closed[c] = FALSE

AnswersWait == \A c \in Conns : pending[c] = <<>> \/ \E m \in Replies : pending[c] = <<m>>

\* What the hub answers is not published.
LEMMA HubReplies ==
  /\ Sentinel \in Replies /\ Plain("pong") \in Replies /\ Plain("error") \in Replies
  /\ \A ts \in SUBSET Topics : Subscribed(ts) \in Replies /\ Unsubscribed(ts) \in Replies
<1>1. Sentinel \in Replies /\ Plain("pong") \in Replies /\ Plain("error") \in Replies
  BY DEF Sentinel, Plain, Replies, Published, Message, Types
<1>2. ASSUME NEW ts \in SUBSET Topics
      PROVE  Subscribed(ts) \in Replies /\ Unsubscribed(ts) \in Replies
  BY DEF Subscribed, Unsubscribed, Replies, Published, Message, Types
<1> QED BY <1>1, <1>2

\* What a step may do with a connection c: its queue is as it was, loses its head
\* or gains an answer, and once it is closed it stays so.
MayDo(c) ==
  /\ \/ queue'[c] = queue[c]
     \/ queue[c] # <<>> /\ queue'[c] = Tail(queue[c])
     \/ \E m \in Replies : queue'[c] = Append(queue[c], m)
  /\ closed[c] => closed'[c]

\* The invariant and what a step may do with a closed connection.
Stays == /\ ClosedLater' /\ AnswersWait'
         /\ \A c \in Conns : closed[c] => MayDo(c)

LEMMA RouteStays ==
  ASSUME HubInv, ClosedLater, AnswersWait, NEW c \in Conns, RouteStep(c)
  PROVE  Stays
<1> USE DEF HubInv, connVars, taskVars, envVars, histVars
<1>1. CASE Register(c)
  BY <1>1 DEF Register, TypeOK, ClosedLater, AnswersWait, Stays, MayDo
<1>2. CASE AcceptFails(c) \/ JoinSender(c) \/ JoinReceiver(c) \/ CloseSocket(c)
  BY <1>2 DEF AcceptFails, JoinSender, JoinReceiver, CloseSocket, TypeOK, ClosedLater,
              AnswersWait, Stays, MayDo
<1>3. CASE Unregister(c)
  <2>1. Offer(queue[c], Sentinel) \in {queue[c], Append(queue[c], Sentinel)}
    BY DEF Offer
  <2>2. route[c] = "parked" /\ route' = [route EXCEPT ![c] = "joinSender"]
        /\ closed' = [closed EXCEPT ![c] = TRUE] /\ UNCHANGED pending
        /\ queue' = [queue EXCEPT ![c] = Offer(@, Sentinel)]
    BY <1>3 DEF Unregister
  <2>3. ClosedLater' /\ AnswersWait'
    BY <2>2 DEF TypeOK, ClosedLater, AnswersWait
  <2>4. \A d \in Conns : MayDo(d)
    BY <2>1, <2>2, HubReplies DEF TypeOK, MayDo
  <2> QED BY <2>3, <2>4 DEF Stays
<1> QED BY <1>1, <1>2, <1>3 DEF RouteStep, RouteWakes, RouteCancelled

LEMMA SenderStays ==
  ASSUME HubInv, ClosedLater, AnswersWait, NEW c \in Conns, SenderStep(c)
  PROVE  Stays
<1> USE DEF HubInv, connVars, taskVars, envVars, histVars
<1>1. CASE SenderGets(c)
  BY <1>1 DEF SenderGets, TypeOK, ClosedLater, AnswersWait, Stays, MayDo
<1>2. CASE SendReturns(c) \/ SenderCancelled(c)
  BY <1>2 DEF SendReturns, SenderCancelled, ClosedLater, AnswersWait, Stays, MayDo
<1>3. CASE SendRaises(c)
  <2>1. route[c] # "accept"
    BY <1>3 DEF SendRaises, NotYet, Untouched
  <2> QED BY <1>3, <2>1 DEF SendRaises, TypeOK, ClosedLater, AnswersWait, Stays, MayDo
<1> QED BY <1>1, <1>2, <1>3 DEF SenderStep

LEMMA ReceiverStays ==
  ASSUME HubInv, ClosedLater, AnswersWait, NEW c \in Conns, ReceiverStep(c)
  PROVE  Stays
<1> USE DEF HubInv, connVars, taskVars, envVars, histVars
<1>1. ASSUME ReceivesFrame(c),
             \/ \E m \in Replies : Reply(c, m)
             \/ UNCHANGED <<queue, receiver, pending>>
      PROVE  Stays
  <2>1. UNCHANGED <<route, closed>>
    BY <1>1 DEF ReceivesFrame
  <2>2. CASE UNCHANGED <<queue, receiver, pending>>
    BY <2>1, <2>2 DEF ClosedLater, AnswersWait, Stays, MayDo
  <2>3. ASSUME NEW m \in Replies, Reply(c, m)
        PROVE  Stays
    <3>1. /\ \/ queue' = [queue EXCEPT ![c] = Append(@, m)]
             \/ queue' = queue
          /\ \/ pending' = pending
             \/ pending' = [pending EXCEPT ![c] = <<m>>]
      BY <2>3 DEF Reply
    <3>2. ClosedLater' /\ AnswersWait'
      BY <2>1, <2>3, <3>1 DEF TypeOK, ClosedLater, AnswersWait
    <3>3. \A d \in Conns : queue'[d] = queue[d] \/ queue'[d] = Append(queue[d], m)
      BY <3>1 DEF TypeOK
    <3>4. \A d \in Conns : MayDo(d)
      BY <2>1, <2>3, <3>3 DEF MayDo
    <3> QED BY <3>2, <3>4 DEF Stays
  <2> QED BY <1>1, <2>2, <2>3
<1>2. ASSUME NEW ts, Subscribe(c, ts) \/ Unsubscribe(c, ts) PROVE Stays
  <2>1. Valid(ts) \in SUBSET Topics
    BY DEF Valid
  <2> QED BY <1>1, <1>2, <2>1, HubReplies DEF Subscribe, Unsubscribe
<1>3. CASE PingOrBadFrame(c)
  BY <1>1, <1>3, HubReplies DEF PingOrBadFrame
<1>4. CASE ReplyQueued(c)
  <2>1. /\ receiver[c] = "put" /\ UNCHANGED <<route, closed>>
        /\ queue' = [queue EXCEPT ![c] = @ \o pending[c]]
        /\ pending' = [pending EXCEPT ![c] = <<>>]
    BY <1>4 DEF ReplyQueued
  <2>2. pending[c] # <<>>
    <3>1. Len(pending[c]) = 1
      BY <2>1 DEF TypeOK
    <3> QED BY <3>1, EmptySeq
  <2>3. PICK m \in Replies : pending[c] = <<m>>
    BY <2>2 DEF AnswersWait
  <2>4. queue[c] \o pending[c] = Append(queue[c], m)
    BY <2>3 DEF TypeOK, Replies
  <2> QED BY <2>1, <2>3, <2>4 DEF TypeOK, ClosedLater, AnswersWait, Stays, MayDo
<1>5. ASSUME ReceiverEnds(c), receiver[c] \in {"receive", "put"} PROVE Stays
  <2>1. route[c] # "accept"
    BY <1>5 DEF NotYet, Untouched
  <2>2. Offer(queue[c], Sentinel) \in {queue[c], Append(queue[c], Sentinel)}
    BY DEF Offer
  <2>3. /\ UNCHANGED route /\ closed' = [closed EXCEPT ![c] = TRUE]
        /\ queue' = [queue EXCEPT ![c] = Offer(@, Sentinel)]
        /\ pending' = [pending EXCEPT ![c] = <<>>]
    BY <1>5 DEF ReceiverEnds
  <2>4. ClosedLater' /\ AnswersWait'
    BY <2>1, <2>3 DEF TypeOK, ClosedLater, AnswersWait
  <2>5. \A d \in Conns : MayDo(d)
    BY <2>2, <2>3, HubReplies DEF TypeOK, MayDo
  <2> QED BY <2>4, <2>5 DEF Stays
<1>6. CASE Disconnects(c) \/ BinaryFrame(c) \/ ReceiverCancelled(c)
  BY <1>5, <1>6 DEF Disconnects, BinaryFrame, ReceiverCancelled
<1> QED BY <1>2, <1>3, <1>4, <1>6 DEF ReceiverStep

\* Publishers pass over the connections that are closed.
LEMMA OthersStay ==
  ASSUME HubInv, ClosedLater, AnswersWait,
         \/ \E t \in Topics : Broadcast(t)
         \/ HeartbeatStep
         \/ \E c \in Conns : ClientLeaves(c)
         \/ UNCHANGED vars
  PROVE  Stays
<1>1. UNCHANGED <<route, closed, pending>>
  BY DEF Broadcast, HeartbeatStep, HeartbeatTick, StartHeartbeat, StopHeartbeat,
         HeartbeatUnwinds, HeartbeatMoves, ClientLeaves, vars, connVars, taskVars
<1>2. ASSUME NEW c \in Conns, closed[c] PROVE queue'[c] = queue[c]
  <2>1. c \notin Open
    BY <1>2 DEF Open
  <2>2. ASSUME NEW cs, cs \subseteq Open, NEW m, OfferToAll(cs, m)
        PROVE  queue'[c] = queue[c]
    BY <2>1, <2>2 DEF OfferToAll
  <2>3. ASSUME NEW t \in Topics, Broadcast(t) PROVE queue'[c] = queue[c]
    BY <2>2, <2>3 DEF Broadcast
  <2>4. CASE HeartbeatTick
    BY <2>2, <2>4 DEF HeartbeatTick
  <2>5. CASE \/ StartHeartbeat \/ StopHeartbeat \/ HeartbeatUnwinds
             \/ \E d \in Conns : ClientLeaves(d)
             \/ UNCHANGED vars
    BY <2>5 DEF StartHeartbeat, StopHeartbeat, HeartbeatUnwinds, HeartbeatMoves,
                ClientLeaves, vars, connVars
  <2> QED BY <2>3, <2>4, <2>5 DEF HeartbeatStep
<1> QED BY <1>1, <1>2 DEF ClosedLater, AnswersWait, Stays, MayDo

\* Once a connection is closed it stays closed, and broadcast() and the heartbeat
\* put nothing more into its queue, whatever the route, the sender and the receiver
\* still do with it (ws/hub.py:140-147, 189-205, 306-325).
THEOREM HubClosedIsFinal == Spec => ClosedIsFinal
<1> DEFINE Inv == HubInv /\ ClosedLater /\ AnswersWait
           Final == \A c \in Conns : closed[c] =>
                      /\ closed'[c]
                      /\ Cardinality(FromPublishers(c))' <= Cardinality(FromPublishers(c))
<1>1. Init => Inv
  BY HubInit DEF Init, ClosedLater, AnswersWait
<1>2. ASSUME Inv, [Next]_vars PROVE Stays
  BY <1>2, RouteStays, SenderStays, ReceiverStays, OthersStay DEF Next
<1>3. Inv /\ [Next]_vars => Inv'
  BY <1>2, HubInvStep DEF Stays
<1>4. ASSUME Inv, [Next]_vars PROVE Final
  <2> SUFFICES ASSUME NEW c \in Conns, closed[c]
               PROVE  /\ closed'[c]
                      /\ Cardinality(PublishedIn(queue'[c])) <= Cardinality(PublishedIn(queue[c]))
    BY DEF FromPublishers, PublishedIn, Published
  <2>1. MayDo(c)
    BY <1>2, <1>4 DEF Stays
  <2>2. queue[c] \in Seq(Message)
    BY <1>4 DEF HubInv, TypeOK
  <2>3. Cardinality(PublishedIn(queue[c])) \in Nat
    BY <2>2, PublishedCounts
  <2>4. CASE queue'[c] = queue[c]
    BY <2>1, <2>3, <2>4 DEF MayDo
  <2>5. CASE queue[c] # <<>> /\ queue'[c] = Tail(queue[c])
    BY <2>1, <2>2, <2>5, PublishedCounts DEF MayDo
  <2>6. ASSUME NEW m \in Replies, queue'[c] = Append(queue[c], m)
        PROVE  PublishedIn(queue'[c]) = PublishedIn(queue[c])
    BY <2>2, <2>6, PublishedCounts
  <2> QED BY <2>1, <2>3, <2>4, <2>5, <2>6 DEF MayDo
<1>5. Inv /\ [Next]_vars => Final
  BY <1>4
<1> HIDE DEF Inv
<1> QED BY <1>1, <1>3, <1>5, PTL DEF Spec, ClosedIsFinal
=============================================================================
