-------------------------------- MODULE WSHub --------------------------------
(***************************************************************************)
(* The WebSocket hub of the backend (dtm_backend/ws/hub.py) with the route *)
(* that drives it (dtm_backend/routes/ws.py).                              *)
(*                                                                         *)
(* asyncio runs one callback at a time, so everything between two awaits   *)
(* is one action.  A connection is served by three tasks:                  *)
(*   - the route: accept, register, park on closed_event, unregister;      *)
(*   - the sender: takes from the connection's bounded queue and sends;    *)
(*   - the receiver: reads client frames and answers through the queue.    *)
(* Two more tasks put into the queues of all connections, never waiting:   *)
(* broadcast() and the heartbeat.                                          *)
(***************************************************************************)
EXTENDS WSMessages, FiniteSets

CONSTANTS
  Conns,      \* the WebSocket connection attempts
  QueueSize,  \* maxsize of Connection.queue (64 in the code)
  MaxEvents,  \* bound: broadcasts
  MaxFrames   \* bound: frames a client sends on one connection

ASSUME HubAssumption ==
  /\ QueueSize \in Nat \ {0}
  /\ MaxEvents \in Nat /\ MaxFrames \in Nat

VARIABLES
  \* WSHub and Connection
  registry,     \* _connections
  topics,       \* Connection.topics
  queue,        \* Connection.queue
  closed,       \* Connection.closed
  closedEvent,  \* Connection.closed_event
  \* where each task waits
  route,        \* websocket_endpoint
  sender,       \* _sender_loop
  inflight,     \* <<the message inside send_text>>, or <<>>
  receiver,     \* _receiver_loop
  pending,      \* <<the reply inside the blocking put>>, or <<>>
  heartbeat,    \* _heartbeat_loop and its start and stop
  \* the environment
  peer,         \* the client's end of the transport
  frames,       \* frames read from each client so far
  published,    \* broadcasts so far; numbers the events
  \* what has been sent to each client (history)
  view,         \* topics the acknowledgements sent so far tell it it has
  lastSeq,      \* number of the last event sent
  heard         \* whether anything was sent

connVars == <<registry, topics, queue, closed, closedEvent>>
taskVars == <<route, sender, inflight, receiver, pending>>
envVars  == <<heartbeat, peer, frames, published>>
histVars == <<view, lastSeq, heard>>
vars     == <<connVars, taskVars, envVars, histVars>>

-----------------------------------------------------------------------------
\* Mutated forms of Offer: a queue without maxsize, and one that makes room.
OfferUnbounded(q, m) == Append(q, m)
OfferEvictingOldest(q, m) ==
  IF Len(q) < QueueSize THEN Append(q, m) ELSE Append(Tail(q), m)

\* put_nowait with QueueFull swallowed.
Offer(q, m) == IF Len(q) < QueueSize THEN Append(q, m) ELSE q

-----------------------------------------------------------------------------
Init ==
  /\ registry = {}
  /\ topics = [c \in Conns |-> {}]
  /\ queue = [c \in Conns |-> <<>>]
  /\ closed = [c \in Conns |-> FALSE]
  /\ closedEvent = [c \in Conns |-> FALSE]
  /\ route = [c \in Conns |-> "accept"]
  /\ sender = [c \in Conns |-> "none"]
  /\ inflight = [c \in Conns |-> <<>>]
  /\ receiver = [c \in Conns |-> "none"]
  /\ pending = [c \in Conns |-> <<>>]
  /\ heartbeat = "idle"
  /\ peer = [c \in Conns |-> "up"]
  /\ frames = [c \in Conns |-> 0]
  /\ published = 0
  /\ view = [c \in Conns |-> {}]
  /\ lastSeq = [c \in Conns |-> 0]
  /\ heard = [c \in Conns |-> FALSE]

-----------------------------------------------------------------------------
(* The route: register                                                     *)

\* ws.accept() returned.  The rest of register() has no await that can
\* suspend: the queue is new, so the welcome always fits.
Register(c) ==
  /\ route[c] = "accept"
  /\ registry' = registry \union {c}
  /\ queue' = [queue EXCEPT ![c] = Offer(<<>>, Welcome)]
  /\ sender' = [sender EXCEPT ![c] = "get"]
  /\ receiver' = [receiver EXCEPT ![c] = "receive"]
  /\ route' = [route EXCEPT ![c] = "parked"]
  /\ UNCHANGED <<topics, closed, closedEvent, inflight, pending, envVars,
                 histVars>>

\* ws.accept() raised, before there is a Connection.
AcceptFails(c) ==
  /\ route[c] = "accept"
  /\ route' = [route EXCEPT ![c] = "done"]
  /\ UNCHANGED <<connVars, sender, inflight, receiver, pending, envVars,
                 histVars>>

(* The route: unregister                                                   *)

\* unregister() up to its first await: forget the connection, mark it closed,
\* offer the sentinel, cancel both tasks.
Unregister(c) ==
  /\ route[c] = "parked"
  /\ c \in registry
  /\ registry' = registry \ {c}
  /\ closed' = [closed EXCEPT ![c] = TRUE]
  /\ closedEvent' = [closedEvent EXCEPT ![c] = TRUE]
  /\ queue' = [queue EXCEPT ![c] = Offer(@, Sentinel)]
  /\ route' = [route EXCEPT ![c] = "joinSender"]
  /\ UNCHANGED <<topics, sender, inflight, receiver, pending, envVars,
                 histVars>>

\* closed_event.wait() returned.
RouteWakes(c) == closedEvent[c] /\ Unregister(c)

\* The server cancelled the route task: its finally clause runs unregister().
RouteCancelled(c) == Unregister(c)

\* From the cancel() calls until the tasks have unwound.
Cancelling(c) == route[c] \in {"joinSender", "joinReceiver"}

JoinSender(c) ==
  /\ route[c] = "joinSender"
  /\ sender[c] = "done"
  /\ route' = [route EXCEPT ![c] = "joinReceiver"]
  /\ UNCHANGED <<connVars, sender, inflight, receiver, pending, envVars,
                 histVars>>

\* Mutated form of JoinReceiver: the route does not wait for the receiver.
JoinSenderOnly(c) ==
  /\ route[c] = "joinReceiver"
  /\ route' = [route EXCEPT ![c] = "close"]
  /\ UNCHANGED <<connVars, sender, inflight, receiver, pending, envVars,
                 histVars>>

JoinReceiver(c) ==
  /\ route[c] = "joinReceiver"
  /\ receiver[c] = "done"
  /\ route' = [route EXCEPT ![c] = "close"]
  /\ UNCHANGED <<connVars, sender, inflight, receiver, pending, envVars,
                 histVars>>

\* ws.close(), whose exceptions are swallowed.
CloseSocket(c) ==
  /\ route[c] = "close"
  /\ route' = [route EXCEPT ![c] = "done"]
  /\ peer' = [peer EXCEPT ![c] = "gone"]
  /\ UNCHANGED <<connVars, sender, inflight, receiver, pending, heartbeat,
                 frames, published, histVars>>

-----------------------------------------------------------------------------
(* The sender                                                              *)

\* send_text handed the message in flight to the transport.
Sent(c) ==
  LET m == Head(inflight[c]) IN
  /\ view' = [view EXCEPT ![c] = AfterReading(@, m)]
  /\ lastSeq' = [lastSeq EXCEPT ![c] = IF m.type = "event" THEN m.seq ELSE @]
  /\ heard' = [heard EXCEPT ![c] = TRUE]

\* queue.get() returned, and send_text() was called unless it is the sentinel.
SenderGets(c) ==
  /\ sender[c] = "get" /\ ~Cancelling(c)
  /\ queue[c] # <<>>
  /\ queue' = [queue EXCEPT ![c] = Tail(@)]
  /\ IF Head(queue[c]) = Sentinel
     THEN /\ sender' = [sender EXCEPT ![c] = "done"]
          /\ UNCHANGED inflight
     ELSE /\ sender' = [sender EXCEPT ![c] = "send"]
          /\ inflight' = [inflight EXCEPT ![c] = <<Head(queue[c])>>]
  /\ UNCHANGED <<registry, topics, closed, closedEvent, route, receiver,
                 pending, envVars, histVars>>

\* Mutated form of SendReturns: a message that was sent may be sent again.
SendReturnsOrRetries(c) ==
  /\ sender[c] = "send" /\ ~Cancelling(c)
  /\ Sent(c)
  /\ \/ inflight' = [inflight EXCEPT ![c] = <<>>]
        /\ sender' = [sender EXCEPT ![c] = "get"]
     \/ UNCHANGED <<inflight, sender>>
  /\ UNCHANGED <<connVars, route, receiver, pending, envVars>>

SendReturns(c) ==
  /\ sender[c] = "send" /\ ~Cancelling(c)
  /\ Sent(c)
  /\ inflight' = [inflight EXCEPT ![c] = <<>>]
  /\ sender' = [sender EXCEPT ![c] = "get"]
  /\ UNCHANGED <<connVars, route, receiver, pending, envVars>>

\* send_text() raised: the loop ends, and closed_event stays as it was.
SendRaises(c) ==
  /\ sender[c] = "send" /\ ~Cancelling(c)
  /\ peer[c] = "gone"
  /\ inflight' = [inflight EXCEPT ![c] = <<>>]
  /\ closed' = [closed EXCEPT ![c] = TRUE]
  /\ sender' = [sender EXCEPT ![c] = "done"]
  /\ UNCHANGED <<registry, topics, queue, closedEvent, route, receiver,
                 pending, envVars, histVars>>

\* CancelledError reaches the loop.  A message inside send_text() may have
\* reached the transport or not.
SenderCancelled(c) ==
  /\ Cancelling(c)
  /\ sender[c] \in {"get", "send"}
  /\ sender' = [sender EXCEPT ![c] = "done"]
  /\ inflight' = [inflight EXCEPT ![c] = <<>>]
  /\ \/ sender[c] = "send" /\ Sent(c)
     \/ UNCHANGED histVars
  /\ UNCHANGED <<connVars, route, receiver, pending, envVars>>

-----------------------------------------------------------------------------
(* The receiver                                                            *)

\* Mutated form of Reply: replies are offered as events are.
ReplyOrDrop(c, m) ==
  /\ queue' = [queue EXCEPT ![c] = Offer(@, m)]
  /\ UNCHANGED <<receiver, pending>>

\* _enqueue: put the reply now, or wait in queue.put() while the queue is full.
Reply(c, m) ==
  \/ /\ Len(queue[c]) < QueueSize
     /\ queue' = [queue EXCEPT ![c] = Append(@, m)]
     /\ UNCHANGED <<receiver, pending>>
  \/ /\ Len(queue[c]) >= QueueSize
     /\ receiver' = [receiver EXCEPT ![c] = "put"]
     /\ pending' = [pending EXCEPT ![c] = <<m>>]
     /\ UNCHANGED queue

\* receive_text() returned a frame.  The client may be gone already: frames it
\* sent before are still delivered.
ReceivesFrame(c) ==
  /\ receiver[c] = "receive" /\ ~Cancelling(c)
  /\ frames[c] < MaxFrames
  /\ frames' = [frames EXCEPT ![c] = @ + 1]
  /\ UNCHANGED <<registry, closed, closedEvent, route, sender, inflight,
                 heartbeat, peer, published, histVars>>

\* The topics change before the acknowledgement is queued.
Subscribe(c, ts) ==
  /\ ReceivesFrame(c)
  /\ topics' = [topics EXCEPT ![c] = @ \union Valid(ts)]
  /\ IF Valid(ts) # {}
     THEN Reply(c, Subscribed(Valid(ts)))
     ELSE UNCHANGED <<queue, receiver, pending>>

\* Mutated form of Unsubscribe: the topics go only if the reply need not wait.
UnsubscribeIfRoom(c, ts) ==
  /\ ReceivesFrame(c)
  /\ topics' = [topics EXCEPT
                  ![c] = IF Len(queue[c]) < QueueSize THEN @ \ Valid(ts) ELSE @]
  /\ IF Valid(ts) # {}
     THEN Reply(c, Unsubscribed(Valid(ts)))
     ELSE UNCHANGED <<queue, receiver, pending>>

Unsubscribe(c, ts) ==
  /\ ReceivesFrame(c)
  /\ topics' = [topics EXCEPT ![c] = @ \ Valid(ts)]
  /\ IF Valid(ts) # {}
     THEN Reply(c, Unsubscribed(Valid(ts)))
     ELSE UNCHANGED <<queue, receiver, pending>>

\* A ping, or a frame that is not JSON or not an action.
PingOrBadFrame(c) ==
  /\ ReceivesFrame(c)
  /\ \E type \in {"pong", "error"} : Reply(c, Plain(type))
  /\ UNCHANGED topics

\* Mutated form of ReplyQueued: off by one on the room left.
ReplyQueuedBelowMax(c) ==
  /\ receiver[c] = "put" /\ ~Cancelling(c)
  /\ Len(queue[c]) < QueueSize - 1
  /\ queue' = [queue EXCEPT ![c] = @ \o pending[c]]
  /\ pending' = [pending EXCEPT ![c] = <<>>]
  /\ receiver' = [receiver EXCEPT ![c] = "receive"]
  /\ UNCHANGED <<registry, topics, closed, closedEvent, route, sender,
                 inflight, envVars, histVars>>

\* queue.put() resumes.
ReplyQueued(c) ==
  /\ receiver[c] = "put" /\ ~Cancelling(c)
  /\ Len(queue[c]) < QueueSize
  /\ queue' = [queue EXCEPT ![c] = @ \o pending[c]]
  /\ pending' = [pending EXCEPT ![c] = <<>>]
  /\ receiver' = [receiver EXCEPT ![c] = "receive"]
  /\ UNCHANGED <<registry, topics, closed, closedEvent, route, sender,
                 inflight, envVars, histVars>>

\* Mutated form of ReceiverEnds: the route is not woken.
ReceiverEndsQuietly(c) ==
  /\ closed' = [closed EXCEPT ![c] = TRUE]
  /\ queue' = [queue EXCEPT ![c] = Offer(@, Sentinel)]
  /\ receiver' = [receiver EXCEPT ![c] = "done"]
  /\ pending' = [pending EXCEPT ![c] = <<>>]
  /\ UNCHANGED <<registry, topics, closedEvent, route, sender, inflight,
                 heartbeat, peer, published, histVars>>

\* The finally clause of the loop.
ReceiverEnds(c) ==
  /\ closed' = [closed EXCEPT ![c] = TRUE]
  /\ closedEvent' = [closedEvent EXCEPT ![c] = TRUE]
  /\ queue' = [queue EXCEPT ![c] = Offer(@, Sentinel)]
  /\ receiver' = [receiver EXCEPT ![c] = "done"]
  /\ pending' = [pending EXCEPT ![c] = <<>>]
  /\ UNCHANGED <<registry, topics, route, sender, inflight, heartbeat, peer,
                 published, histVars>>

\* receive_text() raised because the client is gone.
Disconnects(c) ==
  /\ receiver[c] = "receive" /\ ~Cancelling(c)
  /\ peer[c] = "gone"
  /\ ReceiverEnds(c)
  /\ UNCHANGED frames

\* receive_text() raised on a frame without text, the client still there.
BinaryFrame(c) ==
  /\ receiver[c] = "receive" /\ ~Cancelling(c)
  /\ frames[c] < MaxFrames
  /\ frames' = [frames EXCEPT ![c] = @ + 1]
  /\ ReceiverEnds(c)

\* Mutated form of ReceiverCancelled: a put in progress outlives cancel().
ReceiverCancelledReading(c) ==
  /\ Cancelling(c)
  /\ receiver[c] = "receive"
  /\ ReceiverEnds(c)
  /\ UNCHANGED frames

ReceiverCancelled(c) ==
  /\ Cancelling(c)
  /\ receiver[c] \in {"receive", "put"}
  /\ ReceiverEnds(c)
  /\ UNCHANGED frames

-----------------------------------------------------------------------------
(* Publishers                                                              *)

\* Mutated form of Open: closed connections are not skipped.
Registered == registry

\* The connections broadcast() and the heartbeat do not skip.
Open == {c \in registry : ~closed[c]}

OfferToAll(cs, m) ==
  queue' = [c \in Conns |-> IF c \in cs THEN Offer(queue[c], m) ELSE queue[c]]

Broadcast(t) ==
  /\ published < MaxEvents
  /\ published' = published + 1
  /\ OfferToAll({c \in Open : t \in topics[c]}, Event(t, published + 1))
  /\ UNCHANGED <<registry, topics, closed, closedEvent, taskVars, heartbeat,
                 peer, frames, histVars>>

\* One round of _heartbeat_loop after its sleep.
HeartbeatTick ==
  /\ heartbeat = "running"
  /\ OfferToAll(Open, Plain("ping"))
  /\ UNCHANGED <<registry, topics, closed, closedEvent, taskVars, heartbeat,
                 peer, frames, published, histVars>>

\* The server's lifespan: start_heartbeat once, stop_heartbeat once, the
\* latter waiting for the cancelled task.
HeartbeatMoves(from, to) ==
  /\ heartbeat = from
  /\ heartbeat' = to
  /\ UNCHANGED <<connVars, taskVars, peer, frames, published, histVars>>
StartHeartbeat    == HeartbeatMoves("idle", "running")
StopHeartbeat     == HeartbeatMoves("running", "stopping")
HeartbeatUnwinds  == HeartbeatMoves("stopping", "stopped")

-----------------------------------------------------------------------------
ClientLeaves(c) ==
  /\ peer[c] = "up"
  /\ peer' = [peer EXCEPT ![c] = "gone"]
  /\ UNCHANGED <<connVars, taskVars, heartbeat, frames, published,
                 histVars>>

RouteStep(c) ==
  \/ Register(c) \/ AcceptFails(c) \/ RouteWakes(c) \/ RouteCancelled(c)
  \/ JoinSender(c) \/ JoinReceiver(c) \/ CloseSocket(c)

SenderStep(c) ==
  SenderGets(c) \/ SendReturns(c) \/ SendRaises(c) \/ SenderCancelled(c)

ReceiverStep(c) ==
  \/ \E ts \in SUBSET (Topics \union {BadTopic}) :
       Subscribe(c, ts) \/ Unsubscribe(c, ts)
  \/ PingOrBadFrame(c) \/ ReplyQueued(c)
  \/ Disconnects(c) \/ BinaryFrame(c) \/ ReceiverCancelled(c)

HeartbeatStep ==
  StartHeartbeat \/ HeartbeatTick \/ StopHeartbeat \/ HeartbeatUnwinds

Next ==
  \/ \E c \in Conns :
       RouteStep(c) \/ SenderStep(c) \/ ReceiverStep(c) \/ ClientLeaves(c)
  \/ \E t \in Topics : Broadcast(t)
  \/ HeartbeatStep

Spec == Init /\ [][Next]_vars

-----------------------------------------------------------------------------
(* Fairness.  The event loop runs every task whose await is over.  A       *)
(* send_text() returns or raises: the client reads, or the transport gives *)
(* up on it (keep-alive timeout) and the send ends with the connection; to *)
(* a client that is gone not every send succeeds.  Clients, publishers and *)
(* server shutdown owe nothing, and the heartbeat may go on for ever.      *)

Fairness ==
  \A c \in Conns :
    /\ WF_vars(RouteWakes(c)) /\ WF_vars(JoinSender(c))
    /\ WF_vars(JoinReceiver(c)) /\ WF_vars(CloseSocket(c))
    /\ WF_vars(SenderGets(c)) /\ WF_vars(SendReturns(c) \/ SendRaises(c))
    /\ SF_vars(SendRaises(c))
    /\ WF_vars(SenderCancelled(c)) /\ WF_vars(ReceiverCancelled(c))
    /\ WF_vars(ReplyQueued(c)) /\ WF_vars(Disconnects(c))

FairSpec == Spec /\ Fairness

-----------------------------------------------------------------------------
(* Properties                                                              *)

\* Every variable holds a value of its kind, and no queue grows past maxsize.
TypeOK ==
  /\ registry \in SUBSET Conns
  /\ topics \in [Conns -> SUBSET Topics]
  /\ queue \in [Conns -> Seq(Message)]
  /\ \A c \in Conns : Len(queue[c]) <= QueueSize
  /\ closed \in [Conns -> BOOLEAN]
  /\ closedEvent \in [Conns -> BOOLEAN]
  /\ route \in [Conns -> {"accept", "parked", "joinSender", "joinReceiver",
                          "close", "done"}]
  /\ sender \in [Conns -> {"none", "get", "send", "done"}]
  /\ inflight \in [Conns -> Seq(Message)]
  /\ \A c \in Conns : Len(inflight[c]) = IF sender[c] = "send" THEN 1 ELSE 0
  /\ receiver \in [Conns -> {"none", "receive", "put", "done"}]
  /\ pending \in [Conns -> Seq(Message)]
  /\ \A c \in Conns : Len(pending[c]) = IF receiver[c] = "put" THEN 1 ELSE 0
  /\ heartbeat \in {"idle", "running", "stopping", "stopped"}
  /\ peer \in [Conns -> {"up", "gone"}]
  /\ frames \in [Conns -> 0 .. MaxFrames]
  /\ published \in 0 .. MaxEvents
  /\ view \in [Conns -> SUBSET Topics]
  /\ lastSeq \in [Conns -> Nat]
  /\ heard \in [Conns -> BOOLEAN]

\* A connection is in the registry exactly while its route is parked, and when
\* the route returns no task of the connection is left running (unregister
\* cancels and joins both).
NoOrphans ==
  \A c \in Conns :
    /\ c \in registry <=> route[c] = "parked"
    /\ route[c] \in {"close", "done"} =>
         sender[c] \in {"none", "done"} /\ receiver[c] \in {"none", "done"}

-----------------------------------------------------------------------------
(* The hub implements LossyFeed: a line is open while the connection is    *)
(* registered and its sender runs, what is owed is what the sender and the *)
(* queue hold, and the answer is what the receiver waits to put.           *)

Serving(c) == route[c] = "parked" /\ sender[c] \in {"get", "send"}

WhileServing(f, shut) == [c \in Conns |-> IF Serving(c) THEN f[c] ELSE shut]

Line == [c \in Conns |-> IF Serving(c) THEN "open"
                         ELSE IF route[c] = "accept" THEN "new" ELSE "shut"]

Owed == [c \in Conns |-> IF Serving(c) THEN inflight[c] \o queue[c] ELSE <<>>]

Feed == INSTANCE LossyFeed WITH
  line  <- Line,
  subs  <- WhileServing(topics, {}),
  owed  <- Owed,
  answer <- WhileServing(pending, <<>>),
  told  <- WhileServing(view, {}),
  last  <- WhileServing(lastSeq, 0),
  heard <- WhileServing(heard, FALSE),
  count <- published

FeedSpec == Feed!FeedSpec

\* See LossyFeed.  Acknowledgements are put with a blocking put and topics
\* change before it, so this is about the receiver waiting, the queue full
\* and the sender mid-message, in any combination.
AckLedger == Feed!AckLedger

\* See LossyFeed.  broadcast() reads topics while an acknowledgement of a change
\* to them may still wait for room.
EventsCovered == Feed!EventsCovered

\* See LossyFeed.  broadcast() drops on a full queue and the sender may be cut
\* off mid-message.
EventOrder == Feed!EventOrder

\* See LossyFeed.  The connection is in the registry, where publishers find it,
\* before the welcome is queued.
WelcomeFirst == Feed!WelcomeFirst

\* A client gets the welcome before anything else and the events of the
\* publishers in their order, gaps allowed, though publishers find it before it
\* is welcomed, drop on a full queue and cut the sender off mid-message
\* (ws/hub.py:118-138, 189-205, 239-274).
DeliveredInOrder == EventOrder /\ WelcomeFirst

FromPublishers(c) == {i \in 1 .. Len(queue[c]) : queue[c][i].type \in {"event", "ping"}}

\* Once a connection is closed it stays closed, and publishers add nothing to
\* its queue.
ClosedIsFinal ==
  [][\A c \in Conns : closed[c] =>
       /\ closed'[c]
       /\ Cardinality(FromPublishers(c))' <= Cardinality(FromPublishers(c))]_vars

\* A set closed_event always ends the route: the route is never left joining a
\* task that does not end.
CloseCompletes ==
  \A c \in Conns : closedEvent[c] ~> route[c] = "done"

\* A publisher takes room in the queue of a connection.
Refilled(c) ==
  (HeartbeatTick \/ \E t \in Topics : Broadcast(t)) /\ queue'[c] # queue[c]

\* queue.put() waits again if the queue is full again when it resumes, so a
\* reply may wait for as long as publishers take the room that the sender makes
\* (ws/hub.py:189-205, 231-245).  Nothing else keeps it waiting for ever, unless
\* the sender has ended.
OnlyPublishersStarve ==
  \A c \in Conns :
    \/ []<><<Refilled(c)>>_vars
    \/ receiver[c] = "put" ~> (receiver[c] # "put" \/ sender[c] = "done")

\* The receiver waits for room in a queue nobody takes from.
Stuck(c) == receiver[c] = "put" /\ sender[c] = "done"

\* A client that leaves is unregistered, unless its receiver is stuck.
LeaverUnregisteredOrStuck ==
  \A c \in Conns :
    (peer[c] = "gone" /\ route[c] = "parked") ~> (route[c] = "done" \/ Stuck(c))

\* routes/ws.py: "the hub unregisters the connection on disconnect".
LeaverUnregistered ==
  \A c \in Conns : (peer[c] = "gone" /\ route[c] = "parked") ~> c \notin registry

=============================================================================
