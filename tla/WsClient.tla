------------------------------- MODULE WsClient ------------------------------
(***************************************************************************)
(* The frontend's realtime client (frontend/src/services/wsClient.ts) with *)
(* the browser's sockets and timers, and a server that keeps the topics of *)
(* each socket and acknowledges as dtm_backend/ws/hub.py does.             *)
(*                                                                         *)
(* JavaScript runs one callback at a time: every method the application    *)
(* calls and every event handler is one action.                            *)
(***************************************************************************)
EXTENDS WSMessages, FiniteSets, SequencesExt

CONSTANTS
  InitialTopics,  \* the option `topics`
  MaxStarts,      \* bound: calls of start()
  MaxStops,       \* bound: calls of stop()
  MaxCalls,       \* bound: calls of subscribe(), unsubscribe() and ping()
  MaxFaults       \* bound: constructors that throw and sockets that break

\* Topics is the enum WSTopic, and the option is a list of strings.
ASSUME ClientAssumption ==
  /\ IsFiniteSet(Topics) /\ InitialTopics \subseteq Topics \union {BadTopic}
  /\ MaxStarts \in Nat /\ MaxStops \in Nat
  /\ MaxCalls \in Nat /\ MaxFaults \in Nat

\* A socket is opened by a start() or by a timer, and a timer is set for each
\* fault and for each socket a stop() closed.
Sockets == 1 .. MaxStarts + MaxStops + MaxFaults

VARIABLES
  stopped, state, active, pending,  \* the client's fields of these names
  socket,        \* this.socket: the number of a socket, 0 for null
  attempt,       \* reconnectAttempt
  inflight,      \* inflightActions
  timer,         \* reconnectTimer is set and due
  strays,        \* timers due that reconnectTimer no longer refers to
  \* the browser
  link,          \* the state of each socket
  opened,        \* sockets created so far
  wire,          \* actions on their way to the server
  down,          \* messages on their way to the client
  \* the server
  subs,          \* the topics of each connection
  \* bounds and history
  starts, stops, calls, faults,
  tangled        \* whether a start() ran with a socket or a timer still about

clientVars == <<stopped, state, active, pending, socket, attempt, inflight>>
timerVars  == <<timer, strays>>
netVars    == <<link, opened, wire, down, subs>>
boundVars  == <<starts, stops, calls, faults, tangled>>
vars       == <<clientVars, timerVars, netVars, boundVars>>

Live  == {s \in Sockets : link[s] \in {"connecting", "open"}}
About == {s \in Sockets : link[s] \in {"connecting", "open", "closing"}}

Action(kind, ts) == [action |-> kind, topics |-> ts]
Actions == [action : {"subscribe", "unsubscribe", "ping"},
            topics : SUBSET (Topics \union {BadTopic})]

\* The topics of a connection that had v, after the server has read a.
AfterAction(v, a) ==
  IF a.action = "subscribe" THEN v \union Valid(a.topics)
  ELSE IF a.action = "unsubscribe" THEN v \ Valid(a.topics) ELSE v

Concerns(a, t) == a.action \in {"subscribe", "unsubscribe"} /\ t \in a.topics

\* Whether a connection that had the topics v has t after the server has read
\* all of s: the last action on t counts.
HasAfter(v, s, t) ==
  \/ \E i \in 1 .. Len(s) :
       /\ Concerns(s[i], t) /\ s[i].action = "subscribe"
       /\ \A j \in i + 1 .. Len(s) : ~Concerns(s[j], t)
  \/ t \in v /\ \A i \in 1 .. Len(s) : ~Concerns(s[i], t)

Init ==
  /\ stopped = TRUE /\ state = "idle"
  /\ active = {} /\ pending = {}
  /\ socket = 0 /\ attempt = 0 /\ inflight = <<>>
  /\ timer = FALSE /\ strays = 0
  /\ link = [s \in Sockets |-> "unused"] /\ opened = 0
  /\ wire = [s \in Sockets |-> <<>>]
  /\ down = [s \in Sockets |-> <<>>]
  /\ subs = [s \in Sockets |-> {}]
  /\ starts = 0 /\ stops = 0 /\ calls = 0 /\ faults = 0
  /\ tangled = FALSE

-----------------------------------------------------------------------------
(* openSocket and scheduleReconnect                                        *)

\* scheduleReconnect, given the timers that are left when it runs.  The delay
\* (capped exponential backoff) is not modelled: a timer may be due any time.
ScheduleReconnect(timerLeft, straysLeft) ==
  /\ attempt' = attempt + 1
  /\ state' = "reconnecting"
  /\ timer' = TRUE
  /\ strays' = straysLeft + (IF timerLeft THEN 1 ELSE 0)

\* Mutated form of OpenFails: the error is reported, and that is all.
OpenFailsQuietly(timerLeft, straysLeft) ==
  /\ faults < MaxFaults
  /\ faults' = faults + 1
  /\ state' = "reconnecting"
  /\ timer' = timerLeft
  /\ strays' = straysLeft
  /\ UNCHANGED <<socket, attempt, netVars>>

\* The constructor threw.
OpenFails(timerLeft, straysLeft) ==
  /\ faults < MaxFaults
  /\ faults' = faults + 1
  /\ ScheduleReconnect(timerLeft, straysLeft)
  /\ UNCHANGED <<socket, netVars>>

\* The constructor returned a socket that is connecting.
OpenStarts(timerLeft, straysLeft) ==
  LET s == opened + 1 IN
  /\ s \in Sockets
  /\ opened' = s
  /\ link' = [link EXCEPT ![s] = "connecting"]
  /\ socket' = s
  /\ state' = IF attempt = 0 THEN "connecting" ELSE "reconnecting"
  /\ timer' = timerLeft
  /\ strays' = straysLeft
  /\ UNCHANGED <<attempt, wire, down, subs, faults>>

OpenSocket(timerLeft, straysLeft) ==
  OpenFails(timerLeft, straysLeft) \/ OpenStarts(timerLeft, straysLeft)

Start ==
  /\ starts < MaxStarts
  /\ starts' = starts + 1
  /\ stopped' = FALSE
  /\ OpenSocket(timer, strays)
  /\ tangled' = (tangled \/ timer \/ strays > 0 \/ About # {})
  /\ UNCHANGED <<active, pending, inflight, stops, calls>>

\* Mutated form of TimerFires: the timer is an interval.
IntervalFires ==
  /\ timer
  /\ OpenSocket(TRUE, strays)
  /\ UNCHANGED <<stopped, active, pending, inflight, starts, stops, calls,
                 tangled>>

\* The callback clears reconnectTimer, also when it is not the timer that
\* reconnectTimer refers to.
TimerFires ==
  /\ timer
  /\ OpenSocket(FALSE, strays)
  /\ UNCHANGED <<stopped, active, pending, inflight, starts, stops, calls,
                 tangled>>

\* Mutated form of StrayFires: openSocket does not look at `stopped`.
StrayFiresUnchecked ==
  LET left == strays - 1 + (IF timer THEN 1 ELSE 0) IN
  /\ strays > 0
  /\ OpenSocket(FALSE, left)
  /\ UNCHANGED <<stopped, active, pending, inflight, starts, stops, calls,
                 tangled>>

StrayFires ==
  LET left == strays - 1 + (IF timer THEN 1 ELSE 0) IN
  /\ strays > 0
  /\ IF stopped
     THEN /\ timer' = FALSE /\ strays' = left
          /\ UNCHANGED <<clientVars, netVars, faults>>
     ELSE /\ OpenSocket(FALSE, left)
          /\ UNCHANGED <<stopped, active, pending, inflight>>
  /\ UNCHANGED <<starts, stops, calls, tangled>>

\* stop()
Stop ==
  /\ stops < MaxStops
  /\ stops' = stops + 1
  /\ stopped' = TRUE
  /\ timer' = FALSE
  /\ socket' = 0
  /\ link' = IF socket = 0 THEN link ELSE [link EXCEPT ![socket] = "closing"]
  /\ state' = "closed"
  /\ UNCHANGED <<active, pending, attempt, inflight, strays, opened, wire,
                 down, subs, starts, calls, faults, tangled>>

-----------------------------------------------------------------------------
(* sendAction                                                              *)

\* What socket.send() does with actions: a connecting socket throws, which is
\* swallowed, a closing one discards them.
Transmit(s, acts, isOpen) ==
  wire' = IF isOpen THEN [wire EXCEPT ![s] = @ \o acts] ELSE wire

SendAction(a) ==
  IF state = "open" /\ socket # 0
  THEN Transmit(socket, <<a>>, link[socket] = "open") /\ UNCHANGED inflight
  ELSE inflight' = Append(inflight, a) /\ UNCHANGED wire

Calls ==
  /\ calls < MaxCalls
  /\ calls' = calls + 1
  /\ UNCHANGED <<stopped, state, socket, attempt, timerVars, link, opened,
                 down, subs, starts, stops, faults, tangled>>

\* Mutated form of Fresh: a topic that is active is sent again.
FreshUnlessPending(ts) == ts \ pending

Fresh(ts) == ts \ (active \union pending)

Subscribe(ts) ==
  /\ Calls
  /\ Fresh(ts) # {}
  /\ pending' = pending \union Fresh(ts)
  /\ SendAction(Action("subscribe", Fresh(ts)))
  /\ UNCHANGED active

Unsubscribe(ts) ==
  LET drop == ts \intersect (active \union pending) IN
  /\ Calls
  /\ drop # {}
  /\ active' = active \ drop
  /\ pending' = pending \ drop
  /\ SendAction(Action("unsubscribe", drop))

Ping ==
  /\ Calls
  /\ SendAction(Action("ping", {}))
  /\ UNCHANGED <<active, pending>>

-----------------------------------------------------------------------------
(* The handlers of a socket.  They act on the client whichever socket it   *)
(* holds by then.                                                          *)

\* Mutated form of ToSend: topics that were still pending are not sent again.
ToSendActive == InitialTopics \union active

ToSend == InitialTopics \union active \union pending

OnOpen(s) ==
  LET resend == SetToSeq({Action("subscribe", {t}) : t \in ToSend}) IN
  /\ link[s] = "connecting"
  /\ link' = [link EXCEPT ![s] = "open"]
  /\ attempt' = 0
  /\ state' = "open"
  /\ pending' = {}
  /\ active' = ToSend
  /\ IF socket = 0
     THEN inflight' = inflight \o resend /\ UNCHANGED wire
     ELSE /\ inflight' = <<>>
          /\ Transmit(socket, resend \o inflight, link'[socket] = "open")
  /\ UNCHANGED <<stopped, socket, timerVars, opened, down, subs, boundVars>>

\* A message matters to the client only if its type is "ack".
OnMessage(s) ==
  /\ link[s] = "open"
  /\ down[s] # <<>>
  /\ down' = [down EXCEPT ![s] = Tail(@)]
  /\ active' = IF Head(down[s]).type = "ack" THEN Head(down[s]).topics ELSE active
  /\ UNCHANGED <<stopped, state, pending, socket, attempt, inflight, timerVars,
                 link, opened, wire, subs, boundVars>>

OnClose(s) ==
  /\ link[s] = "closing"
  /\ link' = [link EXCEPT ![s] = "closed"]
  /\ wire' = [wire EXCEPT ![s] = <<>>]
  /\ down' = [down EXCEPT ![s] = <<>>]
  /\ subs' = [subs EXCEPT ![s] = {}]
  /\ socket' = 0
  /\ IF stopped
     THEN state' = "closed" /\ UNCHANGED <<attempt, timerVars>>
     ELSE ScheduleReconnect(timer, strays)
  /\ UNCHANGED <<stopped, active, pending, inflight, opened, boundVars>>

-----------------------------------------------------------------------------
(* The network and the server                                              *)

\* The connection cannot be made, or breaks, or the server closes it: from now
\* on nothing gets through, and the close event is on its way.
Breaks(s) ==
  /\ link[s] \in {"connecting", "open"}
  /\ faults < MaxFaults
  /\ faults' = faults + 1
  /\ link' = [link EXCEPT ![s] = "closing"]
  /\ UNCHANGED <<clientVars, timerVars, opened, wire, down, subs, starts, stops,
                 calls, tangled>>

\* The hub's answer to an action.
Answer(a) ==
  IF a.action = "ping" THEN <<Plain("pong")>>
  ELSE IF Valid(a.topics) = {} THEN <<>>
  ELSE IF a.action = "subscribe" THEN <<Subscribed(Valid(a.topics))>>
  ELSE <<Unsubscribed(Valid(a.topics))>>

ServerReads(s) ==
  LET a == Head(wire[s]) IN
  /\ link[s] = "open"
  /\ wire[s] # <<>>
  /\ wire' = [wire EXCEPT ![s] = Tail(@)]
  /\ subs' = [subs EXCEPT ![s] = AfterAction(@, a)]
  /\ down' = [down EXCEPT ![s] = @ \o Answer(a)]
  /\ UNCHANGED <<clientVars, timerVars, link, opened, boundVars>>

-----------------------------------------------------------------------------
Next ==
  \/ Start \/ Stop \/ TimerFires \/ StrayFires \/ Ping
  \/ \E ts \in SUBSET (Topics \union {BadTopic}) : Subscribe(ts) \/ Unsubscribe(ts)
  \/ \E s \in Sockets :
       OnOpen(s) \/ OnMessage(s) \/ OnClose(s) \/ Breaks(s) \/ ServerReads(s)

Spec == Init /\ [][Next]_vars

\* Timers fire, close events are delivered, messages arrive, and a socket that
\* is connecting opens unless it breaks, which it does finitely often.
Fairness ==
  /\ WF_vars(TimerFires) /\ WF_vars(StrayFires)
  /\ \A s \in Sockets :
       WF_vars(OnOpen(s)) /\ WF_vars(OnMessage(s)) /\ WF_vars(OnClose(s))
       /\ WF_vars(ServerReads(s))

FairSpec == Spec /\ Fairness

-----------------------------------------------------------------------------
(* Properties                                                              *)

\* Every variable holds a value of its kind, and a topic is active or pending,
\* never both.
TypeOK ==
  /\ stopped \in BOOLEAN /\ timer \in BOOLEAN /\ tangled \in BOOLEAN
  /\ state \in {"idle", "connecting", "open", "reconnecting", "closed"}
  /\ active \in SUBSET (Topics \union {BadTopic})
  /\ pending \in SUBSET (Topics \union {BadTopic})
  /\ active \intersect pending = {}
  /\ opened \in 0 .. MaxStarts + MaxStops + MaxFaults /\ socket \in 0 .. opened
  /\ attempt \in Nat /\ strays \in Nat
  /\ inflight \in Seq(Actions)
  /\ link \in [Sockets -> {"unused", "connecting", "open", "closing", "closed"}]
  /\ \A s \in Sockets : link[s] = "unused" <=> s > opened
  /\ wire \in [Sockets -> Seq(Actions)]
  /\ down \in [Sockets -> Seq(Message)]
  /\ subs \in [Sockets -> SUBSET Topics]
  /\ starts \in 0 .. MaxStarts /\ stops \in 0 .. MaxStops
  /\ calls \in 0 .. MaxCalls /\ faults \in 0 .. MaxFaults

\* "Opens a single WebSocket"; start() is "safe to call multiple times".
OneSocket == Cardinality(Live) <= 1

\* As long as start() was only called with neither a socket nor a timer about,
\* there is never a second socket, and a stopped client has no timer that would
\* reopen and every socket of it on its way out: drops, failures and stop() at
\* any moment included (wsClient.ts:119-141, 242-261).
SocketsApart ==
  ~tangled =>
    /\ OneSocket
    /\ stopped => ~timer /\ strays = 0 /\ Live = {}

\* No timer opens a socket for a client that is stopped, whatever start() and
\* stop() left behind.
StoppedOpensNothing == [][stopped /\ stopped' => opened' = opened]_vars

\* What the client thinks it is subscribed to.
Wanted == active \union pending

\* On an open socket the server has, after the actions on their way, the topics
\* that the client wants, and until then the queued actions, replayed on top of
\* the topics it re-sends, leave what it wants (wsClient.ts:143-163, 193-207).
\* Not so for a topic of the option `topics', which is sent again on each open
\* although it was unsubscribed from, and then unsubscribed from by the queue.
TopicLedger ==
  ~tangled =>
    /\ state = "open" => inflight = <<>>
    /\ \A t \in Topics \ InitialTopics :
         /\ state = "open" /\ link[socket] = "open" =>
              (HasAfter(subs[socket], wire[socket], t) <=> t \in Wanted)
         /\ state # "open" => (HasAfter(Wanted, inflight, t) <=> t \in Wanted)

\* A topic the client wants gets to the server, however often the socket
\* breaks on the way and whatever was lost with it.
SubscriptionsArrive ==
  \A t \in Topics :
    (t \in Wanted /\ ~stopped) ~>
      (stopped \/ t \notin Wanted \/ (socket # 0 /\ t \in subs[socket]))
=============================================================================
