----------------------------- MODULE WSMessages ------------------------------
(***************************************************************************)
(* The server's envelopes (dtm_backend/ws/topics.py) and what a client     *)
(* that reads them in order knows of its subscriptions.                    *)
(***************************************************************************)
EXTENDS Integers, Sequences

CONSTANTS
  Topics,     \* the values of WSTopic
  BadTopic    \* any string that is_valid_topic rejects

ASSUME TopicAssumption == BadTopic \notin Topics

(* The wire text is abstracted to its type, its topics and, for an event,  *)
(* the number of the broadcast it carries.  "stop" is _STOP_SENTINEL.      *)
Types == {"welcome", "subscribed", "unsubscribed", "pong", "error", "ping",
          "event", "stop"}
Message == [type : Types, topics : SUBSET Topics, seq : Nat]

Plain(type)       == [type |-> type, topics |-> {}, seq |-> 0]
Sentinel          == Plain("stop")
Welcome           == Plain("welcome")
Subscribed(ts)    == [type |-> "subscribed", topics |-> ts, seq |-> 0]
Unsubscribed(ts)  == [type |-> "unsubscribed", topics |-> ts, seq |-> 0]
Event(t, n)       == [type |-> "event", topics |-> {t}, seq |-> n]

\* is_valid_topic, as the comprehensions of subscribe and unsubscribe use it.
Valid(ts) == ts \intersect Topics

IsAck(m) == m.type \in {"subscribed", "unsubscribed"}
Mentions(m, t) == IsAck(m) /\ t \in m.topics

\* The topics a client knows it has after reading m on top of v.
AfterReading(v, m) ==
  IF m.type = "subscribed" THEN v \union m.topics
  ELSE IF m.type = "unsubscribed" THEN v \ m.topics ELSE v

\* Whether a client that knew it had the topics v believes it has t after
\* reading all of s: the last word on t counts.
Believes(v, s, t) ==
  \/ \E i \in 1 .. Len(s) :
       /\ Mentions(s[i], t) /\ s[i].type = "subscribed"
       /\ \A j \in i + 1 .. Len(s) : ~Mentions(s[j], t)
  \/ t \in v /\ \A i \in 1 .. Len(s) : ~Mentions(s[i], t)
=============================================================================
