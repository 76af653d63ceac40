------------------------------ MODULE LossyFeed ------------------------------
(***************************************************************************)
(* What the hub promises each client, with no queue bound, no tasks and no *)
(* failure but one: at any moment a connection may be shut for good.       *)
(* While it is open, the client is owed a sequence of messages and reads   *)
(* it from the front.  An answer to the client becomes owed some time      *)
(* after what it answers takes effect, one at a time, and is never lost;   *)
(* an event may be lost, for any of its subscribers, when it is published, *)
(* and only then.                                                          *)
(***************************************************************************)
EXTENDS WSMessages

CONSTANT Conns

VARIABLES
  line,       \* "new", "open" or "shut"
  subs,       \* the topics each client has
  owed,       \* the messages each client has yet to read
  answer,     \* <<the answer not yet owed>>, or <<>>
  told,       \* the topics each client has read that it has
  last,       \* the number of the last event each client read
  heard,      \* whether each client read anything
  count       \* events published

feedVars == <<line, subs, owed, answer, told, last, heard, count>>

FeedInit ==
  /\ line = [c \in Conns |-> "new"]
  /\ subs = [c \in Conns |-> {}]
  /\ owed = [c \in Conns |-> <<>>]
  /\ answer = [c \in Conns |-> <<>>]
  /\ told = [c \in Conns |-> {}]
  /\ last = [c \in Conns |-> 0]
  /\ heard = [c \in Conns |-> FALSE]
  /\ count = 0

OpenLine(c) ==
  /\ line[c] = "new"
  /\ line' = [line EXCEPT ![c] = "open"]
  /\ owed' = [owed EXCEPT ![c] = <<Welcome>>]
  /\ UNCHANGED <<subs, answer, told, last, heard, count>>

\* Nothing is promised of a line that is shut.
ShutLine(c) ==
  /\ line' = [line EXCEPT ![c] = "shut"]
  /\ subs' = [subs EXCEPT ![c] = {}]
  /\ owed' = [owed EXCEPT ![c] = <<>>]
  /\ answer' = [answer EXCEPT ![c] = <<>>]
  /\ told' = [told EXCEPT ![c] = {}]
  /\ last' = [last EXCEPT ![c] = 0]
  /\ heard' = [heard EXCEPT ![c] = FALSE]
  /\ UNCHANGED count

Give(c, m) ==
  /\ line[c] = "open" /\ answer[c] = <<>>
  /\ \/ owed' = [owed EXCEPT ![c] = Append(@, m)] /\ UNCHANGED answer
     \/ answer' = [answer EXCEPT ![c] = <<m>>] /\ UNCHANGED owed
  /\ UNCHANGED <<line, told, last, heard, count>>

\* A subscription changes in the step that gives its acknowledgement.
Grant(c, ts) ==
  subs' = [subs EXCEPT ![c] = @ \union ts] /\ Give(c, Subscribed(ts))

Withdraw(c, ts) ==
  subs' = [subs EXCEPT ![c] = @ \ ts] /\ Give(c, Unsubscribed(ts))

Reply(c, type) == Give(c, Plain(type)) /\ UNCHANGED subs

\* The answer becomes owed.
Settle(c) ==
  /\ line[c] = "open" /\ answer[c] # <<>>
  /\ owed' = [owed EXCEPT ![c] = @ \o answer[c]]
  /\ answer' = [answer EXCEPT ![c] = <<>>]
  /\ UNCHANGED <<line, subs, told, last, heard, count>>

\* Messages about no topic, to any of the open lines.
Notice(cs, type) ==
  /\ \A c \in cs : line[c] = "open"
  /\ type \in {"ping", "stop"}
  /\ owed' = [c \in Conns |->
                IF c \in cs THEN Append(owed[c], Plain(type)) ELSE owed[c]]
  /\ UNCHANGED <<line, subs, answer, told, last, heard, count>>

\* An event on t reaches any of the lines that have t.
Publish(t, cs) ==
  /\ \A c \in cs : line[c] = "open" /\ t \in subs[c]
  /\ count' = count + 1
  /\ owed' = [c \in Conns |->
                IF c \in cs THEN Append(owed[c], Event(t, count + 1)) ELSE owed[c]]
  /\ UNCHANGED <<line, subs, answer, told, last, heard>>

Deliver(c) ==
  /\ line[c] = "open" /\ owed[c] # <<>>
  /\ owed' = [owed EXCEPT ![c] = Tail(@)]
  /\ told' = [told EXCEPT ![c] = AfterReading(@, Head(owed[c]))]
  /\ last' = [last EXCEPT ![c] =
                IF Head(owed[c]).type = "event" THEN Head(owed[c]).seq ELSE @]
  /\ heard' = [heard EXCEPT ![c] = TRUE]
  /\ UNCHANGED <<line, subs, answer, count>>

FeedNext ==
  \/ \E c \in Conns :
       \/ OpenLine(c) \/ ShutLine(c) \/ Settle(c) \/ Deliver(c)
       \/ \E type \in {"pong", "error"} : Reply(c, type)
       \/ \E ts \in SUBSET Topics : Grant(c, ts) \/ Withdraw(c, ts)
  \/ \E cs \in SUBSET Conns :
       \/ \E type \in {"ping", "stop"} : Notice(cs, type)
       \/ \E t \in Topics : Publish(t, cs)

FeedSpec == FeedInit /\ [][FeedNext]_feedVars

-----------------------------------------------------------------------------
\* Every variable holds a value of its kind, and a line that is not open is
\* blank.
FeedTypeOK ==
  /\ line \in [Conns -> {"new", "open", "shut"}]
  /\ subs \in [Conns -> SUBSET Topics]
  /\ owed \in [Conns -> Seq(Message)]
  /\ answer \in [Conns -> {<<>>} \union {<<m>> : m \in Message}]
  /\ told \in [Conns -> SUBSET Topics]
  /\ last \in [Conns -> Nat]
  /\ heard \in [Conns -> BOOLEAN]
  /\ count \in Nat
  /\ \A c \in Conns : line[c] # "open" =>
       /\ owed[c] = <<>> /\ answer[c] = <<>>
       /\ subs[c] = {} /\ told[c] = {} /\ last[c] = 0 /\ ~heard[c]

\* The acknowledgements a client is owed bring what it knows of its topics to
\* the topics it has: none is lost and none overtakes another.
AckLedger ==
  \A c \in Conns : line[c] = "open" =>
    \A t \in Topics : t \in subs[c] <=> Believes(told[c], owed[c] \o answer[c], t)

\* The i-th of the messages s is about topics that a client that knew it had
\* the topics v knows it has when it reads the message, or learns it has before
\* it learns anything else of the topic.
CoveredAt(v, s, i) ==
  \A t \in s[i].topics :
    \/ Believes(v, SubSeq(s, 1, i - 1), t)
    \/ \E j \in i + 1 .. Len(s) :
         /\ Mentions(s[j], t) /\ s[j].type = "subscribed"
         /\ \A k \in i + 1 .. j - 1 : ~Mentions(s[k], t)

\* Every owed event is covered: none follows the acknowledgement of an
\* unsubscribe from its topic.
EventsCovered ==
  \A c \in Conns : \A i \in 1 .. Len(owed[c]) :
    owed[c][i].type = "event" => CoveredAt(told[c], owed[c] \o answer[c], i)

\* Events are read in the order they were published and at most once,
\* whatever was lost between them.
EventOrder ==
  \A c \in Conns : \A i \in 1 .. Len(owed[c]) :
    owed[c][i].type = "event" =>
      /\ last[c] < owed[c][i].seq /\ owed[c][i].seq <= count
      /\ \A j \in i + 1 .. Len(owed[c]) :
           owed[c][j].type = "event" => owed[c][i].seq < owed[c][j].seq

\* The first message read on every line is the welcome.
WelcomeFirst ==
  \A c \in Conns :
    line[c] = "open" /\ ~heard[c] => owed[c] # <<>> /\ Head(owed[c]) = Welcome
=============================================================================
