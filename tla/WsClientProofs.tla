---------------------------- MODULE WsClientProofs ----------------------------
(***************************************************************************)
(* Proofs about WsClient, for any topics, option `topics' and bounds.      *)
(*                                                                         *)
(* The handlers of a socket act on the client whichever socket it holds,   *)
(* so what has to be invariant, until a start() runs with one still about, *)
(* is that no second one is (Apart): a timer is only set when none is left,*)
(* and the one that is about is the last that was opened.                  *)
(***************************************************************************)
EXTENDS WsClient, SequenceTheorems, FiniteSetTheorems, TLAPS

Strings == Topics \union {BadTopic}

\* The client that is stopped has no timer: reconnectTimer is cleared, and the
\* close event of its socket sets none.
StoppedHasNoTimer == stopped => ~timer

\* Nothing has been sent on a socket before it opens.
FreshSockets ==
  \A s \in Sockets : link[s] \in {"unused", "connecting"} => wire[s] = <<>> /\ subs[s] = {}

\* A socket that is about is the last one opened, no timer is set with it, and
\* one that may still deliver is the client's, in the state the client is in.
OneAbout ==
  /\ strays = 0
  /\ \A s \in About : s = opened /\ ~timer
  /\ \A s \in Live : s = socket /\ ~stopped /\ (state = "open" <=> link[s] = "open")
  /\ socket # 0 => socket \in About
  /\ state = "open" => socket # 0

Apart == ~tangled => OneAbout

\* The ledger of the topics, for a client that was never tangled.
Ledger(t) ==
  /\ state = "open" /\ link[socket] = "open" =>
       (HasAfter(subs[socket], wire[socket], t) <=> t \in Wanted)
  /\ state # "open" => (HasAfter(Wanted, inflight, t) <=> t \in Wanted)

ClientInv == TypeOK /\ StoppedHasNoTimer /\ FreshSockets /\ Apart /\ TopicLedger

-----------------------------------------------------------------------------
(* The topics that a sequence of actions leaves                            *)

\* What Append does to a sequence of actions.
LEMMA ActionAppended ==
  ASSUME NEW s \in Seq(Actions), NEW a \in Actions
  PROVE  /\ Append(s, a) \in Seq(Actions)
         /\ Len(Append(s, a)) = Len(s) + 1
         /\ \A i \in 1 .. Len(s) : Append(s, a)[i] = s[i]
         /\ Append(s, a)[Len(s) + 1] = a
         /\ s \o <<a>> = Append(s, a)
  OBVIOUS

\* The last action on a topic decides.
LEMMA HasAfterAppend ==
  ASSUME NEW v, NEW s \in Seq(Actions), NEW a \in Actions, NEW t
  PROVE  HasAfter(v, Append(s, a), t) <=>
           IF Concerns(a, t) THEN a.action = "subscribe" ELSE HasAfter(v, s, t)
  BY ActionAppended DEF HasAfter

\* An action settles the topics it concerns.
LEMMA ServerSettles ==
  ASSUME NEW v, NEW a \in Actions, NEW t \in Topics
  PROVE  t \in AfterAction(v, a) <=>
           IF Concerns(a, t) THEN a.action = "subscribe" ELSE t \in v
  BY DEF AfterAction, Concerns, Valid, Actions

\* Reading the first action moves it from the wire to the topics.
LEMMA HasAfterTail ==
  ASSUME NEW v, NEW s \in Seq(Actions), s # <<>>, NEW t \in Topics
  PROVE  HasAfter(AfterAction(v, Head(s)), Tail(s), t) <=> HasAfter(v, s, t)
<1> DEFINE a == s[1]
           w == AfterAction(v, a)
           r == Tail(s)
           n == Len(s)
<1>1. /\ Head(s) = a /\ a \in Actions
      /\ n \in Nat \ {0} /\ Len(r) = n - 1
      /\ \A i \in 1 .. n - 1 : r[i] = s[i + 1]
  OBVIOUS
<1>2. t \in w <=> IF Concerns(a, t) THEN a.action = "subscribe" ELSE t \in v
  BY <1>1, ServerSettles
<1>3. ASSUME NEW i \in 1 .. n - 1
      PROVE  (\A j \in i + 1 .. n - 1 : ~Concerns(r[j], t))
               <=> (\A j \in i + 2 .. n : ~Concerns(s[j], t))
  <2>1. \A j \in i + 2 .. n : j - 1 \in i + 1 .. n - 1 /\ r[j - 1] = s[j]
    BY <1>1
  <2>2. \A j \in i + 1 .. n - 1 : j + 1 \in i + 2 .. n /\ r[j] = s[j + 1]
    BY <1>1
  <2> QED BY <2>1, <2>2
<1>4. (\A j \in 1 .. n - 1 : ~Concerns(r[j], t)) <=> (\A j \in 2 .. n : ~Concerns(s[j], t))
  <2>1. \A j \in 2 .. n : j - 1 \in 1 .. n - 1 /\ r[j - 1] = s[j]
    BY <1>1
  <2>2. \A j \in 1 .. n - 1 : j + 1 \in 2 .. n /\ r[j] = s[j + 1]
    BY <1>1
  <2> QED BY <2>1, <2>2
<1> DEFINE Decides(i) == /\ Concerns(s[i], t) /\ s[i].action = "subscribe"
                         /\ \A j \in i + 1 .. n : ~Concerns(s[j], t)
<1>5. (\E i \in 1 .. Len(r) : /\ Concerns(r[i], t) /\ r[i].action = "subscribe"
                              /\ \A j \in i + 1 .. Len(r) : ~Concerns(r[j], t))
        <=> \E i \in 2 .. n : Decides(i)
  <2>1. ASSUME NEW i \in 1 .. n - 1, Concerns(r[i], t), r[i].action = "subscribe",
               \A j \in i + 1 .. n - 1 : ~Concerns(r[j], t)
        PROVE  i + 1 \in 2 .. n /\ Decides(i + 1)
    BY <1>1, <1>3, <2>1
  <2>2. ASSUME NEW i \in 2 .. n, Decides(i)
        PROVE  /\ i - 1 \in 1 .. n - 1
               /\ Concerns(r[i - 1], t) /\ r[i - 1].action = "subscribe"
               /\ \A j \in (i - 1) + 1 .. n - 1 : ~Concerns(r[j], t)
    <3>1. i - 1 \in 1 .. n - 1 /\ r[i - 1] = s[i]
      BY <1>1
    <3>2. \A j \in (i - 1) + 1 .. n - 1 : ~Concerns(r[j], t)
      BY <3>1, <1>3, <2>2, <1>1
    <3> QED BY <3>1, <3>2, <2>2
  <2> HIDE DEF Decides
  <2> QED BY <2>1, <2>2, <1>1
<1>6. (\E i \in 1 .. n : Decides(i)) <=> Decides(1) \/ \E i \in 2 .. n : Decides(i)
  <2> HIDE DEF Decides
  <2> QED BY <1>1
<1>7. Decides(1) <=> /\ Concerns(a, t) /\ a.action = "subscribe"
                  /\ \A j \in 2 .. n : ~Concerns(s[j], t)
  OBVIOUS
<1>8. (\A i \in 1 .. n : ~Concerns(s[i], t))
        <=> ~Concerns(a, t) /\ \A j \in 2 .. n : ~Concerns(s[j], t)
  BY <1>1
<1>9. HasAfter(v, s, t) <=> \/ \E i \in 1 .. n : Decides(i)
                            \/ t \in v /\ \A i \in 1 .. n : ~Concerns(s[i], t)
  BY DEF HasAfter
<1>10. HasAfter(w, r, t) <=> \/ \E i \in 2 .. n : Decides(i)
                             \/ t \in w /\ \A j \in 2 .. n : ~Concerns(s[j], t)
  BY <1>1, <1>4, <1>5 DEF HasAfter
<1> HIDE DEF Decides, a, w, r, n
<1>11. HasAfter(w, r, t) <=> HasAfter(v, s, t)
  BY <1>2, <1>6, <1>7, <1>8, <1>9, <1>10
<1> QED BY <1>1, <1>11 DEF a, w, r

\* Actions read after others act on what those leave.
LEMMA HasAfterConcat ==
  ASSUME NEW v, NEW w, NEW s \in Seq(Actions), NEW r \in Seq(Actions), NEW t,
         t \in w <=> HasAfter(v, s, t)
  PROVE  /\ s \o r \in Seq(Actions)
         /\ HasAfter(v, s \o r, t) <=> HasAfter(w, r, t)
<1> DEFINE m == Len(s)
           n == Len(r)
           c == s \o r
           Decides(q, i) == /\ Concerns(q[i], t) /\ q[i].action = "subscribe"
                            /\ \A j \in i + 1 .. Len(q) : ~Concerns(q[j], t)
           None(q) == \A i \in 1 .. Len(q) : ~Concerns(q[i], t)
<1>1. /\ m \in Nat /\ n \in Nat /\ c \in Seq(Actions) /\ Len(c) = m + n
      /\ \A i \in 1 .. m : c[i] = s[i]
      /\ \A i \in 1 .. n : c[m + i] = r[i]
  BY ConcatProperties
<1>2. \A i \in m + 1 .. m + n : i - m \in 1 .. n /\ c[i] = r[i - m]
  BY <1>1
<1>3. (\A i \in m + 1 .. m + n : ~Concerns(c[i], t)) <=> None(r)
  <2>1. \A i \in 1 .. n : m + i \in m + 1 .. m + n /\ c[m + i] = r[i]
    BY <1>1
  <2> QED BY <1>2, <2>1
<1>4. None(c) <=> None(s) /\ None(r)
  <2>1. \A i \in 1 .. m + n : i \in 1 .. m \/ i \in m + 1 .. m + n
    BY <1>1
  <2>2. \A i \in 1 .. m : i \in 1 .. m + n
    BY <1>1
  <2>3. \A i \in m + 1 .. m + n : i \in 1 .. m + n
    BY <1>1
  <2> QED BY <1>1, <1>3, <2>1, <2>2, <2>3
<1>5. ASSUME NEW i \in 1 .. m PROVE Decides(c, i) <=> Decides(s, i) /\ None(r)
  <2>1. \A j \in i + 1 .. m + n : j \in i + 1 .. m \/ j \in m + 1 .. m + n
    BY <1>1
  <2>2. \A j \in i + 1 .. m : j \in i + 1 .. m + n /\ c[j] = s[j]
    BY <1>1
  <2>3. \A j \in m + 1 .. m + n : j \in i + 1 .. m + n
    BY <1>1
  <2>4. (\A j \in i + 1 .. m + n : ~Concerns(c[j], t))
          <=> (\A j \in i + 1 .. m : ~Concerns(s[j], t)) /\ None(r)
    BY <1>3, <2>1, <2>2, <2>3
  <2> QED BY <1>1, <2>4
<1>6. ASSUME NEW i \in 1 .. n PROVE Decides(c, m + i) <=> Decides(r, i)
  <2>1. \A j \in i + 1 .. n : m + j \in (m + i) + 1 .. m + n /\ c[m + j] = r[j]
    BY <1>1
  <2>2. \A j \in (m + i) + 1 .. m + n : j - m \in i + 1 .. n /\ c[j] = r[j - m]
    BY <1>1
  <2> QED BY <1>1, <2>1, <2>2
<1>7. \A q : HasAfter(v, q, t) <=> (\E i \in 1 .. Len(q) : Decides(q, i)) \/ (t \in v /\ None(q))
  BY DEF HasAfter
<1>8. \A q : HasAfter(w, q, t) <=> (\E i \in 1 .. Len(q) : Decides(q, i)) \/ (t \in w /\ None(q))
  BY DEF HasAfter
<1> HIDE DEF Decides, None
<1>9. (\E i \in 1 .. m + n : Decides(c, i))
        <=> (None(r) /\ \E i \in 1 .. m : Decides(s, i)) \/ \E i \in 1 .. n : Decides(r, i)
  <2>1. \A i \in 1 .. m + n : i \in 1 .. m \/ (i - m \in 1 .. n /\ i = m + (i - m))
    BY <1>1
  <2>2. \A i \in 1 .. m : i \in 1 .. m + n
    BY <1>1
  <2>3. \A i \in 1 .. n : m + i \in 1 .. m + n
    BY <1>1
  <2>4. ASSUME NEW i \in 1 .. m + n, Decides(c, i)
        PROVE  (None(r) /\ \E j \in 1 .. m : Decides(s, j)) \/ \E j \in 1 .. n : Decides(r, j)
    <3>1. CASE i \in 1 .. m
      BY <1>5, <2>4, <3>1
    <3>2. CASE i - m \in 1 .. n /\ i = m + (i - m)
      <4>1. Decides(r, i - m)
        BY <1>6, <2>4, <3>2
      <4> QED BY <3>2, <4>1
    <3> QED BY <2>1, <3>1, <3>2
  <2>5. ASSUME None(r), NEW i \in 1 .. m, Decides(s, i)
        PROVE  \E j \in 1 .. m + n : Decides(c, j)
    BY <1>5, <2>2, <2>5
  <2>6. ASSUME NEW i \in 1 .. n, Decides(r, i)
        PROVE  \E j \in 1 .. m + n : Decides(c, j)
    BY <1>6, <2>3, <2>6
  <2> HIDE DEF m, n, c
  <2> QED BY <2>4, <2>5, <2>6
<1>10. HasAfter(v, c, t) <=> HasAfter(w, r, t)
  BY <1>1, <1>4, <1>7, <1>8, <1>9
<1> QED BY <1>1, <1>10

\* The sequence of a finite set has the members of the set, each once.
LEMMA SequenceOfSet ==
  ASSUME NEW S, IsFiniteSet(S)
  PROVE  /\ SetToSeq(S) \in Seq(S)
         /\ \A x \in S : \E i \in 1 .. Len(SetToSeq(S)) : SetToSeq(S)[i] = x
         /\ \A i, j \in 1 .. Len(SetToSeq(S)) : SetToSeq(S)[i] = SetToSeq(S)[j] => i = j
<1> DEFINE n == Cardinality(S)
           g == SetToSeq(S)
<1>1. n \in Nat /\ ExistsBijection(1 .. n, S)
  BY FS_CardinalityType
<1>2. PICK f \in [1 .. n -> S] : IsInjective(f)
  BY <1>1 DEF ExistsBijection, Bijection, Injection
<1>3. g \in [1 .. n -> S] /\ IsInjective(g)
  BY <1>2 DEF SetToSeq
<1>4. g \in Injection(1 .. n, S)
  BY <1>3 DEF Injection
<1>5. Cardinality(1 .. n) = n
  BY <1>1, FS_Interval
<1>6. g \in Surjection(1 .. n, S)
  BY <1>4, <1>5, FS_Injection
<1>7. g \in Seq(S) /\ Len(g) = n
  BY <1>1, <1>3
<1> HIDE DEF g
<1>8. \A x \in S : \E i \in 1 .. n : g[i] = x
  BY <1>6 DEF Surjection
<1>9. \A i, j \in 1 .. n : g[i] = g[j] => i = j
  BY <1>3 DEF IsInjective
<1> QED BY <1>7, <1>8, <1>9 DEF g

\* A sequence of members of a set is one of any set that has them all.
LEMMA SequenceIn ==
  ASSUME NEW S, NEW T, NEW n \in Nat, NEW f \in [1 .. n -> S], \A x \in S : x \in T
  PROVE  f \in Seq(T)
<1>1. f \in [1 .. n -> T]
  OBVIOUS
<1> QED BY <1>1

\* The actions that are sent again when a socket opens subscribe to the topics,
\* and to those only.
LEMMA ResendSubscribes ==
  ASSUME NEW ts \in SUBSET Strings
  PROVE  LET resend == SetToSeq({Action("subscribe", {t}) : t \in ts})
         IN /\ resend \in Seq(Actions)
            /\ \A t \in Topics : HasAfter({}, resend, t) <=> t \in ts
<1> DEFINE S == {Action("subscribe", {t}) : t \in ts}
           resend == SetToSeq(S)
<1>1. IsFiniteSet(ts)
  <2>1. IsFiniteSet(Strings)
    BY ClientAssumption, FS_AddElement DEF Strings
  <2> QED BY <2>1, FS_Subset
<1>2. IsFiniteSet(S)
  <2> DEFINE f == [t \in ts |-> Action("subscribe", {t})]
  <2>1. f \in Surjection(ts, S)
    BY DEF Surjection
  <2> QED BY <1>1, <2>1, FS_Surjection
<1>3. \A a \in S : a \in Actions /\ a.action = "subscribe" /\ \E t \in ts : a.topics = {t}
  BY DEF Action, Actions, Strings
<1> DEFINE n == Len(resend)
<1>4. /\ resend \in Seq(S) /\ \A x \in S : \E i \in 1 .. n : resend[i] = x
      /\ \A i, j \in 1 .. n : resend[i] = resend[j] => i = j
  BY <1>2, SequenceOfSet
<1> HIDE DEF resend
<1>5. /\ n \in Nat /\ resend \in [1 .. n -> S]
  BY <1>4, LenProperties
<1>6. resend \in Seq(Actions)
  BY <1>3, <1>5, SequenceIn
<1>7. ASSUME NEW t \in Topics PROVE HasAfter({}, resend, t) <=> t \in ts
  <2>1. ASSUME NEW i \in 1 .. n, t \in resend[i].topics
        PROVE  t \in ts /\ resend[i] = Action("subscribe", {t})
    <3>1. resend[i] \in S
      BY <1>5
    <3>2. PICK u \in ts : resend[i] = Action("subscribe", {u})
      BY <3>1
    <3> QED BY <3>2, <2>1 DEF Action
  <2>2. ASSUME HasAfter({}, resend, t) PROVE t \in ts
    BY <2>1, <2>2 DEF HasAfter, Concerns
  <2>3. ASSUME t \in ts PROVE HasAfter({}, resend, t)
    <3>1. Action("subscribe", {t}) \in S
      BY <2>3
    <3>2. PICK i \in 1 .. n : resend[i] = Action("subscribe", {t})
      BY <3>1, <1>4
    <3>3. \A j \in i + 1 .. n : ~Concerns(resend[j], t)
      <4> SUFFICES ASSUME NEW j \in i + 1 .. n, t \in resend[j].topics PROVE FALSE
        BY DEF Concerns
      <4>1. j \in 1 .. n /\ j # i
        BY <1>5
      <4>2. resend[j] = resend[i]
        BY <2>1, <4>1, <3>2
      <4> QED BY <1>4, <4>1, <4>2
    <3>4. resend[i].action = "subscribe" /\ t \in resend[i].topics
      BY <3>2 DEF Action
    <3> QED BY <3>3, <3>4 DEF HasAfter, Concerns
  <2> QED BY <2>2, <2>3
<1> QED BY <1>6, <1>7 DEF resend

-----------------------------------------------------------------------------
(* Types                                                                   *)

States == {"idle", "connecting", "open", "reconnecting", "closed"}

Links == {"unused", "connecting", "open", "closing", "closed"}

MaxSockets == MaxStarts + MaxStops + MaxFaults

FieldsOK ==
  /\ stopped \in BOOLEAN /\ state \in States /\ attempt \in Nat
  /\ active \in SUBSET Strings /\ pending \in SUBSET Strings
  /\ active \intersect pending = {}
  /\ inflight \in Seq(Actions)

TimersOK == timer \in BOOLEAN /\ strays \in Nat /\ tangled \in BOOLEAN

SocketsOK ==
  /\ opened \in 0 .. MaxSockets /\ socket \in 0 .. opened
  /\ link \in [Sockets -> Links]
  /\ \A s \in Sockets : link[s] = "unused" <=> s > opened

NetOK ==
  /\ wire \in [Sockets -> Seq(Actions)]
  /\ down \in [Sockets -> Seq(Message)]
  /\ subs \in [Sockets -> SUBSET Topics]

CountsOK ==
  /\ starts \in 0 .. MaxStarts /\ stops \in 0 .. MaxStops
  /\ calls \in 0 .. MaxCalls /\ faults \in 0 .. MaxFaults

\* The type invariant in parts, before and after a step.
LEMMA TypeParts ==
  /\ TypeOK <=> FieldsOK /\ TimersOK /\ SocketsOK /\ NetOK /\ CountsOK
  /\ TypeOK' <=> FieldsOK' /\ TimersOK' /\ SocketsOK' /\ NetOK' /\ CountsOK'
BY DEF TypeOK, FieldsOK, TimersOK, SocketsOK, NetOK, CountsOK, States, Links,
       MaxSockets, Strings

\* What a call of openSocket() keeps, given the timers left.
LEMMA OpenKeepsTypes ==
  ASSUME TypeOK, NEW timerLeft \in BOOLEAN, NEW straysLeft \in Nat,
         OpenSocket(timerLeft, straysLeft)
  PROVE  /\ state' \in States /\ attempt' \in Nat
         /\ timer' \in BOOLEAN /\ strays' \in Nat
         /\ SocketsOK' /\ NetOK' /\ faults' \in 0 .. MaxFaults
<1>1. FieldsOK /\ TimersOK /\ SocketsOK /\ NetOK /\ CountsOK
  BY TypeParts
<1>2. CASE OpenFails(timerLeft, straysLeft)
  <2>1. SocketsOK' /\ NetOK'
    BY <1>1, <1>2 DEF OpenFails, netVars, SocketsOK, NetOK
  <2>2. faults' \in 0 .. MaxFaults
    BY <1>1, <1>2, ClientAssumption DEF OpenFails, CountsOK
  <2> QED BY <1>1, <1>2, <2>1, <2>2 DEF OpenFails, ScheduleReconnect, FieldsOK, States
<1>3. CASE OpenStarts(timerLeft, straysLeft)
  <2>1. SocketsOK'
    <3>1. /\ opened' = opened + 1 /\ socket' = opened + 1 /\ opened + 1 \in Sockets
          /\ link' = [link EXCEPT ![opened + 1] = "connecting"]
      BY <1>3 DEF OpenStarts
    <3>2. opened' \in 0 .. MaxSockets /\ socket' \in 0 .. opened'
      BY <3>1, <1>1, ClientAssumption DEF SocketsOK, Sockets, MaxSockets
    <3>3. link' \in [Sockets -> Links]
      BY <3>1, <1>1 DEF SocketsOK, Links
    <3>4. \A s \in Sockets : link'[s] = "unused" <=> s > opened'
      BY <3>1, <1>1 DEF SocketsOK, Sockets, MaxSockets
    <3> QED BY <3>2, <3>3, <3>4 DEF SocketsOK
  <2>2. NetOK' /\ faults' \in 0 .. MaxFaults
    BY <1>1, <1>3 DEF OpenStarts, NetOK, CountsOK
  <2> QED BY <1>1, <1>3, <2>1, <2>2 DEF OpenStarts, FieldsOK, States
<1> QED BY <1>2, <1>3 DEF OpenSocket

\* start(), stop() and the timers.
LEMMA LifecycleKeepsTypes ==
  ASSUME TypeOK, Start \/ Stop \/ TimerFires \/ StrayFires
  PROVE  TypeOK'
<1>1. FieldsOK /\ TimersOK /\ SocketsOK /\ NetOK /\ CountsOK
  BY TypeParts
<1>2. timer \in BOOLEAN /\ strays \in Nat
  BY <1>1 DEF TimersOK
<1>3. CASE Start
  <2>1. OpenSocket(timer, strays)
    BY <1>3 DEF Start
  <2>2. /\ state' \in States /\ attempt' \in Nat
        /\ timer' \in BOOLEAN /\ strays' \in Nat
        /\ SocketsOK' /\ NetOK' /\ faults' \in 0 .. MaxFaults
    BY <2>1, <1>2, OpenKeepsTypes
  <2>3. FieldsOK'
    BY <1>1, <1>3, <2>2 DEF Start, FieldsOK
  <2>4. tangled' \in BOOLEAN
    BY <1>3 DEF Start
  <2>5. CountsOK'
    BY <1>1, <1>3, <2>2, ClientAssumption DEF Start, CountsOK
  <2> QED BY <2>2, <2>3, <2>4, <2>5, TypeParts DEF TimersOK
<1>4. CASE Stop
  <2>1. FieldsOK'
    BY <1>1, <1>4 DEF Stop, FieldsOK, States
  <2>2. TimersOK'
    BY <1>1, <1>4 DEF Stop, TimersOK
  <2>3. SocketsOK'
    <3>1. /\ socket' = 0 /\ opened' = opened
          /\ link' = IF socket = 0 THEN link ELSE [link EXCEPT ![socket] = "closing"]
      BY <1>4 DEF Stop
    <3>2. /\ opened \in 0 .. MaxSockets /\ socket \in 0 .. opened
          /\ link \in [Sockets -> Links]
          /\ \A s \in Sockets : link[s] = "unused" <=> s > opened
      BY <1>1 DEF SocketsOK
    <3>3. link' \in [Sockets -> Links]
      BY <3>1, <3>2 DEF Links
    <3>4. \A s \in Sockets : link'[s] = "unused" <=> s > opened
      BY <3>1, <3>2, ClientAssumption DEF Sockets, MaxSockets
    <3>5. socket' \in 0 .. opened'
      BY <3>1, <3>2, ClientAssumption DEF MaxSockets
    <3> QED BY <3>1, <3>2, <3>3, <3>4, <3>5 DEF SocketsOK
  <2>4. NetOK'
    BY <1>1, <1>4 DEF Stop, NetOK
  <2>5. CountsOK'
    BY <1>1, <1>4, ClientAssumption DEF Stop, CountsOK
  <2> QED BY <2>1, <2>2, <2>3, <2>4, <2>5, TypeParts
<1>5. CASE TimerFires
  <2>1. /\ state' \in States /\ attempt' \in Nat
        /\ timer' \in BOOLEAN /\ strays' \in Nat
        /\ SocketsOK' /\ NetOK' /\ faults' \in 0 .. MaxFaults
    BY <1>2, <1>5, OpenKeepsTypes DEF TimerFires
  <2>2. FieldsOK' /\ TimersOK' /\ CountsOK'
    BY <1>1, <1>5, <2>1 DEF TimerFires, FieldsOK, TimersOK, CountsOK
  <2> QED BY <2>1, <2>2, TypeParts
<1>6. CASE StrayFires
  <2> DEFINE left == strays - 1 + (IF timer THEN 1 ELSE 0)
  <2>1. left \in Nat
    BY <1>2, <1>6 DEF StrayFires
  <2>2. CASE stopped
    <3>1. timer' = FALSE /\ strays' = left /\ UNCHANGED <<clientVars, netVars, faults>>
          /\ UNCHANGED <<starts, stops, calls, tangled>>
      BY <1>6, <2>2 DEF StrayFires
    <3>2. FieldsOK' /\ SocketsOK' /\ NetOK' /\ CountsOK'
      BY <1>1, <3>1 DEF clientVars, netVars, FieldsOK, SocketsOK, NetOK, CountsOK
    <3> QED BY <1>1, <2>1, <3>1, <3>2, TypeParts DEF TimersOK
  <2>3. CASE ~stopped
    <3>1. OpenSocket(FALSE, left)
          /\ UNCHANGED <<stopped, active, pending, inflight, starts, stops, calls, tangled>>
      BY <1>6, <2>3 DEF StrayFires
    <3>2. /\ state' \in States /\ attempt' \in Nat
          /\ timer' \in BOOLEAN /\ strays' \in Nat
          /\ SocketsOK' /\ NetOK' /\ faults' \in 0 .. MaxFaults
      BY <2>1, <3>1, OpenKeepsTypes
    <3>3. FieldsOK' /\ TimersOK' /\ CountsOK'
      BY <1>1, <3>1, <3>2 DEF FieldsOK, TimersOK, CountsOK
    <3> QED BY <3>2, <3>3, TypeParts
  <2> QED BY <2>2, <2>3
<1> QED BY <1>3, <1>4, <1>5, <1>6

\* What the application sends goes to a queue or the wire.
LEMMA SendKeepsTypes ==
  ASSUME TypeOK, NEW a \in Actions, SendAction(a)
  PROVE  inflight' \in Seq(Actions) /\ wire' \in [Sockets -> Seq(Actions)]
<1>1. inflight \in Seq(Actions) /\ wire \in [Sockets -> Seq(Actions)]
  BY DEF TypeOK
<1>2. CASE state = "open" /\ socket # 0
  <2>1. inflight' = inflight /\ (wire' = wire \/ wire' = [wire EXCEPT ![socket] = @ \o <<a>>])
    BY <1>2 DEF SendAction, Transmit
  <2>2. \A s \in Sockets : wire[s] \o <<a>> \in Seq(Actions)
    BY <1>1
  <2> QED BY <1>1, <2>1, <2>2
<1>3. CASE ~(state = "open" /\ socket # 0)
  BY <1>1, <1>3, ActionAppended DEF SendAction
<1> QED BY <1>2, <1>3

\* subscribe(), unsubscribe() and ping().
LEMMA CallsKeepTypes ==
  ASSUME TypeOK, Ping \/ \E ts \in SUBSET Strings : Subscribe(ts) \/ Unsubscribe(ts)
  PROVE  TypeOK'
<1>1. FieldsOK /\ TimersOK /\ SocketsOK /\ NetOK /\ CountsOK
  BY TypeParts
<1>2. Calls
  BY DEF Ping, Subscribe, Unsubscribe
<1>3. /\ stopped' \in BOOLEAN /\ state' \in States /\ attempt' \in Nat
      /\ TimersOK' /\ SocketsOK' /\ CountsOK'
  BY <1>1, <1>2, ClientAssumption
     DEF Calls, timerVars, FieldsOK, TimersOK, SocketsOK, CountsOK
<1>4. \E a \in Actions : SendAction(a)
  <2>1. CASE Ping
    <3>1. Action("ping", {}) \in Actions
      BY DEF Action, Actions
    <3> QED BY <2>1, <3>1 DEF Ping
  <2>2. ASSUME NEW ts \in SUBSET Strings, Subscribe(ts)
        PROVE  \E a \in Actions : SendAction(a)
    <3>1. Action("subscribe", Fresh(ts)) \in Actions
      BY DEF Action, Actions, Fresh, Strings
    <3> QED BY <2>2, <3>1 DEF Subscribe
  <2>3. ASSUME NEW ts \in SUBSET Strings, Unsubscribe(ts)
        PROVE  \E a \in Actions : SendAction(a)
    <3>1. Action("unsubscribe", ts \intersect (active \union pending)) \in Actions
      BY DEF Action, Actions, Strings
    <3> QED BY <2>3, <3>1 DEF Unsubscribe
  <2> QED BY <2>1, <2>2, <2>3
<1>5. /\ active' \in SUBSET Strings /\ pending' \in SUBSET Strings
      /\ active' \intersect pending' = {}
  BY <1>1 DEF FieldsOK, Ping, Subscribe, Unsubscribe, Fresh
<1>6. inflight' \in Seq(Actions) /\ wire' \in [Sockets -> Seq(Actions)]
  BY <1>4, SendKeepsTypes
<1>7. FieldsOK'
  BY <1>3, <1>5, <1>6 DEF FieldsOK
<1>8. NetOK'
  BY <1>1, <1>2, <1>6 DEF Calls, NetOK
<1> QED BY <1>3, <1>7, <1>8, TypeParts

\* A link of a socket that is open, closing or closed is one of a socket that
\* was opened, before and after.
LEMMA LinkKeepsTypes ==
  ASSUME SocketsOK, NEW s \in Sockets, NEW l \in {"open", "closing", "closed"},
         link[s] # "unused", link' = [link EXCEPT ![s] = l],
         opened' = opened, socket' \in {0, socket}
  PROVE  SocketsOK'
<1>1. opened \in 0 .. MaxSockets /\ socket \in 0 .. opened /\ link \in [Sockets -> Links]
  BY DEF SocketsOK
<1>2. link' \in [Sockets -> Links]
  BY <1>1 DEF Links
<1>3. \A q \in Sockets : link'[q] = "unused" <=> q > opened'
  BY <1>1 DEF SocketsOK
<1>4. opened' \in 0 .. MaxSockets /\ socket' \in 0 .. opened'
  BY <1>1, ClientAssumption DEF MaxSockets
<1> QED BY <1>2, <1>3, <1>4 DEF SocketsOK

\* What opens is sent again: the option, and what is active or pending.
LEMMA ToSendType == ASSUME TypeOK PROVE ToSend \in SUBSET Strings
BY ClientAssumption DEF TypeOK, ToSend, Strings

\* The open event of a socket.
LEMMA OnOpenKeepsTypes ==
  ASSUME TypeOK, NEW s \in Sockets, OnOpen(s)
  PROVE  TypeOK'
<1> DEFINE resend == SetToSeq({Action("subscribe", {t}) : t \in ToSend})
<1>1. FieldsOK /\ TimersOK /\ SocketsOK /\ NetOK /\ CountsOK
  BY TypeParts
<1>2. resend \in Seq(Actions) /\ ToSend \in SUBSET Strings
  BY ToSendType, ResendSubscribes
<1>3. /\ link[s] = "connecting" /\ link' = [link EXCEPT ![s] = "open"]
      /\ attempt' = 0 /\ state' = "open" /\ pending' = {} /\ active' = ToSend
      /\ IF socket = 0 THEN inflight' = inflight \o resend /\ wire' = wire
         ELSE /\ inflight' = <<>>
              /\ \/ wire' = wire
                 \/ wire' = [wire EXCEPT ![socket] = @ \o (resend \o inflight)]
      /\ UNCHANGED <<stopped, socket, timerVars, opened, down, subs, boundVars>>
  BY DEF OnOpen, Transmit
<1> HIDE DEF resend
<1>4. inflight \o resend \in Seq(Actions) /\ resend \o inflight \in Seq(Actions)
  BY <1>1, <1>2 DEF FieldsOK
<1>5. \A q \in Sockets : wire[q] \o (resend \o inflight) \in Seq(Actions)
  BY <1>1, <1>4 DEF NetOK
<1>6. NetOK'
  <2>1. wire' \in [Sockets -> Seq(Actions)]
    BY <1>1, <1>3, <1>5 DEF NetOK
  <2> QED BY <1>1, <1>3, <2>1 DEF NetOK
<1>7. inflight' \in Seq(Actions)
  <2>1. <<>> \in Seq(Actions)
    OBVIOUS
  <2> QED BY <1>3, <1>4, <2>1
<1>8. FieldsOK'
  BY <1>1, <1>2, <1>3, <1>7 DEF FieldsOK, States
<1>9. SocketsOK'
  BY <1>1, <1>3, LinkKeepsTypes
<1>10. TimersOK' /\ CountsOK'
  BY <1>1, <1>3 DEF timerVars, boundVars, TimersOK, CountsOK
<1> QED BY <1>6, <1>8, <1>9, <1>10, TypeParts

\* The other events of a socket, the ways it breaks, and the server.
LEMMA EventsKeepTypes ==
  ASSUME TypeOK, NEW s \in Sockets,
         OnMessage(s) \/ OnClose(s) \/ Breaks(s) \/ ServerReads(s)
  PROVE  TypeOK'
<1>1. FieldsOK /\ TimersOK /\ SocketsOK /\ NetOK /\ CountsOK
  BY TypeParts
<1>2. CASE OnMessage(s)
  <2>1. down[s] \in Seq(Message) /\ down[s] # <<>>
    BY <1>1, <1>2 DEF NetOK, OnMessage
  <2>2. Head(down[s]) \in Message /\ Tail(down[s]) \in Seq(Message)
    BY <2>1, HeadTailProperties
  <2>3. active' = active
    <3>1. Head(down[s]).type # "ack"
      BY <2>2 DEF Message, Types
    <3> QED BY <3>1, <1>2 DEF OnMessage
  <2>4. down' \in [Sockets -> Seq(Message)]
    BY <1>1, <1>2, <2>2 DEF OnMessage, NetOK
  <2>5. NetOK'
    BY <1>1, <1>2, <2>4 DEF OnMessage, NetOK
  <2>6. FieldsOK' /\ TimersOK' /\ SocketsOK' /\ CountsOK'
    BY <1>1, <1>2, <2>3
       DEF OnMessage, timerVars, boundVars, FieldsOK, TimersOK, SocketsOK, CountsOK
  <2> QED BY <2>5, <2>6, TypeParts
<1>3. CASE OnClose(s)
  <2>1. SocketsOK'
    BY <1>1, <1>3, LinkKeepsTypes DEF OnClose
  <2>2. NetOK'
    BY <1>1, <1>3 DEF OnClose, NetOK
  <2>3. /\ state' \in States /\ attempt' \in Nat /\ timer' \in BOOLEAN /\ strays' \in Nat
    <3>1. attempt \in Nat /\ timer \in BOOLEAN /\ strays \in Nat
      BY <1>1 DEF FieldsOK, TimersOK
    <3>2. CASE stopped
      BY <1>3, <3>1, <3>2 DEF OnClose, timerVars, States
    <3>3. CASE ~stopped
      <4>1. ScheduleReconnect(timer, strays)
        BY <1>3, <3>3 DEF OnClose
      <4> QED BY <3>1, <4>1 DEF ScheduleReconnect, States
    <3> QED BY <3>2, <3>3
  <2>4. FieldsOK' /\ TimersOK' /\ CountsOK'
    BY <1>1, <1>3, <2>3 DEF OnClose, boundVars, FieldsOK, TimersOK, CountsOK
  <2> QED BY <2>1, <2>2, <2>4, TypeParts
<1>4. CASE Breaks(s)
  <2>1. SocketsOK'
    <3>1. /\ link[s] # "unused" /\ link' = [link EXCEPT ![s] = "closing"]
          /\ opened' = opened /\ socket' = socket
      BY <1>4 DEF Breaks, clientVars
    <3> QED BY <1>1, <3>1, LinkKeepsTypes
  <2>2. faults' \in 0 .. MaxFaults
    BY <1>1, <1>4, ClientAssumption DEF Breaks, CountsOK
  <2>3. FieldsOK' /\ TimersOK' /\ NetOK' /\ CountsOK'
    BY <1>1, <1>4, <2>2
       DEF Breaks, clientVars, timerVars, FieldsOK, TimersOK, NetOK, CountsOK
  <2> QED BY <2>1, <2>3, TypeParts
<1>5. CASE ServerReads(s)
  <2> DEFINE a == Head(wire[s])
  <2>1. wire[s] \in Seq(Actions) /\ wire[s] # <<>>
    BY <1>1, <1>5 DEF NetOK, ServerReads
  <2>2. a \in Actions /\ Tail(wire[s]) \in Seq(Actions)
    BY <2>1, HeadTailProperties
  <2>3. Answer(a) \in Seq(Message)
    <3>1. \A type \in Types, ts \in SUBSET Topics :
            [type |-> type, topics |-> ts, seq |-> 0] \in Message
      BY DEF Message
    <3>2. Valid(a.topics) \in SUBSET Topics /\ {} \in SUBSET Topics
      BY DEF Valid
    <3>3. "pong" \in Types /\ "subscribed" \in Types /\ "unsubscribed" \in Types
      BY DEF Types
    <3>4. \/ Answer(a) = <<>>
          \/ \E m \in Message : Answer(a) = <<m>>
      BY <3>1, <3>2, <3>3 DEF Answer, Plain, Subscribed, Unsubscribed
    <3>5. \A m \in Message : <<m>> \in Seq(Message)
      OBVIOUS
    <3>6. <<>> \in Seq(Message)
      OBVIOUS
    <3> QED BY <3>4, <3>5, <3>6
  <2>4. AfterAction(subs[s], a) \in SUBSET Topics
    BY <1>1, <2>2 DEF NetOK, AfterAction, Valid
  <2>5. down[s] \o Answer(a) \in Seq(Message)
    BY <1>1, <2>3, ConcatProperties DEF NetOK
  <2>6. NetOK'
    <3>1. /\ wire' = [wire EXCEPT ![s] = Tail(wire[s])]
          /\ subs' = [subs EXCEPT ![s] = AfterAction(subs[s], a)]
          /\ down' = [down EXCEPT ![s] = down[s] \o Answer(a)]
      BY <1>5 DEF ServerReads
    <3> QED BY <1>1, <3>1, <2>2, <2>4, <2>5 DEF NetOK
  <2>7. FieldsOK' /\ TimersOK' /\ SocketsOK' /\ CountsOK'
    BY <1>1, <1>5 DEF ServerReads, clientVars, timerVars, boundVars, FieldsOK,
                      TimersOK, SocketsOK, CountsOK
  <2> QED BY <2>6, <2>7, TypeParts
<1> QED BY <1>2, <1>3, <1>4, <1>5

\* Every step keeps every variable's type.
LEMMA StepKeepsTypes == ASSUME TypeOK, [Next]_vars PROVE TypeOK'
<1>1. CASE UNCHANGED vars
  BY <1>1 DEF vars, clientVars, timerVars, netVars, boundVars, TypeOK
<1>2. CASE Start \/ Stop \/ TimerFires \/ StrayFires
  BY <1>2, LifecycleKeepsTypes
<1>3. CASE Ping \/ \E ts \in SUBSET Strings : Subscribe(ts) \/ Unsubscribe(ts)
  BY <1>3, CallsKeepTypes
<1>4. ASSUME NEW s \in Sockets,
             OnOpen(s) \/ OnMessage(s) \/ OnClose(s) \/ Breaks(s) \/ ServerReads(s)
      PROVE  TypeOK'
  BY <1>4, OnOpenKeepsTypes, EventsKeepTypes
<1> QED BY <1>1, <1>2, <1>3, <1>4 DEF Next, Strings

-----------------------------------------------------------------------------
(* One socket at a time                                                    *)

LEMMA SocketRange ==
  ASSUME TypeOK
  PROVE  /\ opened \in Nat /\ socket \in Nat /\ strays \in Nat
         /\ socket # 0 => socket \in Sockets
         /\ Sockets \subseteq Nat \ {0}
         /\ DOMAIN link = Sockets
BY ClientAssumption DEF TypeOK, Sockets

\* With none about, a call of openSocket() leaves a timer or one socket.
LEMMA OpenAlone ==
  ASSUME TypeOK, OneAbout, About = {}, OpenSocket(FALSE, 0), ~stopped'
  PROVE  OneAbout'
<1>1. CASE OpenFails(FALSE, 0)
  BY <1>1 DEF OpenFails, ScheduleReconnect, netVars, OneAbout, About, Live
<1>2. CASE OpenStarts(FALSE, 0)
  <2> DEFINE n == opened + 1
  <2>1. /\ n \in Sockets /\ opened' = n /\ link' = [link EXCEPT ![n] = "connecting"]
        /\ socket' = n /\ state' \in {"connecting", "reconnecting"}
        /\ timer' = FALSE /\ strays' = 0
    BY <1>2 DEF OpenStarts
  <2>2. n # 0 /\ DOMAIN link = Sockets
    BY <2>1, SocketRange
  <2> HIDE DEF n
  <2>3. About' = {n} /\ Live' = {n} /\ link'[n] = "connecting"
    BY <2>1, <2>2 DEF About, Live
  <2> QED BY <2>1, <2>2, <2>3 DEF OneAbout
<1> QED BY <1>1, <1>2 DEF OpenSocket

\* start(), stop() and the timers keep one socket at a time.
LEMMA LifecycleKeepsApart ==
  ASSUME TypeOK, StoppedHasNoTimer, Apart, Start \/ Stop \/ TimerFires \/ StrayFires
  PROVE  Apart'
<1> SUFFICES ASSUME ~tangled' PROVE OneAbout'
  BY DEF Apart
<1>1. CASE Start
  <2>1. ~tangled /\ ~timer /\ strays = 0 /\ About = {} /\ ~stopped'
    <3>1. tangled' = (tangled \/ timer \/ strays > 0 \/ About # {}) /\ stopped' = FALSE
      BY <1>1 DEF Start
    <3>2. ~tangled /\ ~timer /\ ~(strays > 0) /\ About = {} /\ ~stopped'
      BY <3>1, Zenon
    <3> QED BY <3>2, SocketRange
  <2>2. OpenSocket(timer, 0)
    BY <1>1, <2>1 DEF Start
  <2>3. timer = FALSE
    BY <2>1 DEF TypeOK
  <2> QED BY <2>1, <2>2, <2>3, OpenAlone DEF Apart
<1>2. CASE Stop
  <2>1. ~tangled /\ OneAbout
    BY <1>2 DEF Stop, Apart
  <2>2. /\ ~timer' /\ socket' = 0 /\ state' = "closed" /\ strays' = strays
        /\ opened' = opened
        /\ link' = IF socket = 0 THEN link ELSE [link EXCEPT ![socket] = "closing"]
    BY <1>2 DEF Stop
  <2>3. Live' = {}
    BY <2>1, <2>2, SocketRange DEF OneAbout, Live
  <2>4. About' \subseteq About
    BY <2>1, <2>2, SocketRange DEF OneAbout, About
  <2> QED BY <2>1, <2>2, <2>3, <2>4 DEF OneAbout
<1>3. CASE TimerFires
  <2>1. ~tangled /\ timer /\ ~stopped' /\ OpenSocket(FALSE, strays)
    BY <1>3 DEF TimerFires, StoppedHasNoTimer
  <2>2. OneAbout /\ strays = 0 /\ About = {}
    BY <2>1 DEF Apart, OneAbout
  <2> QED BY <2>1, <2>2, OpenAlone
<1>4. CASE StrayFires
  <2>1. ~tangled /\ strays > 0
    BY <1>4 DEF StrayFires
  <2> QED BY <2>1 DEF Apart, OneAbout
<1> QED BY <1>1, <1>2, <1>3, <1>4

\* The handlers of a socket keep one socket at a time.
LEMMA SocketKeepsApart ==
  ASSUME TypeOK, Apart, NEW s \in Sockets, OnOpen(s) \/ OnClose(s) \/ Breaks(s)
  PROVE  Apart'
<1>1. tangled' = tangled
  BY DEF OnOpen, OnClose, Breaks, boundVars
<1> SUFFICES ASSUME ~tangled, OneAbout PROVE OneAbout'
  BY <1>1 DEF Apart
<1>2. DOMAIN link = Sockets
  BY SocketRange
<1>3. CASE OnOpen(s)
  <2>1. /\ link[s] = "connecting" /\ link' = [link EXCEPT ![s] = "open"]
        /\ state' = "open" /\ UNCHANGED <<stopped, socket, timer, strays, opened>>
    BY <1>3 DEF OnOpen, timerVars
  <2>2. s \in Live /\ Live \subseteq About
    BY <2>1 DEF Live, About
  <2>3. s = socket /\ s = opened /\ ~stopped /\ ~timer
    BY <2>2 DEF OneAbout
  <2>4. About' = About /\ Live' = Live
    BY <1>2, <2>1 DEF About, Live
  <2>5. \A q \in Live : q = s
    BY <2>3 DEF OneAbout
  <2>6. socket # 0
    BY <2>3, SocketRange
  <2> QED BY <1>2, <2>1, <2>2, <2>3, <2>4, <2>5, <2>6 DEF OneAbout
<1>4. CASE OnClose(s)
  <2>1. /\ link[s] = "closing" /\ link' = [link EXCEPT ![s] = "closed"]
        /\ socket' = 0 /\ opened' = opened
    BY <1>4 DEF OnClose
  <2>2. s \in About
    BY <2>1 DEF About
  <2>3. s = opened /\ timer = FALSE /\ strays = 0 /\ \A q \in About : q = s
    BY <2>2 DEF OneAbout, TypeOK
  <2>4. About' = {} /\ Live' = {}
    BY <1>2, <2>1, <2>3 DEF About, Live
  <2>5. strays' = 0 /\ state' # "open"
    <3>1. CASE stopped
      BY <1>4, <2>3, <3>1 DEF OnClose, timerVars
    <3>2. CASE ~stopped
      <4>1. ScheduleReconnect(timer, strays)
        BY <1>4, <3>2 DEF OnClose
      <4> QED BY <2>3, <4>1 DEF ScheduleReconnect
    <3> QED BY <3>1, <3>2
  <2> QED BY <2>1, <2>4, <2>5 DEF OneAbout
<1>5. CASE Breaks(s)
  <2>1. /\ link[s] \in {"connecting", "open"} /\ link' = [link EXCEPT ![s] = "closing"]
        /\ UNCHANGED <<stopped, state, socket, timer, strays, opened>>
    BY <1>5 DEF Breaks, clientVars, timerVars
  <2>2. s \in Live /\ \A q \in Live : q = s
    BY <2>1 DEF Live, OneAbout
  <2>3. About' = About /\ Live' = {}
    BY <1>2, <2>1, <2>2 DEF About, Live
  <2> QED BY <2>1, <2>3 DEF OneAbout
<1> QED BY <1>3, <1>4, <1>5

\* What does not concern a socket's state keeps one socket at a time.
LEMMA OthersKeepApart ==
  ASSUME Apart, UNCHANGED <<stopped, state, socket, timerVars, link, opened, tangled>>
  PROVE  Apart'
BY DEF timerVars, Apart, OneAbout, About, Live

LEMMA StepKeepsApart ==
  ASSUME TypeOK, StoppedHasNoTimer, Apart, [Next]_vars
  PROVE  Apart'
<1>1. CASE UNCHANGED vars
  BY <1>1, OthersKeepApart DEF vars, clientVars, timerVars, netVars, boundVars
<1>2. CASE Start \/ Stop \/ TimerFires \/ StrayFires
  BY <1>2, LifecycleKeepsApart
<1>3. CASE Ping \/ \E ts \in SUBSET Strings : Subscribe(ts) \/ Unsubscribe(ts)
  <2>1. Calls
    BY <1>3 DEF Ping, Subscribe, Unsubscribe
  <2> QED BY <2>1, OthersKeepApart DEF Calls
<1>4. ASSUME NEW s \in Sockets, OnMessage(s) \/ ServerReads(s)
      PROVE  Apart'
  BY <1>4, OthersKeepApart DEF OnMessage, ServerReads, clientVars, boundVars
<1>5. ASSUME NEW s \in Sockets, OnOpen(s) \/ OnClose(s) \/ Breaks(s)
      PROVE  Apart'
  BY <1>5, SocketKeepsApart
<1> QED BY <1>1, <1>2, <1>3, <1>4, <1>5 DEF Next, Strings

-----------------------------------------------------------------------------
(* Timers of a stopped client, and sockets that have not opened            *)

LEMMA StepKeepsNoTimer ==
  ASSUME TypeOK, StoppedHasNoTimer, [Next]_vars
  PROVE  StoppedHasNoTimer'
<1> SUFFICES ASSUME stopped' PROVE ~timer'
  BY DEF StoppedHasNoTimer
<1>1. CASE UNCHANGED vars
  BY <1>1 DEF vars, clientVars, timerVars, StoppedHasNoTimer
<1>2. CASE Start \/ TimerFires
  BY <1>2 DEF Start, TimerFires, StoppedHasNoTimer
<1>3. CASE Stop
  BY <1>3 DEF Stop
<1>4. CASE StrayFires
  BY <1>4 DEF StrayFires
<1>5. CASE Ping \/ \E ts \in SUBSET Strings : Subscribe(ts) \/ Unsubscribe(ts)
  <2>1. Calls
    BY <1>5 DEF Ping, Subscribe, Unsubscribe
  <2> QED BY <2>1 DEF Calls, timerVars, StoppedHasNoTimer
<1>6. ASSUME NEW s \in Sockets, OnOpen(s) \/ OnMessage(s) \/ Breaks(s) \/ ServerReads(s)
      PROVE  ~timer'
  BY <1>6 DEF OnOpen, OnMessage, Breaks, ServerReads, clientVars, timerVars,
              StoppedHasNoTimer
<1>7. ASSUME NEW s \in Sockets, OnClose(s) PROVE ~timer'
  BY <1>7 DEF OnClose, timerVars, StoppedHasNoTimer
<1> QED BY <1>1, <1>2, <1>3, <1>4, <1>5, <1>6, <1>7 DEF Next, Strings

\* A socket that is unused or connecting and was so before is as it was.
LEMMA FreshStays ==
  ASSUME FreshSockets,
         \A s \in Sockets : link'[s] \in {"unused", "connecting"} =>
           /\ link[s] \in {"unused", "connecting"}
           /\ wire'[s] = wire[s] /\ subs'[s] = subs[s]
  PROVE  FreshSockets'
BY DEF FreshSockets

LEMMA OpenKeepsFresh ==
  ASSUME TypeOK, FreshSockets, NEW timerLeft, NEW straysLeft,
         OpenSocket(timerLeft, straysLeft)
  PROVE  FreshSockets'
<1>1. CASE OpenFails(timerLeft, straysLeft)
  BY <1>1 DEF OpenFails, netVars, FreshSockets
<1>2. CASE OpenStarts(timerLeft, straysLeft)
  <2>1. /\ opened + 1 \in Sockets /\ link' = [link EXCEPT ![opened + 1] = "connecting"]
        /\ wire' = wire /\ subs' = subs
    BY <1>2 DEF OpenStarts
  <2>2. link[opened + 1] = "unused"
    BY <2>1, SocketRange DEF TypeOK
  <2> QED BY <2>1, <2>2, SocketRange, FreshStays
<1> QED BY <1>1, <1>2 DEF OpenSocket

\* Nothing is sent on a socket that is not open.
LEMMA SendKeepsFresh ==
  ASSUME TypeOK, FreshSockets, NEW a, SendAction(a), link' = link, subs' = subs
  PROVE  FreshSockets'
<1>1. \/ wire' = wire
      \/ /\ socket # 0 /\ link[socket] = "open"
         /\ wire' = [wire EXCEPT ![socket] = @ \o <<a>>]
  BY DEF SendAction, Transmit
<1>2. \A s \in Sockets : link[s] \in {"unused", "connecting"} => wire'[s] = wire[s]
  BY <1>1 DEF TypeOK
<1> QED BY <1>2, FreshStays

LEMMA StepKeepsFresh ==
  ASSUME TypeOK, FreshSockets, [Next]_vars
  PROVE  FreshSockets'
<1>1. CASE UNCHANGED vars
  BY <1>1 DEF vars, netVars, FreshSockets
<1>2. CASE Start \/ TimerFires \/ StrayFires
  <2>1. CASE UNCHANGED netVars
    BY <2>1 DEF netVars, FreshSockets
  <2>2. ASSUME NEW timerLeft, NEW straysLeft, OpenSocket(timerLeft, straysLeft)
        PROVE  FreshSockets'
    BY <2>2, OpenKeepsFresh
  <2> QED BY <1>2, <2>1, <2>2 DEF Start, TimerFires, StrayFires
<1>3. CASE Stop
  <2>1. /\ link' = IF socket = 0 THEN link ELSE [link EXCEPT ![socket] = "closing"]
        /\ wire' = wire /\ subs' = subs
    BY <1>3 DEF Stop
  <2> QED BY <2>1, SocketRange, FreshStays
<1>4. CASE Ping \/ \E ts \in SUBSET Strings : Subscribe(ts) \/ Unsubscribe(ts)
  <2>1. link' = link /\ subs' = subs /\ \E a : SendAction(a)
    BY <1>4 DEF Calls, Ping, Subscribe, Unsubscribe
  <2> QED BY <2>1, SendKeepsFresh
<1>5. ASSUME NEW s \in Sockets, OnOpen(s)
      PROVE  FreshSockets'
  <2>1. /\ link' = [link EXCEPT ![s] = "open"] /\ subs' = subs
        /\ \/ wire' = wire
           \/ /\ socket # 0 /\ link'[socket] = "open"
              /\ \E acts : wire' = [wire EXCEPT ![socket] = @ \o acts]
    BY <1>5 DEF OnOpen, Transmit
  <2>2. \A q \in Sockets : link'[q] \in {"unused", "connecting"} =>
          link[q] \in {"unused", "connecting"} /\ wire'[q] = wire[q]
    BY <2>1 DEF TypeOK
  <2> QED BY <2>1, <2>2, FreshStays
<1>6. ASSUME NEW s \in Sockets, OnMessage(s) \/ OnClose(s) \/ Breaks(s) \/ ServerReads(s)
      PROVE  FreshSockets'
  <2>1. \A q \in Sockets : link'[q] \in {"unused", "connecting"} =>
          /\ link[q] \in {"unused", "connecting"}
          /\ wire'[q] = wire[q] /\ subs'[q] = subs[q]
    BY <1>6 DEF OnMessage, OnClose, Breaks, ServerReads, TypeOK
  <2> QED BY <2>1, FreshStays
<1> QED BY <1>1, <1>2, <1>3, <1>4, <1>5, <1>6 DEF Next, Strings

-----------------------------------------------------------------------------
(* The ledger of the topics                                                *)

LEMMA LedgerParts ==
  /\ TopicLedger <=>
       (~tangled => /\ state = "open" => inflight = <<>>
                    /\ \A t \in Topics \ InitialTopics : Ledger(t))
  /\ TopicLedger' <=>
       (~tangled' => /\ state' = "open" => inflight' = <<>>
                     /\ \A t \in Topics \ InitialTopics : Ledger(t)')
BY DEF TopicLedger, Ledger

\* What HasAfter says depends on t alone, and after no action on t nothing changes.
LEMMA HasAfterSame ==
  ASSUME NEW v, NEW w, NEW s, NEW t, t \in v <=> t \in w
  PROVE  HasAfter(v, s, t) <=> HasAfter(w, s, t)
BY DEF HasAfter

LEMMA HasAfterNone == ASSUME NEW v, NEW t PROVE HasAfter(v, <<>>, t) <=> t \in v
BY DEF HasAfter

\* A step that leaves the client not open, with the queue it had, keeps the ledger.
LEMMA LeavingKeepsLedger ==
  ASSUME TopicLedger, ~tangled' => ~tangled,
         state' # "open", UNCHANGED <<active, pending, inflight>>
  PROVE  TopicLedger'
<1> SUFFICES ASSUME ~tangled, NEW t \in Topics \ InitialTopics PROVE Ledger(t)'
  BY LedgerParts
<1>1. Wanted' = Wanted
  BY DEF Wanted
<1>2. CASE state = "open"
  <2>1. inflight' = <<>>
    BY <1>2, LedgerParts
  <2> QED BY <1>1, <2>1, HasAfterNone DEF Ledger
<1>3. CASE state # "open"
  <2>1. HasAfter(Wanted, inflight, t) <=> t \in Wanted
    BY <1>3, LedgerParts DEF Ledger
  <2> QED BY <1>1, <2>1 DEF Ledger
<1> QED BY <1>2, <1>3

\* start(), stop() and the timers.
LEMMA LifecycleKeepsLedger ==
  ASSUME TypeOK, TopicLedger, Apart, Start \/ Stop \/ TimerFires \/ StrayFires
  PROVE  TopicLedger'
<1> SUFFICES ASSUME ~tangled' PROVE TopicLedger'
  BY LedgerParts
<1>1. ASSUME NEW timerLeft, NEW straysLeft, OpenSocket(timerLeft, straysLeft)
      PROVE  state' # "open"
  BY <1>1 DEF OpenSocket, OpenFails, OpenStarts, ScheduleReconnect
<1>2. ~tangled
  <2>1. CASE Start
    <3>1. tangled' = (tangled \/ timer \/ strays > 0 \/ About # {})
      BY <2>1 DEF Start
    <3> QED BY <3>1, Zenon
  <2> QED BY <2>1 DEF Stop, TimerFires, StrayFires
<1>3. ~StrayFires
  BY <1>2 DEF StrayFires, Apart, OneAbout
<1>4. state' # "open" /\ UNCHANGED <<active, pending, inflight>>
  BY <1>1, <1>3 DEF Start, Stop, TimerFires
<1> QED BY <1>2, <1>4, LeavingKeepsLedger

\* The action that a call sends concerns the topics the call changes.
LEMMA CallSettles ==
  ASSUME TypeOK, Ping \/ \E ts \in SUBSET Strings : Subscribe(ts) \/ Unsubscribe(ts)
  PROVE  \E a \in Actions :
           /\ SendAction(a)
           /\ \A t \in Topics :
                t \in Wanted' <=> IF Concerns(a, t) THEN a.action = "subscribe"
                                  ELSE t \in Wanted
<1>1. CASE Ping
  <2>1. Action("ping", {}) \in Actions /\ SendAction(Action("ping", {}))
    BY <1>1 DEF Ping, Action, Actions
  <2>2. Wanted' = Wanted
    BY <1>1 DEF Ping, Wanted
  <2> QED BY <2>1, <2>2 DEF Concerns, Action
<1>2. ASSUME NEW ts \in SUBSET Strings, Subscribe(ts)
      PROVE  \E a \in Actions :
               /\ SendAction(a)
               /\ \A t \in Topics :
                    t \in Wanted' <=> IF Concerns(a, t) THEN a.action = "subscribe"
                                      ELSE t \in Wanted
  <2> DEFINE a == Action("subscribe", Fresh(ts))
  <2>1. a \in Actions
    BY DEF Action, Actions, Fresh, Strings
  <2>2. SendAction(a) /\ Wanted' = Wanted \union Fresh(ts)
    BY <1>2 DEF Subscribe, Wanted
  <2>3. \A t : Concerns(a, t) <=> t \in Fresh(ts)
    BY DEF Concerns, Action
  <2>4. a.action = "subscribe"
    BY DEF Action
  <2> HIDE DEF a
  <2> QED BY <2>1, <2>2, <2>3, <2>4
<1>3. ASSUME NEW ts \in SUBSET Strings, Unsubscribe(ts)
      PROVE  \E a \in Actions :
               /\ SendAction(a)
               /\ \A t \in Topics :
                    t \in Wanted' <=> IF Concerns(a, t) THEN a.action = "subscribe"
                                      ELSE t \in Wanted
  <2> DEFINE drop == ts \intersect (active \union pending)
             a == Action("unsubscribe", drop)
  <2>1. a \in Actions
    BY DEF Action, Actions, Strings
  <2>2. SendAction(a) /\ Wanted' = Wanted \ drop
    BY <1>3 DEF Unsubscribe, Wanted
  <2>3. \A t : Concerns(a, t) <=> t \in drop
    BY DEF Concerns, Action
  <2>4. a.action # "subscribe"
    BY DEF Action
  <2> HIDE DEF a, drop
  <2> QED BY <2>1, <2>2, <2>3, <2>4
<1> QED BY <1>1, <1>2, <1>3

\* subscribe(), unsubscribe() and ping(): the action that changes what the client
\* wants comes last, on the wire or in the queue.
LEMMA CallsKeepLedger ==
  ASSUME TypeOK, TopicLedger, Apart,
         Ping \/ \E ts \in SUBSET Strings : Subscribe(ts) \/ Unsubscribe(ts)
  PROVE  TopicLedger'
<1>1. UNCHANGED <<state, socket, link, subs, tangled>>
  BY DEF Calls, Ping, Subscribe, Unsubscribe
<1>2. PICK a \in Actions :
        /\ SendAction(a)
        /\ \A t \in Topics :
             t \in Wanted' <=> IF Concerns(a, t) THEN a.action = "subscribe"
                               ELSE t \in Wanted
  BY CallSettles
<1> SUFFICES ASSUME ~tangled
             PROVE  /\ state' = "open" => inflight' = <<>>
                    /\ \A t \in Topics \ InitialTopics : Ledger(t)'
  BY <1>1, LedgerParts
<1>3. state = "open" => socket # 0
  BY DEF Apart, OneAbout
<1>4. inflight \in Seq(Actions) /\ wire \in [Sockets -> Seq(Actions)]
  BY DEF TypeOK
<1>5. state' = "open" => inflight' = <<>>
  BY <1>1, <1>2, <1>3, LedgerParts DEF SendAction
<1>6. ASSUME NEW t \in Topics \ InitialTopics PROVE Ledger(t)'
  <2>1. Ledger(t)
    BY LedgerParts
  <2>2. CASE state = "open" /\ link[socket] = "open"
    <3>1. socket \in Sockets /\ wire[socket] \in Seq(Actions)
      BY <1>3, <1>4, <2>2, SocketRange
    <3>2. wire' = [wire EXCEPT ![socket] = @ \o <<a>>]
      BY <1>2, <1>3, <2>2 DEF SendAction, Transmit
    <3>3. wire'[socket] = Append(wire[socket], a)
      BY <1>4, <3>1, <3>2, ActionAppended
    <3>4. HasAfter(subs[socket], wire'[socket], t) <=> t \in Wanted'
      BY <1>2, <2>1, <2>2, <3>1, <3>3, HasAfterAppend DEF Ledger
    <3> QED BY <1>1, <2>2, <3>4 DEF Ledger
  <2>3. CASE state = "open" /\ link[socket] # "open"
    BY <1>1, <2>3 DEF Ledger
  <2>4. CASE state # "open"
    <3>1. inflight' = Append(inflight, a)
      BY <1>2, <2>4 DEF SendAction
    <3>2. HasAfter(Wanted', inflight', t) <=>
            IF Concerns(a, t) THEN a.action = "subscribe" ELSE HasAfter(Wanted', inflight, t)
      BY <1>4, <3>1, HasAfterAppend
    <3>3. ~Concerns(a, t) => (HasAfter(Wanted', inflight, t) <=> HasAfter(Wanted, inflight, t))
      BY <1>2, HasAfterSame
    <3>4. HasAfter(Wanted, inflight, t) <=> t \in Wanted
      BY <2>1, <2>4 DEF Ledger
    <3>5. HasAfter(Wanted', inflight', t) <=> t \in Wanted'
      BY <1>2, <3>2, <3>3, <3>4
    <3> QED BY <1>1, <2>4, <3>5 DEF Ledger
  <2> QED BY <2>2, <2>3, <2>4
<1> QED BY <1>5, <1>6

\* The open event: the topics that are sent again, and then the queue, leave the
\* server with what the queue on top of those topics left.
LEMMA OnOpenKeepsLedger ==
  ASSUME TypeOK, TopicLedger, FreshSockets, Apart, NEW s \in Sockets, OnOpen(s)
  PROVE  TopicLedger'
<1> DEFINE resend == SetToSeq({Action("subscribe", {t}) : t \in ToSend})
<1>1. /\ resend \in Seq(Actions)
      /\ \A t \in Topics : HasAfter({}, resend, t) <=> t \in ToSend
  BY ToSendType, ResendSubscribes
<1>2. /\ link[s] = "connecting" /\ link' = [link EXCEPT ![s] = "open"]
      /\ state' = "open" /\ pending' = {} /\ active' = ToSend
      /\ UNCHANGED <<socket, subs, tangled>>
      /\ IF socket = 0 THEN inflight' = inflight \o resend /\ UNCHANGED wire
         ELSE /\ inflight' = <<>>
              /\ link'[socket] = "open" =>
                   wire' = [wire EXCEPT ![socket] = @ \o (resend \o inflight)]
  BY DEF OnOpen, Transmit, boundVars
<1> HIDE DEF resend
<1> SUFFICES ASSUME ~tangled
             PROVE  inflight' = <<>> /\ \A t \in Topics \ InitialTopics : Ledger(t)'
  BY <1>2, LedgerParts
<1>3. OneAbout /\ s \in Live
  BY <1>2 DEF Apart, Live
<1>4. s = socket /\ state # "open" /\ socket # 0
  BY <1>2, <1>3, SocketRange DEF OneAbout
<1>5. wire[s] = <<>> /\ subs[s] = {}
  BY <1>2 DEF FreshSockets
<1>6. inflight \in Seq(Actions) /\ wire \in [Sockets -> Seq(Actions)] /\ DOMAIN link = Sockets
  BY SocketRange DEF TypeOK
<1>7. inflight' = <<>> /\ wire'[s] = <<>> \o (resend \o inflight)
  BY <1>2, <1>4, <1>5, <1>6
<1>8. resend \o inflight \in Seq(Actions)
  BY <1>1, <1>6, ConcatProperties
<1>9. wire'[s] = resend \o inflight
  BY <1>7, <1>8
<1>10. ASSUME NEW t \in Topics \ InitialTopics PROVE Ledger(t)'
  <2>1. HasAfter(Wanted, inflight, t) <=> t \in Wanted
    BY <1>4, LedgerParts DEF Ledger
  <2>2. (t \in ToSend <=> t \in Wanted) /\ Wanted' = ToSend
    BY <1>2 DEF ToSend, Wanted
  <2>3. HasAfter({}, resend \o inflight, t) <=> HasAfter(Wanted, inflight, t)
    <3>1. t \in Wanted <=> HasAfter({}, resend, t)
      BY <1>1, <2>2
    <3> QED BY <1>1, <1>6, <3>1, HasAfterConcat
  <2>4. HasAfter(subs'[s], wire'[s], t) <=> t \in Wanted'
    BY <1>2, <1>5, <1>9, <2>1, <2>2, <2>3
  <2> QED BY <1>2, <1>4, <2>4 DEF Ledger
<1> QED BY <1>7, <1>10

\* The server reads from the client's socket: there is no other.
LEMMA ServerReadsKeepsLedger ==
  ASSUME TypeOK, TopicLedger, Apart, NEW s \in Sockets, ServerReads(s)
  PROVE  TopicLedger'
<1>1. /\ link[s] = "open" /\ wire[s] # <<>>
      /\ wire' = [wire EXCEPT ![s] = Tail(@)]
      /\ subs' = [subs EXCEPT ![s] = AfterAction(@, Head(wire[s]))]
      /\ UNCHANGED <<state, socket, active, pending, inflight, link, tangled>>
  BY DEF ServerReads, clientVars, boundVars
<1> SUFFICES ASSUME ~tangled
             PROVE  \A t \in Topics \ InitialTopics : Ledger(t)'
  BY <1>1, LedgerParts
<1>2. s = socket /\ state = "open"
  BY <1>1 DEF Apart, OneAbout, Live
<1>3. wire[s] \in Seq(Actions) /\ wire'[s] = Tail(wire[s])
      /\ subs'[s] = AfterAction(subs[s], Head(wire[s]))
  BY <1>1 DEF TypeOK
<1>4. ASSUME NEW t \in Topics \ InitialTopics PROVE Ledger(t)'
  <2>1. HasAfter(subs[s], wire[s], t) <=> t \in Wanted
    BY <1>1, <1>2, LedgerParts DEF Ledger
  <2>2. HasAfter(subs'[s], wire'[s], t) <=> t \in Wanted
    BY <1>1, <1>3, <2>1, HasAfterTail
  <2> QED BY <1>1, <1>2, <2>2 DEF Ledger, Wanted
<1> QED BY <1>4

LEMMA StepKeepsLedger ==
  ASSUME TypeOK, TopicLedger, FreshSockets, Apart, [Next]_vars
  PROVE  TopicLedger'
<1>1. CASE UNCHANGED vars
  BY <1>1 DEF vars, clientVars, netVars, boundVars, TopicLedger, Wanted
<1>2. CASE Start \/ Stop \/ TimerFires \/ StrayFires
  BY <1>2, LifecycleKeepsLedger
<1>3. CASE Ping \/ \E ts \in SUBSET Strings : Subscribe(ts) \/ Unsubscribe(ts)
  BY <1>3, CallsKeepLedger
<1>4. ASSUME NEW s \in Sockets, OnOpen(s) \/ ServerReads(s) PROVE TopicLedger'
  BY <1>4, OnOpenKeepsLedger, ServerReadsKeepsLedger
<1>5. ASSUME NEW s \in Sockets, OnMessage(s) PROVE TopicLedger'
  <2>1. down[s] \in Seq(Message) /\ down[s] # <<>>
    BY <1>5 DEF TypeOK, OnMessage
  <2>2. Head(down[s]).type # "ack"
    <3>1. Head(down[s]) \in Message
      BY <2>1, HeadTailProperties
    <3> QED BY <3>1 DEF Message, Types
  <2>3. UNCHANGED <<active, pending, state, socket, inflight, link, wire, subs, tangled>>
    BY <1>5, <2>2 DEF OnMessage, boundVars
  <2> QED BY <2>3 DEF TopicLedger, Wanted
<1>6. ASSUME NEW s \in Sockets, OnClose(s) PROVE TopicLedger'
  <2>1. state' # "open"
    BY <1>6 DEF OnClose, ScheduleReconnect
  <2> QED BY <1>6, <2>1, LeavingKeepsLedger DEF OnClose, boundVars
<1>7. ASSUME NEW s \in Sockets, Breaks(s) PROVE TopicLedger'
  <2>1. /\ link' = [link EXCEPT ![s] = "closing"]
        /\ UNCHANGED <<active, pending, state, socket, inflight, wire, subs, tangled>>
    BY <1>7 DEF Breaks, clientVars
  <2>2. Wanted' = Wanted
    BY <2>1 DEF Wanted
  <2>3. ASSUME NEW t \in Topics \ InitialTopics, Ledger(t) PROVE Ledger(t)'
    <3>1. link'[socket] = "open" => link[socket] = "open"
      BY <2>1 DEF TypeOK
    <3> QED BY <2>1, <2>2, <2>3, <3>1 DEF Ledger
  <2> QED BY <2>1, <2>3, LedgerParts
<1> QED BY <1>1, <1>2, <1>3, <1>4, <1>5, <1>6, <1>7 DEF Next, Strings

-----------------------------------------------------------------------------
(* The theorems                                                            *)

LEMMA InitClient == ASSUME Init PROVE ClientInv
<1>1. TypeOK
  <2>1. FieldsOK /\ TimersOK
    <3>1. <<>> \in Seq(Actions) /\ {} \intersect {} = {}
      OBVIOUS
    <3> QED BY <3>1 DEF Init, FieldsOK, TimersOK, States
  <2>2. SocketsOK
    BY ClientAssumption DEF Init, SocketsOK, Links, MaxSockets, Sockets
  <2>3. NetOK
    <3>1. <<>> \in Seq(Actions) /\ <<>> \in Seq(Message) /\ {} \in SUBSET Topics
      OBVIOUS
    <3> QED BY <3>1 DEF Init, NetOK
  <2>4. CountsOK
    BY ClientAssumption DEF Init, CountsOK
  <2> QED BY <2>1, <2>2, <2>3, <2>4, TypeParts
<1>2. StoppedHasNoTimer /\ FreshSockets
  BY DEF Init, StoppedHasNoTimer, FreshSockets
<1>3. Apart
  BY DEF Init, Apart, OneAbout, About, Live
<1>4. TopicLedger
  BY HasAfterNone DEF Init, TopicLedger, Wanted
<1> QED BY <1>1, <1>2, <1>3, <1>4 DEF ClientInv

LEMMA ClientInvariant == Spec => []ClientInv
<1>1. ClientInv /\ [Next]_vars => ClientInv'
  BY StepKeepsTypes, StepKeepsNoTimer, StepKeepsFresh, StepKeepsApart, StepKeepsLedger
     DEF ClientInv
<1> QED BY InitClient, <1>1, PTL DEF Spec

\* Every variable of the client, the browser and the server holds a value of its
\* kind, and no topic is both active and pending (wsClient.ts:74-92).
THEOREM ClientTypes == Spec => []TypeOK
<1>1. ClientInv => TypeOK
  BY DEF ClientInv
<1> QED BY ClientInvariant, <1>1, PTL

\* Drops, failures to connect, timers and stop() never give the client a second
\* socket, and none that may deliver after stop(), as long as start() is only
\* called with neither a socket nor a timer about (wsClient.ts:119-141, 242-261).
THEOREM OneSocketAtATime == Spec => []SocketsApart
<1>1. ClientInv => SocketsApart
  <2> SUFFICES ASSUME TypeOK, StoppedHasNoTimer, OneAbout
               PROVE  OneSocket /\ (stopped => ~timer /\ strays = 0 /\ Live = {})
    BY DEF ClientInv, Apart, SocketsApart
  <2>1. Live \subseteq {socket}
    BY DEF OneAbout
  <2>2. IsFiniteSet({socket}) /\ Cardinality({socket}) = 1
    BY FS_Singleton
  <2>3. IsFiniteSet(Live) /\ Cardinality(Live) <= 1
    BY <2>1, <2>2, FS_Subset
  <2>4. stopped => ~timer /\ strays = 0 /\ Live = {}
    BY DEF OneAbout, StoppedHasNoTimer
  <2> QED BY <2>3, <2>4 DEF OneSocket
<1> QED BY ClientInvariant, <1>1, PTL

\* The topics of the server, or of the queue, are those the client wants, through
\* drops, calls while the socket is down and the replay that follows it
\* (wsClient.ts:143-163, 193-207).
THEOREM TopicsAgree == Spec => []TopicLedger
<1>1. ClientInv => TopicLedger
  BY DEF ClientInv
<1> QED BY ClientInvariant, <1>1, PTL

\* No step of a client that is and stays stopped opens a socket: reconnectTimer
\* is cleared, and a timer left behind by a second start() sees `stopped'
\* (wsClient.ts:129-141, 255-261).
THEOREM StoppedStaysShut == Spec => StoppedOpensNothing
<1>1. ClientInv /\ [Next]_vars => (stopped /\ stopped' => opened' = opened)
  <2> SUFFICES ASSUME StoppedHasNoTimer, [Next]_vars, stopped, stopped'
               PROVE  opened' = opened
    BY DEF ClientInv
  <2>1. CASE Stop \/ Ping \/ StrayFires \/ UNCHANGED vars
    BY <2>1 DEF Stop, Ping, Calls, StrayFires, vars, netVars
  <2>2. ~Start /\ ~TimerFires
    BY DEF Start, TimerFires, StoppedHasNoTimer
  <2>3. ASSUME NEW ts, Subscribe(ts) \/ Unsubscribe(ts) PROVE opened' = opened
    BY <2>3 DEF Subscribe, Unsubscribe, Calls
  <2>4. ASSUME NEW s, OnOpen(s) \/ OnMessage(s) \/ OnClose(s) \/ Breaks(s) \/ ServerReads(s)
        PROVE  opened' = opened
    BY <2>4 DEF OnOpen, OnMessage, OnClose, Breaks, ServerReads
  <2> QED BY <2>1, <2>2, <2>3, <2>4 DEF Next
<1> QED BY ClientInvariant, <1>1, PTL DEF Spec, StoppedOpensNothing
=============================================================================
