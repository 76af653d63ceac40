--------------------------- MODULE LossyFeedProofs ---------------------------
(***************************************************************************)
(* The invariants of LossyFeed hold in every one of its behaviours.        *)
(***************************************************************************)
EXTENDS LossyFeed, SequenceTheorems, TLAPS

-----------------------------------------------------------------------------
(* Facts about sequences of messages                                       *)

\* What Append does to a sequence of messages.
LEMMA AppendFacts ==
  ASSUME NEW s \in Seq(Message), NEW m \in Message
  PROVE  /\ Append(s, m) \in Seq(Message)
         /\ Len(Append(s, m)) = Len(s) + 1
         /\ \A i \in 1 .. Len(s) : Append(s, m)[i] = s[i]
         /\ Append(s, m)[Len(s) + 1] = m
         /\ s \o <<m>> = Append(s, m)
         /\ SubSeq(Append(s, m), 1, Len(s)) = s
  OBVIOUS

\* An appended acknowledgement has the last word on its topics; any other
\* message changes nothing.
LEMMA BelievesAppend ==
  ASSUME NEW v, NEW s \in Seq(Message), NEW m \in Message, NEW t
  PROVE  Believes(v, Append(s, m), t) <=>
           IF Mentions(m, t) THEN m.type = "subscribed" ELSE Believes(v, s, t)
  BY AppendFacts DEF Believes

\* Reading a message settles the topics it mentions.
LEMMA ReadingFacts ==
  ASSUME NEW v, NEW m \in Message, NEW t
  PROVE  t \in AfterReading(v, m) <=>
           IF Mentions(m, t) THEN m.type = "subscribed" ELSE t \in v
  BY DEF AfterReading, Mentions, IsAck

\* Reading the first message moves it from what is owed to what is known.
LEMMA BelievesTail ==
  ASSUME NEW v, NEW s \in Seq(Message), s # <<>>, NEW t
  PROVE  Believes(AfterReading(v, Head(s)), Tail(s), t) <=> Believes(v, s, t)
<1> DEFINE m == s[1]
           w == AfterReading(v, m)
<1>1. /\ Head(s) = m /\ m \in Message
      /\ Len(s) \in Nat \ {0} /\ Len(Tail(s)) = Len(s) - 1
      /\ \A i \in 1 .. Len(s) - 1 : Tail(s)[i] = s[i + 1]
  OBVIOUS
<1>2. t \in w <=> IF Mentions(m, t) THEN m.type = "subscribed" ELSE t \in v
  BY <1>1, ReadingFacts
<1> HIDE DEF m, w
<1>3. m = s[1]
  BY DEF m
<1>4. ASSUME Believes(w, Tail(s), t) PROVE Believes(v, s, t)
  <2>1. CASE \E i \in 1 .. Len(s) - 1 :
               /\ Mentions(s[i + 1], t) /\ s[i + 1].type = "subscribed"
               /\ \A j \in i + 1 .. Len(s) - 1 : ~Mentions(s[j + 1], t)
    <3>1. PICK i \in 1 .. Len(s) - 1 :
               /\ Mentions(s[i + 1], t) /\ s[i + 1].type = "subscribed"
               /\ \A j \in i + 1 .. Len(s) - 1 : ~Mentions(s[j + 1], t)
      BY <2>1
    <3>2. \A j \in i + 2 .. Len(s) : ~Mentions(s[j], t)
      <4> TAKE j \in i + 2 .. Len(s)
      <4>1. j - 1 \in i + 1 .. Len(s) - 1 /\ (j - 1) + 1 = j
        BY <1>1
      <4> QED BY <4>1, <3>1
    <3> QED BY <3>1, <3>2, <1>1 DEF Believes
  <2>2. CASE t \in w /\ \A i \in 1 .. Len(s) - 1 : ~Mentions(s[i + 1], t)
    <3>1. \A j \in 2 .. Len(s) : ~Mentions(s[j], t)
      <4> TAKE j \in 2 .. Len(s)
      <4>1. j - 1 \in 1 .. Len(s) - 1 /\ (j - 1) + 1 = j
        BY <1>1
      <4> QED BY <4>1, <2>2
    <3> QED BY <3>1, <2>2, <1>1, <1>2, <1>3 DEF Believes
  <2> QED BY <2>1, <2>2, <1>4, <1>1 DEF Believes
<1>5. ASSUME Believes(v, s, t) PROVE Believes(w, Tail(s), t)
  <2>1. ASSUME NEW i \in 1 .. Len(s), Mentions(s[i], t), s[i].type = "subscribed",
               \A j \in i + 1 .. Len(s) : ~Mentions(s[j], t)
        PROVE  Believes(w, Tail(s), t)
    <3>1. \A j \in i .. Len(s) - 1 : ~Mentions(Tail(s)[j], t)
      BY <2>1, <1>1
    <3>2. CASE i = 1
      BY <3>1, <3>2, <2>1, <1>1, <1>2, <1>3 DEF Believes
    <3>3. CASE i # 1
      <4>1. i - 1 \in 1 .. Len(s) - 1 /\ Tail(s)[i - 1] = s[i]
        BY <3>3, <1>1
      <4>2. \A j \in (i - 1) + 1 .. Len(Tail(s)) : ~Mentions(Tail(s)[j], t)
        BY <3>1, <1>1
      <4>3. \E k \in 1 .. Len(Tail(s)) :
              /\ Mentions(Tail(s)[k], t) /\ Tail(s)[k].type = "subscribed"
              /\ \A j \in k + 1 .. Len(Tail(s)) : ~Mentions(Tail(s)[j], t)
        <5>1. i - 1 \in 1 .. Len(Tail(s))
          BY <4>1, <1>1
        <5> QED BY <5>1, <4>1, <4>2, <2>1
      <4> QED BY <4>3 DEF Believes
    <3> QED BY <3>2, <3>3
  <2>2. CASE t \in v /\ \A i \in 1 .. Len(s) : ~Mentions(s[i], t)
    <3>1. \A i \in 1 .. Len(s) - 1 : ~Mentions(Tail(s)[i], t)
      BY <2>2, <1>1
    <3> QED BY <3>1, <2>2, <1>1, <1>2, <1>3 DEF Believes
  <2> QED BY <2>1, <2>2, <1>5 DEF Believes
<1> QED BY <1>1, <1>4, <1>5 DEF m, w

\* What is owed with the answer behind it is what is owed, or that and one more.
LEMMA WithAnswer ==
  ASSUME NEW s \in Seq(Message), NEW a \in {<<>>} \union {<<m>> : m \in Message}
  PROVE  /\ s \o a \in Seq(Message)
         /\ a = <<>> => s \o a = s
         /\ \A m \in Message : a = <<m>> => s \o a = Append(s, m)
<1>1. CASE a = <<>>
  <2>1. s \o a = s
    BY <1>1, ConcatEmptySeq
  <2> QED BY <2>1, <1>1
<1>2. ASSUME NEW m \in Message, a = <<m>>
      PROVE  s \o a = Append(s, m) /\ Append(s, m) \in Seq(Message)
  BY <1>2, AppendFacts
<1> QED BY <1>1, <1>2

\* Messages appended to what is owed do not uncover a message.
LEMMA CoveredAppend ==
  ASSUME NEW v, NEW s \in Seq(Message), NEW m \in Message,
         NEW i \in 1 .. Len(s), CoveredAt(v, s, i)
  PROVE  CoveredAt(v, Append(s, m), i)
<1> DEFINE r == Append(s, m)
<1>1. /\ Len(r) = Len(s) + 1 /\ Len(s) \in Nat
      /\ \A k \in 1 .. Len(s) : r[k] = s[k]
      /\ SubSeq(r, 1, i - 1) = SubSeq(s, 1, i - 1)
  OBVIOUS
<1> HIDE DEF r
<1>2. ASSUME NEW t \in s[i].topics, NEW j \in i + 1 .. Len(s),
             Mentions(s[j], t), s[j].type = "subscribed",
             \A k \in i + 1 .. j - 1 : ~Mentions(s[k], t)
      PROVE  \E n \in i + 1 .. Len(r) :
               /\ Mentions(r[n], t) /\ r[n].type = "subscribed"
               /\ \A k \in i + 1 .. n - 1 : ~Mentions(r[k], t)
  <2>1. j \in i + 1 .. Len(r) /\ Mentions(r[j], t) /\ r[j].type = "subscribed"
    BY <1>1, <1>2
  <2>2. ASSUME NEW k \in i + 1 .. j - 1
        PROVE  ~Mentions(r[k], t)
    <3>1. k \in 1 .. Len(s) /\ r[k] = s[k]
      BY <1>1
    <3> QED BY <3>1, <1>2
  <2> QED BY <2>1, <2>2
<1>3. CoveredAt(v, r, i)
  BY <1>1, <1>2 DEF CoveredAt
<1> QED BY <1>3 DEF r

\* A message about topics the client will have last heard it has is covered at
\* the end.
LEMMA CoveredNew ==
  ASSUME NEW v, NEW s \in Seq(Message), NEW m \in Message,
         \A t \in m.topics : Believes(v, s, t)
  PROVE  CoveredAt(v, Append(s, m), Len(s) + 1)
<1>1. /\ Append(s, m)[Len(s) + 1] = m
      /\ SubSeq(Append(s, m), 1, (Len(s) + 1) - 1) = s
  OBVIOUS
<1> QED BY <1>1 DEF CoveredAt

\* Reading the first message uncovers none of the others.
LEMMA CoveredTail ==
  ASSUME NEW v, NEW s \in Seq(Message), NEW i \in 2 .. Len(s), CoveredAt(v, s, i)
  PROVE  CoveredAt(AfterReading(v, Head(s)), Tail(s), i - 1)
<1> DEFINE r == Tail(s)
           p == SubSeq(s, 1, i - 1)
           w == AfterReading(v, Head(s))
<1>1. /\ r \in Seq(Message) /\ Len(s) \in Nat /\ Len(r) = Len(s) - 1
      /\ \A k \in 1 .. Len(s) - 1 : r[k] = s[k + 1]
      /\ s # <<>>
  OBVIOUS
<1>2. /\ p \in Seq(Message) /\ p # <<>> /\ Head(p) = Head(s)
      /\ Tail(p) = SubSeq(r, 1, (i - 1) - 1)
  OBVIOUS
<1>3. ASSUME NEW t
      PROVE  Believes(v, p, t) <=> Believes(w, SubSeq(r, 1, (i - 1) - 1), t)
  <2> HIDE DEF p, r, w
  <2>1. Believes(AfterReading(v, Head(p)), Tail(p), t) <=> Believes(v, p, t)
    BY <1>2, BelievesTail
  <2>2. AfterReading(v, Head(p)) = w
    BY <1>2 DEF w
  <2> QED BY <2>1, <2>2, <1>2
<1> HIDE DEF r, p, w
<1>4. ASSUME NEW t \in s[i].topics, NEW j \in i + 1 .. Len(s),
             Mentions(s[j], t), s[j].type = "subscribed",
             \A k \in i + 1 .. j - 1 : ~Mentions(s[k], t)
      PROVE  \E n \in (i - 1) + 1 .. Len(r) :
               /\ Mentions(r[n], t) /\ r[n].type = "subscribed"
               /\ \A k \in (i - 1) + 1 .. n - 1 : ~Mentions(r[k], t)
  <2>1. /\ j - 1 \in (i - 1) + 1 .. Len(r)
        /\ Mentions(r[j - 1], t) /\ r[j - 1].type = "subscribed"
    BY <1>1, <1>4
  <2>2. ASSUME NEW k \in (i - 1) + 1 .. (j - 1) - 1
        PROVE  ~Mentions(r[k], t)
    <3>1. k + 1 \in i + 1 .. j - 1 /\ r[k] = s[k + 1]
      BY <1>1
    <3> QED BY <3>1, <1>4
  <2> QED BY <2>1, <2>2
<1>5. r[i - 1] = s[i]
  BY <1>1
<1>6. CoveredAt(v, s, i) => CoveredAt(w, r, i - 1)
  BY <1>3, <1>4, <1>5 DEF CoveredAt, p
<1> QED BY <1>6 DEF r, w

\* A message put before the answer, and not itself an acknowledgement, leaves
\* the last word on every topic to those that had it, uncovers nothing, and is
\* covered itself if the client will have its topics in the end.
LEMMA OfferFacts ==
  ASSUME NEW v, NEW s \in Seq(Message), NEW m \in Message, ~IsAck(m),
         NEW a \in {<<>>} \union {<<b>> : b \in Message}
  PROVE  /\ \A t : Believes(v, Append(s, m) \o a, t) <=> Believes(v, s \o a, t)
         /\ \A i \in 1 .. Len(s) :
              CoveredAt(v, s \o a, i) => CoveredAt(v, Append(s, m) \o a, i)
         /\ (\A t \in m.topics : Believes(v, s \o a, t)) =>
              CoveredAt(v, Append(s, m) \o a, Len(s) + 1)
<1> DEFINE r == Append(s, m)
<1>1. r \in Seq(Message) /\ Len(r) = Len(s) + 1
  BY AppendFacts
<1>2. \A t : ~Mentions(m, t)
  BY DEF Mentions
<1>3. CASE a = <<>>
  <2>1. r \o a = r /\ s \o a = s
    BY <1>3, <1>1, WithAnswer
  <2> QED BY <2>1, <1>2, BelievesAppend, CoveredAppend, CoveredNew
<1>4. ASSUME NEW b \in Message, a = <<b>> PROVE
         /\ \A t : Believes(v, r \o a, t) <=> Believes(v, s \o a, t)
         /\ \A i \in 1 .. Len(s) :
              CoveredAt(v, s \o a, i) => CoveredAt(v, r \o a, i)
         /\ (\A t \in m.topics : Believes(v, s \o a, t)) =>
              CoveredAt(v, r \o a, Len(s) + 1)
  <2> DEFINE q == Append(s, b)
             z == Append(r, b)
  <2>1. s \o a = q /\ r \o a = z
    BY <1>1, <1>4, WithAnswer
  <2>2. \A t : Believes(v, z, t) <=> Believes(v, q, t)
    BY <1>1, <1>2, BelievesAppend
  <2>3. /\ Len(q) = Len(s) + 1 /\ Len(z) = Len(s) + 2 /\ Len(s) \in Nat
        /\ \A k \in 1 .. Len(s) : q[k] = s[k] /\ z[k] = s[k]
        /\ z[Len(s) + 1] = m /\ z[Len(s) + 2] = b /\ q[Len(s) + 1] = b
    OBVIOUS
  <2>4. ASSUME NEW i \in 1 .. Len(s)
        PROVE  SubSeq(q, 1, i - 1) = SubSeq(s, 1, i - 1)
               /\ SubSeq(z, 1, i - 1) = SubSeq(s, 1, i - 1)
    OBVIOUS
  <2>5. SubSeq(z, 1, (Len(s) + 1) - 1) = s
    OBVIOUS
  <2> HIDE DEF q, z
  <2>6. ASSUME NEW i \in 1 .. Len(s), CoveredAt(v, q, i)
        PROVE  CoveredAt(v, z, i)
    <3>1. ASSUME NEW t \in s[i].topics, NEW j \in i + 1 .. Len(q),
                 Mentions(q[j], t), q[j].type = "subscribed",
                 \A k \in i + 1 .. j - 1 : ~Mentions(q[k], t)
          PROVE  \E n \in i + 1 .. Len(z) :
                   /\ Mentions(z[n], t) /\ z[n].type = "subscribed"
                   /\ \A k \in i + 1 .. n - 1 : ~Mentions(z[k], t)
      <4>1. CASE j <= Len(s)
        <5>1. /\ j \in i + 1 .. Len(z) /\ Mentions(z[j], t)
              /\ z[j].type = "subscribed"
          BY <4>1, <3>1, <2>3
        <5>2. ASSUME NEW k \in i + 1 .. j - 1 PROVE ~Mentions(z[k], t)
          <6>1. k \in 1 .. Len(s) /\ z[k] = q[k]
            BY <4>1, <2>3
          <6> QED BY <6>1, <3>1
        <5> QED BY <5>1, <5>2
      <4>2. CASE j = Len(s) + 1
        <5>1. /\ Len(s) + 2 \in i + 1 .. Len(z) /\ Mentions(z[Len(s) + 2], t)
              /\ z[Len(s) + 2].type = "subscribed"
          BY <4>2, <3>1, <2>3
        <5>2. ASSUME NEW k \in i + 1 .. (Len(s) + 2) - 1
              PROVE  ~Mentions(z[k], t)
          <6>1. CASE k = Len(s) + 1
            BY <6>1, <2>3, <1>2
          <6>2. CASE k # Len(s) + 1
            <7>1. k \in 1 .. Len(s) /\ z[k] = q[k] /\ k \in i + 1 .. j - 1
              BY <6>2, <4>2, <2>3
            <7> QED BY <7>1, <3>1
          <6> QED BY <6>1, <6>2
        <5> QED BY <5>1, <5>2
      <4> QED BY <4>1, <4>2, <2>3
    <3>2. q[i] = s[i] /\ z[i] = s[i]
      BY <2>3
    <3> QED BY <3>1, <3>2, <2>4, <2>6 DEF CoveredAt
  <2>7. ASSUME \A t \in m.topics : Believes(v, q, t)
        PROVE  CoveredAt(v, z, Len(s) + 1)
    <3>1. ASSUME NEW t \in m.topics, ~Believes(v, s, t)
          PROVE  \E n \in (Len(s) + 1) + 1 .. Len(z) :
                   /\ Mentions(z[n], t) /\ z[n].type = "subscribed"
                   /\ \A k \in (Len(s) + 1) + 1 .. n - 1 : ~Mentions(z[k], t)
      <4>1. Mentions(b, t) /\ b.type = "subscribed"
        BY <3>1, <2>7, BelievesAppend DEF q
      <4>2. /\ Len(s) + 2 \in (Len(s) + 1) + 1 .. Len(z)
            /\ Mentions(z[Len(s) + 2], t) /\ z[Len(s) + 2].type = "subscribed"
            /\ (Len(s) + 1) + 1 .. (Len(s) + 2) - 1 = {}
        BY <4>1, <2>3
      <4> QED BY <4>2
    <3> QED BY <3>1, <2>3, <2>5 DEF CoveredAt
  <2> QED BY <2>1, <2>2, <2>6, <2>7
<1> QED BY <1>3, <1>4

-----------------------------------------------------------------------------
(* What one step does to one line                                          *)

SameReader(c) ==
  told'[c] = told[c] /\ last'[c] = last[c] /\ heard'[c] = heard[c]

Rests(c) ==
  /\ line'[c] = line[c] /\ subs'[c] = subs[c] /\ owed'[c] = owed[c]
  /\ answer'[c] = answer[c] /\ SameReader(c)

Opens(c) ==
  /\ line[c] = "new" /\ line'[c] = "open" /\ subs'[c] = subs[c]
  /\ owed'[c] = <<Welcome>> /\ answer'[c] = answer[c] /\ SameReader(c)

Shuts(c) ==
  /\ line'[c] = "shut" /\ subs'[c] = {} /\ owed'[c] = <<>> /\ answer'[c] = <<>>
  /\ told'[c] = {} /\ last'[c] = 0 /\ heard'[c] = FALSE

Answers(c) ==
  /\ line[c] = "open" /\ line'[c] = "open" /\ answer[c] = <<>> /\ SameReader(c)
  /\ \E m \in Message :
       /\ m.type \notin {"event", "stop"}
       /\ subs'[c] \subseteq Topics
       /\ \A t \in Topics : t \in subs'[c] <=>
            IF Mentions(m, t) THEN m.type = "subscribed" ELSE t \in subs[c]
       /\ \/ owed'[c] = Append(owed[c], m) /\ answer'[c] = <<>>
          \/ owed'[c] = owed[c] /\ answer'[c] = <<m>>

Settles(c) ==
  /\ line[c] = "open" /\ line'[c] = "open" /\ subs'[c] = subs[c]
  /\ owed'[c] = owed[c] \o answer[c] /\ answer'[c] = <<>> /\ SameReader(c)

Offers(c) ==
  /\ line[c] = "open" /\ line'[c] = "open" /\ subs'[c] = subs[c]
  /\ answer'[c] = answer[c] /\ SameReader(c)
  /\ \E m \in Message :
       /\ ~IsAck(m) /\ owed'[c] = Append(owed[c], m)
       /\ m.type = "event" =>
            m.topics \subseteq subs[c] /\ m.seq = count + 1 /\ count' = count + 1

Reads(c) ==
  /\ line[c] = "open" /\ line'[c] = "open" /\ subs'[c] = subs[c]
  /\ answer'[c] = answer[c] /\ owed[c] # <<>> /\ owed'[c] = Tail(owed[c])
  /\ told'[c] = AfterReading(told[c], Head(owed[c]))
  /\ last'[c] = (IF Head(owed[c]).type = "event" THEN Head(owed[c]).seq ELSE last[c])
  /\ heard'[c] = TRUE

LineStep(c) ==
  \/ Rests(c) \/ Opens(c) \/ Shuts(c) \/ Answers(c) \/ Settles(c)
  \/ Offers(c) \/ Reads(c)

\* Every envelope the constructors build is a message.
LEMMA Constructors ==
  /\ \A type \in Types : Plain(type) \in Message
  /\ \A type \in Types \ {"subscribed", "unsubscribed"} : ~IsAck(Plain(type))
  /\ \A ts \in SUBSET Topics : Subscribed(ts) \in Message /\ Unsubscribed(ts) \in Message
  /\ \A t \in Topics, n \in Nat : Event(t, n) \in Message /\ ~IsAck(Event(t, n))
<1>1. ASSUME NEW type \in Types
      PROVE  Plain(type) \in Message
  BY DEF Plain, Message
<1>2. ASSUME NEW type \in Types \ {"subscribed", "unsubscribed"}
      PROVE  ~IsAck(Plain(type))
  BY DEF Plain, IsAck
<1>3. ASSUME NEW ts \in SUBSET Topics
      PROVE  Subscribed(ts) \in Message /\ Unsubscribed(ts) \in Message
  BY DEF Subscribed, Unsubscribed, Message, Types
<1>4. ASSUME NEW t \in Topics, NEW n \in Nat
      PROVE  Event(t, n) \in Message /\ ~IsAck(Event(t, n))
  BY DEF Event, Message, Types, IsAck
<1> QED BY <1>1, <1>2, <1>3, <1>4

\* A step of the feed does one of these things to each line, and the count
\* grows by at most one.
LEMMA OneLine ==
  ASSUME FeedTypeOK, [FeedNext]_feedVars
  PROVE  /\ \A c \in Conns : LineStep(c)
         /\ count' \in {count, count + 1}
<1> USE DEF FeedTypeOK, LineStep, SameReader
<1>1. ASSUME NEW d \in Conns, OpenLine(d)
      PROVE  (\A c \in Conns : Rests(c) \/ Opens(c)) /\ count' = count
  BY <1>1 DEF OpenLine, Rests, Opens
<1>2. ASSUME NEW d \in Conns, ShutLine(d)
      PROVE  (\A c \in Conns : Rests(c) \/ Shuts(c)) /\ count' = count
  BY <1>2 DEF ShutLine, Rests, Shuts
<1>3. ASSUME NEW d \in Conns, Settle(d)
      PROVE  (\A c \in Conns : Rests(c) \/ Settles(c)) /\ count' = count
  BY <1>3 DEF Settle, Rests, Settles
<1>4. ASSUME NEW d \in Conns, Deliver(d)
      PROVE  (\A c \in Conns : Rests(c) \/ Reads(c)) /\ count' = count
  BY <1>4 DEF Deliver, Rests, Reads
<1>5. ASSUME NEW d \in Conns, NEW m \in Message, Give(d, m),
             m.type \notin {"event", "stop"},
             subs' \in [Conns -> SUBSET Topics],
             \A c \in Conns \ {d} : subs'[c] = subs[c],
             \A t \in Topics : t \in subs'[d] <=>
               IF Mentions(m, t) THEN m.type = "subscribed" ELSE t \in subs[d]
      PROVE  (\A c \in Conns : Rests(c) \/ Answers(c)) /\ count' = count
  <2> SUFFICES ASSUME NEW c \in Conns PROVE Rests(c) \/ Answers(c)
    BY <1>5 DEF Give
  <2>1. CASE c # d
    BY <2>1, <1>5 DEF Give, Rests
  <2>2. CASE c = d
    BY <2>2, <1>5 DEF Give, Answers
  <2> QED BY <2>1, <2>2
<1>6. ASSUME NEW d \in Conns, NEW ts \in SUBSET Topics, Grant(d, ts)
      PROVE  (\A c \in Conns : Rests(c) \/ Answers(c)) /\ count' = count
  <2>1. Subscribed(ts) \in Message /\ Subscribed(ts).type = "subscribed"
        /\ \A t : Mentions(Subscribed(ts), t) <=> t \in ts
    BY Constructors DEF Subscribed, Mentions, IsAck
  <2> QED BY <2>1, <1>5, <1>6 DEF Grant
<1>7. ASSUME NEW d \in Conns, NEW ts \in SUBSET Topics, Withdraw(d, ts)
      PROVE  (\A c \in Conns : Rests(c) \/ Answers(c)) /\ count' = count
  <2>1. Unsubscribed(ts) \in Message /\ Unsubscribed(ts).type = "unsubscribed"
        /\ \A t : Mentions(Unsubscribed(ts), t) <=> t \in ts
    BY Constructors DEF Unsubscribed, Mentions, IsAck
  <2> QED BY <2>1, <1>5, <1>7 DEF Withdraw
<1>8. ASSUME NEW d \in Conns, NEW type \in {"pong", "error"}, Reply(d, type)
      PROVE  (\A c \in Conns : Rests(c) \/ Answers(c)) /\ count' = count
  <2>1. Plain(type) \in Message /\ Plain(type).type = type
        /\ \A t : ~Mentions(Plain(type), t)
    BY Constructors DEF Plain, Mentions, Types
  <2> QED BY <2>1, <1>5, <1>8 DEF Reply
<1>9. ASSUME NEW cs \in SUBSET Conns, NEW type \in {"ping", "stop"}, Notice(cs, type)
      PROVE  (\A c \in Conns : Rests(c) \/ Offers(c)) /\ count' = count
  <2>1. Plain(type) \in Message /\ ~IsAck(Plain(type)) /\ Plain(type).type # "event"
    BY Constructors DEF Plain, Types
  <2> QED BY <2>1, <1>9 DEF Notice, Rests, Offers
<1>10. ASSUME NEW cs \in SUBSET Conns, NEW t \in Topics, Publish(t, cs)
       PROVE  (\A c \in Conns : Rests(c) \/ Offers(c)) /\ count' = count + 1
  <2>1. /\ Event(t, count + 1) \in Message /\ ~IsAck(Event(t, count + 1))
        /\ Event(t, count + 1).topics = {t} /\ Event(t, count + 1).seq = count + 1
    <3>1. count + 1 \in Nat
      OBVIOUS
    <3> QED BY <3>1, Constructors DEF Event
  <2> QED BY <2>1, <1>10 DEF Publish, Rests, Offers
<1>11. CASE UNCHANGED feedVars
  BY <1>11 DEF feedVars, Rests
<1> QED
  BY <1>1, <1>2, <1>3, <1>4, <1>6, <1>7, <1>8, <1>9, <1>10, <1>11 DEF FeedNext

-----------------------------------------------------------------------------
(* Types                                                                   *)

\* Reading a message of the right kind leaves a set of topics.
LEMMA AfterReadingType ==
  ASSUME NEW v \in SUBSET Topics, NEW m \in Message
  PROVE  AfterReading(v, m) \in SUBSET Topics
  BY DEF AfterReading, Message

\* Every step of the feed keeps the types.
LEMMA FeedTypeStep ==
  ASSUME FeedTypeOK, [FeedNext]_feedVars
  PROVE  FeedTypeOK'
<1> USE DEF FeedTypeOK
<1> DEFINE Answer == {<<>>} \union {<<m>> : m \in Message}
<1>0. /\ Welcome \in Message
      /\ \A m \in Message : <<m>> \in Seq(Message) /\ <<m>> \in Answer
  BY Constructors DEF Welcome, Types
<1>1. ASSUME NEW d \in Conns, OpenLine(d) PROVE FeedTypeOK'
  BY <1>0, <1>1 DEF OpenLine
<1>2. ASSUME NEW d \in Conns, ShutLine(d) PROVE FeedTypeOK'
  BY <1>2 DEF ShutLine
<1>3. ASSUME NEW d \in Conns, Settle(d) PROVE FeedTypeOK'
  <2>1. owed[d] \o answer[d] \in Seq(Message)
    BY WithAnswer
  <2> QED BY <2>1, <1>3 DEF Settle
<1>4. ASSUME NEW d \in Conns, Deliver(d) PROVE FeedTypeOK'
  <2>1. /\ Head(owed[d]) \in Message /\ Tail(owed[d]) \in Seq(Message)
        /\ AfterReading(told[d], Head(owed[d])) \in SUBSET Topics
    BY <1>4, AfterReadingType, HeadTailProperties DEF Deliver
  <2>2. Head(owed[d]).seq \in Nat
    BY <2>1 DEF Message
  <2> QED BY <2>1, <2>2, <1>4 DEF Deliver
<1>5. ASSUME NEW d \in Conns, NEW m \in Message, Give(d, m),
             subs' \in [Conns -> SUBSET Topics],
             \A c \in Conns \ {d} : subs'[c] = subs[c]
      PROVE  FeedTypeOK'
  <2>1. Append(owed[d], m) \in Seq(Message) /\ <<m>> \in Answer
    BY AppendFacts
  <2>2. owed' \in [Conns -> Seq(Message)] /\ answer' \in [Conns -> Answer]
    BY <2>1, <1>5 DEF Give
  <2> QED BY <2>2, <1>5 DEF Give
<1>6. ASSUME NEW d \in Conns, NEW ts \in SUBSET Topics, Grant(d, ts)
      PROVE  FeedTypeOK'
  BY <1>5, <1>6, Constructors DEF Grant
<1>7. ASSUME NEW d \in Conns, NEW ts \in SUBSET Topics, Withdraw(d, ts)
      PROVE  FeedTypeOK'
  BY <1>5, <1>7, Constructors DEF Withdraw
<1>8. ASSUME NEW d \in Conns, NEW type \in {"pong", "error"}, Reply(d, type)
      PROVE  FeedTypeOK'
  BY <1>5, <1>8, Constructors DEF Reply, Types
<1>9. ASSUME NEW cs \in SUBSET Conns, NEW m \in Message,
             owed' = [c \in Conns |->
                        IF c \in cs THEN Append(owed[c], m) ELSE owed[c]],
             \A c \in cs : line[c] = "open", count' \in Nat,
             UNCHANGED <<line, subs, answer, told, last, heard>>
      PROVE  FeedTypeOK'
  <2>1. \A c \in Conns : Append(owed[c], m) \in Seq(Message)
    BY AppendFacts
  <2> QED BY <2>1, <1>9
<1>10. ASSUME NEW cs \in SUBSET Conns, NEW type \in {"ping", "stop"}, Notice(cs, type)
       PROVE  FeedTypeOK'
  BY <1>9, <1>10, Constructors DEF Notice, Types
<1>11. ASSUME NEW cs \in SUBSET Conns, NEW t \in Topics, Publish(t, cs)
       PROVE  FeedTypeOK'
  <2>1. count + 1 \in Nat /\ Event(t, count + 1) \in Message
    BY Constructors
  <2> QED BY <2>1, <1>9, <1>11 DEF Publish
<1>12. CASE UNCHANGED feedVars
  BY <1>12 DEF feedVars
<1> QED
  BY <1>1, <1>2, <1>3, <1>4, <1>6, <1>7, <1>8, <1>10, <1>11, <1>12 DEF FeedNext

-----------------------------------------------------------------------------
(* The invariants                                                          *)

\* The answer a line waits to give is never an event.
NoEventWaits ==
  \A c \in Conns : \A m \in Message : answer[c] = <<m>> => m.type # "event"

\* Reading what is owed is reading from it with the answer behind it.
LEMMA TailWithAnswer ==
  ASSUME NEW s \in Seq(Message), s # <<>>,
         NEW a \in {<<>>} \union {<<m>> : m \in Message}
  PROVE  /\ s \o a \in Seq(Message) /\ s \o a # <<>>
         /\ Head(s \o a) = Head(s) /\ Tail(s \o a) = Tail(s) \o a
         /\ Len(s) <= Len(s \o a)
         /\ \A i \in 1 .. Len(s) : (s \o a)[i] = s[i]
<1>1. \A m \in Message : <<m>> \in Seq(Message)
  OBVIOUS
<1>2. a \in Seq(Message)
  BY <1>1, EmptySeq
<1> QED BY <1>2

\* Every step keeps events out of the answers.
LEMMA NoEventWaitsStep ==
  ASSUME FeedTypeOK, NoEventWaits, [FeedNext]_feedVars
  PROVE  NoEventWaits'
<1> SUFFICES ASSUME NEW c \in Conns, NEW n \in Message, answer'[c] = <<n>>
             PROVE  n.type # "event"
  BY DEF NoEventWaits
<1>1. LineStep(c)
  BY OneLine
<1> QED
  BY <1>1 DEF LineStep, Rests, Opens, Shuts, Answers, Settles, Offers, Reads,
              NoEventWaits, FeedTypeOK

\* The last word on every topic stays in step with the subscriptions.
LEMMA AckLedgerStep ==
  ASSUME FeedTypeOK, AckLedger, [FeedNext]_feedVars
  PROVE  AckLedger'
<1> USE DEF FeedTypeOK, SameReader
<1> SUFFICES ASSUME NEW c \in Conns, line'[c] = "open", NEW t \in Topics
             PROVE  t \in subs'[c] <=>
                      Believes(told'[c], owed'[c] \o answer'[c], t)
  BY DEF AckLedger
<1>1. line[c] = "open" =>
        (t \in subs[c] <=> Believes(told[c], owed[c] \o answer[c], t))
  BY DEF AckLedger
<1>2. CASE Rests(c)
  BY <1>1, <1>2 DEF Rests
<1>3. CASE Opens(c)
  <2>1. /\ Welcome \in Message /\ ~Mentions(Welcome, t)
        /\ <<Welcome>> = Append(<<>>, Welcome)
    BY Constructors DEF Welcome, Types, Mentions
  <2>2. ~Believes({}, <<>>, t)
    BY DEF Believes
  <2>3. <<>> \in Seq(Message)
    OBVIOUS
  <2>4. ~Believes({}, Append(<<>>, Welcome), t)
    BY <2>1, <2>2, <2>3, BelievesAppend
  <2>5. Append(<<>>, Welcome) \in Seq(Message)
    BY <2>1, <2>3, AppendFacts
  <2>6. /\ owed'[c] = Append(<<>>, Welcome) /\ answer'[c] = <<>>
        /\ subs'[c] = {} /\ told'[c] = {}
    BY <2>1, <1>3 DEF Opens
  <2>7. owed'[c] \o answer'[c] = Append(<<>>, Welcome)
    BY <2>5, <2>6, ConcatEmptySeq
  <2> QED BY <2>4, <2>6, <2>7
<1>4. CASE Answers(c)
  <2>1. PICK m \in Message :
          /\ t \in subs'[c] <=>
               IF Mentions(m, t) THEN m.type = "subscribed" ELSE t \in subs[c]
          /\ \/ owed'[c] = Append(owed[c], m) /\ answer'[c] = <<>>
             \/ owed'[c] = owed[c] /\ answer'[c] = <<m>>
    BY <1>4 DEF Answers
  <2>2. owed'[c] \o answer'[c] = Append(owed[c], m)
    <3>1. Append(owed[c], m) \in Seq(Message) /\ owed[c] \o <<m>> = Append(owed[c], m)
      BY AppendFacts
    <3>2. Append(owed[c], m) \o <<>> = Append(owed[c], m)
      BY <3>1, ConcatEmptySeq
    <3> QED BY <2>1, <3>1, <3>2
  <2>3. owed[c] \o answer[c] = owed[c] /\ told'[c] = told[c] /\ line[c] = "open"
    BY <1>4, WithAnswer DEF Answers
  <2> QED BY <2>1, <2>2, <2>3, <1>1, BelievesAppend
<1>5. CASE Settles(c)
  <2>1. owed[c] \o answer[c] \in Seq(Message)
    BY WithAnswer
  <2>2. owed'[c] \o answer'[c] = owed[c] \o answer[c]
    BY <2>1, <1>5, ConcatEmptySeq DEF Settles
  <2> QED BY <2>2, <1>1, <1>5 DEF Settles
<1>6. CASE Offers(c)
  <2>1. PICK m \in Message : ~IsAck(m) /\ owed'[c] = Append(owed[c], m)
    BY <1>6 DEF Offers
  <2>2. Believes(told[c], Append(owed[c], m) \o answer[c], t) <=>
          Believes(told[c], owed[c] \o answer[c], t)
    BY <2>1, OfferFacts
  <2> QED BY <2>1, <2>2, <1>1, <1>6 DEF Offers
<1>7. CASE Reads(c)
  <2> DEFINE s == owed[c] \o answer[c]
  <2>0. /\ s \in Seq(Message) /\ s # <<>> /\ Head(s) = Head(owed[c])
        /\ Tail(s) = Tail(owed[c]) \o answer[c]
    <3>1. owed[c] \in Seq(Message) /\ owed[c] # <<>>
      BY <1>7 DEF Reads
    <3>2. answer[c] \in {<<>>} \union {<<m>> : m \in Message}
      OBVIOUS
    <3> QED BY <3>1, <3>2, TailWithAnswer
  <2> HIDE DEF s
  <2>1. /\ s \in Seq(Message) /\ s # <<>>
        /\ owed'[c] \o answer'[c] = Tail(s)
        /\ told'[c] = AfterReading(told[c], Head(s))
    BY <2>0, <1>7 DEF Reads
  <2>2. Believes(AfterReading(told[c], Head(s)), Tail(s), t) <=>
          Believes(told[c], s, t)
    BY <2>1, BelievesTail
  <2>3. t \in subs[c] <=> Believes(told[c], s, t)
    BY <1>1, <1>7 DEF Reads, s
  <2>4. subs'[c] = subs[c]
    BY <1>7 DEF Reads
  <2> QED BY <2>1, <2>2, <2>3, <2>4
<1>8. CASE Shuts(c)
  BY <1>8 DEF Shuts
<1> QED
  BY OneLine, <1>2, <1>3, <1>4, <1>5, <1>6, <1>7, <1>8 DEF LineStep

\* A message put behind what is owed leaves the rest in place.
LEMMA OwedAppend ==
  ASSUME NEW s \in Seq(Message), NEW m \in Message, NEW i \in 1 .. Len(Append(s, m))
  PROVE  \/ i \in 1 .. Len(s) /\ Append(s, m)[i] = s[i]
         \/ i = Len(s) + 1 /\ Append(s, m)[i] = m
  BY AppendFacts

\* Every owed event stays covered.
LEMMA EventsCoveredStep ==
  ASSUME FeedTypeOK, AckLedger, EventsCovered, NoEventWaits, [FeedNext]_feedVars
  PROVE  EventsCovered'
<1> SUFFICES ASSUME NEW c \in Conns, NEW i \in 1 .. Len(owed'[c]),
                    owed'[c][i].type = "event"
             PROVE  CoveredAt(told'[c], owed'[c] \o answer'[c], i)
  BY DEF EventsCovered
<1> DEFINE a == answer[c]
           s == owed[c]
<1>1. /\ s \in Seq(Message) /\ a \in {<<>>} \union {<<m>> : m \in Message}
      /\ told[c] \in SUBSET Topics
  BY DEF FeedTypeOK
<1>2. \A k \in 1 .. Len(s) : s[k].type = "event" => CoveredAt(told[c], s \o a, k)
  BY DEF EventsCovered
<1>3. line[c] = "open" =>
        \A t \in Topics : t \in subs[c] <=> Believes(told[c], s \o a, t)
  BY DEF AckLedger
<1>4. \A m \in Message : a = <<m>> => m.type # "event"
  BY DEF NoEventWaits
<1> HIDE DEF a, s
<1>5. CASE Rests(c)
  BY <1>2, <1>5 DEF Rests, SameReader, a, s
<1>6. CASE Opens(c)
  BY <1>6 DEF Opens, Welcome, Plain
<1>7. CASE Shuts(c)
  BY <1>7 DEF Shuts
<1>8. CASE Answers(c)
  <2>1. /\ a = <<>> /\ told'[c] = told[c]
    BY <1>8 DEF Answers, SameReader, a
  <2>2. PICK m \in Message :
          /\ m.type # "event"
          /\ \/ owed'[c] = Append(s, m) /\ answer'[c] = <<>>
             \/ owed'[c] = s /\ answer'[c] = <<m>>
    BY <1>8 DEF Answers, s
  <2>3. s \o a = s /\ Append(s, m) \in Seq(Message)
    BY <1>1, <2>1, WithAnswer, AppendFacts
  <2>4. owed'[c] \o answer'[c] = Append(s, m)
    <3>1. s \o <<m>> = Append(s, m)
      BY <1>1, AppendFacts
    <3>2. Append(s, m) \o <<>> = Append(s, m)
      BY <2>3, ConcatEmptySeq
    <3> QED BY <2>2, <3>1, <3>2
  <2>5. i \in 1 .. Len(s) /\ s[i].type = "event"
    BY <1>1, <2>2, OwedAppend
  <2>6. CoveredAt(told[c], s, i)
    BY <1>2, <2>3, <2>5
  <2> QED BY <1>1, <2>1, <2>4, <2>5, <2>6, CoveredAppend
<1>9. CASE Settles(c)
  <2>1. /\ owed'[c] = s \o a /\ answer'[c] = <<>> /\ told'[c] = told[c]
    BY <1>9 DEF Settles, SameReader, a, s
  <2>2. s \o a \in Seq(Message)
    BY <1>1, WithAnswer
  <2>3. owed'[c] \o answer'[c] = s \o a
    BY <2>1, <2>2, ConcatEmptySeq
  <2>4. i \in 1 .. Len(s) /\ s[i].type = "event"
    <3>1. CASE a = <<>>
      BY <3>1, <1>1, <2>1, WithAnswer
    <3>2. ASSUME NEW m \in Message, a = <<m>>
          PROVE  i \in 1 .. Len(s) /\ s[i].type = "event"
      <4>1. owed'[c] = Append(s, m) /\ m.type # "event"
        BY <3>2, <1>1, <1>4, <2>1, WithAnswer
      <4> QED BY <4>1, <1>1, OwedAppend
    <3> QED BY <3>1, <3>2, <1>1
  <2> QED BY <1>2, <2>1, <2>3, <2>4
<1>10. CASE Offers(c)
  <2>1. /\ line[c] = "open" /\ told'[c] = told[c] /\ answer'[c] = a
    BY <1>10 DEF Offers, SameReader, a
  <2>2. PICK m \in Message :
          /\ ~IsAck(m) /\ owed'[c] = Append(s, m)
          /\ m.type = "event" => m.topics \subseteq subs[c]
    BY <1>10 DEF Offers, s
  <2>3. CASE i \in 1 .. Len(s) /\ Append(s, m)[i] = s[i]
    <3>1. CoveredAt(told[c], s \o a, i)
      BY <1>2, <2>2, <2>3
    <3> QED BY <3>1, <2>1, <2>2, <2>3, <1>1, OfferFacts
  <2>4. CASE i = Len(s) + 1 /\ Append(s, m)[i] = m
    <3>1. m.topics \subseteq subs[c] /\ m.topics \subseteq Topics
      BY <2>2, <2>4 DEF Message
    <3>2. \A t \in m.topics : Believes(told[c], s \o a, t)
      BY <3>1, <1>3, <2>1
    <3> QED BY <3>2, <2>1, <2>2, <2>4, <1>1, OfferFacts
  <2> QED BY <2>2, <2>3, <2>4, <1>1, OwedAppend
<1>11. CASE Reads(c)
  <2>1. /\ s # <<>> /\ owed'[c] = Tail(s) /\ answer'[c] = a
        /\ told'[c] = AfterReading(told[c], Head(s))
    BY <1>11 DEF Reads, a, s
  <2> DEFINE w == s \o a
  <2>2. /\ w \in Seq(Message) /\ Head(w) = Head(s) /\ Tail(w) = Tail(s) \o a
        /\ Len(s) <= Len(w) /\ Len(w) \in Nat
    BY <1>1, <2>1, TailWithAnswer
  <2>3. i + 1 \in 2 .. Len(s) /\ s[i + 1].type = "event"
    BY <1>1, <2>1
  <2>4. CoveredAt(told[c], w, i + 1)
    BY <1>1, <1>2, <2>3
  <2> HIDE DEF w
  <2>5. i + 1 \in 2 .. Len(w)
    BY <1>1, <2>2, <2>3
  <2>6. CoveredAt(AfterReading(told[c], Head(w)), Tail(w), (i + 1) - 1)
    BY <2>2, <2>4, <2>5, CoveredTail
  <2>7. (i + 1) - 1 = i
    OBVIOUS
  <2> QED BY <2>1, <2>2, <2>6, <2>7
<1> QED
  BY OneLine, <1>5, <1>6, <1>7, <1>8, <1>9, <1>10, <1>11 DEF LineStep

\* No client has read an event that was not published.
LastCounted == \A c \in Conns : last[c] <= count

\* Events stay in the order they were published.
LEMMA EventOrderStep ==
  ASSUME FeedTypeOK, NoEventWaits, LastCounted, EventOrder, [FeedNext]_feedVars
  PROVE  EventOrder' /\ LastCounted'
<1> SUFFICES ASSUME NEW c \in Conns
             PROVE  /\ last'[c] <= count'
                    /\ \A i \in 1 .. Len(owed'[c]) : owed'[c][i].type = "event" =>
                         /\ last'[c] < owed'[c][i].seq /\ owed'[c][i].seq <= count'
                         /\ \A j \in i + 1 .. Len(owed'[c]) :
                              owed'[c][j].type = "event" =>
                                owed'[c][i].seq < owed'[c][j].seq
  BY DEF EventOrder, LastCounted
<1> DEFINE s == owed[c]
<1>1. /\ s \in Seq(Message) /\ last[c] \in Nat /\ count \in Nat
      /\ \A k \in 1 .. Len(s) : s[k] \in Message /\ s[k].seq \in Nat
      /\ \A m \in Message : m.seq \in Nat
      /\ count' \in {count, count + 1}
  <2>1. s \in Seq(Message) /\ last[c] \in Nat /\ count \in Nat
    BY DEF FeedTypeOK
  <2>2. \A m \in Message : m.seq \in Nat
    BY DEF Message
  <2>3. \A k \in 1 .. Len(s) : s[k] \in Message
    BY <2>1
  <2> HIDE DEF s
  <2>4. count' \in {count, count + 1}
    BY OneLine
  <2> QED BY <2>1, <2>2, <2>3, <2>4
<1>2. /\ last[c] <= count
      /\ \A i \in 1 .. Len(s) : s[i].type = "event" =>
           /\ last[c] < s[i].seq /\ s[i].seq <= count
           /\ \A j \in i + 1 .. Len(s) : s[j].type = "event" => s[i].seq < s[j].seq
  BY DEF EventOrder, LastCounted
<1> HIDE DEF s
<1>3. CASE Rests(c)
  BY <1>1, <1>2, <1>3 DEF Rests, SameReader, s
<1>4. CASE Opens(c)
  BY <1>1, <1>2, <1>4 DEF Opens, SameReader, Welcome, Plain
<1>5. CASE Shuts(c)
  BY <1>1, <1>5 DEF Shuts
<1>6. ASSUME NEW m \in Message, owed'[c] = Append(s, m), SameReader(c),
             m.type = "event" => m.seq = count + 1 /\ count' = count + 1
      PROVE  /\ last'[c] <= count'
             /\ \A i \in 1 .. Len(owed'[c]) : owed'[c][i].type = "event" =>
                  /\ last'[c] < owed'[c][i].seq /\ owed'[c][i].seq <= count'
                  /\ \A j \in i + 1 .. Len(owed'[c]) :
                       owed'[c][j].type = "event" =>
                         owed'[c][i].seq < owed'[c][j].seq
  <2> DEFINE r == Append(s, m)
  <2>1. last'[c] = last[c] /\ owed'[c] = r
    BY <1>6 DEF SameReader
  <2>2. /\ Len(r) = Len(s) + 1 /\ Len(s) \in Nat /\ r[Len(s) + 1] = m
        /\ \A k \in 1 .. Len(s) : r[k] = s[k]
    BY <1>1, AppendFacts
  <2> HIDE DEF r
  <2>3. \A i \in 1 .. Len(r) : r[i].type = "event" =>
          last[c] < r[i].seq /\ r[i].seq <= count'
    BY <1>1, <1>2, <1>6, <2>2
  <2>4. ASSUME NEW i \in 1 .. Len(r), NEW j \in i + 1 .. Len(r),
               r[i].type = "event", r[j].type = "event"
        PROVE  r[i].seq < r[j].seq
    <3>1. i \in 1 .. Len(s) /\ r[i] = s[i]
      BY <2>2
    <3>2. CASE j \in 1 .. Len(s)
      BY <3>1, <3>2, <1>2, <2>2, <2>4
    <3>3. CASE j = Len(s) + 1
      BY <3>1, <3>3, <1>1, <1>2, <1>6, <2>2, <2>4
    <3> QED BY <3>2, <3>3, <2>2
  <2> QED BY <1>1, <1>2, <2>1, <2>3, <2>4
<1>7. CASE owed'[c] = s /\ SameReader(c)
  BY <1>1, <1>2, <1>7 DEF SameReader
<1>8. CASE Answers(c)
  BY <1>6, <1>7, <1>8 DEF Answers, s
<1>9. CASE Settles(c)
  <2>1. owed'[c] = s \o answer[c] /\ SameReader(c)
    BY <1>9 DEF Settles, s
  <2>2. answer[c] \in {<<>>} \union {<<m>> : m \in Message}
    BY DEF FeedTypeOK
  <2>3. CASE answer[c] = <<>>
    BY <2>1, <2>3, <1>1, <1>7, WithAnswer
  <2>4. ASSUME NEW m \in Message, answer[c] = <<m>>
        PROVE  owed'[c] = Append(s, m) /\ m.type # "event"
    BY <2>1, <2>2, <2>4, <1>1, WithAnswer DEF NoEventWaits
  <2> QED BY <2>1, <2>2, <2>3, <2>4, <1>6
<1>10. CASE Offers(c)
  BY <1>6, <1>10 DEF Offers, s
<1>11. CASE Reads(c)
  <2> DEFINE r == Tail(s)
  <2>1. /\ s # <<>> /\ owed'[c] = r
        /\ last'[c] = (IF s[1].type = "event" THEN s[1].seq ELSE last[c])
    BY <1>1, <1>11 DEF Reads, s
  <2>2. /\ Len(s) \in Nat \ {0} /\ Len(r) = Len(s) - 1
        /\ \A k \in 1 .. Len(s) - 1 : r[k] = s[k + 1]
    BY <1>1, <2>1
  <2> HIDE DEF r
  <2>3. last'[c] <= count'
    BY <1>1, <1>2, <2>1, <2>2
  <2>4. ASSUME NEW i \in 1 .. Len(r), r[i].type = "event"
        PROVE  /\ last'[c] < r[i].seq /\ r[i].seq <= count'
               /\ \A j \in i + 1 .. Len(r) :
                    r[j].type = "event" => r[i].seq < r[j].seq
    <3>1. i + 1 \in 2 .. Len(s) /\ r[i] = s[i + 1]
      BY <2>2
    <3>2. last[c] < s[i + 1].seq /\ s[i + 1].seq <= count
      BY <3>1, <2>4, <1>2
    <3>3. s[1].type = "event" => s[1].seq < s[i + 1].seq
      BY <3>1, <2>2, <2>4, <1>2
    <3>4. \A j \in i + 1 .. Len(r) : r[j].type = "event" => r[i].seq < r[j].seq
      <4> SUFFICES ASSUME NEW j \in i + 1 .. Len(r), r[j].type = "event"
                   PROVE  s[i + 1].seq < r[j].seq
        BY <3>1
      <4>1. j + 1 \in (i + 1) + 1 .. Len(s) /\ r[j] = s[j + 1]
        BY <2>2
      <4> QED BY <4>1, <3>1, <2>4, <1>2
    <3> QED BY <3>1, <3>2, <3>3, <3>4, <1>1, <2>1
  <2> QED BY <2>1, <2>3, <2>4
<1> QED
  BY OneLine, <1>3, <1>4, <1>5, <1>8, <1>9, <1>10, <1>11 DEF LineStep

\* The welcome stays first until it is read.
LEMMA WelcomeFirstStep ==
  ASSUME FeedTypeOK, WelcomeFirst, [FeedNext]_feedVars
  PROVE  WelcomeFirst'
<1> SUFFICES ASSUME NEW c \in Conns, line'[c] = "open", ~heard'[c]
             PROVE  owed'[c] # <<>> /\ Head(owed'[c]) = Welcome
  BY DEF WelcomeFirst
<1>1. owed[c] \in Seq(Message)
  BY DEF FeedTypeOK
<1>2. line[c] = "open" /\ ~heard[c] => owed[c] # <<>> /\ Head(owed[c]) = Welcome
  BY DEF WelcomeFirst
<1>3. ASSUME NEW m \in Message, owed[c] # <<>>
      PROVE  /\ Append(owed[c], m) # <<>>
             /\ Head(Append(owed[c], m)) = Head(owed[c])
  BY <1>1, <1>3
<1>4. CASE Rests(c)
  BY <1>2, <1>4 DEF Rests, SameReader
<1>5. CASE Opens(c)
  BY <1>5 DEF Opens
<1>6. CASE Answers(c)
  BY <1>2, <1>3, <1>6 DEF Answers, SameReader
<1>7. CASE Settles(c)
  <2>1. answer[c] \in {<<>>} \union {<<m>> : m \in Message}
    BY DEF FeedTypeOK
  <2>2. owed'[c] = owed[c] \/ \E m \in Message : owed'[c] = Append(owed[c], m)
    BY <1>1, <1>7, <2>1, WithAnswer DEF Settles
  <2> QED BY <1>2, <1>3, <1>7, <2>2 DEF Settles, SameReader
<1>8. CASE Offers(c)
  BY <1>2, <1>3, <1>8 DEF Offers, SameReader
<1>9. CASE Reads(c)
  BY <1>9 DEF Reads
<1>10. CASE Shuts(c)
  BY <1>10 DEF Shuts
<1> QED
  BY OneLine, <1>4, <1>5, <1>6, <1>7, <1>8, <1>9, <1>10 DEF LineStep

-----------------------------------------------------------------------------
(* The invariants together: two of them are there for the others only.     *)
FeedInv ==
  /\ FeedTypeOK /\ NoEventWaits /\ LastCounted
  /\ AckLedger /\ EventsCovered /\ EventOrder /\ WelcomeFirst

\* The feed starts in its invariant: nobody is connected and nothing is owed.
LEMMA FeedInvInit == FeedInit => FeedInv
<1> SUFFICES ASSUME FeedInit PROVE FeedInv
  OBVIOUS
<1> USE DEF FeedInit
<1>1. FeedTypeOK
  BY EmptySeq DEF FeedTypeOK
<1>2. NoEventWaits
  BY DEF NoEventWaits
<1>3. LastCounted /\ AckLedger /\ EventsCovered /\ EventOrder /\ WelcomeFirst
  BY DEF LastCounted, AckLedger, EventsCovered, EventOrder, WelcomeFirst
<1> QED BY <1>1, <1>2, <1>3 DEF FeedInv

\* Every step of the feed keeps the invariant.
LEMMA FeedInvStep == FeedInv /\ [FeedNext]_feedVars => FeedInv'
<1> SUFFICES ASSUME FeedInv, [FeedNext]_feedVars PROVE FeedInv'
  OBVIOUS
<1>1. FeedTypeOK' /\ NoEventWaits' /\ AckLedger' /\ EventsCovered'
  BY FeedTypeStep, NoEventWaitsStep, AckLedgerStep, EventsCoveredStep DEF FeedInv
<1>2. EventOrder' /\ LastCounted' /\ WelcomeFirst'
  BY EventOrderStep, WelcomeFirstStep DEF FeedInv
<1> QED BY <1>1, <1>2 DEF FeedInv

\* Every behaviour of the feed keeps all of its promises: acknowledgements
\* bring each client to the topics it has, events are covered by them, in order
\* and at most once, and the welcome comes first.
THEOREM FeedCorrect == FeedSpec => []FeedInv
<1>1. FeedInit => FeedInv
  BY FeedInvInit
<1>2. FeedInv /\ [FeedNext]_feedVars => FeedInv'
  BY FeedInvStep
<1> QED BY <1>1, <1>2, PTL DEF FeedSpec
=============================================================================
