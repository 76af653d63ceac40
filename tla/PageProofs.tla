------------------------------ MODULE PageProofs ------------------------------
(***************************************************************************)
(* Proofs about Page, for any prices, length of the chart and bounds.      *)
(*                                                                         *)
(* The chart is right because the price that it drops as a repetition is   *)
(* the one that it shows (DropsItsOwn).  What the page shows stays because *)
(* the one load that may replace it is over (LoadIsOver).  The panels      *)
(* agree because a slider computes the result anew (PanelsInv); the rest   *)
(* is the arithmetic of rounding, for every setting of the sliders.  A     *)
(* chart fits its axis because its values lie between two numbers          *)
(* (EndsExist).  A canvas is drawn and comes to rest because no effect but *)
(* the last has a frame (FramesOK), and because the proportions of its     *)
(* store give its height again (HeightFollows).                            *)
(***************************************************************************)
EXTENDS Page, SequenceTheorems, WellFoundedInduction, TLAPS

Entries == {"listed", "received", "made up"}

Stages == {"probing", "loading", "done"}

PageOK ==
  /\ live \in [mempool : Seq(Entries), price : Nat, connected : BOOLEAN]
  /\ chart \in [price : Nat, pushed : Nat, history : Seq(Nat)]
  /\ ready \in BOOLEAN /\ filled \in BOOLEAN
  /\ load \in Seq(Stages)

DropsItsOwn == chart.pushed = chart.price

LoadIsOver == filled => \A i \in DOMAIN load : ~Cancelled(i) => load[i] = "done"

PageInv == PageOK /\ DropsItsOwn /\ ChartShowsPrice /\ LoadIsOver

\* A function on the first n numbers is a sequence.
LEMMA IsASeqOf ==
  ASSUME NEW S, NEW n \in Nat, NEW f \in [1..n -> S]
  PROVE  f \in Seq(S) /\ Len(f) = n
OBVIOUS

\* What was in the list is in it still, in front, when one more is appended.
LEMMA AppendKeepsPrefix ==
  ASSUME NEW S, NEW seq \in Seq(S)
  PROVE  IsPrefix(seq, seq) /\ \A elt \in S : IsPrefix(seq, Append(seq, elt))
<1>1. Len(seq) \in Nat
  BY LenProperties
<1>2. SubSeq(seq, 1, Len(seq)) = [i \in 1..Len(seq) |-> seq[i]]
  BY <1>1, LenProperties, SubSeqProperties
<1>3. ASSUME NEW elt \in S PROVE IsPrefix(seq, Append(seq, elt))
  <2>1. Len(Append(seq, elt)) = Len(seq) + 1
    BY AppendProperties
  <2>2. SubSeq(Append(seq, elt), 1, Len(seq)) = [i \in 1..Len(seq) |-> seq[i]]
    BY <1>1, <2>1, LenProperties, AppendProperties, SubSeqProperties
  <2> QED BY <1>1, <1>2, <2>1, <2>2 DEF IsPrefix
<1> QED BY <1>1, <1>2, <1>3 DEF IsPrefix

\* The window of the chart stays a sequence of prices.
LEMMA WindowIsSeq ==
  ASSUME NEW history \in Seq(Nat), NEW price \in Nat
  PROVE  Window(history, price) \in Seq(Nat)
<1> DEFINE grown == Append(history, price)
<1>1. grown \in Seq(Nat) /\ grown # <<>>
  BY AppendProperties
<1>2. Tail(grown) \in Seq(Nat)
  BY <1>1, HeadTailProperties
<1> QED BY <1>1, <1>2 DEF Window

\* The two ways a price gets into the chart.
LEMMA PushedIsShown ==
  ASSUME NEW price \in Nat, price > 0, PageOK, DropsItsOwn
  PROVE  LET c == SetLivePrice(chart, price)
         IN /\ c \in [price : Nat, pushed : Nat, history : Seq(Nat)]
            /\ c.pushed = c.price /\ c.price = price
<1>1. Window(chart.history, price) \in Seq(Nat)
  BY WindowIsSeq DEF PageOK
<1> QED BY <1>1 DEF SetLivePrice, Push, PageOK, DropsItsOwn

\* The effect of the panel, which is there or is not.
LEMMA PanelFollows ==
  ASSUME NEW shown \in BOOLEAN, NEW price \in Nat, PageOK, DropsItsOwn, ChartFollows(shown, price)
  PROVE  /\ chart' \in [price : Nat, pushed : Nat, history : Seq(Nat)]
         /\ DropsItsOwn'
         /\ shown /\ price > 0 => chart'.price = price
         /\ ~shown => chart' = chart
<1>1. CASE shown /\ price > 0
  BY <1>1, PushedIsShown DEF ChartFollows, DropsItsOwn
<1>2. CASE ~(shown /\ price > 0)
  BY <1>2 DEF ChartFollows, PageOK, DropsItsOwn
<1> QED BY <1>1, <1>2

\* The shell begins with nothing shown.
LEMMA PageBegins == LivePageInit => PageInv
<1> SUFFICES ASSUME LivePageInit PROVE PageInv
  OBVIOUS
<1>1. live \in [mempool : Seq(Entries), price : Nat, connected : BOOLEAN]
  BY DEF LivePageInit
<1>2. chart \in [price : Nat, pushed : Nat, history : Seq(Nat)] /\ DropsItsOwn
  <2>1. SeedHistory \in Seq(Nat)
    BY LivePageAssumption DEF SeedHistory
  <2> QED BY <2>1, LivePageAssumption DEF LivePageInit, DropsItsOwn
<1>3. load \in Seq(Stages)
  <2>1. PICK mounts \in {1, 2} :
          load = [i \in 1..mounts |-> IF useBackend THEN "probing" ELSE "loading"]
    BY DEF LivePageInit
  <2>2. load \in [1..mounts -> Stages] /\ mounts \in Nat
    BY <2>1 DEF Stages
  <2> QED BY <2>2, IsASeqOf
<1>4. ready = FALSE /\ filled = FALSE
  BY DEF LivePageInit
<1> QED BY <1>1, <1>2, <1>3, <1>4 DEF PageInv, PageOK, ChartShowsPrice, LoadIsOver, Shown

\* The steps that touch neither the price nor the page: the socket, the poll and
\* pushed transactions.
LEMMA MessagesKeepInv ==
  ASSUME PageInv, SocketChanges \/ OnMempoolTx \/ Poll \/ LaneFires \/ TickerFires
  PROVE  PageInv' /\ IsPrefix(live.mempool, live'.mempool)
<1>1. UNCHANGED <<load, ready, filled, page, chart>>
  BY DEF SocketChanges, OnMempoolTx, Poll, LaneFires, TickerFires
<1>2. /\ live' \in [mempool : Seq(Entries), price : Nat, connected : BOOLEAN]
      /\ live'.price = live.price
      /\ \/ live'.mempool = live.mempool
         \/ \E entry \in Entries : live'.mempool = Append(live.mempool, entry)
  <2>1. CASE live' = live
    BY <2>1 DEF PageInv, PageOK
  <2>2. CASE live' = [live EXCEPT !.connected = (socket = "open")]
    <3>1. (socket = "open") \in BOOLEAN
      OBVIOUS
    <3> QED BY <2>2, <3>1 DEF PageInv, PageOK
  <2>3. ASSUME NEW entry \in Entries, PushTx(entry)
        PROVE  /\ live' \in [mempool : Seq(Entries), price : Nat, connected : BOOLEAN]
               /\ live'.price = live.price
               /\ live'.mempool = Append(live.mempool, entry)
    <3>1. live.mempool \in Seq(Entries)
      BY DEF PageInv, PageOK
    <3>2. Append(live.mempool, entry) \in Seq(Entries)
      BY <3>1, AppendProperties
    <3> QED BY <2>3, <3>2 DEF PushTx, PageInv, PageOK
  <2>4. \/ live' = live \/ live' = [live EXCEPT !.connected = (socket = "open")]
        \/ PushTx("received") \/ PushTx("made up")
    BY DEF SocketChanges, OnMempoolTx, Poll, LaneFires, TickerFires
  <2>5. "received" \in Entries /\ "made up" \in Entries
    BY DEF Entries
  <2> QED BY <2>1, <2>2, <2>3, <2>4, <2>5
<1>3. PageInv'
  BY <1>1, <1>2 DEF PageInv, PageOK, DropsItsOwn, ChartShowsPrice, LoadIsOver, Cancelled, Shown
<1>4. live.mempool \in Seq(Entries)
  BY DEF PageInv, PageOK
<1>5. IsPrefix(live.mempool, live'.mempool)
  BY <1>2, <1>4, AppendKeepsPrefix
<1> QED BY <1>3, <1>5

\* The walk and the tabs leave the store alone.
LEMMA ChartKeepsInv ==
  ASSUME PageInv, Frame \/ Navigate
  PROVE  PageInv' /\ live' = live
<1>1. CASE Frame
  <2>1. PICK step \in {-1, 1} : chart' = UpdatePrice(chart, step)
    BY <1>1 DEF Frame
  <2>2. PICK price \in Nat : chart' = Push(chart, price)
    BY <2>1 DEF UpdatePrice, PageInv, PageOK
  <2>3. UNCHANGED <<load, ready, filled, live, page>> /\ live.price = 0
    BY <1>1 DEF Frame
  <2>4. Window(chart.history, price) \in Seq(Nat)
    BY WindowIsSeq DEF PageInv, PageOK
  <2> QED BY <2>2, <2>3, <2>4
          DEF Push, PageInv, PageOK, DropsItsOwn, ChartShowsPrice, LoadIsOver, Cancelled
<1>2. CASE Navigate
  <2>1. /\ UNCHANGED <<load, ready, filled, live>> /\ ready
        /\ ChartFollows(page' = "live", live.price)
    BY <1>2 DEF Navigate
  <2>2. live.price \in Nat /\ PageOK /\ DropsItsOwn
    BY DEF PageInv, PageOK
  <2>3. /\ chart' \in [price : Nat, pushed : Nat, history : Seq(Nat)]
        /\ DropsItsOwn'
        /\ page' = "live" /\ live.price > 0 => chart'.price = live.price
    BY <2>1, <2>2, PanelFollows
  <2> QED BY <2>1, <2>3 DEF PageInv, PageOK, ChartShowsPrice, LoadIsOver, Cancelled, Shown
<1> QED BY <1>1, <1>2

\* A price that a message brings.
LEMMA SyncKeepsInv ==
  ASSUME PageInv, OnAmmSync
  PROVE  PageInv' /\ live'.mempool = live.mempool
<1>1. PICK price \in Prices : /\ live' = [live EXCEPT !.price = price]
                             /\ ChartFollows(Shown, price)
  BY DEF OnAmmSync
<1>2. UNCHANGED <<load, ready, filled, page>>
  BY DEF OnAmmSync
<1>3. price \in Nat /\ Shown \in BOOLEAN /\ PageOK /\ DropsItsOwn
  BY LivePageAssumption DEF Shown, PageInv, PageOK
<1>4. /\ chart' \in [price : Nat, pushed : Nat, history : Seq(Nat)]
      /\ DropsItsOwn'
      /\ Shown /\ price > 0 => chart'.price = price
  BY <1>1, <1>3, PanelFollows
<1>5. /\ live' \in [mempool : Seq(Entries), price : Nat, connected : BOOLEAN]
      /\ live'.price = price /\ live'.mempool = live.mempool
  BY <1>1, <1>3 DEF PageOK
<1> QED BY <1>2, <1>4, <1>5
        DEF PageInv, PageOK, ChartShowsPrice, LoadIsOver, Cancelled, Shown

\* A load goes on to its next stage.
LEMMA LoadMoves ==
  ASSUME PageInv, NEW i \in DOMAIN load, NEW stage \in Stages, load' = [load EXCEPT ![i] = stage]
  PROVE  /\ load' \in Seq(Stages) /\ Len(load') = Len(load) /\ DOMAIN load' = DOMAIN load
         /\ \A j \in DOMAIN load : load'[j] = IF j = i THEN stage ELSE load[j]
         /\ DOMAIN load = 1..Len(load) /\ Len(load) \in Nat
<1>1. load \in Seq(Stages)
  BY DEF PageInv, PageOK
<1>2. Len(load) \in Nat /\ DOMAIN load = 1..Len(load)
  BY <1>1, LenProperties
<1>3. load' \in Seq(Stages) /\ Len(load') = Len(load)
  BY <1>1, <1>2, ExceptSeq
<1>4. DOMAIN load' = 1..Len(load)
  BY <1>3, LenProperties
<1> QED BY <1>1, <1>2, <1>3, <1>4, ExceptSeq

\* A load that moves on while nothing is filled in by it leaves the one that
\* filled the page over.
LEMMA LoadStaysOver ==
  ASSUME PageInv, NEW i \in DOMAIN load, NEW stage \in Stages, load' = [load EXCEPT ![i] = stage],
         load[i] # "done", filled' = filled
  PROVE  load' \in Seq(Stages) /\ LoadIsOver'
<1>1. /\ load' \in Seq(Stages) /\ Len(load') = Len(load) /\ DOMAIN load' = DOMAIN load
      /\ \A j \in DOMAIN load : load'[j] = IF j = i THEN stage ELSE load[j]
  BY LoadMoves
<1>2. LoadIsOver
  BY DEF PageInv
<1> QED BY <1>1, <1>2 DEF LoadIsOver, Cancelled

\* Of the loads one alone is not cancelled, the last, and it fills the page once.
LEMMA LoadFillsOnce ==
  ASSUME PageInv, NEW i \in DOMAIN load, load' = [load EXCEPT ![i] = "done"],
         load[i] # "done", ~Cancelled(i)
  PROVE  load' \in Seq(Stages) /\ LoadIsOver' /\ ~filled
<1>1. /\ load' \in Seq(Stages) /\ Len(load') = Len(load) /\ DOMAIN load' = DOMAIN load
      /\ \A j \in DOMAIN load : load'[j] = IF j = i THEN "done" ELSE load[j]
      /\ DOMAIN load = 1..Len(load) /\ Len(load) \in Nat
  BY LoadMoves DEF Stages
<1>2. i = Len(load)
  BY <1>1 DEF Cancelled
<1>3. LoadIsOver'
  BY <1>1, <1>2 DEF LoadIsOver, Cancelled
<1>4. ~filled
  BY DEF PageInv, LoadIsOver
<1> QED BY <1>1, <1>3, <1>4

\* The page may open on what the store has.
LEMMA OpensKeepsInv ==
  ASSUME PageInv, live' = live, filled' = filled, page' = page,
         ready' \in BOOLEAN, ready => ready', load' \in Seq(Stages), LoadIsOver',
         ChartFollows(ready' /\ page = "live" /\ ~ready, live.price)
  PROVE  PageInv'
<1>1. PageOK /\ DropsItsOwn /\ live.price \in Nat
  BY DEF PageInv, PageOK
<1> DEFINE shown == ready' /\ page = "live" /\ ~ready
<1>2. shown \in BOOLEAN
  BY <1>1 DEF PageOK
<1>3. /\ chart' \in [price : Nat, pushed : Nat, history : Seq(Nat)]
      /\ DropsItsOwn'
      /\ shown /\ live.price > 0 => chart'.price = live.price
      /\ ~shown => chart' = chart
  BY <1>1, <1>2, PanelFollows
<1>4. ChartShowsPrice'
  BY <1>3 DEF PageInv, ChartShowsPrice, Shown
<1> QED BY <1>1, <1>3, <1>4 DEF PageInv, PageOK

\* The health probe and its failure.
LEMMA ProbeKeepsInv ==
  ASSUME PageInv, NEW i \in DOMAIN load, ProbeSucceeds(i) \/ ProbeFails(i)
  PROVE  PageInv' /\ live' = live
<1>1. load[i] = "probing" /\ live' = live /\ filled' = filled /\ page' = page
  BY DEF ProbeSucceeds, ProbeFails
<1>2. load' \in Seq(Stages) /\ LoadIsOver'
  BY <1>1, LoadStaysOver DEF ProbeSucceeds, ProbeFails, Stages
<1>3. CASE ProbeSucceeds(i)
  BY <1>1, <1>2, <1>3 DEF ProbeSucceeds, PageInv, PageOK, DropsItsOwn, ChartShowsPrice, Shown
<1>4. CASE ProbeFails(i)
  <2>1. ready' \in BOOLEAN /\ ready' = (ready \/ ~Cancelled(i))
    BY <1>4 DEF ProbeFails
  <2>2. ChartFollows(ready' /\ page = "live" /\ ~ready, live.price)
    BY <1>4 DEF ProbeFails
  <2>3. ready => ready'
    BY <2>1
  <2>4. ready' \in BOOLEAN
    BY <2>1
  <2> QED BY <1>1, <1>2, <2>2, <2>3, <2>4, OpensKeepsInv
<1> QED BY <1>1, <1>3, <1>4

\* A list that does not come.
LEMMA FailureKeepsInv ==
  ASSUME PageInv, NEW i \in DOMAIN load, LoadFails(i)
  PROVE  PageInv' /\ live' = live
<1>1. load[i] = "loading" /\ live' = live /\ filled' = filled /\ page' = page
  BY DEF LoadFails
<1>2. load' \in Seq(Stages) /\ LoadIsOver'
  BY <1>1, LoadStaysOver DEF LoadFails, Stages
<1>3. ready' = TRUE /\ ChartFollows(page = "live" /\ ~ready, live.price)
  BY DEF LoadFails
<1>4. (ready => ready') /\ ready' \in BOOLEAN
  BY <1>3
<1>5. ChartFollows(ready' /\ page = "live" /\ ~ready, live.price)
  BY <1>3 DEF ChartFollows
<1> QED BY <1>1, <1>2, <1>4, <1>5, OpensKeepsInv

\* The lists are there.
LEMMA SuccessKeepsInv ==
  ASSUME PageInv, NEW i \in DOMAIN load, LoadSucceeds(i)
  PROVE  PageInv' /\ (filled => live' = live)
<1>1. load[i] = "loading" /\ load' = [load EXCEPT ![i] = "done"] /\ page' = page
  BY DEF LoadSucceeds
<1>2. CASE Cancelled(i)
  <2>1. UNCHANGED <<ready, filled, live, chart>>
    BY <1>2 DEF LoadSucceeds
  <2>2. load' \in Seq(Stages) /\ LoadIsOver'
    BY <1>1, <2>1, LoadStaysOver DEF Stages
  <2> QED BY <1>1, <2>1, <2>2 DEF PageInv, PageOK, DropsItsOwn, ChartShowsPrice, Shown
<1>3. CASE ~Cancelled(i)
  <2>1. PICK listed \in {<<>>, <<"listed">>},
             price \in Prices \cup IF useBackend THEN {0} ELSE {} :
          /\ live' = [mempool |-> listed, price |-> price, connected |-> FALSE]
          /\ ready' = TRUE /\ filled' = TRUE
          /\ ChartFollows(page = "live", price)
    BY <1>3 DEF LoadSucceeds
  <2>2. load' \in Seq(Stages) /\ LoadIsOver' /\ ~filled
    BY <1>1, <1>3, LoadFillsOnce
  <2>3. price \in Nat
    BY LivePageAssumption
  <2>4. live' \in [mempool : Seq(Entries), price : Nat, connected : BOOLEAN] /\ live'.price = price
    <3>1. "listed" \in Entries
      BY DEF Entries
    <3>2. <<>> \in Seq(Entries) /\ <<"listed">> \in Seq(Entries)
      BY <3>1
    <3>3. listed \in Seq(Entries)
      BY <3>2
    <3> QED BY <2>1, <2>3, <3>3
  <2>5. PageOK /\ DropsItsOwn /\ (page = "live") \in BOOLEAN
    BY DEF PageInv
  <2>6. /\ chart' \in [price : Nat, pushed : Nat, history : Seq(Nat)]
        /\ DropsItsOwn'
        /\ page = "live" /\ price > 0 => chart'.price = price
    BY <2>1, <2>3, <2>5, PanelFollows
  <2> QED BY <1>1, <2>1, <2>2, <2>4, <2>6 DEF PageInv, PageOK, ChartShowsPrice, Shown
<1> QED BY <1>2, <1>3

LEMMA LivePageKeepsInv ==
  ASSUME PageInv, LivePageNext
  PROVE  PageInv' /\ (filled => filled' /\ IsPrefix(live.mempool, live'.mempool))
<1>1. live.mempool \in Seq(Entries)
  BY DEF PageInv, PageOK
<1>2. IsPrefix(live.mempool, live.mempool)
  BY <1>1, AppendKeepsPrefix
<1>3. ASSUME NEW i \in DOMAIN load, ProbeSucceeds(i) \/ ProbeFails(i) \/ LoadSucceeds(i) \/ LoadFails(i)
      PROVE  PageInv' /\ (filled => filled' /\ live' = live)
  <2>1. filled => filled'
    BY <1>3 DEF ProbeSucceeds, ProbeFails, LoadSucceeds, LoadFails
  <2> QED BY <1>3, <2>1, ProbeKeepsInv, SuccessKeepsInv, FailureKeepsInv
<1>4. CASE SocketChanges \/ OnMempoolTx \/ Poll \/ LaneFires \/ TickerFires
  <2>1. filled' = filled
    BY <1>4 DEF SocketChanges, OnMempoolTx, Poll, LaneFires, TickerFires
  <2> QED BY <1>4, <2>1, MessagesKeepInv
<1>5. CASE Frame \/ Navigate
  <2>1. filled' = filled
    BY <1>5 DEF Frame, Navigate
  <2> QED BY <1>2, <1>5, <2>1, ChartKeepsInv
<1>6. CASE OnAmmSync
  <2>1. filled' = filled
    BY <1>6 DEF OnAmmSync
  <2> QED BY <1>2, <1>6, <2>1, SyncKeepsInv
<1> QED BY <1>2, <1>3, <1>4, <1>5, <1>6 DEF LivePageNext

\* What stutters keeps everything.
LEMMA PageStutters ==
  ASSUME PageInv, UNCHANGED pageVars
  PROVE  PageInv'
BY DEF pageVars, PageInv, PageOK, DropsItsOwn, ChartShowsPrice, LoadIsOver, Cancelled, Shown

LEMMA PageStep ==
  ASSUME PageInv, [Next]_vars
  PROVE  PageInv' /\ [filled => filled' /\ IsPrefix(live.mempool, live'.mempool)]_pageVars
<1>1. LivePageNext \/ UNCHANGED pageVars
  BY DEF Next, vars, LiveStep, FocusStep, ForkStep, LpStep, EduStep, CanvasStep
<1> QED BY <1>1, LivePageKeepsInv, PageStutters

\* The invariant of the page holds in every state.
LEMMA PageInvariant == Spec => []PageInv
<1>1. Init => PageInv
  BY PageBegins DEF Init
<1>2. PageInv /\ [Next]_vars => PageInv'
  BY PageStep
<1> QED BY <1>1, <1>2, PTL DEF Spec

\* The chart shows the price of the store whenever there is one, for any prices
\* and any length of the chart (LiveAmmPanel.tsx:44-74).
THEOREM ChartIsRight == Spec => []ChartShowsPrice
<1>1. PageInv => ChartShowsPrice
  BY DEF PageInv
<1> QED BY <1>1, PageInvariant, PTL

\* Once a load has filled the stores, no transaction that the page shows goes
\* away again, however many are pushed (App.tsx:76-148).
THEOREM NothingShownIsLost == Spec => ShownStays
<1>1. PageInv /\ [Next]_vars => [filled => filled' /\ IsPrefix(live.mempool, live'.mempool)]_pageVars
  BY PageStep
<1> QED BY <1>1, PageInvariant, PTL DEF Spec, ShownStays

-----------------------------------------------------------------------------
(* The panels. *)

Some == Nat \ {0}

\* Division rounds down.
LEMMA QuotientBounds ==
  ASSUME NEW n \in Nat, NEW d \in Some
  PROVE  n \div d \in Nat /\ d * (n \div d) <= n /\ n < d * (n \div d) + d
BY DEF Some

\* A quotient is placed by multiplying.
LEMMA QuotientOrder ==
  ASSUME NEW n \in Nat, NEW d \in Some, NEW q \in Nat
  PROVE  /\ n < d * (q + 1) => n \div d <= q
         /\ d * q <= n => q <= n \div d
BY DEF Some

\* Multiplication keeps order, and may be cancelled.
LEMMA TimesKeepsOrder ==
  ASSUME NEW a \in Int, NEW b \in Int, NEW m \in Some
  PROVE  (a <= b <=> m * a <= m * b) /\ (a < b <=> m * a < m * b)
BY DEF Some

\* Rounding gives the nearest, and halves go up.
LEMMA RoundedBounds ==
  ASSUME NEW n \in Nat, NEW d \in Some
  PROVE  /\ Rounded(n, d) \in Nat
         /\ 2 * (d * Rounded(n, d)) <= 2 * n + d /\ 2 * n < 2 * (d * Rounded(n, d)) + d
<1> DEFINE q == n \div d  m == n % d  r == Rounded(n, d)
<1>1. q \in Nat /\ m \in Nat /\ m < d /\ n = d * q + m
  BY DEF Some
<1>2. r = q + IF 2 * m >= d THEN 1 ELSE 0
  BY DEF Rounded
<1> HIDE DEF q, m, r
<1>3. CASE 2 * m >= d
  <2>1. r = q + 1
    BY <1>2, <1>3
  <2>2. d * r = d * q + d
    BY <1>1, <2>1 DEF Some
  <2> DEFINE dq == d * q
  <2>3. dq \in Nat
    BY <1>1 DEF Some
  <2> HIDE DEF dq
  <2>4. r \in Nat /\ 2 * (dq + d) <= 2 * n + d /\ 2 * n < 2 * (dq + d) + d
    BY <1>1, <1>3, <2>1, <2>3 DEF Some, dq
  <2> QED BY <2>2, <2>4 DEF r, dq
<1>4. CASE ~(2 * m >= d)
  <2>1. r = q
    BY <1>1, <1>2, <1>4
  <2> DEFINE dq == d * q
  <2>3. dq \in Nat
    BY <1>1 DEF Some
  <2> HIDE DEF dq
  <2>4. r \in Nat /\ 2 * dq <= 2 * n + d /\ 2 * n < 2 * dq + d
    BY <1>1, <1>4, <2>1, <2>3 DEF Some, dq
  <2> QED BY <2>1, <2>4 DEF r, dq
<1> QED BY <1>3, <1>4

\* The shares of four amounts, in tenths of a percent.
LEMMA SharesAddUp ==
  ASSUME NEW a \in Nat, NEW b \in Nat, NEW c \in Nat, NEW e \in Nat, a + b + c + e > 0
  PROVE  LET total == a + b + c + e
             share(n) == Rounded(n * 1000, total)
         IN share(a) + share(b) + share(c) + share(e) \in 999..1002
<1> DEFINE total == a + b + c + e
           share(n) == Rounded(n * 1000, total)
           s == share(a) + share(b) + share(c) + share(e)
<1>1. total \in Some
  BY DEF Some
<1>2. \A n \in {a, b, c, e} : /\ share(n) \in Nat
                              /\ 2 * (total * share(n)) <= 2 * (n * 1000) + total
                              /\ 2 * (n * 1000) < 2 * (total * share(n)) + total
  <2> TAKE n \in {a, b, c, e}
  <2>1. n * 1000 \in Nat
    OBVIOUS
  <2> HIDE DEF total
  <2> QED BY <1>1, <2>1, RoundedBounds
<1> HIDE DEF share
<1>3. /\ total * s = total * share(a) + total * share(b) + total * share(c) + total * share(e)
      /\ s \in Nat
  <2> HIDE DEF total
  <2> QED BY <1>1, <1>2 DEF Some
<1>4. 2 * (total * s) <= 2000 * total + 4 * total /\ 2000 * total < 2 * (total * s) + 4 * total
  <2>1. /\ total * share(a) \in Nat /\ total * share(b) \in Nat
        /\ total * share(c) \in Nat /\ total * share(e) \in Nat
    BY <1>1, <1>2 DEF Some
  <2> DEFINE w == total * share(a)  x == total * share(b)
             y == total * share(c)  z == total * share(e)
  <2>2. /\ w \in Nat /\ x \in Nat /\ y \in Nat /\ z \in Nat
        /\ 2 * w <= 2 * (a * 1000) + total /\ 2 * (a * 1000) < 2 * w + total
        /\ 2 * x <= 2 * (b * 1000) + total /\ 2 * (b * 1000) < 2 * x + total
        /\ 2 * y <= 2 * (c * 1000) + total /\ 2 * (c * 1000) < 2 * y + total
        /\ 2 * z <= 2 * (e * 1000) + total /\ 2 * (e * 1000) < 2 * z + total
        /\ total * s = w + x + y + z
    BY <1>2, <1>3, <2>1
  <2> HIDE DEF w, x, y, z, s
  <2> QED BY <2>2
<1>5. total * (2 * s) <= total * 2004 /\ total * 1996 < total * (2 * s)
  <2> HIDE DEF s, total
  <2>1. total * (2 * s) = 2 * (total * s) /\ total * s \in Nat
    BY <1>1, <1>3 DEF Some
  <2> QED BY <1>1, <1>4, <2>1 DEF Some
<1>6. 2 * s <= 2004 /\ 1996 < 2 * s
  <2> HIDE DEF s, total
  <2> QED BY <1>1, <1>3, <1>5, TimesKeepsOrder
<1> HIDE DEF s
<1>7. s \in 999..1002
  BY <1>3, <1>6
<1> QED BY <1>7 DEF s, share

\* What the conclusion foretells for a depth at least five times as large.
LEMMA FarLessAtDepth ==
  ASSUME NEW a \in Nat, NEW depth \in Some, NEW alt \in Some, alt >= 5 * depth,
         NEW p \in Nat, NEW t \in Nat, NEW u \in Nat,
         2 * (depth * p) <= 2 * a + depth,
         2 * a < 2 * (alt * t) + alt,
         2 * ((alt * alt) * u) <= 2 * (p * depth * depth) + alt * alt
  PROVE  u <= t
<1> SUFFICES ASSUME u >= t + 1 PROVE FALSE
  OBVIOUS
<1> DEFINE dp == depth * p
<1>1. dp \in Nat /\ alt * dp \in Nat /\ alt * a \in Nat /\ depth * dp \in Nat
      /\ alt * depth \in Nat
  BY DEF Some
<1>2. p * depth * depth = depth * dp
  BY DEF Some
<1>3. (alt * alt) * (2 * t + 1) <= 2 * (depth * dp)
  <2> DEFINE sq == alt * alt
  <2>1. sq \in Some
    BY DEF Some
  <2> HIDE DEF sq, dp
  <2>2. sq * (2 * t + 2) <= sq * (2 * u)
    BY <2>1, TimesKeepsOrder DEF Some
  <2>3. sq * (2 * t + 2) = sq * (2 * t + 1) + sq /\ sq * (2 * u) = 2 * (sq * u)
    BY <2>1 DEF Some
  <2>4. 2 * (sq * u) <= 2 * (depth * dp) + sq
    BY <1>2 DEF sq
  <2>5. sq * u \in Nat /\ sq * (2 * t + 1) \in Nat
    BY <2>1 DEF Some
  <2>6. sq * (2 * t + 1) <= 2 * (depth * dp)
    BY <1>1, <2>1, <2>2, <2>3, <2>4, <2>5 DEF Some
  <2> QED BY <2>6 DEF sq
<1>4. alt * (2 * a) < (alt * alt) * (2 * t + 1)
  <2>1. 2 * a < alt * (2 * t + 1)
    BY DEF Some
  <2>2. alt * (2 * t + 1) \in Int
    BY DEF Some
  <2>3. alt * (2 * a) < alt * (alt * (2 * t + 1))
    BY <2>1, <2>2, TimesKeepsOrder
  <2>4. alt * (alt * (2 * t + 1)) = (alt * alt) * (2 * t + 1)
    BY DEF Some
  <2> QED BY <2>3, <2>4
<1>5. alt * (2 * dp) <= alt * (2 * a + depth)
  <2> HIDE DEF dp
  <2>1. 2 * dp <= 2 * a + depth /\ 2 * dp \in Int /\ 2 * a + depth \in Int
    BY <1>1 DEF Some, dp
  <2> QED BY <2>1, TimesKeepsOrder
<1>6. alt * (2 * dp) < 2 * (depth * dp) + alt * depth
  <2> HIDE DEF dp
  <2>1. alt * (2 * a + depth) = alt * (2 * a) + alt * depth
    BY DEF Some
  <2>2. alt * (2 * a) \in Int /\ (alt * alt) * (2 * t + 1) \in Int /\ alt * (2 * dp) \in Int
    BY <1>1 DEF Some
  <2> QED BY <1>1, <1>3, <1>4, <1>5, <2>1, <2>2
<1>7. p >= 1
  <2>1. CASE p = 0
    <3>1. 2 * (depth * dp) = 0
      BY <2>1 DEF Some
    <3>2. (alt * alt) * (2 * t + 1) > 0
      BY DEF Some
    <3> QED BY <1>3, <3>1, <3>2 DEF Some
  <2> QED BY <2>1
<1>8. depth <= dp
  BY <1>7, TimesKeepsOrder DEF Some
<1>9. alt * depth <= alt * dp
  BY <1>1, <1>8, TimesKeepsOrder DEF Some
<1>10. alt * dp < 2 * (depth * dp)
  <2> HIDE DEF dp
  <2>1. alt * (2 * dp) = 2 * (alt * dp)
    BY <1>1 DEF Some
  <2> QED BY <1>1, <1>6, <1>9, <2>1
<1>11. 5 * (depth * dp) <= alt * dp
  <2>1. dp \in Some
    BY <1>1, <1>8 DEF Some
  <2> HIDE DEF dp
  <2>2. dp * (5 * depth) <= dp * alt
    BY <2>1, TimesKeepsOrder DEF Some
  <2>3. dp * (5 * depth) = 5 * (depth * dp) /\ dp * alt = alt * dp
    BY <2>1 DEF Some
  <2> QED BY <2>2, <2>3
<1>12. depth * dp \in Nat
  BY <1>1
<1> HIDE DEF dp
<1> QED BY <1>1, <1>10, <1>11, <1>12

\* What the sliders of the fork page and of the simulation may be set to.
ParamsOK(p) ==
  /\ DOMAIN p = ParamNames
  /\ p.poolDepth \in Some /\ p.attackerCapital \in Some /\ p.gasPrice \in Nat

SlidersOK(s) ==
  /\ DOMAIN s = SliderNames
  /\ s.collateral \in Nat /\ s.debt \in Nat /\ s.price \in Nat /\ s.ltv \in 50..90

\* The result is that of the parameters at hand.
PanelsInv == ParamsOK(params) /\ resultOf = params /\ SlidersOK(sliders)

\* The profit, where the depth is above zero.
LEMMA ProfitOf ==
  ASSUME NEW p, ParamsOK(p)
  PROVE  /\ ComputeResult(p).profitUsd = Rounded(p.attackerCapital * 24800, p.poolDepth)
         /\ ComputeResult(p).profitUsd \in Nat
<1>1. (IF p.poolDepth < 1 THEN 1 ELSE p.poolDepth) = p.poolDepth
  BY DEF ParamsOK, Some
<1>2. p.attackerCapital * 24800 \in Nat /\ p.poolDepth \in Some
  BY DEF ParamsOK, Some
<1>3. Rounded(p.attackerCapital * 24800, p.poolDepth) \in Nat
  BY <1>2, RoundedBounds
<1> QED BY <1>1, <1>3 DEF ComputeResult

\* The three stages lie in order along the curve.
LEMMA StagesInOrder ==
  ASSUME PanelsInv
  PROVE  LET stage == Result.markers
         IN stage.pre.x[1] < stage.post.x[1] /\ stage.post.x[1] < stage.victim.x[1]
<1> DEFINE c == params.attackerCapital  d == params.poolDepth
<1>1. Result.markers = Markers(params)
  BY DEF PanelsInv, Result, ComputeResult
<1>2. /\ Markers(params).pre.x[1] = 2 * d + 1 * c /\ Markers(params).post.x[1] = 2 * d + 2 * c
      /\ Markers(params).victim.x[1] = 2 * d + 3 * c
  BY DEF Markers
<1>3. c \in Some /\ d \in Some
  BY DEF PanelsInv, ParamsOK
<1> HIDE DEF c, d
<1> QED BY <1>1, <1>2, <1>3 DEF Some

\* The shares of the result add up.
LEMMA SharesOfResult ==
  ASSUME PanelsInv
  PROVE  Shares[1] + Shares[2] + Shares[3] + Shares[4] \in 999..1002
<1> DEFINE profit == ComputeResult(params).profitUsd
           cost == params.gasPrice * 5 + 35
           b == Rounded(profit * 368, 1000)
           c == Rounded(profit * 226, 10000)
           total == profit + b + c + cost
<1>1. profit \in Nat /\ cost \in Nat /\ cost > 0
  BY ProfitOf DEF PanelsInv, ParamsOK
<1>2. b \in Nat /\ c \in Nat
  <2> HIDE DEF profit
  <2>1. profit * 368 \in Nat /\ profit * 226 \in Nat /\ 1000 \in Some /\ 10000 \in Some
    BY <1>1, SMT DEF Some
  <2> QED BY <2>1, RoundedBounds
<1>3. /\ Result.sankey[1].amount = profit /\ Result.sankey[2].amount = b
      /\ Result.sankey[3].amount = c /\ Result.sankey[4].amount = cost
  BY SMT DEF PanelsInv, Result, ComputeResult
<1> HIDE DEF profit, cost, b, c
<1>4. total > 0
  BY <1>1, <1>2
<1>5. Shares = [i \in 1..4 |-> Rounded(Result.sankey[i].amount * 1000, total)]
  BY <1>3, <1>4, SMT DEF Shares
<1>6. /\ Shares[1] = Rounded(profit * 1000, total) /\ Shares[2] = Rounded(b * 1000, total)
      /\ Shares[3] = Rounded(c * 1000, total) /\ Shares[4] = Rounded(cost * 1000, total)
  BY <1>3, <1>5, SMT
<1> QED BY <1>1, <1>2, <1>4, <1>6, SharesAddUp

\* The conclusion foretells no more than the simulation gives.
LEMMA LessAtDepth ==
  ASSUME PanelsInv
  PROVE  AltProfit <= ComputeResult([params EXCEPT !.poolDepth = AltDepth]).profitUsd
<1> DEFINE depth == params.poolDepth
           alt == AltDepth
           a == params.attackerCapital * 24800
           p == Rounded(a, depth)
           t == Rounded(a, alt)
<1>1. depth \in Some /\ a \in Nat
  BY DEF PanelsInv, ParamsOK, Some
<1>2. alt \in Some /\ alt >= 5 * depth
  <2>1. 5 * depth > 5000 \/ 5 * depth <= 5000
    BY <1>1, SMT DEF Some
  <2> QED BY <1>1, <2>1, SMT DEF AltDepth, Some
<1>3. Result.profitUsd = p
  BY ProfitOf DEF PanelsInv, Result
<1>4. ComputeResult([params EXCEPT !.poolDepth = AltDepth]).profitUsd = t
  <2> DEFINE q == [params EXCEPT !.poolDepth = AltDepth]
  <2>1. ParamsOK(q) /\ q.poolDepth = alt /\ q.attackerCapital = params.attackerCapital
    BY <1>2 DEF PanelsInv, ParamsOK, ParamNames
  <2> HIDE DEF q
  <2>2. ComputeResult(q).profitUsd = Rounded(q.attackerCapital * 24800, q.poolDepth)
    BY <2>1, ProfitOf
  <2>3. ComputeResult(q).profitUsd = t
    BY <2>1, <2>2
  <2> QED BY <2>3 DEF q
<1> HIDE DEF a
<1>5. /\ p \in Nat /\ 2 * (depth * p) <= 2 * a + depth /\ 2 * a < 2 * (depth * p) + depth
      /\ t \in Nat /\ 2 * (alt * t) <= 2 * a + alt /\ 2 * a < 2 * (alt * t) + alt
  BY <1>1, <1>2, RoundedBounds
<1> HIDE DEF p, t, depth, alt
<1>6. CASE alt = 5 * depth
  <2> DEFINE u == Rounded(p * 1 * 1, 5 * 5)
  <2>1. AltProfit = u
    <3>1. AltDepth = 5 * params.poolDepth
      BY <1>6 DEF alt, depth
    <3> QED BY <1>3, <3>1 DEF AltProfit
  <2>2. u \in Nat /\ 2 * (25 * u) <= 2 * p + 25
    <3>1. p * 1 * 1 = p /\ 5 * 5 = 25 /\ 25 \in Some
      BY <1>5 DEF Some
    <3> QED BY <1>5, <3>1, RoundedBounds
  <2> HIDE DEF u
  <2>3. depth * (2 * p) < depth * (10 * t + 6)
    <3>1. depth * (2 * p) = 2 * (depth * p) /\ depth * (10 * t + 6) = 2 * (alt * t) + 6 * depth
          /\ alt * t = 5 * (depth * t)
      BY <1>1, <1>5, <1>6 DEF Some
    <3>2. depth * p \in Nat /\ depth * t \in Nat
      BY <1>1, <1>5 DEF Some
    <3> DEFINE dp == depth * p  dt == depth * t
    <3>3. /\ 2 * dp <= 2 * a + depth /\ 2 * a < 2 * (5 * dt) + alt /\ dp \in Nat /\ dt \in Nat
          /\ depth * (2 * p) = 2 * dp /\ depth * (10 * t + 6) = 2 * (5 * dt) + 6 * depth
      BY <1>5, <3>1, <3>2
    <3> HIDE DEF dp, dt
    <3>4. 2 * dp < 2 * (5 * dt) + 6 * depth
      BY <1>1, <1>2, <1>6, <3>3 DEF Some
    <3> QED BY <3>3, <3>4
  <2>4. 2 * p < 10 * t + 6
    BY <1>1, <1>5, <2>3, TimesKeepsOrder
  <2>5. u <= t
    BY <1>5, <2>2, <2>4
  <2> QED BY <1>4, <2>1, <2>5
<1>7. CASE alt # 5 * depth
  <2> DEFINE u == Rounded(p * depth * depth, alt * alt)
  <2>1. AltProfit = u
    <3>1. AltDepth # 5 * params.poolDepth
      BY <1>7 DEF alt, depth
    <3> QED BY <1>3, <3>1 DEF AltProfit, alt, depth
  <2>2. u \in Nat /\ 2 * ((alt * alt) * u) <= 2 * (p * depth * depth) + alt * alt
    <3>1. p * depth * depth \in Nat /\ alt * alt \in Some
      BY <1>1, <1>2, <1>5 DEF Some
    <3> QED BY <3>1, RoundedBounds
  <2> HIDE DEF u
  <2>3. u <= t
    BY <1>1, <1>2, <1>5, <2>2, FarLessAtDepth
  <2> QED BY <1>4, <2>1, <2>3
<1> QED BY <1>6, <1>7

\* A high gauge means a profit of at least the depth.
LEMMA HighIsHigh ==
  ASSUME PanelsInv, QuantResults.level = "high"
  PROVE  Result.profitUsd >= params.poolDepth
<1> DEFINE depth == params.poolDepth
           profit == Result.profitUsd
           score == Rounded(profit * 100, 2 * depth)
<1>1. depth \in Some /\ profit \in Nat
  BY ProfitOf DEF PanelsInv, ParamsOK, Result
<1>2. score >= 70
  <2>1. (IF score > 100 THEN 100 ELSE score) >= 70
    <3> DEFINE gauge == IF score > 100 THEN 100 ELSE score
    <3>1. QuantResults.level = IF gauge >= 70 THEN "high" ELSE IF gauge >= 30 THEN "medium" ELSE "low"
      BY SMT DEF QuantResults
    <3> HIDE DEF gauge
    <3>2. gauge >= 70
      BY <3>1
    <3> QED BY <3>2 DEF gauge
  <2>2. profit * 100 \in Nat /\ 2 * depth \in Some
    BY <1>1 DEF Some
  <2>3. score \in Nat
    BY <2>2, RoundedBounds
  <2> HIDE DEF score
  <2> QED BY <2>1, <2>3, SMT
<1> HIDE DEF profit, depth
<1>3. /\ score \in Nat /\ 2 * ((2 * depth) * score) <= 2 * (profit * 100) + 2 * depth
  <2>1. profit * 100 \in Nat /\ 2 * depth \in Some
    BY <1>1 DEF Some
  <2> QED BY <2>1, RoundedBounds
<1> HIDE DEF score
<1>4. depth * 70 <= depth * score /\ depth * score \in Nat
  BY <1>1, <1>2, <1>3, TimesKeepsOrder DEF Some
<1>5. (2 * depth) * score = 2 * (depth * score)
  BY <1>1, <1>3 DEF Some
<1>6. depth <= profit
  <2> DEFINE ds == depth * score
  <2>1. ds \in Nat /\ depth * 70 <= ds /\ 2 * (2 * ds) <= 2 * (profit * 100) + 2 * depth
    BY <1>3, <1>4, <1>5
  <2> HIDE DEF ds
  <2> QED BY <1>1, <2>1 DEF Some
<1> QED BY <1>6, <1>1 DEF profit, depth, Some

\* The gauge lies between the two points of the curve around the price.
LEMMA GaugeOnCurve ==
  ASSUME PanelsInv, sliders.ltv = 80
  PROVE  LET tenths(hf) == (10 * hf[1]) \div hf[2]
             curve == BuildCurve
         IN tenths(Gauge) \in tenths(curve[9].hf) .. tenths(curve[10].hf)
<1> DEFINE tenths(hf) == (10 * hf[1]) \div hf[2]
           value == sliders.collateral * sliders.price
           debt == sliders.debt
<1>1. value \in Nat /\ debt \in Nat
  BY DEF PanelsInv, SlidersOK
<1>2. /\ BuildCurve[9].hf = HealthFactor(<<sliders.price * 37, 38>>, 80)
      /\ BuildCurve[10].hf = HealthFactor(<<sliders.price * 39, 38>>, 80)
      /\ Gauge = HealthFactor(<<sliders.price, 1>>, 80)
  BY DEF BuildCurve, Gauge
<1>3. CASE debt > 0
  <2> DEFINE x == 800 * value  y == 100 * debt
  <2>1. /\ tenths(Gauge) = x \div y
        /\ tenths(BuildCurve[9].hf) = (37 * x) \div (38 * y)
        /\ tenths(BuildCurve[10].hf) = (39 * x) \div (38 * y)
    <3>1. /\ Gauge = <<sliders.collateral * sliders.price * 80, 1 * 100 * debt>>
          /\ BuildCurve[9].hf = <<sliders.collateral * (sliders.price * 37) * 80, 38 * 100 * debt>>
          /\ BuildCurve[10].hf = <<sliders.collateral * (sliders.price * 39) * 80, 38 * 100 * debt>>
      BY <1>2, <1>3 DEF HealthFactor
    <3>2. /\ 10 * (sliders.collateral * sliders.price * 80) = x
          /\ 10 * (sliders.collateral * (sliders.price * 37) * 80) = 37 * x
          /\ 10 * (sliders.collateral * (sliders.price * 39) * 80) = 39 * x
          /\ 1 * 100 * debt = y /\ 38 * 100 * debt = 38 * y
      BY DEF PanelsInv, SlidersOK
    <3> HIDE DEF x, y
    <3> QED BY <3>1, <3>2
  <2>2. x \in Nat /\ y \in Some
    BY <1>1, <1>3 DEF Some
  <2> HIDE DEF x, y
  <2> DEFINE q == x \div y
  <2>3. q \in Nat /\ y * q <= x /\ x < y * q + y
    BY <2>2, QuotientBounds
  <2> HIDE DEF q
  <2>4. 37 * x \in Nat /\ 39 * x \in Nat /\ 38 * y \in Some /\ y * q \in Nat
    BY <2>2, <2>3 DEF Some
  <2>5. 37 * x < (38 * y) * (q + 1) /\ (38 * y) * q <= 39 * x
    <3> DEFINE yq == y * q
    <3>1. (38 * y) * (q + 1) = 38 * yq + 38 * y /\ (38 * y) * q = 38 * yq
      BY <2>2, <2>3 DEF Some
    <3>2. yq \in Nat /\ yq <= x /\ x < yq + y
      BY <2>3, <2>4
    <3> HIDE DEF yq
    <3> QED BY <2>2, <3>1, <3>2 DEF Some
  <2>6. (37 * x) \div (38 * y) <= q /\ q <= (39 * x) \div (38 * y)
    BY <2>3, <2>4, <2>5, QuotientOrder
  <2>7. (37 * x) \div (38 * y) \in Nat /\ (39 * x) \div (38 * y) \in Nat
    BY <2>4, QuotientBounds
  <2>8. tenths(Gauge) \in tenths(BuildCurve[9].hf) .. tenths(BuildCurve[10].hf)
    <3> HIDE DEF tenths
    <3> QED BY <2>1, <2>3, <2>6, <2>7 DEF q
  <2> QED BY <2>8
<1>4. CASE ~(debt > 0)
  <2>1. Gauge = <<5, 1>> /\ BuildCurve[9].hf = <<5, 1>> /\ BuildCurve[10].hf = <<5, 1>>
    BY <1>2, <1>4 DEF HealthFactor
  <2>2. tenths(<<5, 1>>) = 50
    OBVIOUS
  <2> HIDE DEF tenths
  <2>3. tenths(Gauge) \in tenths(BuildCurve[9].hf) .. tenths(BuildCurve[10].hf)
    BY <2>1, <2>2
  <2> QED BY <2>3 DEF tenths
<1> QED BY <1>3, <1>4

\* A gauge in danger has the curve begin in danger, whatever its threshold.
LEMMA DangerOnCurve ==
  ASSUME PanelsInv, Level = "danger"
  PROVE  (10 * BuildCurve[0].hf[1]) \div BuildCurve[0].hf[2] < 9
<1> DEFINE value == sliders.collateral * sliders.price
           debt == sliders.debt
           ltv == sliders.ltv
<1>1. value \in Nat /\ debt \in Nat /\ ltv \in 50..90
  BY DEF PanelsInv, SlidersOK
<1>2. Gauge[1] * 10 < 9 * Gauge[2]
  BY DEF Level
<1>3. Gauge = HealthFactor(<<sliders.price, 1>>, ltv)
  BY DEF Gauge
<1>4. debt > 0
  <2> SUFFICES ASSUME ~(debt > 0) PROVE FALSE
    OBVIOUS
  <2>1. Gauge = <<5, 1>>
    BY <1>3 DEF HealthFactor
  <2> QED BY <1>2, <2>1
<1>5. (value * ltv) * 10 < 900 * debt
  <2>1. Gauge = <<sliders.collateral * sliders.price * ltv, 1 * 100 * debt>>
    BY <1>3, <1>4 DEF HealthFactor
  <2>2. 9 * (1 * 100 * debt) = 900 * debt
    BY <1>1
  <2> QED BY <1>2, <2>1, <2>2
<1>6. /\ BuildCurve[0].hf[1] = sliders.collateral * (sliders.price * 19) * 80
      /\ BuildCurve[0].hf[2] = 38 * 100 * debt
  <2>1. BuildCurve[0].hf = HealthFactor(<<sliders.price * 19, 38>>, 80)
    BY DEF BuildCurve
  <2> QED BY <1>4, <2>1 DEF HealthFactor
<1>7. 10 * BuildCurve[0].hf[1] = 15200 * value /\ BuildCurve[0].hf[2] = 3800 * debt
  <2>1. sliders.collateral * (sliders.price * 19) * 80 = 1520 * value
    BY DEF PanelsInv, SlidersOK
  <2> QED BY <1>1, <1>6, <2>1
<1> HIDE DEF value, debt, ltv
<1>8. value * 50 <= value * ltv
  BY <1>1
<1>9. 15200 * value < (3800 * debt) * 9
  <2> DEFINE vl == value * ltv
  <2>1. vl \in Nat /\ vl * 10 < 900 * debt /\ value * 50 <= vl
    BY <1>1, <1>5, <1>8
  <2> HIDE DEF vl
  <2> QED BY <1>1, <2>1
<1> DEFINE x == 15200 * value  y == 3800 * debt
<1>10. x \in Nat /\ y \in Some /\ x < y * 9
  BY <1>1, <1>4, <1>9 DEF Some
<1> HIDE DEF x, y
<1>11. x \div y <= 8
  <2>1. 8 + 1 = 9 /\ 8 \in Nat
    OBVIOUS
  <2> QED BY <1>10, <2>1, QuotientOrder
<1>12. x \div y \in Nat
  BY <1>10, QuotientBounds
<1>13. x \div y < 9
  BY <1>11, <1>12
<1> QED BY <1>7, <1>13 DEF x, y

-----------------------------------------------------------------------------
\* The charts.

\* A set of numbers has a least one, and one that is bounded a greatest.
LEMMA LeastExists ==
  ASSUME NEW S \in SUBSET Nat, S # {}
  PROVE  \E least \in S : \A v \in S : least <= v
<1>1. PICK least \in S : \A v \in S : ~(<<v, least>> \in OpToRel(<, Nat))
  BY NatLessThanWellFounded, WFMin
<1>2. ASSUME NEW v \in S PROVE least <= v
  <2>1. ~(<<v, least>> \in OpToRel(<, Nat))
    BY <1>1
  <2>2. ~(v < least)
    BY <2>1 DEF OpToRel
  <2> QED BY <2>2
<1> QED BY <1>2

\* Between two bounds.
LEMMA EndsExist ==
  ASSUME NEW S \in SUBSET Int, S # {}, NEW lo \in Int, NEW hi \in Int,
         \A v \in S : lo <= v /\ v <= hi
  PROVE  /\ Min(S) \in S /\ \A v \in S : Min(S) <= v
         /\ Max(S) \in S /\ \A v \in S : v <= Max(S)
<1>1. \E least \in S : \A v \in S : least <= v
  <2> DEFINE T == {v - lo : v \in S}
  <2>0. \A v \in S : v \in Int /\ v - lo \in Nat
    OBVIOUS
  <2>1. T \in SUBSET Nat /\ T # {}
    BY <2>0
  <2>2. PICK t \in T : \A u \in T : t <= u
    BY <2>1, LeastExists
  <2>3. PICK least \in S : t = least - lo
    BY <2>2
  <2>4. ASSUME NEW v \in S PROVE least <= v
    <3>1. least - lo <= v - lo
      BY <2>2, <2>3
    <3> QED BY <2>0, <3>1
  <2> QED BY <2>4
<1>2. \E most \in S : \A v \in S : v <= most
  <2> DEFINE T == {hi - v : v \in S}
  <2>0. \A v \in S : v \in Int /\ hi - v \in Nat
    OBVIOUS
  <2>1. T \in SUBSET Nat /\ T # {}
    BY <2>0
  <2>2. PICK t \in T : \A u \in T : t <= u
    BY <2>1, LeastExists
  <2>3. PICK most \in S : t = hi - most
    BY <2>2
  <2>4. ASSUME NEW v \in S PROVE v <= most
    <3>1. hi - most <= hi - v
      BY <2>2, <2>3
    <3> QED BY <2>0, <3>1
  <2> QED BY <2>4
<1>3. Min(S) \in S /\ \A v \in S : Min(S) <= v
  BY <1>1 DEF Min
<1>4. Max(S) \in S /\ \A v \in S : Max(S) >= v
  <2>1. \E most \in S : \A v \in S : most >= v
    BY <1>2
  <2> QED BY <2>1 DEF Max
<1> QED BY <1>3, <1>4

\* What an axis must satisfy, field by field.
LEMMA AxisFits ==
  ASSUME NEW low, NEW high, NEW drawn, low < high, \A v \in drawn : low <= v /\ v <= high
  PROVE  Fits([low |-> low, high |-> high, drawn |-> drawn])
BY DEF Fits

\* An axis that spans values.
LEMMA SpanningFits ==
  ASSUME NEW S \in SUBSET Int, S # {}, NEW lo \in Int, NEW hi \in Int,
         \A v \in S : lo <= v /\ v <= hi
  PROVE  Fits(Spanning(S))
<1>1. /\ Min(S) \in S /\ \A v \in S : Min(S) <= v
      /\ Max(S) \in S /\ \A v \in S : v <= Max(S)
  BY EndsExist
<1> DEFINE low == Min(S)  most == Max(S)
           high == IF most = low THEN low + 1 ELSE most
<1>2. Spanning(S) = [low |-> low, high |-> high, drawn |-> S]
  BY DEF Spanning
<1> HIDE DEF low, most
<1>3. low \in Int /\ most \in Int /\ low <= most /\ \A v \in S : low <= v /\ v <= most
  BY <1>1 DEF low, most
<1>4. low < high /\ \A v \in S : low <= v /\ v <= high
  BY <1>3
<1> HIDE DEF high
<1>5. Fits([low |-> low, high |-> high, drawn |-> S])
  BY <1>4, AxisFits
<1> QED BY <1>2, <1>5

\* A full window of prices with a greatest: what the axis of the chart is made of.
HistoryOK(history) ==
  /\ history \in Seq(Nat) /\ Len(history) = HistoryLen
  /\ \E most \in Nat : \A i \in 1..HistoryLen : history[i] <= most

LEMMA WindowStaysFull ==
  ASSUME NEW history, HistoryOK(history), NEW price \in Nat
  PROVE  HistoryOK(Window(history, price))
<1> DEFINE grown == Append(history, price)
<1>1. /\ grown \in Seq(Nat) /\ Len(grown) = HistoryLen + 1 /\ grown # <<>> /\ HistoryLen \in Nat
      /\ \A i \in 1..HistoryLen : grown[i] = history[i]
      /\ grown[HistoryLen + 1] = price
  BY LivePageAssumption, AppendProperties DEF HistoryOK
<1> HIDE DEF grown
<1>2. /\ Tail(grown) \in Seq(Nat) /\ Len(Tail(grown)) = HistoryLen
      /\ \A i \in 1..HistoryLen : Tail(grown)[i] = grown[i + 1]
  BY <1>1, HeadTailProperties
<1>3. Window(history, price) = Tail(grown)
  BY <1>1 DEF Window, grown
<1>4. PICK most \in Nat : \A i \in 1..HistoryLen : history[i] <= most
  BY DEF HistoryOK
<1> DEFINE top == Larger(most, price)
<1>5. top \in Nat /\ most <= top /\ price <= top
  BY DEF Larger
<1> HIDE DEF top
<1>6. ASSUME NEW i \in 1..HistoryLen PROVE Tail(grown)[i] <= top
  <2>1. CASE i = HistoryLen
    BY <1>1, <1>2, <1>5, <2>1
  <2>2. CASE i # HistoryLen
    <3>1. i + 1 \in 1..HistoryLen
      BY <1>1, <2>2
    <3>2. Tail(grown)[i] = history[i + 1] /\ history[i + 1] <= most
      BY <1>1, <1>2, <1>4, <3>1
    <3>3. history[i + 1] \in Nat
      BY <3>1, ElementOfSeq DEF HistoryOK
    <3>4. \A v \in Nat : v <= most => v <= top
      BY <1>4, <1>5
    <3> QED BY <3>2, <3>3, <3>4, Zenon
  <2> QED BY <2>1, <2>2
<1> QED BY <1>2, <1>3, <1>5, <1>6 DEF HistoryOK

\* Whatever the step, the chart gets one price more or stays.
LEMMA ChartTakesOne ==
  ASSUME PageInv, LivePageNext
  PROVE  chart' = chart \/ \E price \in Nat : chart' = Push(chart, price)
<1> DEFINE kept == chart' = chart \/ \E price \in Nat : chart' = Push(chart, price)
<1>1. ASSUME NEW shown, NEW price \in Nat, ChartFollows(shown, price) PROVE kept
  BY <1>1 DEF ChartFollows, SetLivePrice
<1>2. live.price \in Nat /\ chart.price \in Nat
  BY DEF PageInv, PageOK
<1>3. ASSUME NEW i \in DOMAIN load, ProbeSucceeds(i) \/ ProbeFails(i) \/ LoadFails(i) PROVE kept
  BY <1>1, <1>2, <1>3 DEF ProbeSucceeds, ProbeFails, LoadFails
<1>4. ASSUME NEW i \in DOMAIN load, LoadSucceeds(i) PROVE kept
  <2>1. CASE Cancelled(i)
    BY <1>4, <2>1 DEF LoadSucceeds
  <2>2. CASE ~Cancelled(i)
    <3>1. \E price \in Prices \cup IF useBackend THEN {0} ELSE {} : ChartFollows(page = "live", price)
      BY <1>4, <2>2 DEF LoadSucceeds
    <3>2. (Prices \cup IF useBackend THEN {0} ELSE {}) \subseteq Nat
      BY LivePageAssumption
    <3> QED BY <1>1, <3>1, <3>2
  <2> QED BY <2>1, <2>2
<1>5. CASE Navigate
  BY <1>1, <1>2, <1>5 DEF Navigate
<1>6. CASE OnAmmSync
  BY <1>1, <1>6, LivePageAssumption DEF OnAmmSync
<1>7. CASE Frame
  <2>1. PICK step \in {-1, 1} : chart' = UpdatePrice(chart, step)
    BY <1>7 DEF Frame
  <2> QED BY <1>2, <2>1 DEF UpdatePrice
<1>8. CASE SocketChanges \/ OnMempoolTx \/ Poll \/ LaneFires \/ TickerFires
  BY <1>8 DEF SocketChanges, OnMempoolTx, Poll, LaneFires, TickerFires
<1> QED BY <1>3, <1>4, <1>5, <1>6, <1>7, <1>8 DEF LivePageNext

LEMMA HistoryBegins == LivePageInit => HistoryOK(chart.history)
<1> SUFFICES ASSUME LivePageInit PROVE HistoryOK(chart.history)
  OBVIOUS
<1>1. chart.history = SeedHistory /\ HistoryLen \in Nat /\ DefaultPrice \in Nat
  BY LivePageAssumption DEF LivePageInit
<1>2. SeedHistory \in Seq(Nat) /\ Len(SeedHistory) = HistoryLen
  <2>1. SeedHistory \in [1..HistoryLen -> Nat]
    BY <1>1 DEF SeedHistory
  <2> QED BY <1>1, <2>1, IsASeqOf
<1>3. \A i \in 1..HistoryLen : SeedHistory[i] <= DefaultPrice
  BY <1>1 DEF SeedHistory
<1> QED BY <1>1, <1>2, <1>3 DEF HistoryOK

LEMMA HistoryStep ==
  ASSUME PageInv, HistoryOK(chart.history), LivePageNext \/ UNCHANGED pageVars
  PROVE  HistoryOK(chart'.history)
<1>1. CASE UNCHANGED pageVars
  BY <1>1 DEF pageVars
<1>2. CASE LivePageNext
  BY <1>2, ChartTakesOne, WindowStaysFull DEF Push
<1> QED BY <1>1, <1>2

\* The axis of the live chart.
LEMMA LiveAmmFits ==
  ASSUME HistoryOK(chart.history)
  PROVE  Fits(LiveAmmAxis)
<1> DEFINE history == chart.history  S == Range(history)
<1>1. PICK most \in Nat : \A i \in 1..HistoryLen : history[i] <= most
  BY DEF HistoryOK
<1>2. history \in Seq(Nat) /\ DOMAIN history = 1..HistoryLen /\ 1 \in 1..HistoryLen
  BY LivePageAssumption, LenProperties DEF HistoryOK
<1>3. \A i \in 1..HistoryLen : history[i] \in Nat
  BY <1>2, ElementOfSeq DEF HistoryOK
<1>4. S # {} /\ \A v \in S : v \in Nat /\ 0 <= v /\ v <= most
  BY <1>1, <1>2, <1>3 DEF Range
<1>5. S \in SUBSET Int
  BY <1>4
<1>6. Fits(Spanning(S))
  <2> HIDE DEF S
  <2> QED BY <1>4, <1>5, SpanningFits
<1> QED BY <1>6 DEF LiveAmmAxis

\* The points of the curve: the price and the factor rise to those of the last.
LEMMA CurvePoint ==
  ASSUME SlidersOK(sliders), NEW i \in 0..19
  PROVE  LET point == BuildCurve[i]
             value == sliders.collateral * sliders.price
         IN /\ point.price[1] \in Nat /\ point.price[1] <= 57 * sliders.price
            /\ point.hf[1] \in Nat /\ point.hf[1] <= 4560 * value + 5
            /\ point.hf[2] \in Some /\ point.hf[2] = BuildCurve[0].hf[2]
<1> DEFINE price == sliders.price  collateral == sliders.collateral  debt == sliders.debt
           swept == price * (19 + 2 * i)
           hf == HealthFactor(<<swept, 38>>, 80)
<1>1. price \in Nat /\ collateral \in Nat /\ debt \in Nat
  BY DEF SlidersOK
<1>2. /\ BuildCurve[i].price = <<swept, 38>> /\ BuildCurve[i].hf = hf
      /\ BuildCurve[0].hf = HealthFactor(<<price * 19, 38>>, 80)
  <2>1. 0 \in 0..19 /\ 19 + 2 * 0 = 19
    OBVIOUS
  <2>2. \A j \in 0..19 : /\ BuildCurve[j].price = <<price * (19 + 2 * j), 38>>
                         /\ BuildCurve[j].hf = HealthFactor(<<price * (19 + 2 * j), 38>>, 80)
    BY DEF BuildCurve
  <2> QED BY ONLY <2>1, <2>2, i \in 0..19, Zenon
<1>3. swept \in Nat /\ swept <= 57 * price
  <2>1. 19 + 2 * i <= 57 /\ 19 + 2 * i \in Nat
    OBVIOUS
  <2> HIDE DEF price
  <2> QED BY <1>1, <2>1
<1>4. /\ hf[1] \in Nat /\ hf[1] <= 4560 * (collateral * price) + 5
      /\ hf[2] \in Some /\ hf[2] = BuildCurve[0].hf[2]
  <2>1. CASE debt > 0
    <3>1. hf = <<collateral * swept * 80, 38 * 100 * debt>>
          /\ BuildCurve[0].hf[2] = 38 * 100 * debt
      BY <1>2, <2>1 DEF HealthFactor
    <3> HIDE DEF swept, hf, price, collateral, debt
    <3>2. collateral * swept <= collateral * (57 * price) /\ collateral * swept \in Nat
      BY <1>1, <1>3
    <3>3. collateral * (57 * price) = 57 * (collateral * price) /\ collateral * price \in Nat
      BY <1>1
    <3> DEFINE cs == collateral * swept  cp == collateral * price
    <3>4. cs \in Nat /\ cp \in Nat /\ cs <= 57 * cp
      BY <3>2, <3>3
    <3> HIDE DEF cs, cp
    <3>5. cs * 80 \in Nat /\ cs * 80 <= 4560 * cp + 5 /\ 38 * 100 * debt \in Some
      BY <1>1, <2>1, <3>4 DEF Some
    <3> QED BY <3>1, <3>5 DEF cs, cp
  <2>2. CASE ~(debt > 0)
    <3>1. hf = <<5, 1>> /\ BuildCurve[0].hf = <<5, 1>>
      BY <1>2, <2>2 DEF HealthFactor
    <3>2. collateral * price \in Nat
      BY <1>1
    <3> HIDE DEF hf, price, collateral
    <3>3. 5 <= 4560 * (collateral * price) + 5
      BY <3>2
    <3> QED BY <3>1, <3>3 DEF Some
  <2> QED BY <2>1, <2>2
<1> HIDE DEF swept, hf
<1> QED BY <1>2, <1>3, <1>4

\* The axis of the prices.
LEMMA PricesFit ==
  ASSUME SlidersOK(sliders)
  PROVE  Fits(PriceHfCurve.prices)
<1> DEFINE S == {BuildCurve[i].price[1] : i \in 0..19}
           top == 57 * sliders.price
<1>1. \A v \in S : v \in Nat /\ 0 <= v /\ v <= top
  <2>1. ASSUME NEW i \in 0..19
        PROVE  BuildCurve[i].price[1] \in Nat /\ BuildCurve[i].price[1] <= top
    BY ONLY SlidersOK(sliders), i \in 0..19, CurvePoint, SMT
  <2> HIDE DEF top
  <2>2. \A v \in S : v \in Nat /\ v <= top
    BY ONLY <2>1, Zenon DEF S
  <2>3. \A v \in Nat : 0 <= v
    OBVIOUS
  <2> QED BY ONLY <2>2, <2>3, Zenon
<1>2. S # {} /\ S \in SUBSET Int /\ top \in Int
  <2>1. 0 \in 0..19
    OBVIOUS
  <2> QED BY <1>1, <2>1 DEF SlidersOK
<1>3. PriceHfCurve.prices = Spanning(S)
  BY DEF PriceHfCurve
<1> HIDE DEF S, top
<1>4. Fits(Spanning(S))
  BY <1>1, <1>2, SpanningFits
<1> QED BY <1>3, <1>4

\* The axis of the factors, which has a point below its middle.
LEMMA FactorsFit ==
  ASSUME SlidersOK(sliders)
  PROVE  Fits(PriceHfCurve.hfs)
<1> DEFINE hfs == {BuildCurve[i].hf[1] : i \in 0..19}
           whole == BuildCurve[0].hf[2]
           S == {3 * whole} \union {2 * hf : hf \in hfs}
           drawn == {2 * whole} \union {Larger(whole, 2 * hf) : hf \in hfs}
           most == 4560 * (sliders.collateral * sliders.price) + 5
           top == 3 * whole + 2 * most
<1>1. PriceHfCurve.hfs = [low |-> whole, high |-> Max(S), drawn |-> drawn]
  BY DEF PriceHfCurve
<1>2. most \in Nat
  <2>1. sliders.collateral * sliders.price \in Nat
    BY DEF SlidersOK
  <2> QED BY <2>1
<1>3. \A hf \in hfs : hf \in Nat /\ hf <= most
  <2>1. ASSUME NEW i \in 0..19
        PROVE  BuildCurve[i].hf[1] \in Nat /\ BuildCurve[i].hf[1] <= most
    BY ONLY SlidersOK(sliders), i \in 0..19, CurvePoint, SMT
  <2> HIDE DEF most
  <2> QED BY ONLY <2>1, Zenon DEF hfs
<1>4. whole \in Some
  <2>1. 0 \in 0..19
    OBVIOUS
  <2> QED BY ONLY SlidersOK(sliders), <2>1, CurvePoint, SMT
<1> HIDE DEF hfs, whole, most
<1>5. \A hf \in hfs : 2 * hf \in Int /\ 0 <= 2 * hf /\ 2 * hf <= top
  BY <1>2, <1>3, <1>4 DEF Some
<1>6. 3 * whole \in Int /\ 0 <= 3 * whole /\ 3 * whole <= top /\ top \in Int
  BY <1>2, <1>4 DEF Some
<1> HIDE DEF top
<1>7. S # {} /\ S \in SUBSET Int /\ \A v \in S : 0 <= v /\ v <= top
  BY <1>5, <1>6
<1>8. Max(S) \in S /\ \A v \in S : v <= Max(S)
  <2>1. 0 \in Int
    OBVIOUS
  <2> HIDE DEF S
  <2>2. /\ Min(S) \in S /\ \A v \in S : Min(S) <= v
        /\ Max(S) \in S /\ \A v \in S : v <= Max(S)
    BY ONLY <1>6, <1>7, <2>1, EndsExist
  <2> QED BY <2>2
<1> DEFINE high == Max(S)
<1>9. high \in Int /\ 3 * whole <= high /\ \A hf \in hfs : 2 * hf <= high
  BY <1>7, <1>8
<1> HIDE DEF high
<1>10. whole < high /\ whole <= 2 * whole /\ 2 * whole <= high
  BY <1>4, <1>9 DEF Some
<1>11. \A hf \in hfs : whole <= Larger(whole, 2 * hf) /\ Larger(whole, 2 * hf) <= high
  BY <1>3, <1>4, <1>9, <1>10 DEF Larger, Some
<1>12. \A v \in drawn : whole <= v /\ v <= high
  BY <1>10, <1>11
<1>13. Fits([low |-> whole, high |-> high, drawn |-> drawn])
  <2> HIDE DEF drawn
  <2> QED BY <1>10, <1>12, AxisFits
<1> QED BY <1>1, <1>13 DEF high

\* A needle in danger is in the first three tenths of its half circle.
LEMMA NeedleInDanger ==
  ASSUME SlidersOK(sliders), Level = "danger"
  PROVE  10 * Needle[1] < 3 * Needle[2]
<1> DEFINE a == Gauge[1]  b == Gauge[2]
<1>1. a \in Nat /\ b \in Some
  <2> DEFINE value == sliders.collateral * sliders.price * sliders.ltv
             debt == sliders.debt
  <2>1. value \in Nat /\ debt \in Nat
    BY DEF SlidersOK
  <2>2. Gauge = IF debt > 0 THEN <<value, 1 * 100 * debt>> ELSE <<5, 1>>
    BY DEF Gauge, HealthFactor
  <2> HIDE DEF value, debt
  <2> QED BY <2>1, <2>2 DEF Some
<1>2. a * 10 < 9 * b
  BY DEF Level
<1>3. Needle = IF a < 3 * b THEN <<a, 3 * b>> ELSE <<1, 1>>
  BY DEF Needle
<1> HIDE DEF a, b
<1>4. a < 3 * b /\ 10 * a < 3 * (3 * b)
  BY <1>1, <1>2 DEF Some
<1> QED BY <1>3, <1>4

\* The swap whose disturbance is drawn is always the same.
LEMMA DisturbanceFits == Fits(AmmDisturbance.x) /\ Fits(AmmDisturbance.y)
<1>1. AmmDisturbance.x.low = 3000 /\ AmmDisturbance.x.high = 4200
  BY SMT DEF AmmDisturbance, Larger
<1>2. \A v \in AmmDisturbance.x.drawn : v = 4000 \/ v = 3200
  BY SMT DEF AmmDisturbance, Larger
<1>3. AmmDisturbance.y.low = 7500000 /\ AmmDisturbance.y.high = 10500000
  BY SMT DEF AmmDisturbance, Larger
<1>4. \A v \in AmmDisturbance.y.drawn : v = 8000000 \/ v = 10000000
  BY SMT DEF AmmDisturbance, Larger
<1> QED BY <1>1, <1>2, <1>3, <1>4, SMT DEF Fits

\* The axis of the three stages.
LEMMA ForkAmmFits ==
  ASSUME PanelsInv
  PROVE  Fits(ForkAmmAxis)
<1> DEFINE d == params.poolDepth  c == params.attackerCapital
           S == {2 * d, 2 * d + 1 * c, 2 * d + 3 * c, 2 * d + 2 * c}
           top == 2 * d + 3 * c
           low == Min(S)  most == Max(S)
           high == low + Larger(2, most - low)
<1>1. d \in Nat /\ c \in Nat
  BY DEF PanelsInv, ParamsOK, Some
<1>2. /\ Result.reserve0 = d /\ Result.markers.pre.x[1] = 2 * d + 1 * c
      /\ Result.markers.victim.x[1] = 2 * d + 3 * c /\ Result.markers.post.x[1] = 2 * d + 2 * c
  BY DEF PanelsInv, Result, ComputeResult, Markers
<1>3. ForkAmmAxis = [low |-> low, high |-> high, drawn |-> S]
  BY <1>2 DEF ForkAmmAxis
<1> HIDE DEF d, c
<1>4. S # {} /\ S \in SUBSET Int /\ top \in Int /\ 0 \in Int /\ \A v \in S : 0 <= v /\ v <= top
  BY <1>1
<1> HIDE DEF S, top
<1>5. low \in S /\ (\A v \in S : low <= v) /\ most \in S /\ (\A v \in S : v <= most)
  BY ONLY <1>4, EndsExist
<1> HIDE DEF low, most
<1>6. low \in Int /\ most \in Int
  BY <1>4, <1>5
<1>7. low < high /\ most <= high /\ high \in Int
  BY <1>6 DEF Larger
<1> HIDE DEF high
<1>8. \A v \in S : low <= v /\ v <= high
  BY <1>4, <1>5, <1>6, <1>7
<1>9. Fits([low |-> low, high |-> high, drawn |-> S])
  BY <1>7, <1>8, AxisFits
<1> QED BY <1>3, <1>9

\* A ribbon of a recipient, in proportion or of two pixels.
RibbonOf(amount, total, usable) ==
  IF amount > 0 THEN Larger(2 * total, amount * usable) ELSE 0

\* It is as wide as its part, and two pixels wider at most.
LEMMA RibbonBounds ==
  ASSUME NEW amount \in Nat, NEW total \in Nat, NEW usable \in Nat
  PROVE  /\ amount * usable \in Nat /\ RibbonOf(amount, total, usable) \in Nat
         /\ amount * usable <= RibbonOf(amount, total, usable)
         /\ RibbonOf(amount, total, usable) <= amount * usable + 2 * total
<1> DEFINE share == amount * usable
<1>1. share \in Nat /\ (amount = 0 => share = 0)
  BY SMT
<1>2. RibbonOf(amount, total, usable)
        = IF amount > 0 THEN IF 2 * total < share THEN share ELSE 2 * total ELSE 0
  BY DEF RibbonOf, Larger
<1> DEFINE ribbon == RibbonOf(amount, total, usable)
<1> HIDE DEF share, ribbon
<1>3. ribbon \in Nat /\ share <= ribbon /\ ribbon <= share + 2 * total
  <2>1. ribbon = IF amount > 0 THEN IF 2 * total < share THEN share ELSE 2 * total ELSE 0
    BY <1>2 DEF ribbon
  <2> QED BY <1>1, <2>1
<1> QED BY <1>1, <1>3 DEF share, ribbon

\* The ribbons fill what the gaps leave of the column, and run over it by eight
\* pixels at most.
LEMMA RibbonsFill ==
  ASSUME NEW a \in Nat, NEW b \in Nat, NEW c \in Nat, NEW d \in Nat,
         NEW usable \in Nat, NEW gaps \in Nat
  PROVE  LET total == a + b + c + d
             ribbons == gaps * total + RibbonOf(a, total, usable) + RibbonOf(b, total, usable)
                          + RibbonOf(c, total, usable) + RibbonOf(d, total, usable)
         IN (usable + gaps) * total <= ribbons /\ ribbons <= (usable + gaps) * total + 8 * total
<1> DEFINE total == a + b + c + d
           ra == RibbonOf(a, total, usable)  rb == RibbonOf(b, total, usable)
           rc == RibbonOf(c, total, usable)  rd == RibbonOf(d, total, usable)
           pa == a * usable  pb == b * usable  pc == c * usable  pd == d * usable
           g == gaps * total
<1>1. total \in Nat /\ g \in Nat
  BY SMT
<1>2. (usable + gaps) * total = g + pa + pb + pc + pd
  BY SMT
<1> HIDE DEF total
<1>3. /\ pa \in Nat /\ ra \in Nat /\ pa <= ra /\ ra <= pa + 2 * total
      /\ pb \in Nat /\ rb \in Nat /\ pb <= rb /\ rb <= pb + 2 * total
      /\ pc \in Nat /\ rc \in Nat /\ pc <= rc /\ rc <= pc + 2 * total
      /\ pd \in Nat /\ rd \in Nat /\ pd <= rd /\ rd <= pd + 2 * total
  BY <1>1, RibbonBounds
<1> HIDE DEF pa, pb, pc, pd, ra, rb, rc, rd, g
<1>4. /\ g + pa + pb + pc + pd <= g + ra + rb + rc + rd
      /\ g + ra + rb + rc + rd <= g + pa + pb + pc + pd + 8 * total
  BY <1>1, <1>3
<1> QED BY <1>2, <1>4 DEF g, ra, rb, rc, rd, total

\* What each recipient gets; the validator always something.
LEMMA AmountsOfResult ==
  ASSUME PanelsInv
  PROVE  /\ Result.sankey[1].amount \in Nat /\ Result.sankey[2].amount \in Nat
         /\ Result.sankey[3].amount \in Nat /\ Result.sankey[4].amount \in Some
<1> DEFINE profit == ComputeResult(params).profitUsd
           cost == params.gasPrice * 5 + 35
           b == Rounded(profit * 368, 1000)
           c == Rounded(profit * 226, 10000)
<1>1. profit \in Nat /\ cost \in Some
  BY ProfitOf DEF PanelsInv, ParamsOK, Some
<1>2. b \in Nat /\ c \in Nat
  <2> HIDE DEF profit
  <2>1. profit * 368 \in Nat /\ profit * 226 \in Nat /\ 1000 \in Some /\ 10000 \in Some
    BY <1>1, SMT DEF Some
  <2> QED BY <2>1, RoundedBounds
<1>3. /\ Result.sankey[1].amount = profit /\ Result.sankey[2].amount = b
      /\ Result.sankey[3].amount = c /\ Result.sankey[4].amount = cost
  BY SMT DEF PanelsInv, Result, ComputeResult
<1> HIDE DEF profit, cost, b, c
<1> QED BY <1>1, <1>2, <1>3

\* And so on any canvas of the fork page.
LEMMA SankeyFills ==
  ASSUME PanelsInv, NEW height \in SankeyHeights
  PROVE  LET sankey == ForkSankey(height)
         IN sankey.source <= sankey.ribbons /\ sankey.ribbons <= sankey.source + 8 * sankey.unit
<1> DEFINE a == Result.sankey[1].amount  b == Result.sankey[2].amount
           c == Result.sankey[3].amount  d == Result.sankey[4].amount
           one(v) == IF v > 0 THEN 1 ELSE 0
           total == a + b + c + d
           gaps == 6 * (one(a) + one(b) + one(c) + one(d) - 1)
           usable == Larger(1, height - 32 - gaps)
           ribbons == gaps * total + RibbonOf(a, total, usable) + RibbonOf(b, total, usable)
                        + RibbonOf(c, total, usable) + RibbonOf(d, total, usable)
<1>1. a \in Nat /\ b \in Nat /\ c \in Nat /\ d \in Some
  BY AmountsOfResult
<1>2. ForkSankey(height) = [source |-> (height - 32) * total, unit |-> total, ribbons |-> ribbons]
  BY DEF ForkSankey, RibbonOf
<1> HIDE DEF a, b, c, d
<1>3. gaps \in Nat /\ gaps <= 18
  BY <1>1 DEF Some
<1> HIDE DEF gaps
<1>4. height \in Int /\ height >= 51
  BY DEF SankeyHeights
<1>5. usable \in Nat /\ usable + gaps = height - 32
  BY <1>3, <1>4 DEF Larger
<1> HIDE DEF usable
<1>6. (usable + gaps) * total <= ribbons /\ ribbons <= (usable + gaps) * total + 8 * total
  BY <1>1, <1>3, <1>5, RibbonsFill DEF Some
<1> HIDE DEF ribbons, total
<1> QED BY <1>2, <1>5, <1>6

\* The steps of the waterfall lead to its total.
LEMMA WaterfallFits == Fits(ReportWaterfall.axis) /\ ReportWaterfall.end = WaterfallTotal
<1> DEFINE step(i, n) == IF i <= n THEN WaterfallSteps[i] ELSE 0
           running == [n \in 0..5 |-> step(1, n) + step(2, n) + step(3, n) + step(4, n) + step(5, n)]
           S == {running[n] : n \in 0..5} \union {WaterfallTotal}
<1>1. \A n \in 0..5 : running[n] \in Int /\ 0 <= running[n] /\ running[n] <= 1240
  BY SMT DEF WaterfallSteps
<1>2. running[5] = 638 /\ WaterfallTotal = 638
  BY SMT DEF WaterfallSteps, WaterfallTotal
<1>3. ReportWaterfall = [end |-> running[5], axis |-> Spanning(S)]
  BY SMT DEF ReportWaterfall
<1> HIDE DEF running
<1> DEFINE top == 1240
<1>4. S # {} /\ S \in SUBSET Int /\ 0 \in Int /\ top \in Int /\ \A v \in S : 0 <= v /\ v <= top
  BY <1>1, <1>2, SMT
<1> HIDE DEF S, top
<1>5. Fits(Spanning(S))
  BY ONLY <1>4, SpanningFits
<1> QED BY <1>2, <1>3, <1>5, SMT

\* The rest of the report.
LEMMA ReportAddsUp ==
  /\ Fits(ReportRadar)
  /\ ReportPie[1] + ReportPie[2] + ReportPie[3] + ReportPie[4] + ReportPie[5] = 100
<1>1. Fits(ReportRadar)
  BY SMT DEF ReportRadar, RiskAxes, Fits
<1>2. /\ Rounded(4200, 105) = 40 /\ Rounded(2800, 105) = 27 /\ Rounded(1800, 105) = 17
      /\ Rounded(1200, 105) = 11 /\ Rounded(500, 105) = 5
  BY SMT DEF Rounded
<1>3. /\ ReportPie[1] = Rounded(4200, 105) /\ ReportPie[2] = Rounded(2800, 105)
      /\ ReportPie[3] = Rounded(1800, 105) /\ ReportPie[4] = Rounded(1200, 105)
      /\ ReportPie[5] = Rounded(500, 105)
  BY SMT DEF ReportPie, StrategySlices
<1> QED BY <1>1, <1>2, <1>3, SMT

\* The shares of the attackers are those of their profits.
LEMMA SharesOfAttackers ==
  LET rows == AttackerRows
      profit == rows[1].profit + rows[2].profit + rows[3].profit + rows[4].profit + rows[5].profit
  IN \A i \in 1..5 : rows[i].share = Rounded(100 * rows[i].profit, profit)
<1>1. /\ Rounded(1240500, 29509) = 42 /\ Rounded(824200, 29509) = 28
      /\ Rounded(530000, 29509) = 18 /\ Rounded(207800, 29509) = 7
      /\ Rounded(148400, 29509) = 5
  BY SMT DEF Rounded
<1>2. /\ AttackerRows[1] = [share |-> 42, profit |-> 12405]
      /\ AttackerRows[2] = [share |-> 28, profit |-> 8242]
      /\ AttackerRows[3] = [share |-> 18, profit |-> 5300]
      /\ AttackerRows[4] = [share |-> 7, profit |-> 2078]
      /\ AttackerRows[5] = [share |-> 5, profit |-> 1484]
  BY SMT DEF AttackerRows
<1>3. ASSUME NEW i \in 1..5
      PROVE  AttackerRows[i].share = Rounded(100 * AttackerRows[i].profit, 29509)
  <2>1. i = 1 \/ i = 2 \/ i = 3 \/ i = 4 \/ i = 5
    BY SMT
  <2> QED BY <1>1, <1>2, <2>1, SMT
<1> QED BY <1>2, <1>3, SMT

\* Every chart fits its axis.
LEMMA ChartsFitWhatTheyDraw ==
  ASSUME PanelsInv, HistoryOK(chart.history)
  PROVE  ChartsFit
<1>1. SlidersOK(sliders)
  BY DEF PanelsInv
<1>2. /\ Fits(LiveAmmAxis) /\ Fits(PriceHfCurve.prices) /\ Fits(PriceHfCurve.hfs)
      /\ Fits(AmmDisturbance.x) /\ Fits(AmmDisturbance.y) /\ Fits(ForkAmmAxis)
  BY <1>1, LiveAmmFits, PricesFit, FactorsFit, DisturbanceFits, ForkAmmFits
<1>3. Level = "danger" => 10 * Needle[1] < 3 * Needle[2]
  BY <1>1, NeedleInDanger
<1> QED BY <1>2, <1>3, SankeyFills, WaterfallFits, ReportAddsUp, SharesOfAttackers DEF ChartsFit

-----------------------------------------------------------------------------
\* The positions.

\* What the sliders of the positions may be set to.
LpOK ==
  lp \in [version : {"v2", "v3"}, priceRatio : Ratios, concentration : -50..50,
          fee : 1..100, depositUsd : 1..100]

LEMMA LpBegins == LpInit => LpOK
BY SMT DEF LpInit, DefaultLp, LpOK, Ratios

\* What the user may choose is what the sliders allow.
LEMMA LpAllowed ==
  /\ LpInputs["priceRatio"] \subseteq {5 * n : n \in 2..100} /\ LpInputs["fee"] \subseteq 1..100
  /\ LpInputs["concentration"] \subseteq {5 * n : n \in -10..10}
  /\ LpInputs["depositUsd"] \subseteq 1..100
<1>1. \A name \in {"priceRatio", "concentration", "fee", "depositUsd"} :
        LpInputs[name] \subseteq LpSliders[name]
  <2>1. {"priceRatio", "concentration", "fee", "depositUsd"} = DOMAIN LpSliders
    BY DEF LpSliders
  <2> QED BY <2>1, LpInputsAssumption
<1>2. /\ LpSliders["priceRatio"] = {5 * n : n \in 2..100} /\ LpSliders["fee"] = 1..100
      /\ LpSliders["concentration"] = {5 * n : n \in -10..10} /\ LpSliders["depositUsd"] = 1..100
  BY DEF LpSliders
<1> QED BY <1>1, <1>2

LEMMA LpStays ==
  ASSUME LpOK, LpNext
  PROVE  LpOK'
<1>1. ASSUME NEW v \in {"v2", "v3"}, SetVersion(v) PROVE LpOK'
  BY <1>1 DEF SetVersion, LpOK
<1>2. ASSUME NEW r \in Int, SetPriceRatio(r) PROVE LpOK'
  <2>1. ClampPriceRatio(r) \in Ratios
    BY SMT DEF ClampPriceRatio, Ratios
  <2> QED BY <1>2, <2>1, SMT DEF SetPriceRatio, LpOK
<1>3. ASSUME NEW c \in LpInputs["concentration"], SetConcentration(c) PROVE LpOK'
  <2>1. LpInputs["concentration"] \subseteq {5 * n : n \in -10..10}
    BY LpAllowed
  <2>2. c \in -50..50
    BY <2>1, SMT
  <2> QED BY <1>3, <2>2, SMT DEF SetConcentration, LpOK
<1>4. ASSUME NEW f \in LpInputs["fee"], SetFee(f) PROVE LpOK'
  <2>1. LpInputs["fee"] \subseteq 1..100
    BY LpAllowed
  <2> QED BY <1>4, <2>1, SMT DEF SetFee, LpOK
<1>5. ASSUME NEW d \in LpInputs["depositUsd"], SetDeposit(d) PROVE LpOK'
  <2>1. LpInputs["depositUsd"] \subseteq 1..100
    BY LpAllowed
  <2> QED BY <1>5, <2>1, SMT DEF SetDeposit, LpOK
<1>6. LpInputs["priceRatio"] \union ScenarioCards \subseteq Int
  <2>1. LpInputs["priceRatio"] \subseteq {5 * n : n \in 2..100}
    BY LpAllowed
  <2> QED BY <2>1, SMT DEF ScenarioCards
<1> QED BY <1>1, <1>2, <1>3, <1>4, <1>5, <1>6 DEF LpNext

\* What the panels reckon with: how much of its range a position leaves, and
\* what is lost at a ratio.
LEMMA LpNumbers ==
  ASSUME LpOK
  PROVE  /\ Left \in 50..100 /\ lp.depositUsd \in 1..100 /\ lp.fee \in 1..100
         /\ V2IL[lp.priceRatio] \in Losses
         /\ \A i \in 1..4 : V2IL[ScenarioRatios[i]] \in Losses
<1>1. Left \in 50..100
  BY SMT DEF LpOK, Left
<1>2. lp.depositUsd \in 1..100 /\ lp.fee \in 1..100 /\ lp.priceRatio \in Ratios
  BY DEF LpOK
<1>3. \A i \in 1..4 : ScenarioRatios[i] \in Ratios
  BY SMT DEF ScenarioRatios, Ratios
<1>4. \A r \in Ratios : V2IL[r] \in Losses
  BY V2ILAssumption
<1> HIDE DEF Left
<1> QED BY <1>1, <1>2, <1>3, <1>4, Zenon

\* A product divides by its factor.
LEMMA TimesThenDiv ==
  ASSUME NEW x \in Int, NEW d \in Some
  PROVE  (x * d) \div d = x
<1> DEFINE q == (x * d) \div d
<1>1. q \in Int /\ d * q <= x * d /\ x * d < d * q + d
  BY SMT DEF Some
<1> HIDE DEF q
<1>2. d * q <= d * x /\ d * x < d * (q + 1)
  BY <1>1, SMT DEF Some
<1>3. q <= x /\ x < q + 1
  BY <1>1, <1>2, TimesKeepsOrder
<1> QED BY <1>1, <1>3 DEF q

\* The readouts, the boxes and the result below the chart say the same.
LEMMA LpFiguresAgree ==
  ASSUME LpOK
  PROVE  LET same(a, b) == a[1] * b[2] = b[1] * a[2]
         IN /\ same(LpParams.il, IlMetrics.il) /\ LpParams.apr = IlMetrics.apr
            /\ same(IlMetrics.netPnl, CurrentPnl)
            /\ -(CurrentPnl[1]) <= 10000 * lp.depositUsd * CurrentPnl[2]
<1> DEFINE base == V2IL[lp.priceRatio]  dep == lp.depositUsd  left == Left
<1>1. base \in Losses /\ dep \in 1..100 /\ left \in 50..100
  BY LpNumbers, SMT
<1>2. LpParams.apr = IlMetrics.apr
  BY DEF LpParams, IlMetrics
<1>3. CASE lp.version = "v3"
  <2>1. /\ LpParams.il = <<base * 100, left>> /\ IlMetrics.il = <<base * 100, left>>
        /\ IlMetrics.netPnl = <<base * 100 * dep, left>> /\ CurrentPnl = <<base * 100 * dep, left>>
    BY <1>3 DEF LpParams, IlMetrics, CurrentPnl
  <2> HIDE DEF base, dep, left
  <2>2. -(base * 100 * dep) <= 10000 * dep * left
    <3>1. (-base) * dep <= 5000 * dep /\ 50 * dep <= left * dep
      BY <1>1, SMT DEF Losses
    <3>2. -(base * 100 * dep) = 100 * ((-base) * dep) /\ 10000 * dep * left = 10000 * (left * dep)
      BY <1>1, SMT DEF Losses
    <3> DEFINE bd == (-base) * dep  ld == left * dep
    <3>3. bd \in Int /\ ld \in Int
      BY <1>1, SMT DEF Losses
    <3> HIDE DEF bd, ld
    <3>4. 100 * bd <= 10000 * ld
      <4>1. bd <= 5000 * dep /\ 50 * dep <= ld
        BY <3>1 DEF bd, ld
      <4> QED BY <1>1, <3>3, <4>1, SMT
    <3> QED BY <3>2, <3>4, SMT DEF bd, ld
  <2> QED BY <1>1, <1>2, <2>1, <2>2, SMT DEF dep, Losses
<1>4. CASE lp.version # "v3"
  <2>1. /\ LpParams.il = <<base, 1>> /\ IlMetrics.il = <<base * 1, 1>>
        /\ IlMetrics.netPnl = <<base * 1 * dep, 1>> /\ CurrentPnl = <<base * dep, 1>>
    BY <1>4 DEF LpParams, IlMetrics, CurrentPnl
  <2> HIDE DEF base, dep
  <2>2. base * 1 = base /\ -(base * dep) <= 10000 * dep * 1
    <3>1. (-base) * dep <= 5000 * dep /\ (-base) * dep = -(base * dep)
      BY <1>1, SMT DEF Losses
    <3> QED BY <1>1, <3>1, SMT DEF Losses
  <2> QED BY <1>1, <1>2, <2>1, <2>2, SMT DEF dep, Losses
<1> QED BY <1>3, <1>4

\* A bar and the result of the same ratio are the same, and a concentrated
\* position loses no less than one of a whole range.
LEMMA LpBarsAgree ==
  ASSUME LpOK, NEW i \in 1..4
  PROVE  LET same(a, b) == a[1] * b[2] = b[1] * a[2]
             data == IlPnlData
             bar == IF lp.version = "v3" THEN data[i].v3 ELSE <<data[i].v2, 1>>
         IN /\ ScenarioRatios[i] = lp.priceRatio => same(bar, CurrentPnl)
            /\ data[i].v3[1] <= data[i].v2 * data[i].v3[2]
<1> DEFINE il == V2IL[ScenarioRatios[i]]  dep == lp.depositUsd  left == Left
           now == V2IL[lp.priceRatio]
<1>1. il \in Losses /\ dep \in 1..100 /\ left \in 50..100
  BY LpNumbers
<1>2. ScenarioRatios[i] = lp.priceRatio => il = now
  OBVIOUS
<1>3. CASE lp.version = "v3"
  <2>1. /\ IlPnlData[i] = [v2 |-> il * dep, v3 |-> <<il * 100 * dep, left>>]
        /\ CurrentPnl = <<now * 100 * dep, left>>
    BY <1>3 DEF IlPnlData, CurrentPnl
  <2> HIDE DEF il, now, dep, left
  <2>2. il * 100 * dep <= il * dep * left
    <3> DEFINE x == (-il) * dep
    <3>1. x \in Nat /\ il * 100 * dep = -(x * 100) /\ il * dep * left = -(x * left)
      BY <1>1, SMT DEF Losses
    <3> HIDE DEF x
    <3>2. x * left <= x * 100 /\ x * left \in Int
      BY <1>1, <3>1, SMT
    <3> QED BY <3>1, <3>2, SMT
  <2> QED BY <1>2, <1>3, <2>1, <2>2
<1>4. CASE lp.version # "v3"
  <2>1. /\ IlPnlData[i] = [v2 |-> il * dep, v3 |-> <<il * 1 * dep, 1>>]
        /\ CurrentPnl = <<now * dep, 1>>
    BY <1>4 DEF IlPnlData, CurrentPnl
  <2> HIDE DEF il, now, dep
  <2>2. il * 1 * dep <= il * dep * 1
    BY <1>1, SMT DEF Losses
  <2> QED BY <1>2, <1>4, <2>1, <2>2
<1> QED BY <1>3, <1>4

\* No loss is more than half of the deposit, and no bar below that.
LostAtMost == {x \in Nat : x <= 500000}
LowestBar == 0 - 50000000

LEMMA BarOfLoss ==
  ASSUME NEW x \in LostAtMost, NEW left \in 50..100
  PROVE  /\ x * left \in Nat
         /\ -(x * left) \in Int /\ LowestBar <= -(x * left) /\ -(x * left) <= 0
         /\ -(100 * x) \in Int /\ LowestBar <= -(100 * x) /\ -(100 * x) <= 0
<1>1. x * left <= x * 100 /\ x * left \in Nat
  BY SMT DEF LostAtMost
<1> QED BY <1>1, SMT DEF LostAtMost, LowestBar

\* The bars, in units that make them whole.
LEMMA LpBarsAreLosses ==
  ASSUME LpOK, NEW i \in 1..4
  PROVE  LET data == IlPnlData
             whole(v) == (v[1] * Left) \div v[2]
         IN /\ data[i].v2 * Left \in Int /\ LowestBar <= data[i].v2 * Left /\ data[i].v2 * Left <= 0
            /\ whole(data[i].v3) \in Int /\ LowestBar <= whole(data[i].v3) /\ whole(data[i].v3) <= 0
<1> DEFINE il == V2IL[ScenarioRatios[i]]  dep == lp.depositUsd  left == Left
           x == (-il) * dep
<1>1. il \in Losses /\ dep \in 1..100 /\ left \in 50..100
  BY LpNumbers
<1>2. x \in LostAtMost /\ il * dep = -x /\ il * 100 * dep = -(100 * x)
  <2> HIDE DEF il, dep
  <2>1. (-il) * dep <= 5000 * dep /\ (-il) * dep \in Nat
    BY <1>1, SMT DEF Losses
  <2>2. il * dep = -((-il) * dep) /\ il * 100 * dep = -(100 * ((-il) * dep))
    BY <1>1, SMT DEF Losses
  <2> QED BY <1>1, <2>1, <2>2, SMT DEF Losses, LostAtMost
<1>3. /\ IlPnlData[i].v2 = il * dep
      /\ IlPnlData[i].v3 = IF lp.version = "v3" THEN <<il * 100 * dep, left>> ELSE <<il * 1 * dep, 1>>
  BY DEF IlPnlData
<1>4. Left = left
  OBVIOUS
<1> HIDE DEF il, dep, left, x
<1>5. /\ x * left \in Nat
      /\ -(x * left) \in Int /\ LowestBar <= -(x * left) /\ -(x * left) <= 0
      /\ -(100 * x) \in Int /\ LowestBar <= -(100 * x) /\ -(100 * x) <= 0
  BY <1>1, <1>2, BarOfLoss
<1>6. x \in Int /\ left \in Some /\ il \in Int
  BY <1>1, <1>2, SMT DEF LostAtMost, Losses, Some
<1>7. (il * dep) * left = -(x * left)
  <2>1. (-x) * left = -(x * left)
    BY <1>6, SMT DEF Some
  <2> QED BY <1>2, <2>1
<1>8. CASE lp.version = "v3"
  <2>1. ((-(100 * x)) * left) \div left = -(100 * x)
    BY <1>5, <1>6, TimesThenDiv
  <2>2. IlPnlData[i].v3[1] = -(100 * x) /\ IlPnlData[i].v3[2] = left
    BY <1>2, <1>3, <1>8
  <2> QED BY <1>3, <1>4, <1>5, <1>7, <2>1, <2>2
<1>9. CASE lp.version # "v3"
  <2>1. ((-(x * left)) * 1) \div 1 = -(x * left) /\ (-(x * left)) * 1 = -(x * left)
    <3>1. 1 \in Some
      BY DEF Some
    <3>2. ((-(x * left)) * 1) \div 1 = -(x * left)
      BY <1>5, <3>1, TimesThenDiv
    <3> QED BY <1>5, <3>2
  <2>2. il * 1 * dep = il * dep
    BY <1>6
  <2>3. IlPnlData[i].v3[1] = il * dep /\ IlPnlData[i].v3[2] = 1
    BY <1>3, <1>9, <2>2
  <2> QED BY <1>3, <1>4, <1>5, <1>7, <2>1, <2>3
<1> QED BY <1>8, <1>9

\* The axis of the bars spans them and zero.
LEMMA IlPnlFits ==
  ASSUME LpOK
  PROVE  Fits(IlPnlAxis)
<1> DEFINE data == IlPnlData
           whole(v) == (v[1] * Left) \div v[2]
           bars == {0} \union {data[i].v2 * Left : i \in 1..4} \union {whole(data[i].v3) : i \in 1..4}
           low == Min(bars)  high == Max(bars)
           headroom == IF low = high THEN 100 * Left ELSE high - low
           drawn == {10 * bar : bar \in bars}
<1>1. IlPnlAxis = [low |-> 10 * low - headroom, high |-> 10 * high + headroom, drawn |-> drawn]
  BY DEF IlPnlAxis
<1>2. LowestBar \in Int /\ LowestBar <= 0 /\ 0 \in Int /\ 0 <= 0
  BY SMT DEF LowestBar
<1>3. \A i \in 1..4 :
        /\ data[i].v2 * Left \in Int /\ LowestBar <= data[i].v2 * Left /\ data[i].v2 * Left <= 0
        /\ whole(data[i].v3) \in Int /\ LowestBar <= whole(data[i].v3) /\ whole(data[i].v3) <= 0
  BY LpBarsAreLosses
<1> HIDE DEF data, whole
<1>4. bars # {} /\ bars \in SUBSET Int /\ \A v \in bars : LowestBar <= v /\ v <= 0
  BY <1>2, <1>3
<1>5. 0 \in bars
  OBVIOUS
<1> HIDE DEF bars
<1>6. low \in bars /\ (\A v \in bars : low <= v) /\ high \in bars /\ (\A v \in bars : v <= high)
  BY ONLY <1>2, <1>4, EndsExist
<1>7. 100 * Left \in Some
  <2>1. Left \in 50..100
    BY LpNumbers
  <2> QED BY <2>1 DEF Some
<1> HIDE DEF low, high
<1>8. low \in Int /\ high \in Int /\ low <= high
  BY <1>4, <1>6
<1>9. headroom \in Some
  BY <1>7, <1>8 DEF Some
<1> HIDE DEF headroom
<1>10. 10 * low - headroom < 10 * high + headroom
  BY <1>8, <1>9 DEF Some
<1>11. \A v \in drawn : 10 * low - headroom <= v /\ v <= 10 * high + headroom
  <2>1. ASSUME NEW bar \in bars
        PROVE  10 * low - headroom <= 10 * bar /\ 10 * bar <= 10 * high + headroom
    <3>1. low <= bar /\ bar <= high /\ bar \in Int
      BY <1>4, <1>6
    <3> QED BY <1>8, <1>9, <3>1 DEF Some
  <2> QED BY <2>1
<1> HIDE DEF drawn
<1> QED BY <1>1, <1>10, <1>11, AxisFits

\* The reserves of a deposit lie on its curve.
LEMMA PoolOnCurve ==
  ASSUME LpOK
  PROVE  LET p == PoolState
         IN p.reserve0 * p.reserve1[1] = p.supply * p.supply * p.supply * p.supply * p.reserve1[2]
<1> DEFINE d == lp.depositUsd  r == lp.priceRatio
<1>1. d \in Int /\ r \in Int
  BY SMT DEF LpOK, Ratios
<1>2. PoolState = [reserve0 |-> d * d * r, reserve1 |-> <<d * d, r>>, supply |-> d, price |-> 25 * r]
  BY DEF PoolState
<1> HIDE DEF d, r
<1>3. d * d * r * (d * d) = d * d * d * d * r
  BY <1>1, SMT
<1> QED BY <1>2, <1>3

\* Together.
LEMMA LpAgrees ==
  ASSUME LpOK
  PROVE  LpPanelsAgree
<1>1. lp.version \in IlCurve.curves
  BY DEF LpOK, IlCurve
<1> QED BY <1>1, LpFiguresAgree, LpBarsAgree, IlPnlFits, PoolOnCurve DEF LpPanelsAgree

-----------------------------------------------------------------------------
\* The lesson.

\* What the sliders of the lesson may be set to.
EduOK ==
  /\ activeScenario \in EduScenarios
  /\ eduSliders \in [swapSize : Some, liquidity : Some, gasPrice : Some]

LEMMA EduBegins == EduInit => EduOK
BY SMT DEF EduInit, EduOK, EduScenarios, Some

LEMMA EduAllowed ==
  \A name \in {"swapSize", "liquidity", "gasPrice"} : EduInputs[name] \subseteq Some
<1>1. {"swapSize", "liquidity", "gasPrice"} = DOMAIN EduSliders
  BY DEF EduSliders
<1>2. \A name \in {"swapSize", "liquidity", "gasPrice"} : EduInputs[name] \subseteq EduSliders[name]
  BY <1>1, LessonAssumption
<1>3. \A name \in {"swapSize", "liquidity", "gasPrice"} : EduSliders[name] \subseteq Some
  <2>1. /\ EduSliders["swapSize"] = 1..100 /\ EduSliders["gasPrice"] = 1..500
        /\ EduSliders["liquidity"] = {100 * n : n \in 1..100}
    BY DEF EduSliders
  <2>2. 1..100 \subseteq Some /\ 1..500 \subseteq Some /\ {100 * n : n \in 1..100} \subseteq Some
    BY SMT DEF Some
  <2> QED BY <2>1, <2>2
<1> QED BY <1>2, <1>3

LEMMA EduStays ==
  ASSUME EduOK, EduNext
  PROVE  EduOK'
<1>1. ASSUME NEW s \in EduScenarios, SetActiveScenario(s) PROVE EduOK'
  BY <1>1, SMT DEF SetActiveScenario, EduOK
<1>2. CASE EduFrame
  BY <1>2, SMT DEF EduFrame, EduOK
<1>3. ASSUME NEW name \in DOMAIN EduSliders, NEW value \in EduInputs[name], SetEduSlider(name, value)
      PROVE  EduOK'
  <2>1. DOMAIN EduSliders = {"swapSize", "liquidity", "gasPrice"}
    BY DEF EduSliders
  <2>2. \A v \in Some : ClampNonNegative(v) = v
    BY SMT DEF ClampNonNegative, Some
  <2>3. activeScenario' = activeScenario /\ eduSliders' = [eduSliders EXCEPT ![name] = ClampNonNegative(value)]
    BY <1>3 DEF SetEduSlider
  <2>4. value \in Some
    BY <2>1, EduAllowed
  <2> QED BY <2>1, <2>2, <2>3, <2>4, SMT DEF EduOK
<1> QED BY <1>1, <1>2, <1>3 DEF EduNext

\* The chart of the swap, in terms of the liquidity and of half the swap.
LEMMA EduAmmFits ==
  ASSUME EduOK
  PROVE  LET atMost(a, b) == a[1] * b[2] <= b[1] * a[2]
         IN /\ Fits(EduAmm.xAxis) /\ EduAmm.post.x <= EduAmm.pre.x
            /\ atMost(<<EduAmm.pre.y, 1>>, EduAmm.post.y)
            /\ EduAmm.impactPct[1] = 0 <=> eduSliders.liquidity <= 2500
<1> DEFINE l == eduSliders.liquidity  half == 2500 * eduSliders.swapSize
           r0 == Larger(5000, 2 * l)
           newR0 == Larger(5000, r0 - half)
<1>1. l \in Some /\ half \in Some
  BY SMT DEF EduOK, Some
<1>2. Larger(1, l) = l
  BY <1>1 DEF Larger, Some
<1>3. EduAmm = [pre |-> [x |-> r0, y |-> l],
                post |-> [x |-> newR0, y |-> <<l * (r0 + half), r0>>],
                xAxis |-> [low |-> 0, high |-> 2 * r0, drawn |-> {r0, newR0}],
                impactPct |-> <<180 * (r0 - newR0), r0>>]
  BY <1>2, SMT DEF EduAmm, EduAmmPanel
<1> HIDE DEF l, half
<1>4. /\ r0 \in Some /\ newR0 \in Some /\ newR0 <= r0
      /\ newR0 = r0 <=> l <= 2500
  BY <1>1, SMT DEF Larger, Some
<1> HIDE DEF r0, newR0
<1>5. Fits([low |-> 0, high |-> 2 * r0, drawn |-> {r0, newR0}])
  BY <1>4, SMT DEF Fits, Some
<1>6. l * r0 <= (l * (r0 + half)) * 1
  <2>1. l * (r0 + half) = l * r0 + l * half /\ l * half \in Nat /\ l * r0 \in Nat
    BY <1>1, <1>4, SMT DEF Some
  <2> QED BY <2>1, SMT
<1>7. 180 * (r0 - newR0) = 0 <=> l <= 2500
  BY <1>4, SMT DEF Some
<1> QED BY <1>3, <1>4, <1>5, <1>6, <1>7, SMT DEF l

\* Of two quotients by the same number the greater is no less when rounded.
LEMMA RoundedOrder ==
  ASSUME NEW m \in Nat, NEW n \in Nat, NEW d \in Some, m <= n
  PROVE  Rounded(m, d) <= Rounded(n, d)
<1> DEFINE x == Rounded(m, d)  y == Rounded(n, d)
<1>1. /\ x \in Nat /\ 2 * (d * x) <= 2 * m + d
      /\ y \in Nat /\ 2 * n < 2 * (d * y) + d
  BY RoundedBounds
<1> HIDE DEF x, y
<1>2. d * x < d * (y + 1)
  <2> DEFINE dx == d * x  dy == d * y
  <2>1. dx \in Nat /\ dy \in Nat /\ d * (y + 1) = dy + d
    BY <1>1 DEF Some
  <2>2. 2 * dx <= 2 * m + d /\ 2 * n < 2 * dy + d
    BY <1>1
  <2> HIDE DEF dx, dy
  <2>3. dx < dy + d
    BY <2>1, <2>2 DEF Some
  <2> QED BY <2>1, <2>3 DEF dx
<1>3. x < y + 1
  BY <1>1, <1>2, TimesKeepsOrder
<1> QED BY <1>1, <1>3 DEF x, y

\* Hashes of neighbouring seeds differ in their lower halves.
LEMMA HashesDiffer ==
  ASSUME NEW a \in Int, NEW b \in Int, a - b < 6, b - a < 6, FakeHash(a) = FakeHash(b)
  PROVE  a = b
<1>1. (a * 31153) % 65536 = (b * 31153) % 65536
  BY SMT DEF FakeHash
<1> QED BY <1>1, SMT

\* The rows of the table.
LEMMA EduRowsAgree ==
  ASSUME EduOK
  PROVE  LET atMost(a, b) == a[1] * b[2] <= b[1] * a[2]
             times(n, d, f) == <<n * f[1], d * f[2]>>
             slip == EduAmmPanel.slippagePct
             rows == EduRows
             change(i) == times(5, 2, rows[i].priceChangePct)
         IN /\ atMost(slip, change(1)) /\ atMost(change(1), slip)
            /\ \A i \in 1..5 :
                 /\ atMost(times(3, 5, slip), change(i)) /\ atMost(change(i), times(7, 5, slip))
                 /\ \A j \in 1..5 : rows[i].hash = rows[j].hash => i = j
<1> DEFINE s == eduSliders.swapSize  l == eduSliders.liquidity
           tenths(i) == 10 + 4 * ((i % 3) - 1)
           sl == s * l
<1>1. s \in Some /\ l \in Some
  BY SMT DEF EduOK, Some
<1>2. Larger(1, l) = l
  BY <1>1 DEF Larger, Some
<1>3. EduAmmPanel.slippagePct = <<250 * s, l>>
  BY <1>2 DEF EduAmmPanel
<1>4. \A i \in 1..5 : EduRows[i].priceChangePct = <<10 * tenths(i) * s, l>>
  BY <1>2, SMT DEF EduRows
<1>5. tenths(1) = 10 /\ \A i \in 1..5 : tenths(i) \in 6..14
  BY SMT
<1>6. \E base \in Int : \A i \in 1..5 : EduRows[i].hash = FakeHash(i + base)
  <2> DEFINE seeds == [sc \in EduScenarios |-> CASE sc = "sandwich" -> 8 [] sc = "jit" -> 3
                         [] sc = "arbitrage" -> 9 [] sc = "liquidation" -> 11 [] OTHER -> 13]
  <2>1. seeds[activeScenario] \in Int
    BY SMT DEF EduOK, EduScenarios
  <2>2. \A i \in 1..5 : EduRows[i].hash = FakeHash(i + seeds[activeScenario])
    BY SMT DEF EduRows
  <2> QED BY <2>1, <2>2
<1>7. \A i \in 1..5 : \A j \in 1..5 : EduRows[i].hash = EduRows[j].hash => i = j
  <2>1. PICK base \in Int : \A i \in 1..5 : EduRows[i].hash = FakeHash(i + base)
    BY <1>6
  <2>2. ASSUME NEW i \in 1..5, NEW j \in 1..5, EduRows[i].hash = EduRows[j].hash PROVE i = j
    <3>1. FakeHash(i + base) = FakeHash(j + base)
      BY <2>1, <2>2
    <3>2. i + base \in Int /\ j + base \in Int /\ (i + base) - (j + base) < 6 /\ (j + base) - (i + base) < 6
      BY <2>1, SMT
    <3>3. i + base = j + base
      BY <3>1, <3>2, HashesDiffer
    <3> QED BY <2>1, <3>3, SMT
  <2> QED BY <2>2
<1> HIDE DEF tenths, s, l
<1>8. ASSUME NEW t \in 6..14
      PROVE  /\ (3 * (250 * s)) * (2 * l) <= (5 * (10 * t * s)) * (5 * l)
             /\ (5 * (10 * t * s)) * (5 * l) <= (7 * (250 * s)) * (2 * l)
  <2>1. /\ (3 * (250 * s)) * (2 * l) = 1500 * sl
        /\ (5 * (10 * t * s)) * (5 * l) = 250 * (t * sl)
        /\ (7 * (250 * s)) * (2 * l) = 3500 * sl
    BY <1>1, SMT DEF Some
  <2>2. sl \in Nat
    BY <1>1, SMT DEF Some
  <2> HIDE DEF sl
  <2>3. 6 * sl <= t * sl /\ t * sl <= 14 * sl /\ t * sl \in Int
    BY <2>2, SMT
  <2> DEFINE tsl == t * sl
  <2>4. 6 * sl <= tsl /\ tsl <= 14 * sl /\ tsl \in Int
    BY <2>3
  <2> HIDE DEF tsl
  <2>5. 1500 * sl <= 250 * tsl /\ 250 * tsl <= 3500 * sl
    BY <2>2, <2>4, SMT
  <2> QED BY <2>1, <2>5, SMT DEF tsl
<1>9. (250 * s) * (2 * l) = (5 * (10 * 10 * s)) * l
  BY <1>1, SMT DEF Some
<1>10. ASSUME NEW i \in 1..5
       PROVE  /\ (3 * (250 * s)) * (2 * l) <= (5 * (10 * tenths(i) * s)) * (5 * l)
              /\ (5 * (10 * tenths(i) * s)) * (5 * l) <= (7 * (250 * s)) * (2 * l)
  BY <1>5, <1>8
<1>11. EduRows[1].priceChangePct = <<10 * 10 * s, l>>
  BY <1>4, <1>5
<1> DEFINE row(i) == EduRows[i].priceChangePct  slip == EduAmmPanel.slippagePct
<1>12. \A i \in 1..5 : row(i)[1] = 10 * tenths(i) * s /\ row(i)[2] = l
  BY <1>4
<1>13. slip[1] = 250 * s /\ slip[2] = l /\ row(1)[1] = 10 * 10 * s /\ row(1)[2] = l
  BY <1>3, <1>11
<1> HIDE DEF row, slip
<1>14. /\ slip[1] * (2 * row(1)[2]) <= (5 * row(1)[1]) * slip[2]
       /\ (5 * row(1)[1]) * slip[2] <= slip[1] * (2 * row(1)[2])
  BY <1>1, <1>9, <1>13, SMT DEF Some
<1>15. \A i \in 1..5 : /\ (3 * slip[1]) * (2 * row(i)[2]) <= (5 * row(i)[1]) * (5 * slip[2])
                       /\ (5 * row(i)[1]) * (5 * slip[2]) <= (7 * slip[1]) * (2 * row(i)[2])
  BY <1>10, <1>12, <1>13
<1> QED BY <1>7, <1>14, <1>15 DEF row, slip

\* Together.
LEMMA EduAgrees ==
  ASSUME EduOK
  PROVE  LessonAgrees
<1>1. EduAmmPanel.lossUsd <= EduAmmPanel.profitUsd
  <2> DEFINE s == eduSliders.swapSize  l == Larger(1, eduSliders.liquidity)
             small == 450 * s * s  great == 1250 * s * s
  <2>1. l \in Some /\ s \in Nat
    BY SMT DEF EduOK, Larger, Some
  <2>2. EduAmmPanel.lossUsd = Rounded(small, l) /\ EduAmmPanel.profitUsd = Rounded(great, l)
    BY DEF EduAmmPanel
  <2> HIDE DEF s, l
  <2>3. small \in Nat /\ great \in Nat /\ small <= great
    <3>1. s * s \in Nat /\ 450 * s * s = 450 * (s * s) /\ 1250 * s * s = 1250 * (s * s)
      BY <2>1, SMT
    <3> QED BY <3>1, SMT
  <2> HIDE DEF small, great
  <2> QED BY <2>1, <2>2, <2>3, RoundedOrder
<1> QED BY <1>1, EduAmmFits, EduRowsAgree DEF LessonAgrees

-----------------------------------------------------------------------------
\* Together: each of the pages has an invariant of its own.
StoryInv == PageInv /\ PanelsInv /\ HistoryOK(chart.history) /\ LpOK /\ EduOK

LEMMA StoryGivesAgreement == StoryInv => PanelsAgree
<1> SUFFICES ASSUME StoryInv PROVE PanelsAgree
  OBVIOUS
<1>1. PanelsInv
  BY DEF StoryInv
<1>2. QuantResults.level = "high" => Result.profitUsd >= params.poolDepth
  BY <1>1, HighIsHigh
<1>3. Level = "danger" => (10 * BuildCurve[0].hf[1]) \div BuildCurve[0].hf[2] < 9
  BY <1>1, DangerOnCurve
<1>4. LpPanelsAgree /\ LessonAgrees /\ ChartsFit
  BY LpAgrees, EduAgrees, ChartsFitWhatTheyDraw DEF StoryInv
<1> QED BY <1>1, <1>2, <1>3, <1>4, StagesInOrder, SharesOfResult, LessAtDepth, GaugeOnCurve
        DEF PanelsAgree

\* The stores begin that way, and every step leaves them so.
LEMMA PanelsBegin == Init => PanelsInv
<1> SUFFICES ASSUME Init PROVE PanelsInv
  OBVIOUS
<1>1. params = DefaultParams /\ resultOf = DefaultParams /\ sliders = DefaultSliders
  BY DEF Init, ForkInit, FocusInit
<1>2. ParamsOK(DefaultParams)
  BY SMT DEF DefaultParams, ParamsOK, ParamNames, Some
<1>3. SlidersOK(DefaultSliders)
  BY SMT DEF DefaultSliders, SlidersOK, SliderNames
<1> QED BY <1>1, <1>2, <1>3 DEF PanelsInv

LEMMA PanelsStep ==
  ASSUME PanelsInv, [Next]_vars
  PROVE  PanelsInv'
<1>1. ASSUME NEW name \in ParamNames, NEW value \in ParamRanges[name], SetParam(name, value)
      PROVE  ParamsOK(params)' /\ resultOf' = params'
  <2>1. params' = [params EXCEPT ![name] = value] /\ resultOf' = params' /\ ParamsOK(params)
    BY <1>1 DEF SetParam, PanelsInv
  <2>2. DOMAIN params' = ParamNames
    BY <2>1 DEF ParamsOK
  <2>3. \A field \in ParamNames :
          params'[field] = IF field = name THEN value ELSE params[field]
    BY <2>1 DEF ParamsOK
  <2>4. params'.poolDepth \in Some
    BY <2>1, <2>3, ForkPageAssumption DEF ParamsOK, ParamNames, Some
  <2>5. params'.attackerCapital \in Some
    BY <2>1, <2>3, ForkPageAssumption DEF ParamsOK, ParamNames, Some
  <2>6. params'.gasPrice \in Nat
    BY <2>1, <2>3, ForkPageAssumption DEF ParamsOK, ParamNames
  <2> QED BY <2>1, <2>2, <2>4, <2>5, <2>6 DEF ParamsOK
<1>2. ASSUME NEW name \in SliderNames, NEW value \in SliderRanges[name], SetSlider(name, value)
      PROVE  SlidersOK(sliders)'
  BY <1>2, FocusViewAssumption DEF SetSlider, PanelsInv, SlidersOK, SliderNames
<1>3. CASE ForkNext /\ UNCHANGED focusVars
  <2>1. SlidersOK(sliders)'
    BY <1>3 DEF focusVars, PanelsInv, SlidersOK
  <2>2. ParamsOK(params)' /\ resultOf' = params'
    BY <1>1, <1>3 DEF ForkNext, Replay, ReplayTimer, ChooseStep, PanelsInv, ParamsOK
  <2> QED BY <2>1, <2>2 DEF PanelsInv
<1>4. CASE FocusNext /\ UNCHANGED forkVars
  <2>1. SlidersOK(sliders)'
    BY <1>2, <1>4 DEF FocusNext, SetLiqMode, HandleStart, HandlePause, HandleReset, FocusTick,
                      Search, PanelsInv, SlidersOK
  <2>2. ParamsOK(params)' /\ resultOf' = params'
    BY <1>4 DEF forkVars, PanelsInv, ParamsOK
  <2> QED BY <2>1, <2>2 DEF PanelsInv
<1>5. CASE UNCHANGED <<forkVars, focusVars>>
  BY <1>5 DEF forkVars, focusVars, PanelsInv, ParamsOK, SlidersOK
<1> QED BY <1>3, <1>4, <1>5 DEF Next, vars, LiveStep, FocusStep, ForkStep, LpStep, EduStep, CanvasStep

LEMMA StoryStep ==
  ASSUME StoryInv, [Next]_vars
  PROVE  StoryInv'
<1>1. PageInv'
  BY PageStep DEF StoryInv
<1>2. PanelsInv'
  BY PanelsStep DEF StoryInv
<1>3. HistoryOK(chart.history)'
  <2>1. LivePageNext \/ UNCHANGED pageVars
    BY DEF Next, vars, LiveStep, FocusStep, ForkStep, LpStep, EduStep, CanvasStep
  <2> QED BY <2>1, HistoryStep DEF StoryInv
<1>4. LpOK'
  <2>1. LpNext \/ UNCHANGED lp
    BY DEF Next, vars, LiveStep, FocusStep, ForkStep, LpStep, EduStep, CanvasStep
  <2> QED BY <2>1, LpStays DEF StoryInv, LpOK
<1>5. EduOK'
  <2>1. EduNext \/ UNCHANGED eduVars
    BY DEF Next, vars, LiveStep, FocusStep, ForkStep, LpStep, EduStep, CanvasStep
  <2>2. CASE UNCHANGED eduVars
    BY <2>2 DEF eduVars, StoryInv, EduOK
  <2> QED BY <2>1, <2>2, EduStays DEF StoryInv
<1> QED BY <1>1, <1>2, <1>3, <1>4, <1>5 DEF StoryInv

\* The panels agree wherever the sliders stand, and every chart fits its axis
\* (forkStore.ts:115-155, ForkConclusion.tsx:34-41, ForkSankeyPanel.tsx:37-56,
\* FocusView.tsx:39-51, LpParams.tsx:39-53, EduAmmPanel.tsx:29-45, LiveAmm.ts:119-130).
THEOREM PanelsTellOneStory == Spec => []PanelsAgree
<1>1. Init => StoryInv
  BY PageBegins, PanelsBegin, HistoryBegins, LpBegins, EduBegins DEF Init, StoryInv
<1>2. StoryInv /\ [Next]_vars => StoryInv'
  BY StoryStep
<1> QED BY <1>1, <1>2, StoryGivesAgreement, PTL DEF Spec

-----------------------------------------------------------------------------
\* A canvas.

\* A canvas has an area and is no higher than wide where its height follows from
\* its width.
BackingOK ==
  /\ kind \in CanvasKinds /\ screen \in Screens /\ backing \in [w : Some, h : Some]
  /\ kind.css = "width" => backing.h <= backing.w

\* The frame that is requested is that of the effect that is set up, and a loop
\* goes on unless it is that of the pie.
FramesOK ==
  /\ queued \subseteq {effects} /\ (phase = "away" => queued = {} /\ setUp = "no")
  /\ setUp \in {"no", "once", "loop"} /\ (phase = "settled" => setUp # "no")
  /\ setUp = "loop" => effects \in queued \/ kind.pie
  /\ phase = "settled" /\ ~fresh
       => effects \in queued \/ (setUp = "once" /\ kind.data = "missing") \/ kind.pie

\* The attributes with which a canvas is made.
LEMMA KindsAreWide ==
  ASSUME NEW k \in CanvasKinds
  PROVE  /\ k.attr \in Some /\ 300 \in Some /\ k.attr <= 300
         /\ k.css \in {"width", "both", "none"}
BY SMT DEF CanvasKinds, StrategyPie, Some

\* A quotient rounds to the number that is within a half of it.
LEMMA RoundsTo ==
  ASSUME NEW n \in Nat, NEW d \in Some, NEW m \in Nat,
         2 * (d * m) <= 2 * n + d, 2 * n < 2 * (d * m) + d
  PROVE  Rounded(n, d) = m
<1> DEFINE r == Rounded(n, d)
<1>1. r \in Nat /\ 2 * (d * r) <= 2 * n + d /\ 2 * n < 2 * (d * r) + d
  BY RoundedBounds
<1> HIDE DEF r
<1> DEFINE dr == d * r  dm == d * m
<1>2. /\ dr \in Nat /\ dm \in Nat
      /\ d * (m + 1) = dm + d /\ d * (r + 1) = dr + d
  BY <1>1, SMT DEF Some
<1>3. 2 * dr <= 2 * n + d /\ 2 * n < 2 * dr + d /\ 2 * dm <= 2 * n + d /\ 2 * n < 2 * dm + d
  BY <1>1
<1> HIDE DEF dr, dm
<1>4. dr < dm + d /\ dm < dr + d
  BY <1>2, <1>3, SMT DEF Some
<1>5. d * r < d * (m + 1) /\ d * m < d * (r + 1)
  BY <1>2, <1>4 DEF dr, dm
<1>6. r < m + 1 /\ m < r + 1
  BY <1>1, <1>5, TimesKeepsOrder
<1>7. r = m
  BY <1>1, <1>6
<1> QED BY <1>7 DEF r

\* A number of whole pixels is itself.
LEMMA WholeRounds ==
  ASSUME NEW m \in Nat, NEW d \in Some
  PROVE  Rounded(m * d, d) = m
<1>1. m * d \in Nat /\ d * m = m * d
  BY SMT DEF Some
<1>2. 2 * (d * m) <= 2 * (m * d) + d /\ 2 * (m * d) < 2 * (d * m) + d
  BY <1>1, SMT DEF Some
<1> QED BY <1>1, <1>2, RoundsTo

\* Of two quotients the greater is no less when rounded.
LEMMA RoundedFractions ==
  ASSUME NEW m \in Nat, NEW d \in Some, NEW n \in Nat, NEW e \in Some, m * e <= n * d
  PROVE  Rounded(m, d) <= Rounded(n, e)
<1> DEFINE x == Rounded(m, d)  y == Rounded(n, e)
<1>1. /\ x \in Nat /\ 2 * (d * x) <= 2 * m + d
      /\ y \in Nat /\ 2 * n < 2 * (e * y) + e
  BY RoundedBounds
<1> HIDE DEF x, y
<1> DEFINE de == d * e
<1>2. 2 * (de * x) <= 2 * (m * e) + de
  <2>1. e * (2 * (d * x)) <= e * (2 * m + d)
    BY <1>1, TimesKeepsOrder DEF Some
  <2>2. e * (2 * (d * x)) = 2 * (de * x) /\ e * (2 * m + d) = 2 * (m * e) + de
    BY <1>1, SMT DEF Some
  <2> QED BY <2>1, <2>2
<1>3. 2 * (n * d) < 2 * (de * y) + de
  <2>1. d * (2 * n) < d * (2 * (e * y) + e)
    BY <1>1, TimesKeepsOrder DEF Some
  <2>2. d * (2 * n) = 2 * (n * d) /\ d * (2 * (e * y) + e) = 2 * (de * y) + de
    BY <1>1, SMT DEF Some
  <2> QED BY <2>1, <2>2
<1>4. de \in Some /\ m * e \in Nat /\ n * d \in Nat
  BY SMT DEF Some
<1> DEFINE me == m * e  nd == n * d
<1>5. me \in Nat /\ nd \in Nat /\ me <= nd /\ 2 * (de * x) <= 2 * me + de /\ 2 * nd < 2 * (de * y) + de
  BY <1>2, <1>3, <1>4
<1> HIDE DEF de, me, nd
<1>6. de * x < de * (y + 1)
  <2> DEFINE dex == de * x  dey == de * y
  <2>1. dex \in Nat /\ dey \in Nat /\ de * (y + 1) = dey + de
    BY <1>1, <1>4, SMT DEF Some
  <2>2. 2 * dex <= 2 * me + de /\ 2 * nd < 2 * dey + de
    BY <1>5
  <2> HIDE DEF dex, dey
  <2>3. dex < dey + de
    BY <1>4, <1>5, <2>1, <2>2, SMT DEF Some
  <2> QED BY <2>1, <2>3 DEF dex
<1>7. x < y + 1
  BY <1>1, <1>4, <1>6, TimesKeepsOrder
<1> QED BY <1>1, <1>7 DEF x, y

\* The proportions of a store that is as wide as the screen asks for give it its
\* height again.
LEMMA HeightFollows ==
  ASSUME NEW n \in Nat, NEW u \in Some, NEW h \in Some, Rounded(n, u) \in Some, h <= Rounded(n, u)
  PROVE  Rounded(n * h, Rounded(n, u) * u) = h
<1> DEFINE w == Rounded(n, u)
<1>1. w \in Some /\ 2 * (u * w) <= 2 * n + u /\ 2 * n < 2 * (u * w) + u
  BY RoundedBounds
<1> HIDE DEF w
<1>2. h * (2 * (u * w)) <= h * (2 * n + u) /\ h * (2 * n) < h * (2 * (u * w) + u)
  BY <1>1, TimesKeepsOrder DEF Some
<1> DEFINE d == w * u  dh == d * h  nh == n * h  hu == h * u
<1>3. /\ h * (2 * (u * w)) = 2 * dh /\ h * (2 * n + u) = 2 * nh + hu
      /\ h * (2 * n) = 2 * nh /\ h * (2 * (u * w) + u) = 2 * dh + hu
  BY <1>1, SMT DEF Some
<1>4. d \in Some /\ dh \in Nat /\ nh \in Nat /\ hu \in Nat /\ hu <= d
  <2>1. u * h <= u * w
    <3>1. h <= w
      BY DEF w
    <3> QED BY <1>1, <3>1, TimesKeepsOrder DEF Some
  <2>2. u * h = hu /\ u * w = d
    BY <1>1, SMT DEF Some
  <2>3. d \in Some /\ dh \in Nat /\ nh \in Nat /\ hu \in Nat
    BY <1>1, SMT DEF Some
  <2> QED BY <2>1, <2>2, <2>3
<1>5. 2 * dh <= 2 * nh + hu /\ 2 * nh < 2 * dh + hu
  BY <1>2, <1>3
<1>6. 2 * (d * h) <= 2 * nh + d /\ 2 * nh < 2 * (d * h) + d
  <2> HIDE DEF d, nh, hu, dh
  <2>1. 2 * dh <= 2 * nh + d /\ 2 * nh < 2 * dh + d
    BY <1>4, <1>5, SMT DEF Some
  <2> QED BY <2>1 DEF dh
<1>7. h \in Nat
  BY DEF Some
<1> HIDE DEF d, nh
<1>8. Rounded(nh, d) = h
  BY <1>4, <1>6, <1>7, RoundsTo
<1> QED BY <1>8 DEF nh, d, w

\* What a side is made of, and that it is one pixel at least.
LEMMA SideIs ==
  ASSUME screen \in Screens, NEW a \in Nat, NEW b \in Some
  PROVE  /\ screen.ratio \in Some /\ RatioUnit \in Some
         /\ a * screen.ratio \in Nat /\ b * RatioUnit \in Some
         /\ Rounded(a * screen.ratio, b * RatioUnit) \in Nat
         /\ Side(<<a, b>>) = Larger(1, Rounded(a * screen.ratio, b * RatioUnit))
         /\ Side(<<a, b>>) \in Some
<1>1. screen.ratio \in Some /\ RatioUnit \in Some
  BY CanvasAssumption DEF Some
<1> DEFINE q == screen.ratio  u == RatioUnit
<1>2. Side(<<a, b>>) = Larger(1, Rounded(a * q, b * u))
  BY DEF Side
<1> HIDE DEF q, u
<1>3. q \in Some /\ u \in Some
  BY <1>1 DEF q, u
<1>4. a * q \in Nat /\ b * u \in Some
  BY <1>3, SMT DEF Some
<1>5. Rounded(a * q, b * u) \in Nat
  BY <1>4, RoundedBounds
<1>6. Larger(1, Rounded(a * q, b * u)) \in Some
  BY <1>5 DEF Larger, Some
<1> QED BY <1>1, <1>2, <1>4, <1>5, <1>6 DEF q, u

\* The greater of two lengths has no smaller side.
LEMMA SideOrder ==
  ASSUME screen \in Screens, NEW a \in Nat, NEW b \in Some, NEW c \in Nat, NEW d \in Some,
         a * d <= c * b
  PROVE  Side(<<a, b>>) <= Side(<<c, d>>)
<1> DEFINE q == screen.ratio  u == RatioUnit
           x == Rounded(a * q, b * u)  y == Rounded(c * q, d * u)
<1>1. /\ q \in Some /\ u \in Some /\ a * q \in Nat /\ b * u \in Some /\ c * q \in Nat /\ d * u \in Some
      /\ x \in Nat /\ y \in Nat
      /\ Side(<<a, b>>) = Larger(1, x) /\ Side(<<c, d>>) = Larger(1, y)
  BY SideIs
<1> HIDE DEF q, u
<1>2. (a * q) * (d * u) <= (c * q) * (b * u)
  <2> DEFINE ad == a * d  cb == c * b  qu == q * u
  <2>1. (a * q) * (d * u) = qu * ad /\ (c * q) * (b * u) = qu * cb
    BY <1>1, SMT DEF Some
  <2>2. qu \in Some /\ ad \in Int /\ cb \in Int /\ ad <= cb
    BY <1>1, SMT DEF Some
  <2> HIDE DEF qu, ad, cb
  <2> QED BY <2>1, <2>2, TimesKeepsOrder
<1>3. x <= y
  BY <1>1, <1>2, RoundedFractions
<1> HIDE DEF x, y
<1> QED BY <1>1, <1>3 DEF Larger

\* The sizes of the canvas in CSS pixels.
LEMMA CssIs ==
  ASSUME BackingOK
  PROVE  LET w == backing.w  h == backing.h  onPage == phase # "removed"
         IN /\ onPage /\ kind.css = "both"
                 => Css = [w |-> <<screen.width, 1>>, h |-> <<screen.height, 1>>]
            /\ onPage /\ kind.css = "width"
                 => Css = [w |-> <<screen.width, 1>>, h |-> <<screen.width * h, w>>]
            /\ ~onPage \/ kind.css = "none" => Css = [w |-> <<w, 1>>, h |-> <<h, 1>>]
            /\ screen.width \in Nat /\ screen.height \in Nat /\ w \in Some /\ h \in Some
            /\ kind.css \in {"width", "both", "none"} /\ screen.width * h \in Nat
<1>1. kind.css \in {"width", "both", "none"}
  BY KindsAreWide DEF BackingOK
<1>2. screen.width \in Nat /\ screen.height \in Nat /\ backing.w \in Some /\ backing.h \in Some
  BY CanvasAssumption DEF BackingOK
<1>3. screen.width * backing.h \in Nat
  BY <1>2, SMT DEF Some
<1>4. CASE kind.css = "both"
  BY <1>1, <1>2, <1>3, <1>4 DEF Css
<1>5. CASE kind.css = "width"
  BY <1>1, <1>2, <1>3, <1>5 DEF Css
<1>6. CASE kind.css = "none"
  BY <1>1, <1>2, <1>3, <1>6 DEF Css
<1> QED BY <1>1, <1>4, <1>5, <1>6

\* A resized store has an area, and is no higher than wide where that matters.
LEMMA ResizedOK ==
  ASSUME BackingOK
  PROVE  /\ Resized \in [w : Some, h : Some]
         /\ kind.css = "width" => Resized.h <= Resized.w
<1> DEFINE w == backing.w  h == backing.h
<1>1. w \in Some /\ h \in Some /\ w \in Nat /\ h \in Nat /\ 1 \in Some
      /\ screen.width \in Nat /\ screen.height \in Nat /\ screen.width * h \in Nat
      /\ screen \in Screens
  BY CssIs DEF Some, BackingOK
<1>2. Resized = [w |-> Side(Css.w), h |-> Side(Css.h)]
  BY DEF Resized
<1>3. CASE phase # "removed" /\ kind.css = "both"
  <2>1. Css.w = <<screen.width, 1>> /\ Css.h = <<screen.height, 1>>
    BY <1>3, CssIs
  <2>2. Side(<<screen.width, 1>>) \in Some /\ Side(<<screen.height, 1>>) \in Some
    BY <1>1, SideIs
  <2> QED BY <1>2, <1>3, <2>1, <2>2
<1>4. CASE phase # "removed" /\ kind.css = "width"
  <2>1. Css.w = <<screen.width, 1>> /\ Css.h = <<screen.width * h, w>> /\ h <= w
    BY <1>4, CssIs DEF BackingOK
  <2>2. Side(<<screen.width, 1>>) \in Some /\ Side(<<screen.width * h, w>>) \in Some
    BY <1>1, SideIs
  <2>3. (screen.width * h) * 1 <= screen.width * w
    <3> DEFINE sw == screen.width
    <3>1. sw \in Nat /\ h <= w
      BY <1>1, <2>1
    <3> HIDE DEF sw, h, w
    <3> QED BY <1>1, <3>1, SMT DEF Some, sw
  <2>4. Side(<<screen.width * h, w>>) <= Side(<<screen.width, 1>>)
    BY <1>1, <2>3, SideOrder
  <2> QED BY <1>2, <2>1, <2>2, <2>4
<1>5. CASE phase = "removed" \/ kind.css = "none"
  <2>1. Css.w = <<w, 1>> /\ Css.h = <<h, 1>>
    BY <1>5, CssIs
  <2>2. Side(<<w, 1>>) \in Some /\ Side(<<h, 1>>) \in Some
    BY <1>1, SideIs
  <2>3. kind.css = "width" => h <= w
    BY DEF BackingOK
  <2>4. h <= w => Side(<<h, 1>>) <= Side(<<w, 1>>)
    <3>1. h <= w => h * 1 <= w * 1
      BY <1>1, SMT
    <3> QED BY <1>1, <3>1, SideOrder
  <2> QED BY <1>2, <2>1, <2>2, <2>3, <2>4
<1>6. kind.css \in {"width", "both", "none"}
  BY CssIs
<1> QED BY <1>3, <1>4, <1>5, <1>6

\* A store that fits the screen is left as it is.
LEMMA FittedStays ==
  ASSUME BackingOK, phase # "removed",
         CASE kind.css = "width" -> backing.w = Side(<<screen.width, 1>>)
           [] kind.css = "both" -> /\ backing.w = Side(<<screen.width, 1>>)
                                   /\ backing.h = Side(<<screen.height, 1>>)
           [] OTHER -> screen.ratio = RatioUnit
  PROVE  Resized = backing
<1> DEFINE w == backing.w  h == backing.h  q == screen.ratio  u == RatioUnit
<1>1. w \in Some /\ h \in Some /\ w \in Nat /\ h \in Nat /\ 1 \in Some
      /\ screen.width \in Nat /\ screen.height \in Nat /\ screen.width * h \in Nat
      /\ screen \in Screens /\ kind.css \in {"width", "both", "none"}
  BY CssIs DEF Some, BackingOK
<1>2. Resized = [w |-> Side(Css.w), h |-> Side(Css.h)] /\ backing = [w |-> w, h |-> h]
  BY DEF Resized, BackingOK
<1>3. q \in Some /\ u \in Some
  BY <1>1, SideIs
<1>4. CASE kind.css = "both"
  BY <1>2, <1>4, CssIs
<1>5. CASE kind.css = "width"
  <2> DEFINE n == screen.width * q
  <2>1. Css.w = <<screen.width, 1>> /\ Css.h = <<screen.width * h, w>> /\ h <= w
        /\ w = Side(<<screen.width, 1>>)
    BY <1>5, CssIs DEF BackingOK
  <2>2. n \in Nat /\ n * h \in Nat /\ 1 * u = u
        /\ (screen.width * h) * q = n * h
    <3> DEFINE sw == screen.width
    <3>1. sw \in Nat
      BY <1>1
    <3> HIDE DEF sw, h, q, u
    <3>2. sw * q \in Nat /\ (sw * q) * h \in Nat /\ 1 * u = u /\ (sw * h) * q = (sw * q) * h
      BY <1>1, <1>3, <3>1, SMT DEF Some
    <3> QED BY <3>2 DEF sw
  <2>3. w = Larger(1, Rounded(n, u)) /\ Side(<<screen.width * h, w>>) = Larger(1, Rounded(n * h, w * u))
    <3>1. Side(<<screen.width, 1>>) = Larger(1, Rounded(n, 1 * u))
      BY <1>1, SideIs
    <3>2. Side(<<screen.width * h, w>>) = Larger(1, Rounded((screen.width * h) * q, w * u))
      BY <1>1, SideIs
    <3> QED BY <2>1, <2>2, <3>1, <3>2
  <2> HIDE DEF n, w, h, q, u
  <2>4. Rounded(n, u) \in Nat
    BY <1>3, <2>2, RoundedBounds
  <2>5. CASE Rounded(n, u) \in Some
    <3>1. w = Rounded(n, u)
      BY <2>3, <2>5 DEF Larger, Some
    <3>2. Rounded(n * h, w * u) = h
      BY <1>1, <1>3, <2>1, <2>2, <2>5, <3>1, HeightFollows
    <3>3. Larger(1, h) = h
      BY <1>1 DEF Larger, Some
    <3>4. Side(<<screen.width * h, w>>) = h
      BY <2>3, <3>2, <3>3
    <3> QED BY <1>2, <2>1, <3>4
  <2>6. CASE Rounded(n, u) = 0
    <3>1. w = 1 /\ h = 1
      <4>1. w = 1
        BY <2>3, <2>6 DEF Larger
      <4> QED BY <1>1, <2>1, <4>1 DEF Some
    <3>2. n * h = n /\ w * u = u
      BY <1>3, <2>2, <3>1 DEF Some
    <3>3. Side(<<screen.width * h, w>>) = h
      BY <2>3, <3>1, <3>2
    <3> QED BY <1>2, <2>1, <3>3
  <2>7. Rounded(n, u) = 0 \/ Rounded(n, u) \in Some
    BY <2>4 DEF Some
  <2> QED BY <2>5, <2>6, <2>7
<1>6. CASE kind.css = "none"
  <2>1. Css.w = <<w, 1>> /\ Css.h = <<h, 1>>
    BY <1>6, CssIs
  <2>2. screen.ratio = RatioUnit
    BY <1>6
  <2>3. ASSUME NEW side \in Some PROVE Side(<<side, 1>>) = side
    <3>1. side \in Nat
      BY DEF Some
    <3>2. Side(<<side, 1>>) = Larger(1, Rounded(side * q, 1 * u)) /\ q = u
      BY <1>1, <2>2, <3>1, SideIs
    <3> HIDE DEF q, u
    <3>3. 1 * u = u
      BY <1>3 DEF Some
    <3>4. Rounded(side * u, u) = side
      BY <1>3, <3>1, WholeRounds
    <3>5. Larger(1, side) = side
      BY DEF Larger, Some
    <3> QED BY <3>2, <3>3, <3>4, <3>5
  <2> QED BY <1>1, <1>2, <2>1, <2>3
<1> QED BY <1>1, <1>4, <1>5, <1>6

CanvasInv == BackingOK /\ FramesOK

LEMMA CanvasBegins == CanvasInit => CanvasInv
<1> SUFFICES ASSUME CanvasInit PROVE CanvasInv
  OBVIOUS
<1>1. kind = StrategyPie /\ StrategyPie \in CanvasKinds /\ StrategyPie.attr = 150
      /\ StrategyPie.css = "none"
  BY SMT DEF CanvasInit, CanvasKinds, StrategyPie
<1>2. screen \in Screens
  BY CanvasAssumption DEF CanvasInit
<1>3. backing \in [w : Some, h : Some]
  BY <1>1, SMT DEF CanvasInit, Some
<1>4. BackingOK
  BY <1>1, <1>2, <1>3 DEF BackingOK
<1>5. FramesOK
  BY DEF CanvasInit, FramesOK
<1> QED BY <1>4, <1>5 DEF CanvasInv

\* A step resizes the store, makes it anew or leaves it.
LEMMA CanvasKeepsBacking ==
  ASSUME BackingOK, CanvasNext
  PROVE  BackingOK'
<1>1. CASE Mount \/ CleanUp
  <2>1. kind' \in CanvasKinds /\ screen' = screen /\ backing' = [w |-> 300, h |-> kind'.attr]
    BY <1>1 DEF Mount, CleanUp, BackingOK
  <2>2. kind'.attr \in Some /\ 300 \in Some /\ kind'.attr <= 300
    BY <2>1, KindsAreWide
  <2> QED BY <2>1, <2>2 DEF BackingOK
<1>2. ASSUME kind' = kind, screen' = screen, backing' = Resized PROVE BackingOK'
  BY <1>2, ResizedOK DEF BackingOK
<1>3. ASSUME kind' = kind, screen' \in Screens, backing' = backing PROVE BackingOK'
  BY <1>3 DEF BackingOK
<1>4. CASE RunEffects
  BY <1>2, <1>3, <1>4 DEF RunEffects, BackingOK
<1>5. ASSUME NEW e \in queued, CanvasFrame(e) PROVE BackingOK'
  BY <1>2, <1>5 DEF CanvasFrame
<1>6. CASE Rerender \/ RunFirstEffect \/ RemoveCanvas \/ ScreenChanges
  BY <1>3, <1>6 DEF Rerender, RunFirstEffect, RemoveCanvas, ScreenChanges, BackingOK
<1> QED BY <1>1, <1>4, <1>5, <1>6 DEF CanvasNext

LEMMA CanvasKeepsFrames ==
  ASSUME FramesOK, CanvasNext
  PROVE  FramesOK'
<1>1. CASE Mount
  BY <1>1 DEF Mount, FramesOK
<1>2. CASE CleanUp
  BY <1>2 DEF CleanUp, FramesOK
<1>3. CASE Rerender \/ RemoveCanvas \/ ScreenChanges
  BY <1>3 DEF Rerender, RemoveCanvas, ScreenChanges, FramesOK
<1>4. CASE RunFirstEffect
  BY <1>4 DEF RunFirstEffect, FramesOK
<1>5. CASE RunEffects
  <2>1. phase' = "settled" /\ kind' = kind
    BY <1>5 DEF RunEffects
  <2>2. CASE reduced
    <3>1. setUp' = "once" /\ queued' = queued \ {effects} /\ fresh' = ~Throws
      BY <1>5, <2>2 DEF RunEffects
    <3>2. queued' = {}
      BY <3>1 DEF FramesOK
    <3>3. ~fresh' => kind.pie
      BY <3>1 DEF Throws
    <3> QED BY <2>1, <3>1, <3>2, <3>3 DEF FramesOK
  <2>3. CASE ~reduced
    <3>1. setUp' = "loop" /\ queued' = (queued \ {effects}) \union {effects'}
      BY <1>5, <2>3 DEF RunEffects
    <3>2. queued' = {effects'}
      BY <3>1 DEF FramesOK
    <3> QED BY <2>1, <3>1, <3>2 DEF FramesOK
  <2> QED BY <2>2, <2>3
<1>6. ASSUME NEW e \in queued, CanvasFrame(e) PROVE FramesOK'
  <2>1. UNCHANGED <<kind, phase, setUp, effects>> /\ queued' \subseteq queued /\ phase # "away"
    BY <1>6 DEF CanvasFrame, FramesOK
  <2>2. CASE Throws
    <3>1. kind.pie
      BY <2>2 DEF Throws
    <3> QED BY <2>1, <3>1 DEF FramesOK
  <2>3. CASE ~Throws
    <3>1. queued' = queued /\ fresh' = (phase = "settled")
      BY <1>6, <2>3 DEF CanvasFrame
    <3> QED BY <2>1, <3>1 DEF FramesOK
  <2> QED BY <2>2, <2>3
<1> QED BY <1>1, <1>2, <1>3, <1>4, <1>5, <1>6 DEF CanvasNext

LEMMA CanvasStutters ==
  ASSUME CanvasInv, UNCHANGED canvasVars
  PROVE  CanvasInv'
BY DEF canvasVars, CanvasInv, BackingOK, FramesOK

LEMMA CanvasInvariant == Spec => []CanvasInv
<1>1. Init => CanvasInv
  BY CanvasBegins DEF Init
<1>2. CanvasInv /\ [Next]_vars => CanvasInv'
  <2> SUFFICES ASSUME CanvasInv, [Next]_vars PROVE CanvasInv'
    OBVIOUS
  <2>1. CanvasNext \/ UNCHANGED canvasVars
    BY DEF Next, vars, LiveStep, FocusStep, ForkStep, LpStep, EduStep, CanvasStep
  <2> QED BY <2>1, CanvasStutters, CanvasKeepsBacking, CanvasKeepsFrames DEF CanvasInv
<1> QED BY <1>1, <1>2, PTL DEF Spec

\* A canvas has one frame to come at most, and one for what it does not show yet,
\* whatever the order of effects, frames and cleanups (useCanvas.ts:33-89).
THEOREM CanvasIsDrawn == Spec => []CanvasKeepsUp
<1>1. CanvasInv => CanvasKeepsUp
  BY DEF CanvasInv, FramesOK, CanvasKeepsUp
<1> QED BY <1>1, CanvasInvariant, PTL

\* A backing store that fits the screen stays as it is, on any screen: what its
\* own rounding makes of the height rounds to the same again (useCanvas.ts:49-60).
THEOREM CanvasComesToRest == Spec => CanvasSettles
<1> DEFINE onPage == phase \in {"rendered", "settled"}
           fitted == CASE kind.css = "width" -> backing.w = Side(<<screen.width, 1>>)
                       [] kind.css = "both" -> /\ backing.w = Side(<<screen.width, 1>>)
                                               /\ backing.h = Side(<<screen.height, 1>>)
                       [] OTHER -> screen.ratio = RatioUnit
           Settled == onPage /\ fitted => backing' = backing
<1>1. CanvasInv /\ [Next]_vars => [Settled]_canvasVars
  <2> SUFFICES ASSUME CanvasInv, CanvasNext, onPage, fitted PROVE backing' = backing
    BY DEF Next, vars, LiveStep, FocusStep, ForkStep, LpStep, EduStep, CanvasStep
  <2>1. BackingOK /\ phase # "removed" /\ phase # "away"
    BY DEF CanvasInv
  <2>2. Resized = backing
    BY <2>1, FittedStays
  <2>3. CASE RunEffects
    BY <2>2, <2>3 DEF RunEffects
  <2>4. ASSUME NEW e \in queued, CanvasFrame(e) PROVE backing' = backing
    BY <2>2, <2>4 DEF CanvasFrame
  <2>5. CASE Mount \/ CleanUp
    BY <2>1, <2>5 DEF Mount, CleanUp
  <2>6. CASE Rerender \/ RunFirstEffect \/ RemoveCanvas \/ ScreenChanges
    BY <2>6 DEF Rerender, RunFirstEffect, RemoveCanvas, ScreenChanges
  <2> QED BY <2>3, <2>4, <2>5, <2>6 DEF CanvasNext
<1> QED BY <1>1, CanvasInvariant, PTL DEF Spec, CanvasSettles
=============================================================================
