------------------------------- MODULE LivePage -------------------------------
(* The application shell from its first mount (App.tsx): the initial load of    *)
(* five lists, the live messages that arrive meanwhile, the badge that follows  *)
(* the socket, and the live page with its mempool lanes (MempoolLanes.tsx) and  *)
(* price chart (LiveAmmPanel.tsx over canvas/LiveAmm.ts), which meet in         *)
(* liveStore.                                                                   *)
(*                                                                              *)
(* React renders, and runs the effects of what it rendered, after each change   *)
(* of a store; an action includes that.  In development StrictMode mounts the   *)
(* shell twice in a row, which cancels the first of two loads.                  *)
EXTENDS Integers, Sequences, SequencesExt

CONSTANTS Prices,         \* prices above zero that a pool can have
          DefaultPrice,   \* DEFAULT_PRICE of the chart
          HistoryLen,     \* HISTORY_LEN of the chart
          MaxPushed       \* bound of a run: transactions that are pushed

ASSUME LivePageAssumption ==
  /\ Prices \subseteq Nat \ {0} /\ DefaultPrice \in Nat \ {0}
  /\ HistoryLen \in Nat \ {0, 1} /\ MaxPushed \in Nat

VARIABLES
  useBackend,  \* services/index.ts: whether there is a backend and a socket
  load,        \* the stage of each load, the last of which is not cancelled
  ready,       \* App.ready: the pages are shown
  filled,      \* whether a load has filled liveStore, positionStore, experimentStore
  alerts,      \* alerts pushed on uiStore
  live,        \* liveStore
  socket,      \* WsClient.getState(): "open" or not
  page,        \* uiStore.page
  chart,       \* LiveAmm: livePrice, lastPushedPrice, priceHistory
  ticker,      \* LiveAmmPanel: the price that is displayed
  explosions,  \* MempoolExplosion: bursts that are queued
  pushed       \* how many transactions were pushed

pageVars == <<useBackend, load, ready, filled, alerts, live, socket, page, chart,
              ticker, explosions, pushed>>

Cancelled(i) == i < Len(load)

SeedHistory == [i \in 1..HistoryLen |-> DefaultPrice]

LivePageInit ==
  /\ useBackend \in BOOLEAN
  /\ \E mounts \in {1, 2} :
       load = [i \in 1..mounts |-> IF useBackend THEN "probing" ELSE "loading"]
  /\ ready = FALSE /\ filled = FALSE /\ alerts = 0
  /\ live = [mempool |-> <<>>, price |-> 0, connected |-> FALSE]
  /\ socket = "closed" /\ page = "live"
  /\ chart = [price |-> DefaultPrice, pushed |-> DefaultPrice, history |-> SeedHistory]
  /\ ticker = DefaultPrice
  /\ explosions = 0 /\ pushed = 0

-----------------------------------------------------------------------------
(* The chart.  A window keeps the last HistoryLen points.                      *)

Shown == ready /\ page = "live"

Window(history, price) ==
  LET grown == Append(history, price)
  IN IF Len(grown) > HistoryLen THEN Tail(grown) ELSE grown

Push(c, price) == [price |-> price, pushed |-> price, history |-> Window(c.history, price)]

(* updatePrice: a random step of the fallback walk, never below 1.             *)
UpdatePrice(c, step) == Push(c, IF c.price + step < 1 THEN 1 ELSE c.price + step)

(* Mutant: a price is compared with the one before the walk. *)
SetLivePriceByWindow(c, price) ==
  IF price <= 0 \/ \E i \in DOMAIN c.history : c.history[i] = price THEN c ELSE Push(c, price)

(* setLivePrice drops a price that was the last one pushed.                    *)
SetLivePrice(c, price) == IF price <= 0 \/ price = c.pushed THEN c ELSE Push(c, price)

(* The effect of LiveAmmPanel on the price in the store, if the panel is there.*)
ChartFollows(shown, price) == chart' = IF shown /\ price > 0 THEN SetLivePrice(chart, price) ELSE chart

(* One animation frame of the panel: it walks where no price is known.         *)
Frame ==
  /\ Shown /\ live.price = 0
  /\ \E step \in {-1, 1} : /\ chart.price + step <= DefaultPrice + 1
                           /\ chart' = UpdatePrice(chart, step)
  /\ UNCHANGED <<useBackend, load, ready, filled, alerts, live, socket, page, ticker,
                 explosions, pushed>>

(* The interval of 800 ms that displays the price.                             *)
TickerFires ==
  /\ Shown /\ ticker' = chart.price
  /\ UNCHANGED <<useBackend, load, ready, filled, alerts, live, socket, page, chart,
                 explosions, pushed>>

(* NavTabs: the panel mounts with the price there is, and its effect runs.     *)
Navigate ==
  /\ ready
  /\ page' = IF page = "live" THEN "fork" ELSE "live"
  /\ ChartFollows(page' = "live", live.price)
  /\ ticker' = IF page' = "live" THEN chart.price ELSE ticker
  /\ UNCHANGED <<useBackend, load, ready, filled, alerts, live, socket, explosions, pushed>>

-----------------------------------------------------------------------------
(* The initial load. *)

(* The health probe.  A cancelled load that fails it ends silently.            *)
ProbeSucceeds(i) ==
  /\ load[i] = "probing" /\ load' = [load EXCEPT ![i] = "loading"]
  /\ UNCHANGED <<useBackend, ready, filled, alerts, live, socket, page, chart, ticker,
                 explosions, pushed>>

ProbeFails(i) ==
  /\ load[i] = "probing" /\ load' = [load EXCEPT ![i] = "done"]
  /\ alerts' = IF Cancelled(i) THEN alerts ELSE alerts + 1
  /\ ready' = (ready \/ ~Cancelled(i))
  /\ ChartFollows(ready' /\ page = "live" /\ ~ready, live.price)
  /\ ticker' = IF ready' /\ ~ready THEN chart.price ELSE ticker
  /\ UNCHANGED <<useBackend, filled, live, socket, page, explosions, pushed>>

(* Mutant: a cancelled load fills the stores all the same. *)
LoadSucceedsAnyway(i) ==
  /\ load[i] = "loading" /\ load' = [load EXCEPT ![i] = "done"]
  /\ live' = [mempool |-> <<>>, price |-> 0, connected |-> FALSE]
  /\ ready' = TRUE /\ filled' = TRUE
  /\ UNCHANGED <<useBackend, alerts, socket, page, chart, ticker, explosions, pushed>>

(* The five lists are there: init() replaces the whole of liveStore, the       *)
(* connected flag included, and the page is shown.  Without pools the price is *)
(* zero; the mock API always has some.                                         *)
LoadSucceeds(i) ==
  /\ load[i] = "loading" /\ load' = [load EXCEPT ![i] = "done"]
  /\ IF Cancelled(i) THEN UNCHANGED <<ready, filled, live, chart, ticker>>
     ELSE \E listed \in {<<>>, <<"listed">>}, price \in Prices \cup IF useBackend THEN {0} ELSE {} :
       /\ live' = [mempool |-> listed, price |-> price, connected |-> FALSE]
       /\ ready' = TRUE /\ filled' = TRUE
       /\ ChartFollows(page = "live", price)
       /\ ticker' = IF ready THEN ticker ELSE chart.price
  /\ UNCHANGED <<useBackend, alerts, socket, page, explosions, pushed>>

(* One of the five fails: the handler at the end does not ask whether the load *)
(* is cancelled.                                                               *)
LoadFails(i) ==
  /\ useBackend /\ load[i] = "loading" /\ load' = [load EXCEPT ![i] = "done"]
  /\ alerts' = alerts + 1 /\ ready' = TRUE
  /\ ChartFollows(page = "live" /\ ~ready, live.price)
  /\ ticker' = IF ready THEN ticker ELSE chart.price
  /\ UNCHANGED <<useBackend, filled, live, socket, page, explosions, pushed>>

-----------------------------------------------------------------------------
(* The live messages, which come whether the load is over or not.  No message  *)
(* of type liquidation_event comes: its topic is not the one subscribed to.    *)

SocketChanges ==
  /\ useBackend /\ socket' = IF socket = "open" THEN "closed" ELSE "open"
  /\ UNCHANGED <<useBackend, load, ready, filled, alerts, live, page, chart, ticker,
                 explosions, pushed>>

PushTx(entry) ==
  /\ pushed < MaxPushed /\ pushed' = pushed + 1
  /\ live' = [live EXCEPT !.mempool = Append(@, entry)]

OnMempoolTx ==
  /\ socket = "open" /\ PushTx("received")
  /\ UNCHANGED <<useBackend, load, ready, filled, alerts, socket, page, chart, ticker, explosions>>

(* A price is the ratio of the two reserves; one that is not above zero is     *)
(* left out.                                                                   *)
OnAmmSync ==
  /\ socket = "open"
  /\ \E price \in Prices : /\ live' = [live EXCEPT !.price = price]
                           /\ ChartFollows(Shown, price)
  /\ UNCHANGED <<useBackend, load, ready, filled, alerts, socket, page, ticker,
                 explosions, pushed>>

(* Mutant: only a socket that opens is noticed. *)
PollNoticesOpen ==
  /\ useBackend
  /\ live' = [live EXCEPT !.connected = @ \/ socket = "open"]
  /\ UNCHANGED <<useBackend, load, ready, filled, alerts, socket, page, chart, ticker,
                 explosions, pushed>>

(* The interval of one second that the last mount of the shell leaves.         *)
Poll ==
  /\ useBackend
  /\ live' = [live EXCEPT !.connected = (socket = "open")]
  /\ UNCHANGED <<useBackend, load, ready, filled, alerts, socket, page, chart, ticker,
                 explosions, pushed>>

(* The interval of 2.5 s of the mempool lanes: a made-up transaction, in       *)
(* backend mode too, and with some of them a burst that nothing ever draws.    *)
LaneFires ==
  /\ Shown /\ PushTx("made up")
  /\ \E burst \in {0, 1} : explosions' = explosions + burst
  /\ UNCHANGED <<useBackend, load, ready, filled, alerts, socket, page, chart, ticker>>

-----------------------------------------------------------------------------
LivePageNext ==
  \/ \E i \in DOMAIN load : \/ ProbeSucceeds(i) \/ ProbeFails(i)
                            \/ LoadSucceeds(i) \/ LoadFails(i)
  \/ SocketChanges \/ OnMempoolTx \/ OnAmmSync \/ Poll
  \/ LaneFires \/ Frame \/ TickerFires \/ Navigate

-----------------------------------------------------------------------------
(* Once a load has filled the stores, no transaction that the page shows goes  *)
(* away again: of the loads that StrictMode starts one alone replaces the list *)
(* (App.tsx:76-148, liveStore.ts:47-60).                                       *)
ShownStays == [][filled => filled' /\ IsPrefix(live.mempool, live'.mempool)]_pageVars

(* The chart shows the price of the store whenever there is one, although it   *)
(* walks while there is none, drops repeated prices and misses those of other  *)
(* pages (LiveAmmPanel.tsx:44-74, canvas/LiveAmm.ts:40-72).                    *)
ChartShowsPrice == Shown /\ live.price > 0 => chart.price = live.price

(* The badge settles on what the socket settles on, although init() takes the  *)
(* connected flag away (App.tsx:224-236).                                      *)
BadgeSettles ==
  /\ <>[](useBackend /\ socket = "open") => <>[]live.connected
  /\ <>[](socket # "open") => <>[]~live.connected
=============================================================================
