# A verification project for the DeFi Transparency Microscope

The DeFi Transparency Microscope is a Python backend (FastAPI, asyncio) that reads
chain data and pushes live events over WebSockets, and a React frontend that
shows them, runs experiments on them and plays a guided demo. This directory
holds TLA+ models of its concurrent and stateful parts, TLC configurations that
check them on small instances, and proofs, checked by TLAPS, of the properties
that matter most.

    tlasany M.tla                        parse a module
    tlc -config hub_safety.cfg MCWSHub   a run (the table below names module and cfg)
    tlapm WSHubProofs.tla                check the proofs of a module

Paths below are relative to the repository; `dtm_backend` stands for
`backend/src/dtm_backend`, and `components`, `store`, `pages` and `canvas` are
under `frontend/src`.

## 1. The system

### Components

| Component | Source | State | Operations |
|---|---|---|---|
| WebSocket hub | `dtm_backend/ws/hub.py`, `ws/topics.py`, `routes/ws.py` | registry of connections; per connection: topics, a queue of 64, `closed`, `closed_event`, a sender and a receiver task; one heartbeat task | `register`, `unregister`, `subscribe`, `unsubscribe`, `broadcast`, the three loops, the `/ws` route |
| Server | `dtm_backend/server.py`, `main.py` | the hub of the application | lifespan: start and stop the heartbeat |
| Watchers | `dtm_backend/watchers/*.py` | `_started`, `_stopped`, `_task` | `start`, `stop`, the loop that pulls events and broadcasts them |
| Chain provider | `dtm_backend/chain/provider.py` | cached block number and its age | `connect`, `close`, `health` |
| Chain readers | `dtm_backend/chain/*.py` | none | read pools, lending positions, liquidity positions and transactions, a call at a time; classify, sum, scale |
| Experiments | `dtm_backend/experiments/*.py` | presets | constant-product swaps, sandwich, impermanent loss, attribution; the models that validate a request |
| HTTP routes, errors | `dtm_backend/routes/*.py`, `errors.py` | the fetchers on `app.state` | one handler per endpoint, one error envelope |
| WebSocket client | `frontend/src/services/wsClient.ts` | socket, state, active and pending topics, queued actions, reconnect timer and attempt | `start`, `stop`, `subscribe`, `unsubscribe`, `ping`, the socket's handlers, reconnection |
| API clients | `frontend/src/services/httpApi.ts`, `mockApi.ts`, `experiments.ts` | none | the same interface twice: over HTTP, and computed in the browser |
| Frontend algorithms | `frontend/src/algorithms/*.ts` | none | swaps, sandwich, impermanent loss, attribution, health factors |
| Application shell | `frontend/src/App.tsx`, `main.tsx`, `store/liveStore.ts` | loads under way, `ready`, the live store, the socket's badge | the initial load, the messages, the poll |
| Live page | `components/live/MempoolLanes.tsx`, `LiveAmmPanel.tsx`, `canvas/LiveAmm.ts` | the price and history of the chart, queued explosions | an interval that makes transactions up, one that shows the price, a walk per frame |
| Guided demo | `frontend/src/services/demoScript.ts`, `store/uiStore.ts`, `components/common/FlashAlert.tsx` | page, alert, lens stage, demo flags, timers | `runDemo`, `stopDemo`, timed steps |
| Liquidation simulation | `pages/LiquidationPage`, `components/liquidation/FocusView.tsx`, `store/liquidationStore.ts` | mode, sliders, banner; step, running, interval | start, tick, pause, reset |
| Fork replay | `pages/ForkExperimentPage`, `store/forkStore.ts`, `components/fork/*.tsx` | parameters, result, replay counter, flag and timers | sliders, `replay` |
| Other stores | `store/lpStore.ts`, `store/eduStore.ts` with `components/lpil`, `components/edu`; the rest of `store` | sliders, a version, a scenario; independent fields | setters, scenario cards, what each panel computes |
| Rendering | `canvas/useCanvas.ts`; the rest of `canvas`, `components`, `pages` | the backing store of each canvas, its effects and the frame it has requested | mount, render, frame, cleanup; drawing |
| Development scripts | `scripts/dev.sh`, `scripts/e2e-smoke.sh`, `frontend/scripts/visual-smoke.mjs`, `scripts/coverage_check.py` | child processes, traps, exit codes | `dev.sh` supervises backend and frontend; the smoke tests start the system and test it from outside |

### How they interact

* Watchers and the heartbeat call into the hub; the hub puts messages into the
  queue of each connection without ever waiting (`put_nowait`) and drops an
  event when a queue is full. Answers to a client's own actions are put with a
  blocking `put`: they wait instead.
* A connection is served by three asyncio tasks. The route parks on
  `closed_event`. The sender takes from the queue and sends. The receiver reads
  frames and answers. The route's `finally` clause unregisters, which cancels
  both tasks and joins them.
* The client speaks to the hub with three actions (subscribe, unsubscribe, ping),
  keeps what it wants across reconnections and sends it again on each open.
* `App.tsx` starts the client in an effect, stops it in the cleanup, and writes
  what arrives into the live store; a second effect loads the initial data into
  the same store.
* A GET of a list is one handler that awaits a call of the chain after another;
  other requests run, blocks arrive and calls fail between two of them. The
  handler takes a fetcher from `app.state`, or binds one to the provider there.
* A page asks `currentAPI` for an experiment: over HTTP to a route of the backend, or
  the mock that computes it in the browser. The two are to agree.
* The mempool lanes write into the live store as the messages do, and the chart
  reads its price from there; both come and go with the page.
* `dev.sh` starts backend and frontend as children, which start processes of
  their own. `visual-smoke.mjs` starts `dev.sh` as a child; `e2e-smoke.sh` starts an
  offline stub of the backend.
* The demo is a set of browser timers that write into the UI store, as the user
  does by navigating, dismissing alerts and starting other demos.

### What is hard, and what makes each part correct

* Hub: three tasks per connection share flags and a bounded queue, and cancel
  each other in the middle of sends and puts. Acknowledgements must follow the
  topics the hub really keeps, events must reach a client only for topics it
  has been told it has, in order and at most once; no task may outlive the
  route; a client that leaves must be unregistered.
* Watcher: `stop()` awaits a loop whose `finally` clause resets the flags, and a
  `start()` may run in between. After `stop()` no loop may be left, and
  `is_running()` must be right.
* Client: sockets fail at any time, handlers act on whichever socket the client
  holds by then, timers outlive what set them. There must be one socket, `stop()`
  must stop, and a topic the application wants must get to the server.
* Demo and stores: timers of overlapping runs. A stopped run may not act.
* Lists: calls of one answer see different blocks, and any of them may fail. An
  answer must be an error when something failed that it needs, and the chain's state
  when the chain stood still.
* Provider: two refreshes of a cache overlap. However they do, a number that is
  returned must have been the head less than a time to live ago.
* Experiments: integer arithmetic with rounding, written twice. Reserves stay
  positive, products do not shrink, inverses cover exactly what was asked for, and both
  implementations say the same.
* Shell and live page: two loads (StrictMode), messages before the load is over,
  a badge with three writers, a chart that drops prices. What was shown must stay,
  the chart must show the price, the badge must settle.
* Panels and charts: each computes from the store by itself, with a copy of the formula
  of the others, and divides by the distance of two values that a slider may make equal.
  They must tell one story, and what they draw must lie on their axes.
* Canvas: React runs effects and cleanups some time after a render, frames come in
  between, and each frame reads a size that the one before may have changed. One effect
  must draw, what is rendered must be drawn, and the size must come to rest.
* Scripts: signals, children that end together, grandchildren, exit codes.
  What was started must be gone when a script ends, but for the ways out that
  `StackIsDown` names, and the exit code of `dev.sh` must tell of the service that ended
  first, or of the other one if both had ended before the script looked.

`PROJECT.json` lists the hazards line by line, with the properties that cover
each, or the reason why none does.

## 2. The modules

| Module | Models | Role |
|---|---|---|
| `WSMessages` | `ws/topics.py` | message envelopes; what a reader of acknowledgements believes about its topics |
| `LossyFeed` | what the hub promises | abstract specification: per connection a sequence of owed messages, events lost only when published |
| `WSHub` | `ws/hub.py`, `routes/ws.py`, lifespan | the hub, one action per code between two awaits; maps itself to `LossyFeed` |
| `MCWSHub` | | symmetry of topics for TLC |
| `WsClient` | `services/wsClient.ts` | the client with browser sockets and timers and a server that acknowledges as the hub |
| `Watcher` | `watchers/base.py` | lifecycle of a watcher |
| `GuidedDemo` | `services/demoScript.ts`, `store/uiStore.ts`, `FlashAlert.tsx`, `MempoolLanes.tsx` | the timers of demos, what they and the user do to the page, the alert and its timer |
| `ErrorEnvelope` | `errors.py` | exceptions to statuses and codes |
| `ChainReaders` | `chain/pools.py`, `lending.py`, `lp.py`, `transactions.py`, `classify.py` | what each list asks of the chain, and what it makes of the answers |
| `Floats` | `chain/lending.py:134, 149` | the two numbers of a lending position that are computed in floating point |
| `Backend` | `routes/pools.py`, `lending.py`, `lp.py`, `transactions.py`, `health.py` | requests in flight over a chain that moves and fails |
| `ChainProvider` | `chain/provider.py` | the cached block number under overlapping calls |
| `Experiments` | `experiments/*.py`, `routes/experiments.py` | the arithmetic, the request models and the routes |
| `Algorithms` | `frontend/src/algorithms/*.ts` | the browser's arithmetic |
| `ApiClient` | `services/httpApi.ts`, `mockApi.ts`, `experiments.ts` | what is posted, what an answer or an error becomes |
| `Lab` | | composition of `Experiments` and `ApiClient`: an experiment from the page to the result |
| `Api`, `MCApi` | | `Backend`, `ChainProvider` and `Lab` in one specification, and a chain for TLC |
| `LivePage` | `App.tsx`, `liveStore.ts`, `MempoolLanes.tsx`, `LiveAmmPanel.tsx`, `canvas/LiveAmm.ts` | the shell's load, the messages, the badge, the chart |
| `FocusView` | `FocusView.tsx`, `LiquidationPage`, `liquidationStore.ts` | the simulation of a liquidation |
| `ForkPage` | `forkStore.ts`, `ForkExperimentPage`, `components/fork` | the replay and the result |
| `LpLab` | `lpStore.ts`, `components/lpil`, `canvas/ILCurve.ts`, `IlPnlChart.ts` | the page on liquidity positions: sliders, cards, and the panels that compute from them |
| `Lesson` | `eduStore.ts`, `components/edu`, `canvas/EduAmm.ts` | the page that teaches: scenario, sliders, the chart of a swap, the made-up rows |
| `Plot`, `Charts` | `canvas/LiveAmm.ts`, `PriceHfCurve.ts`, `HfGauge.ts`, `AmmDisturbance.ts`, `ForkAmm.ts`, `ForkSankey.ts`, `Report*.ts` | what a chart computes before it draws |
| `Canvas` | `canvas/useCanvas.ts` and the canvases that use it | one canvas: backing store, effects, frames |
| `Page`, `MCPage` | | the parts of the frontend above in one specification |
| `DevStack` | `scripts/dev.sh` | the supervision of two trees of processes |
| `SmokeTests` | `scripts/e2e-smoke.sh`, `frontend/scripts/visual-smoke.mjs` | the smoke tests, the second with `DevStack` as its child |
| `Scripts` | | the composition of the two |
| `LossyFeedProofs`, `WSHubProofs`, `WatcherProofs`, `WsClientProofs`, `GuidedDemoProofs`, `ApiProofs`, `PageProofs`, `ScriptsProofs` | | theorems and their proofs |

### WSHub

Variables and code: `registry` is `_connections`; `topics`, `queue`, `closed`,
`closedEvent` are the fields of `Connection`; `route`, `sender`, `receiver` say at
which `await` each task is; `inflight` is the message inside `send_text()`,
`pending` the reply inside the blocking `put()`; `heartbeat` follows the lifespan.
`peer` and `frames` are the client's end. `view`, `lastSeq` and `heard` record what
was sent to each client and guide nothing.

asyncio switches tasks only at an await that suspends, so one action is the code
between two such awaits. `Register` is the code after `ws.accept()`: the queue is
new and `await _enqueue(welcome)` cannot suspend. `Unregister` is everything up to
the first join. Cancellation is thrown at the await where a task is: from `Unregister`
on, sender and receiver take no other step than unwinding, as asyncio schedules
the exception before anything else, and a send cut off that way may have reached
the transport or not. `SendRaises` sets `closed` and nothing else. `ReceiverEnds`
is the receiver's `finally` clause. The cancellation of a route that is already
in `unregister()` has no effect: the join forwards it to the task it waits for,
which is cancelled anyway, and the result is swallowed.

Payloads are abstracted: an event is its topic and its number in the order of
publication. A frame that is not JSON and one that is not an action get the same
kind of answer. A binary frame makes `receive_text()` raise and ends the receiver.

### LossyFeed

The promise to a client, without queue, tasks or failures: a line is new, open or
shut; an answer to a client becomes owed some time after it takes effect, one at a
time; an event is dropped, for any of its subscribers, when it is published and
only then; a line may shut at any moment and nothing is promised after that. Its
invariants (`AckLedger`, `EventsCovered`, `EventOrder`, `WelcomeFirst`) are what
the hub's users rely on. `WSHub` maps a connection to an open line while it is
parked and its sender runs, what is owed to what the sender holds followed by
the queue, and the answer to the receiver's blocked reply. That the hub implements
the feed (`FeedSpec`) says, for every interleaving, that the queue, the blocked
put, the drops and the cancellations together amount to this.

### WsClient

Every method and every handler runs to completion, so each is one action. `link` is
the `readyState` of each socket the client ever opened: handlers of a socket act on
the client's fields whichever socket they now refer to, as in the code. `wire` and
`down` are the frames on their way. `strays` counts timers that are due but that
`reconnectTimer` no longer refers to, so `stop()` cannot clear them. The server
keeps the topics of each socket and acknowledges; `down` holds its answers only
(welcome and events do not change the client's state). The delay of the backoff is
not modelled: a timer may fire at any time after it is set. `InitialTopics` is the
option `topics`, which `services/index.ts` does not use, so the runs leave it empty and
the theorems are for any: `HasAfter` says what a list of actions leaves of one topic, and
`TopicLedger` speaks of the topics outside the option, because those in it come back on
each open (section 5). `ClientAssumption` asks for finitely many topics, an enum in the code.
`tangled` records whether `start()` was ever called with a socket or a timer about.

### Watcher

`loop` holds every loop ever spawned, because a loop that `_task` no longer refers
to goes on. `StopReturns` is the code after the await in `stop()`, which forgets the
current task whichever it is. `Finally` acts on the flags all loops share. A task
cancelled before it begins ends without its `finally` clause. `overlapped` records
whether a `start()` ran while a `stop()` was waiting.

### GuidedDemo

`page`, `lens`, `running`, `step` and `flash` are fields of the UI store; `hovered` is the
state of `FlashAlert`. `Script` holds the steps of the two demos after time 0;
`timers[r]` counts the timers of the r-th call of `runDemo` that are still set, so
the step a timer performs follows from how many are left. There is no clock: the
timers of one run fire in the order of their times, otherwise any timer fires at
any moment, which covers every delay a browser may add. A callback and the
rendering it causes are one action, because React renders and runs the effects of
a change before the next click or timer; hence the timer of the alert is always
that of the alert on screen. `pointer` is the browser's: an element that is removed
while the pointer is on it gets no `mouseleave`. `tangled` (a run began with the
lens on screen) and `vanished` (an alert went away under the pointer) are history.
The lens overlay does not catch clicks (`pointer-events: none`), so the user can do
everything during a run. `Navigate` stands for the tabs of the page.

### ErrorEnvelope, ChainReaders and Backend

The chain is external: `MCApi` gives its states, block after block, as records of
what the contracts and the node would answer. `ChainReaders` holds, per list, the
calls a reader starts with (`FirstCalls`), those that an answer adds (`MoreCalls`)
and what it makes of all answers (`Rows`); `Backend` interleaves the requests, and
`Received` of `ApiClient` is what the page that asked gets. An
action is what a handler does between two awaits, and a call is answered by the
block of the moment. A call fails because the contract refuses it (an index past
the last position, a transaction that the node does not know) or because anything
does (`MaxRaises` times). `wiring` is what a deployment puts on `app.state`: stubs, a
provider, or nothing, which is what `lifespan` puts there.

`ErrorsHaveCause` ties the outcome to what happened during the calls;
`QuietAnswerIsTheChain` compares the rows with the block, spelled out anew in
`Snapshot`, for lists that no block interrupted: one that a block does interrupt
may be a mixture, which is what the code does. `LendingAddsUp` ties the health factor
that the page shows to the amounts that it lists: the factor is their ratio, rounded to a
double, and a debt larger than its collateral is shown as liquidated. Two assets whose
symbols are the same but for case are the exception: the backend keys its maps by symbol
and the browser by the symbol in lower case (`LowerCase`, a constant), the last amount
stays, and the totals count both. The property also holds the browser's arithmetic
against these amounts: at the liquidation price the health factor is at most one, and
at any lower price the position is liquidatable, for every share that may be meant as a
threshold and for the amount that the page is given in its place (section 5).
`Floats` holds what is computed in floating point here: `AsFloat`, the double nearest to
a ratio, and `Times08`, `int(x * 0.8)`, are constants, since a double has fewer digits
than an amount. `FloatAssumption` says that rounding keeps what is at most one at most
one, and takes 1.2 neither for one nor for more than two.
`ChainAssumption` says no more of the chain than that its lists are sequences of
records of the right fields, `TokenAssumption` that a token named by a reserve has its
contract from that block on, with digits of which the scale is a number;
`InOrder` puts the logs that were kept in the order of the list they came in.

### ChainProvider

Three steps per call of `health()`, since the age of an answer is the point: the
caller reads the clock and asks, the node reads its head, the caller stores. `seen` is
history: when the number was the head.

### Experiments, Algorithms, ApiClient and Lab

Pure operators, named as in the source. Python and BigInt integers have no width. A
price ratio is the square of a rational and a concentration the square of a natural
number, so that the square roots which the code takes in floating point are exact; their
rounding is left out, as is that of the ratio itself. A body is a function from the
fields that it carries, so that a missing or an extra field is visible to `Validates`.
`Lab` runs them: a page asks for an experiment with one implementation or the other, a
script posts the documented bodies, the server answers or cannot be reached, the promise
settles. `ImplementationsAgree` compares what a script is answered with what the browser
computes (`ScriptAgrees`), and follows the loss that a page asks for through the body
that `HttpAPI` posts, the model that validates it and the defaults of the route
(`PageAgrees`); the other two bodies are refused whatever they carry (section 5).
`LabAssumption` gives the inputs their kinds: naturals, fees that may be negative,
ratios without a zero below. `SquareAssumption` is arithmetic, that a square is a
product, which the provers do not know; TLC evaluates it.

### LivePage

An action is a callback with the rendering and the effects it causes. `load[i]` is
the i-th run of the loading effect: StrictMode runs it twice and cancels the
first. `live` is the live store, of whose transactions only the origin is kept;
`chart` is the module state of `canvas/LiveAmm.ts`, which outlives the panel. The
frames walk by one up or down (the random step of the code), within one of the
default. `explosions` has no reader besides the map.

### FocusView and ForkPage

`run` is the local state of the view, gone when it is unmounted; banner and
sliders are in a store and stay. The health factor is a fraction. In `ForkPage` the
result is a function of the parameters, so `resultOf` keeps which ones. `Page` puts the
parts of the frontend side by side: they share no state, and a behaviour exercises one.
`FocusViewAssumption` and `ForkPageAssumption` are the ranges of the sliders as far as
the properties need them: the threshold lies between 50 and 90 percent, the depth and
the capital are above zero, the others are not negative.

### LpLab, Lesson and Charts

The state is that of two stores; the panels are operators over it, each translated from
its own component, so that `LpPanelsAgree` and `LessonAgrees` compare what was written
down several times. `V2IL` is the loss of a ratio, which the code computes with a square
root: `V2ILAssumption` asks for no more than its bounds and that nothing is lost at a
ratio of one. Numbers are integers in units that make them exact, or fractions. `Charts`
gives the axis of each chart: the ends, and the values drawn between them; strokes,
colours and labels are left out. `ChartsFit` says that the ends differ, since the code
divides by their distance, and that nothing is drawn beyond them. The report has fixed
data, so its part of `ChartsFit` is a check of these data against what the charts make
of them. `lastState` of `Lesson` is read by tests only.

### Canvas

A canvas of any of five kinds (what its style gives, its height attribute, whether its
data change and are among the dependencies of the effect, and whether it is a pie).
`phase` says where the component is between a render and its effects; `effects` counts
the second effects that have run, `queued` holds those that have a frame requested,
`fresh` is history. A frame of `CanvasFrame` reads the size of the layout, which follows
the backing store where the style gives a width alone or nothing, sets the backing store
and draws. `ScreenChanges` is the browser: another size, another `devicePixelRatio`,
another preference about motion. `MaxSide` bounds the backing store, which on some
screens grows with every frame.

### DevStack, SmokeTests and Scripts

A trap of a shell script runs between two commands, so an action is a command and
`OnSignal` may come between any two. A service is a process that starts and loses helpers
at any moment it is up; a helper has none of its own, so a tree has two levels and the
recursion of `kill_tree()` is one deep. Either may end at any moment, and nothing says
that it minds a SIGTERM. `kill_tree()` is modelled command by command: `ListHelpers` is
`kill -0` and `pgrep`, `KillHelpers` the recursion into those that were `listed`,
`KillProcess` the `kill` of the process. Between them a service may end, or start a
helper that is not listed. `astray` is history: it collects the services of
which `dev.sh` may leave processes behind, which are

* a service that ends, by itself or killed, while it has helpers that `pgrep` has not
  listed: it ended before it was walked, or has started them since;
* what runs when the launch of the second service fails (`mktemp`), as no trap is set;
* all of them, when a signal comes before the traps are set or within `shutdown()`.

Each is a finding, and `StackIsDown` says that the model has no other. Of
`e2e-smoke.sh` it says that the stub is down, unless the script has lost its process id
(`known`): the file may not be written or not be read, and the script then dies with
nothing to kill. `visual-smoke.mjs` starts `dev.sh` as its child and may fail at its
browser; `dropped` records when it does so where nothing tells `dev.sh`.

`ended` is the order in which services ended by themselves. `ExitCodeIsTheCause` allows
one exception to the code of the first: both had ended before `dev.sh` looked which was
alive, so that it cannot know, and then the other's code is reported if it is a failure.
The header of `dev.sh` promises more; the run `dev_exit` shows the difference.

## 3. The runs

| Run | Module, cfg | Outcome | Shows |
|---|---|---|---|
| `hub_safety` | `MCWSHub`, `hub_safety.cfg` | passes | the hub implements `LossyFeed`, keeps its invariants, leaves no task behind, never reopens a closed connection |
| `hub_liveness` | `MCWSHub`, `hub_liveness.cfg` | passes | a set `closed_event` ends the route; a blocked reply resumes while the sender lives, unless publishers take the room again and again; a client that leaves is unregistered unless its receiver is stuck |
| `hub_leak` | `MCWSHub`, `hub_leak.cfg` | violation | a client that leaves may stay registered for ever |
| `client` | `WsClient`, `client.cfg` | passes | one socket, `stop()` stops, the server ends with the wanted topics, as long as no `start()` finds a socket or timer about; a wanted topic always arrives; a stopped client opens nothing |
| `client_restart` | `WsClient`, `client_restart.cfg` | violation | a second `start()` makes two sockets |
| `watcher` | `Watcher`, `watcher.cfg` | passes | `stop()` leaves no loop, `is_running()` is right, no event ends a loop, as long as no `start()` runs inside a `stop()`; `stop()` returns |
| `watcher_restart` | `Watcher`, `watcher_restart.cfg` | violation | with such a `start()`, `stop()` leaves a loop |
| `demo` | `GuidedDemo`, `demo.cfg` | passes | runs started over each other do not interleave; no alert lies over the lens; the lens goes off, tours end and alerts go away by themselves |
| `api` | `MCApi`, `api.cfg` | passes | lists answer 200 for a cause and show the chain when it stood still; a lending position adds up but for the rounding of a double; the cached block is fresh; inverses are exact, sandwiches solvent, both implementations agree, and a loss asked for by the page reaches it |
| `page` | `MCPage`, `page.cfg` | passes | what the page has shown stays, the chart shows the price, the badge settles; the panels and charts of a page agree; a canvas draws what was rendered, by one effect, and its size comes to rest; simulation and replay end by themselves |
| `dev` | `Scripts`, `dev.cfg` | passes | `dev.sh` and the smoke tests leave nothing running but in the named cases; the exit code is that of the service that ended first, unless both had ended when the script looked; they end |
| `dev_exit` | `Scripts`, `dev_exit.cfg` | violation | the first service ends with 0, the other with 1 before the script looks: it exits with 1 |

**Bounds.** The hub runs have one connection: connections share nothing but the
publishers, which never wait, and the theorems hold for any set of connections. Two
topics make acknowledgements overlap without being equal; a queue of two fills with one
message in flight and one blocked reply, so drops, waits and cut-off sends all occur;
the liveness run takes a queue of one, which is full after any message. The heartbeat
has no bound, so that it may fill a queue for ever; events have one, since they are
counted. The client has one topic the server knows and one it does not, two starts
around a stop, two calls and two faults: enough for a second socket, a stray timer, and
a subscription lost twice. The watcher has two callers and three loops: enough for a
`start()` inside a `stop()`, a forgotten loop and a third next to it. Three demos allow
a run inside a run inside a run, two alerts one that vanishes under the pointer and its
successor, three pages the two that matter and another.

The chain of the `api` run has three blocks, of which the second differs from the first
in everything that is read, takes a position away, gives two assets symbols that differ
in case alone and names a transaction that is not found; the third has a debt in a token
of more digits than the scale. Doubles have three digits there, and one of the amounts
is not a double. Two requests and one failed call interleave with it. Two callers of
`health()`, three calls and a time to live of two ticks let one refresh overtake another
and an answer age. Experiments get reserves up to 8, amounts up to 4 and fees of 0, 0.3
%, 50 % and 100 %: small enough for every rounding case, a swap of nothing, an empty
pool. The live page has two prices, two pushed transactions and a window of two; the
simulation three steps; the fork page three replays. The sliders of the other two pages
take an end each and mostly a value between, the losses are those of the formula. The
canvas has two effects, the least of which one follows another, and the screens of
`MCPage`: boxes whose proportions round differently, ratios below, at and above one. The
scripts have one signal from outside (a second may come from the visual smoke test),
half a second of grace and two tries.

**Fairness.** The hub assumes of the event loop that every task that can run does (gets,
puts, joins, cancellations), and of the transport that a send returns or raises, and
raises in the end if it is tried again and again to a client that is gone. Clients,
publishers and the heartbeat owe nothing: a client need not read, send or leave, and a
publisher may come whenever it likes. That a putter which finds room goes on does not
give it the room: `queue.put()` waits again when a broadcast has come first, which is
why `OnlyPublishersStarve` excepts queues that are refilled for ever. The watcher
assumes the same of loops that begin or are cancelled and of `stop()`; sources and
callers owe nothing. The client assumes that timers fire, close events and messages are
delivered, the server reads what reaches it, and a connecting socket opens unless it
breaks, which the bound makes happen finitely often. The demo assumes that timers that
stay set fire; the user and the mempool owe nothing. The page assumes that an interval
which is set goes on firing and a timer fires (`Poll`, `FocusTick`, `ReplayTimer`); the
user, the socket and the backend owe nothing. The scripts assume that a script which can
go on does; the services need not end nor mind a SIGTERM. Each liveness property is
checked under these and no other.

**Deadlock** is not checked where the system may stop: bounds are used up and
clients are gone.

## 4. What is proved

All theorems hold for every value of the constants that meets the named
assumptions: any set of connections or callers, any topics (`BadTopic` not among
them), any queue size above zero, any bounds.

* `LossyFeedProofs!FeedCorrect`: `FeedSpec => []FeedInv`. The four promises are
  almost inductive. `NoEventWaits` (an answer is never an event) and `LastCounted`
  (what was read was published) complete them. The lemmas about `Believes` and
  `CoveredAt` say what appending a message to, or taking one from the front of, a
  sequence does to what a reader believes.
* `WSHubProofs!HubTypeOK`, `HubNoOrphans`: from the inductive invariant `HubInv`
  (`TypeOK`, `NoOrphans`, `JoinOrder`, `NotYet`). `JoinOrder` says that the route
  joins the sender before the receiver, without which the second join would say
  nothing of the first task; `NotYet` that a connection that was not accepted has
  no state.
* `WSHubProofs!HubImplementsFeed`: `Spec => FeedSpec`. One lemma per action maps the step to a
  step of the feed or a stutter: a put to `Give`, a resumed put to `Settle`, a
  broadcast to `Publish` with the connections that had room, a cancellation to
  `ShutLine`.
* `WSHubProofs!HubKeepsLedger`, `HubEventsCovered`, `HubDeliversInOrder`: `AckLedger`,
  `EventsCovered` and `DeliveredInOrder` hold of the hub, from the two above.
* `WSHubProofs!HubClosedIsFinal`: `Spec => ClosedIsFinal`, from `HubInv` with
  `ClosedLater` (no connection is closed before it is accepted) and `AnswersWait` (what
  the receiver waits to put is an answer, not an event). `PublishedCounts` says what an
  answer, a sentinel and a take from the front do to the number of events in a queue.
* `WsClientProofs`: `ClientTypes`, `OneSocketAtATime`, `TopicsAgree`, `StoppedStaysShut`, from
  `ClientInv`: `StoppedHasNoTimer`, `FreshSockets` (nothing was sent on a socket before it
  opened), and for runs in which `start()` met neither a socket nor a timer `OneAbout`:
  a socket that is not closed yet is the last one opened, the client refers to it
  unless it is on its way out, and no timer is set with it. It is needed because the
  handlers of a socket act on whatever the client refers to by then. `TopicLedger` is
  inductive given these; what appending, taking off and joining lists of actions do
  to `HasAfter` are the lemmas it rests on.
* `WatcherProofs`: `WatcherTypeOK`, `WatcherStops`, `WatcherRunningIsTheLoop`,
  `WatcherEventEndsNoLoop`, all from `WatcherInv`, which is `TypeOK` and `Apart`.
  `Apart` says, of runs without a `start()` inside a `stop()`, which loop may be alive,
  that every other is done, and how the flags follow it. It is needed because the
  properties speak of the moment after `stop()` returned, and what makes them true is
  what holds while it waits.

* `GuidedDemoProofs`: `DemoTypeOK`, `DemoRunsNeverInterleave`, `DemoNoAlertOnLens`,
  from `DemoInv`: `OneRun` says that only the timers of the last run are set,
  without which a timer could advance the progress of another run, and `OwnAlert`
  ties the alert and the lens to the number of timers left.
* `ApiProofs!ErrorsAreCaused`, `QuietListsAreTheChain`: of any number of requests at
  once, over any chain. The first needs `ReadersSkip`: a request that is still reading
  has a fetcher and has failed in no call but those that are skipped. The second needs,
  for each request on its way, what the calls answered so far are worth should no block
  come before the last one: `OnTheWay` (`AtStart`, `Between` two calls, `Within` the
  items of a list) says that each answer held is the chain's, and that the calls still
  to come are those that the answers held ask for. `PoolsShown`, `LpPositionsShown` and
  `TransactionsShown` then compare what the page gets with `Snapshot`.
* `ApiProofs!LendingPositionsAddUp`: `Spec => []LendingAddsUp`. `LendingInv` says of a
  position on its way that the reserves are those of one block `b`, and that the digits
  of each token were read in `b` or later or are still to be asked for. The health
  factor and the status come of sums over the reserves, the page's figures of sums over
  the symbols listed, in lower case; that the two agree is `SumOfRenamed`. A fold takes
  its terms in an order that CHOOSE settles, so the lemmas first find the function that
  satisfies the recursion (`SumsDefined`) and then that any term may be taken off first
  (`AnyFirst`). These are inductions over the parts of a finite set, which the prover
  does if the predicate is the set of what satisfies it (`EveryPart`, from
  `EveryNatural`, from `WFMin`). `FloatAssumption` is what rounding must not do, that is
  take a ratio below one for more. `WorthAtPrice` and `PriceIsLow` are about the
  divisions behind the liquidation price: at it the collateral is worth no more than the
  debt asks for, below it less.
* `ApiProofs!InputsAreExact`, `SandwichesAreSolvent`, `BothSidesAgree`: the arithmetic
  for any reserves, amounts and fees. Division is brought down to the two inequalities
  of a quotient; that a swap never shrinks the product of the reserves and that the
  inverse rounds up enough and no more are lemmas about these. `ScriptPosted` and
  `PagePosted` say what a body that is on its way was made of. `SquareAssumption` is all
  that is used about powers.
* `ApiProofs!ProviderIsFresh`: `Spec => []HealthIsFresh`, for any number of overlapping
  calls. `AgeIsSafe` says that the age the cache goes by, and that of every answer on its
  way, counts from a moment not after the one at which the node read its head.
* `PageProofs`: `ChartIsRight`, `NothingShownIsLost`, from `PageInv`. `DropsItsOwn` says
  that the price the chart drops as a repetition is the one it shows; `LoadIsOver` that
  the one load that may replace the stores is over once they are filled.
* `PageProofs!PanelsTellOneStory`: `Spec => []PanelsAgree` for every setting of the
  sliders. Of `StoryInv`, `PanelsInv` says that the result is that of the parameters
  (`resultOf = params`) and that the sliders stay in their ranges, `LpOK` and `EduOK`
  the same of the other two pages, and `HistoryOK` that the window of the chart is a
  sequence of prices with at least one. The rest is arithmetic of roundings: four shares
  of a thousand add up to 999 to 1002, a profit at another depth is no less than
  foretold, the gauge lies between two points of the curve, the ribbons fill their
  column. A chart spans the values it draws: that these have a least and a greatest
  (`EndsExist`) is an induction over the length of the window, done as in
  `LendingPositionsAddUp`.
* `PageProofs!CanvasIsDrawn`, `CanvasComesToRest`: `Spec => []CanvasKeepsUp` and `Spec
  => CanvasSettles`. `FramesOK` says whose frames are requested in each phase, which is
  what the cleanup of an effect relies on: it cancels one frame, its own.
  `HeightFollows` is about rounding twice: a height that is computed from the width a
  backing store was rounded to is rounded to itself.
* `ScriptsProofs!ScriptsLeaveNothing`: `Spec => []StackIsDown`, for any grace and number of
  signals, from `ScriptsInv`. `dev.sh` kills the trees that begin at the processes it
  launched, so `HelpersHang` says that a helper, unless it is astray, belongs to a service
  that is up or was listed; `ListedNow`, that a listed helper is one that the script is
  about to kill; `FrontendFirst`, in which order the trees are walked; `NothingYet`, that
  nothing runs before the launch; `OverIsDown` and `StubIsDown`, what is down at the end.
* `ScriptsProofs!ExitCodeTellsTheCause`: `Spec => []ExitCodeIsTheCause`. `LaunchOrder`
  says which services there are at each command, `EndedOnce` that none ends twice.
  `EndedAreDown` says that before the script asks anything to end, the services that are
  down are those that ended by themselves; `FirstUnseen`, that the first of these is not
  among the services that the poll has found alive; `CauseKnown` carries the code from
  there to the exit.

Model-checked only:

* Liveness: `CloseCompletes`, `OnlyPublishersStarve`, `LeaverUnregisteredOrStuck`,
  `SubscriptionsArrive`, `StopEnds`, `LensGoesOff`, `TourEnds`, `AlertGoes`,
  `BadgeSettles`, `SimulationsEnd`, `StackEnds`. The prover has no rule for ENABLED, and
  so none for weak fairness.
* What the runs that expect a violation check, which is refuted and so has no proof.

## 5. What was found

Each entry is in `PROJECT.json` under "findings" with the lines it quotes. Those
that a run shows:

* A client that leaves while its receiver waits for room in the queue of a sender
  that has died is never unregistered (`hub_leak`).
* `start()` opens a socket whatever is there. In development React's StrictMode
  calls start, stop, start, and the close event of the first socket then makes the
  client forget the second (`client_restart`).
* `stop()` of a watcher may return with a loop alive when a `start()` ran inside
  another `stop()` (`watcher_restart`).
* When both services have ended before `dev.sh` looks which of them is alive, it may exit
  with the code of the second, where its header promises that of the first (`dev_exit`).

Those met while modelling, by part:

* Client: it waits for acknowledgements of type `ack`, which the hub never sends, so a
  topic subscribed to on an open socket never becomes active (it is still
  delivered, as pending topics are sent again on the next open); `App.tsx` subscribes
  to a message type in place of a topic, so no liquidation arrives. A topic of the
  option `topics` that is unsubscribed while no socket is open becomes active again on
  the next open, and the queued unsubscribe is sent after it: the client lists a topic
  that the server has dropped.
* Demo: a tour skipped while the lens is on leaves it on screen; the microscope
  run never stops itself; an alert ignored with the mouse leaves `hovered` set, and the
  next alert does not dismiss itself.
* Experiments: the sandwich and the attribution that the frontend posts are refused with
  422 always: the first wraps its fields in `scenario`, the second has no price ratio.
* Lists: a liquidation threshold that is 0.8 of the collateral amount where the page's
  type has a share of 0..1, a health factor without the threshold that the formula of
  the page has, and maps by symbol where the type has addresses; a log filter that no
  liquidation passes; a fee tier in another unit for V3 pools; a pool that every
  position is given; a fetcher that nothing wires.
* Page: made-up transactions under "Backend: live"; an alert from a cancelled load; a
  badge that `init()` takes down; live transactions without time or sender.
* Simulation and fork: a gauge and a curve with different thresholds; a
  conclusion that foretells another profit than the model computes; a parameter
  that nothing reads.
* Panels and charts: the canvases of the report, whose size no style gives, grow with
  every frame where a CSS pixel is two of the screen and shrink where it is less than
  one, until the pie throws; with reduced motion the chart of the live page stays as it
  was first drawn; the lesson draws a swap outside of its plot; the pool's price moves
  against its reserves; a gauge that nothing mounts; five comments about numbers that
  the code computes otherwise.
* Scripts: processes that `dev.sh` leaves behind (a helper started between `pgrep` and
  `kill`, the helpers of a service that ended before it was walked, a second launch that
  fails, a signal before the traps or within `shutdown()`); a stub that `e2e-smoke.sh`
  leaves behind when it cannot read the file with its process id; a browser that fails
  to launch and leaves `dev.sh` running; reserves that bash computes modulo 2^64; a trap
  that cleans up and goes on.
* Several comments promise what the code does not do: flags that a full queue
  would flip, a queue that is drained, timers that are cleared, actions that survive.

## 6. What is not modelled, and the plan

Not modelled, and why:

* Of the rendering, strokes, colours, layout, particles, formatting and texts; the
  heatmap, whose cells are random; the charts that no page mounts (`AmmCurve`,
  `SankeyDiagram`, `HFChart` and others).
* `experimentStore`, `positionStore` and `reportStore`: setters of independent fields,
  which no order of calls makes wrong; `reset()` of the stores, which nothing calls.
* Configuration, logging, CORS, the entry point: read or set once at start.
* ABIs, addresses, demo data and mocks: data.
* What computes with floating point, but for the threshold and the health factor of a
  lending position (`Floats`): the square roots in `il.py` and `il.ts` beyond exact cases,
  the curves of `hf.ts`. TLC has no floats. Charts are modelled in exact fractions.
* `coverage_check.py`: a pure function of a report; `ci.yml`: commands in order.
* `visual-smoke.mjs` with SKIP_DEV, which then starts nothing.
* `forkStore.reset()`, which nothing calls, and `register()` of an id that is
  registered already, which the only caller's random ids exclude.

The modules of the plan are written and checked. Every safety invariant and every action
property of a passing run has a theorem; liveness stays with TLC. The type invariants of
the watcher and of the demo are stated by theorems alone, for every instance. What a next
step would take up: what `ErrorEnvelope` and `ApiClient` promise of a single answer
as lemmas of their own, type invariants for the HTTP side and the page, and the charts
and panels that are left out.
