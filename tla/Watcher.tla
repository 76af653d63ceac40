------------------------------- MODULE Watcher -------------------------------
(***************************************************************************)
(* The lifecycle of a watcher (dtm_backend/watchers/base.py): start()      *)
(* spawns a task that pulls events from a source and broadcasts them,      *)
(* stop() cancels it and waits for it.  The three subclasses only choose   *)
(* the topic and the conversion.                                           *)
(*                                                                         *)
(* start() never waits.  stop() waits in one place, `await self._task`,    *)
(* where other callers and the loops run.  hub.broadcast() has no await    *)
(* that suspends, so pulling one event and broadcasting it is one action.  *)
(***************************************************************************)
EXTENDS Integers, FiniteSets

CONSTANTS
  Callers,    \* the coroutines that call start() and stop()
  MaxStarts,  \* bound: tasks spawned
  MaxEvents   \* bound: events the source yields

ASSUME WatcherAssumption == MaxStarts \in Nat /\ MaxEvents \in Nat

VARIABLES
  started,    \* _started
  stopped,    \* _stopped.is_set()
  task,       \* _task: the number of a spawned loop, 0 for None
  spawned,    \* loops spawned so far
  loop,       \* where each loop is
  cancelled,  \* loops whose task.cancel() was called
  waiting,    \* the loop each caller awaits inside stop(), or 0
  pulled,     \* events pulled so far
  messages,   \* messages broadcast so far
  lastCall,   \* the last lifecycle call that began (history)
  overlapped  \* whether a start() ran while a stop() was waiting (history)

vars == <<started, stopped, task, spawned, loop, cancelled, waiting, pulled,
          messages, lastCall, overlapped>>

Loops == 1 .. MaxStarts

Live(i) == loop[i] \in {"created", "pulling"}

Init ==
  /\ started = FALSE /\ stopped = FALSE
  /\ task = 0 /\ spawned = 0
  /\ loop = [i \in Loops |-> "none"]
  /\ cancelled = {}
  /\ waiting = [c \in Callers |-> 0]
  /\ pulled = 0 /\ messages = 0
  /\ lastCall = "none" /\ overlapped = FALSE

-----------------------------------------------------------------------------
(* start and stop                                                          *)

\* start() of a watcher that is not started.
Spawn ==
  /\ ~started
  /\ spawned < MaxStarts
  /\ started' = TRUE
  /\ stopped' = FALSE
  /\ spawned' = spawned + 1
  /\ task' = spawned + 1
  /\ loop' = [loop EXCEPT ![spawned + 1] = "created"]
  /\ overlapped' = (overlapped \/ \E d \in Callers : waiting[d] # 0)
  /\ lastCall' = "start"
  /\ UNCHANGED <<cancelled, waiting, pulled, messages>>

StartAgain ==
  /\ started
  /\ lastCall' = "start"
  /\ UNCHANGED <<started, stopped, task, spawned, loop, cancelled, waiting,
                 pulled, messages, overlapped>>

Start(c) == waiting[c] = 0 /\ (Spawn \/ StartAgain)

\* Mutated form of CancelLoop: stop() does not wait for the loop.
CancelAndForget(c) ==
  /\ cancelled' = cancelled \union {task}
  /\ task' = 0
  /\ UNCHANGED waiting

\* stop() up to its await.
CancelLoop(c) ==
  /\ cancelled' = cancelled \union {task}
  /\ waiting' = [waiting EXCEPT ![c] = task]
  /\ UNCHANGED task

Stop(c) ==
  /\ waiting[c] = 0
  /\ lastCall' = "stop"
  /\ UNCHANGED <<spawned, loop, pulled, messages, overlapped>>
  /\ IF ~started
     THEN UNCHANGED <<started, stopped, task, cancelled, waiting>>
     ELSE /\ started' = FALSE
          /\ stopped' = TRUE
          /\ IF task # 0 /\ Live(task)
             THEN CancelLoop(c)
             ELSE task' = 0 /\ UNCHANGED <<cancelled, waiting>>

\* The awaited task is done: stop() forgets the current task, whichever it is.
StopReturns(c) ==
  /\ waiting[c] # 0
  /\ ~Live(waiting[c])
  /\ task' = 0
  /\ waiting' = [waiting EXCEPT ![c] = 0]
  /\ UNCHANGED <<started, stopped, spawned, loop, cancelled, pulled, messages,
                 lastCall, overlapped>>

-----------------------------------------------------------------------------
(* _run                                                                    *)

LoopBegins(i) ==
  /\ loop[i] = "created" /\ i \notin cancelled
  /\ loop' = [loop EXCEPT ![i] = "pulling"]
  /\ UNCHANGED <<started, stopped, task, spawned, cancelled, waiting, pulled,
                 messages, lastCall, overlapped>>

\* Mutated form of Finally: the lifecycle flag is left to stop().
FinallyEventOnly(i) ==
  /\ loop' = [loop EXCEPT ![i] = "done"]
  /\ stopped' = TRUE
  /\ UNCHANGED started

\* The finally clause, which is not told which loop is the current one.
Finally(i) ==
  /\ loop' = [loop EXCEPT ![i] = "done"]
  /\ started' = FALSE
  /\ stopped' = TRUE

\* The source is exhausted or raised, on its first use or later.
SourceEnds(i) ==
  /\ loop[i] = "pulling" /\ i \notin cancelled
  /\ Finally(i)
  /\ UNCHANGED <<task, spawned, cancelled, waiting, pulled, messages, lastCall,
                 overlapped>>

\* to_message or broadcast may raise: the event is skipped.
Broadcast == messages' \in messages .. messages + 1

\* The source yields an event.
EventPulled(i) ==
  /\ loop[i] = "pulling" /\ i \notin cancelled
  /\ pulled < MaxEvents
  /\ pulled' = pulled + 1
  /\ IF stopped
     THEN Finally(i) /\ UNCHANGED messages
     ELSE Broadcast /\ UNCHANGED <<loop, started, stopped>>
  /\ UNCHANGED <<task, spawned, cancelled, waiting, lastCall, overlapped>>

\* Mutated form of LoopCancelled: a task that has not begun cannot be cancelled.
PullingLoopCancelled(i) ==
  /\ loop[i] = "pulling" /\ i \in cancelled
  /\ Finally(i)
  /\ UNCHANGED <<task, spawned, cancelled, waiting, pulled, messages, lastCall,
                 overlapped>>

\* CancelledError is thrown into the task.  A task that has not begun ends
\* without entering the try, so without its finally clause.
LoopCancelled(i) ==
  /\ Live(i) /\ i \in cancelled
  /\ IF loop[i] = "pulling"
     THEN Finally(i)
     ELSE /\ loop' = [loop EXCEPT ![i] = "done"]
          /\ UNCHANGED <<started, stopped>>
  /\ UNCHANGED <<task, spawned, cancelled, waiting, pulled, messages, lastCall,
                 overlapped>>

-----------------------------------------------------------------------------
Next ==
  \/ \E c \in Callers : Start(c) \/ Stop(c) \/ StopReturns(c)
  \/ \E i \in Loops :
       LoopBegins(i) \/ SourceEnds(i) \/ EventPulled(i) \/ LoopCancelled(i)

Spec == Init /\ [][Next]_vars

\* The event loop runs every task that can run.  Sources and callers owe
\* nothing.
Fairness ==
  /\ \A c \in Callers : WF_vars(StopReturns(c))
  /\ \A i \in Loops : WF_vars(LoopBegins(i)) /\ WF_vars(LoopCancelled(i))

FairSpec == Spec /\ Fairness

-----------------------------------------------------------------------------
(* Properties                                                              *)

\* Every variable holds a value of its kind, only spawned loops have a state,
\* and no event is broadcast twice.
TypeOK ==
  /\ started \in BOOLEAN /\ stopped \in BOOLEAN
  /\ task \in 0 .. spawned /\ spawned \in 0 .. MaxStarts
  /\ loop \in [Loops -> {"none", "created", "pulling", "done"}]
  /\ \A i \in Loops : loop[i] = "none" <=> i > spawned
  /\ cancelled \subseteq 1 .. spawned
  /\ waiting \in [Callers -> 0 .. spawned]
  /\ pulled \in 0 .. MaxEvents /\ messages \in 0 .. pulled
  /\ lastCall \in {"none", "start", "stop"}
  /\ overlapped \in BOOLEAN

Stopping == \E c \in Callers : waiting[c] # 0

\* stop(): "Cancel the loop and wait for the task to exit".  When the last call
\* was a stop() and no stop() is waiting, no loop is left.
StopLeavesNoLoop == lastCall = "stop" /\ ~Stopping => \A i \in Loops : ~Live(i)

\* So it is as long as no start() ran while a stop() was waiting: however
\* start(), stop() and the end of the source interleave otherwise.
StopLeavesNoLoopApart == ~overlapped => StopLeavesNoLoop

\* As long as no start() ran while a stop() was waiting, there is at most one
\* loop, and is_running() tells whether there is one that was not cancelled.
RunningIsTheLoop ==
  ~overlapped =>
    /\ \A i, j \in Loops : Live(i) /\ Live(j) => i = j
    /\ started <=> \E i \in Loops : Live(i) /\ i \notin cancelled

\* As long as no start() ran while a stop() was waiting, a loop that pulls an
\* event goes on: _stopped, which all loops share, never ends a loop by a stop()
\* or an end of source that was meant for an earlier one.
EventEndsNoLoop ==
  [][\A i \in Loops :
       ~overlapped /\ loop[i] = "pulling" /\ pulled' > pulled => loop'[i] = "pulling"]_vars

\* stop() returns, even when it cancels a loop that has not begun.
StopEnds == \A c \in Callers : waiting[c] # 0 ~> waiting[c] = 0
=============================================================================
