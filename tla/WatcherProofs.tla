---------------------------- MODULE WatcherProofs ----------------------------
(***************************************************************************)
(* Proofs about Watcher, for any number of callers, starts and events.     *)
(*                                                                         *)
(* Apart is what the code relies on as long as no start() runs inside a    *)
(* stop(): only the loop spawned last is live; while the watcher is        *)
(* started that loop is the current task, not cancelled, and _stopped is   *)
(* clear; while it is not started, a loop that is still live was cancelled *)
(* and somebody waits for it.                                              *)
(***************************************************************************)
EXTENDS Watcher, TLAPS

Apart ==
  ~overlapped =>
    /\ \A i \in Loops : Live(i) => i = spawned
    /\ started => /\ spawned \in Loops /\ task = spawned
                  /\ Live(spawned) /\ spawned \notin cancelled /\ ~stopped
    /\ \A c \in Callers : waiting[c] # 0 => ~started
    /\ \A i \in Loops :
         Live(i) /\ ~started => i \in cancelled /\ \E c \in Callers : waiting[c] = i
    /\ lastCall = "stop" => ~started

WatcherInv == TypeOK /\ Apart

\* A watcher begins with nothing spawned.
LEMMA WatcherInit == Init => WatcherInv
<1> SUFFICES ASSUME Init PROVE WatcherInv
  OBVIOUS
<1>1. TypeOK
  <2>1. /\ (started \in BOOLEAN) /\ (stopped \in BOOLEAN) /\ (overlapped \in BOOLEAN)
        /\ (lastCall \in {"none", "start", "stop"})
    BY WatcherAssumption DEF Init, Loops
  <2>2. (task \in 0 .. spawned /\ spawned \in 0 .. MaxStarts)
    BY WatcherAssumption DEF Init, Loops
  <2>3. (loop \in [1 .. MaxStarts -> {"none", "created", "pulling", "done"}])
    BY WatcherAssumption DEF Init, Loops
  <2>4. (\A i \in 1 .. MaxStarts : loop[i] = "none" <=> i > spawned)
    BY WatcherAssumption DEF Init, Loops
  <2>5. (cancelled \subseteq 1 .. spawned)
    BY WatcherAssumption DEF Init, Loops
  <2>6. (waiting \in [Callers -> 0 .. spawned])
    BY WatcherAssumption DEF Init, Loops
  <2>7. (pulled \in 0 .. MaxEvents /\ messages \in 0 .. pulled)
    BY WatcherAssumption DEF Init, Loops
  <2> QED BY <2>1, <2>2, <2>3, <2>4, <2>5, <2>6, <2>7 DEF TypeOK, Loops
<1>2. Apart
  <2>1. \A i \in Loops : ~Live(i)
    BY DEF Init, Live
  <2> QED BY <2>1 DEF Init, Apart
<1> QED BY <1>1, <1>2 DEF WatcherInv

\* start(), stop() and the return of stop() keep the invariant.
LEMMA CallerKeepsInv ==
  ASSUME WatcherInv, NEW c \in Callers, Start(c) \/ Stop(c) \/ StopReturns(c)
  PROVE  WatcherInv'
<1> USE WatcherAssumption DEF WatcherInv, Loops
<1>1. CASE waiting[c] = 0 /\ Spawn
  <2>1. TypeOK'
    <3>1. /\ (started \in BOOLEAN)' /\ (stopped \in BOOLEAN)' /\ (overlapped \in BOOLEAN)'
          /\ (lastCall \in {"none", "start", "stop"})'
      BY <1>1 DEF TypeOK, Spawn
    <3>2. (task \in 0 .. spawned /\ spawned \in 0 .. MaxStarts)'
      BY <1>1 DEF TypeOK, Spawn
    <3>3. (loop \in [1 .. MaxStarts -> {"none", "created", "pulling", "done"}])'
      BY <1>1 DEF TypeOK, Spawn
    <3>4. (\A i \in 1 .. MaxStarts : loop[i] = "none" <=> i > spawned)'
      BY <1>1 DEF TypeOK, Spawn
    <3>5. (cancelled \subseteq 1 .. spawned)'
      BY <1>1 DEF TypeOK, Spawn
    <3>6. (waiting \in [Callers -> 0 .. spawned])'
      BY <1>1 DEF TypeOK, Spawn
    <3>7. (pulled \in 0 .. MaxEvents /\ messages \in 0 .. pulled)'
      BY <1>1 DEF TypeOK, Spawn
    <3> QED BY <3>1, <3>2, <3>3, <3>4, <3>5, <3>6, <3>7 DEF TypeOK
  <2>2. Apart'
    <3> SUFFICES ASSUME ~overlapped' PROVE Apart'
      BY DEF Apart
    <3>1. /\ ~overlapped /\ \A d \in Callers : waiting[d] = 0
      BY <1>1 DEF Spawn
    <3>2. \A i \in Loops : ~Live(i)
      BY <1>1, <3>1 DEF Apart, Spawn
    <3>3. spawned' = spawned + 1 /\ spawned' \in Loops /\ task' = spawned'
      BY <1>1 DEF Spawn, TypeOK
    <3>4. \A i \in Loops : Live(i)' <=> i = spawned'
      BY <1>1, <3>2, <3>3 DEF Live, Spawn, TypeOK
    <3>5. spawned' \notin cancelled'
      BY <1>1, <3>3 DEF Spawn, TypeOK
    <3> QED BY <1>1, <3>1, <3>3, <3>4, <3>5 DEF Apart, Spawn, Live
  <2> QED BY <2>1, <2>2
<1>2. CASE StartAgain
  BY <1>2 DEF TypeOK, Apart, Live, StartAgain
<1>3. CASE Stop(c)
  <2>1. CASE ~started
    BY <1>3, <2>1 DEF Stop, TypeOK, Apart, Live
  <2>2. CASE started /\ task # 0 /\ Live(task)
    <3>1. TypeOK'
      <4>1. /\ (started \in BOOLEAN)' /\ (stopped \in BOOLEAN)' /\ (overlapped \in BOOLEAN)'
            /\ (lastCall \in {"none", "start", "stop"})'
        BY <1>3, <2>2 DEF Stop, CancelLoop, TypeOK
      <4>2. (task \in 0 .. spawned /\ spawned \in 0 .. MaxStarts)'
        BY <1>3, <2>2 DEF Stop, CancelLoop, TypeOK
      <4>3. (loop \in [1 .. MaxStarts -> {"none", "created", "pulling", "done"}])'
        BY <1>3, <2>2 DEF Stop, CancelLoop, TypeOK
      <4>4. (\A i \in 1 .. MaxStarts : loop[i] = "none" <=> i > spawned)'
        BY <1>3, <2>2 DEF Stop, CancelLoop, TypeOK
      <4>5. (cancelled \subseteq 1 .. spawned)'
        <5>1. task \in 1 .. spawned /\ cancelled \subseteq 1 .. spawned
          BY <2>2 DEF TypeOK
        <5>2. spawned' = spawned /\ cancelled' = cancelled \union {task}
          BY <1>3, <2>2 DEF Stop, CancelLoop
        <5> QED BY <5>1, <5>2
      <4>6. (waiting \in [Callers -> 0 .. spawned])'
        BY <1>3, <2>2 DEF Stop, CancelLoop, TypeOK
      <4>7. (pulled \in 0 .. MaxEvents /\ messages \in 0 .. pulled)'
        BY <1>3, <2>2 DEF Stop, CancelLoop, TypeOK
      <4> QED BY <4>1, <4>2, <4>3, <4>4, <4>5, <4>6, <4>7 DEF TypeOK
    <3>2. Apart'
      <4> SUFFICES ASSUME ~overlapped PROVE Apart'
        BY <1>3 DEF Apart, Stop
      <4>1. spawned \in Loops /\ task = spawned
        BY <2>2 DEF Apart
      <4>2. /\ ~started' /\ loop' = loop /\ spawned' = spawned
            /\ spawned \in cancelled' /\ waiting'[c] = spawned
        BY <1>3, <2>2, <4>1 DEF Stop, CancelLoop, TypeOK
      <4>3. \A i \in Loops : Live(i)' => i = spawned
        BY <4>2 DEF Apart, Live
      <4> QED BY <4>1, <4>2, <4>3 DEF Apart
    <3> QED BY <3>1, <3>2
  <2>3. CASE started /\ ~(task # 0 /\ Live(task))
    <3>1. TypeOK'
      <4>1. /\ (started \in BOOLEAN)' /\ (stopped \in BOOLEAN)' /\ (overlapped \in BOOLEAN)'
            /\ (lastCall \in {"none", "start", "stop"})'
        BY <1>3, <2>3 DEF Stop, TypeOK
      <4>2. (task \in 0 .. spawned /\ spawned \in 0 .. MaxStarts)'
        BY <1>3, <2>3 DEF Stop, TypeOK
      <4>3. (loop \in [1 .. MaxStarts -> {"none", "created", "pulling", "done"}])'
        BY <1>3, <2>3 DEF Stop, TypeOK
      <4>4. (\A i \in 1 .. MaxStarts : loop[i] = "none" <=> i > spawned)'
        BY <1>3, <2>3 DEF Stop, TypeOK
      <4>5. (cancelled \subseteq 1 .. spawned)'
        BY <1>3, <2>3 DEF Stop, TypeOK
      <4>6. (waiting \in [Callers -> 0 .. spawned])'
        BY <1>3, <2>3 DEF Stop, TypeOK
      <4>7. (pulled \in 0 .. MaxEvents /\ messages \in 0 .. pulled)'
        BY <1>3, <2>3 DEF Stop, TypeOK
      <4> QED BY <4>1, <4>2, <4>3, <4>4, <4>5, <4>6, <4>7 DEF TypeOK
    <3>2. Apart'
      <4>1. overlapped
        BY <2>3 DEF Apart
      <4> QED BY <1>3, <4>1 DEF Stop, Apart
    <3> QED BY <3>1, <3>2
  <2> QED BY <2>1, <2>2, <2>3
<1>4. CASE StopReturns(c)
  <2>1. TypeOK'
    BY <1>4 DEF StopReturns, TypeOK
  <2>2. Apart'
    <3> SUFFICES ASSUME ~overlapped PROVE Apart'
      BY <1>4 DEF Apart, StopReturns
    <3>1. /\ ~started /\ ~started' /\ loop' = loop /\ spawned' = spawned
          /\ cancelled' = cancelled
      BY <1>4 DEF Apart, StopReturns
    <3>2. \A i \in Loops : Live(i)' <=> Live(i)
      BY <3>1 DEF Live
    <3>3. ASSUME NEW i \in Loops, Live(i) PROVE \E d \in Callers : waiting'[d] = i
      <4>1. PICK d \in Callers : waiting[d] = i
        BY <3>1, <3>3 DEF Apart
      <4>2. d # c
        BY <1>4, <3>3, <4>1 DEF StopReturns
      <4> QED BY <1>4, <4>1, <4>2 DEF StopReturns, TypeOK
    <3> QED BY <3>1, <3>2, <3>3 DEF Apart
  <2> QED BY <2>1, <2>2
<1> QED BY <1>1, <1>2, <1>3, <1>4 DEF Start

\* Every step of a loop keeps the invariant.
LEMMA LoopKeepsInv ==
  ASSUME WatcherInv, NEW i \in Loops,
         LoopBegins(i) \/ SourceEnds(i) \/ EventPulled(i) \/ LoopCancelled(i)
  PROVE  WatcherInv'
<1> USE WatcherAssumption DEF WatcherInv, Loops
<1>1. CASE LoopBegins(i)
  BY <1>1 DEF LoopBegins, TypeOK, Apart, Live
<1>2. CASE SourceEnds(i)
  BY <1>2 DEF SourceEnds, Finally, TypeOK, Apart, Live
<1>3. CASE EventPulled(i)
  <2>1. CASE stopped
    <3>1. TypeOK'
      <4>1. /\ (started \in BOOLEAN)' /\ (stopped \in BOOLEAN)' /\ (overlapped \in BOOLEAN)'
            /\ (lastCall \in {"none", "start", "stop"})'
        BY <1>3, <2>1 DEF EventPulled, Broadcast, Finally, TypeOK
      <4>2. (task \in 0 .. spawned /\ spawned \in 0 .. MaxStarts)'
        BY <1>3, <2>1 DEF EventPulled, Broadcast, Finally, TypeOK
      <4>3. (loop \in [1 .. MaxStarts -> {"none", "created", "pulling", "done"}])'
        BY <1>3, <2>1 DEF EventPulled, Broadcast, Finally, TypeOK
      <4>4. (\A j \in 1 .. MaxStarts : loop[j] = "none" <=> j > spawned)'
        BY <1>3, <2>1 DEF EventPulled, Broadcast, Finally, TypeOK
      <4>5. (cancelled \subseteq 1 .. spawned)'
        BY <1>3, <2>1 DEF EventPulled, Broadcast, Finally, TypeOK
      <4>6. (waiting \in [Callers -> 0 .. spawned])'
        BY <1>3, <2>1 DEF EventPulled, Broadcast, Finally, TypeOK
      <4>7. (pulled \in 0 .. MaxEvents /\ messages \in 0 .. pulled)'
        BY <1>3, <2>1 DEF EventPulled, Broadcast, Finally, TypeOK
      <4> QED BY <4>1, <4>2, <4>3, <4>4, <4>5, <4>6, <4>7 DEF TypeOK
    <3>2. Apart'
      <4>1. overlapped
        BY <1>3, <2>1 DEF EventPulled, Broadcast, Apart, Live
      <4> QED BY <1>3, <4>1 DEF EventPulled, Broadcast, Apart
    <3> QED BY <3>1, <3>2
  <2>2. CASE ~stopped
    BY <1>3, <2>2 DEF EventPulled, Broadcast, TypeOK, Apart, Live
  <2> QED BY <2>1, <2>2
<1>4. CASE LoopCancelled(i)
  <2>1. CASE loop[i] = "pulling"
    BY <1>4, <2>1 DEF LoopCancelled, Finally, TypeOK, Apart, Live
  <2>2. CASE loop[i] # "pulling"
    BY <1>4, <2>2 DEF LoopCancelled, TypeOK, Apart, Live
  <2> QED BY <2>1, <2>2
<1> QED BY <1>1, <1>2, <1>3, <1>4

\* Every step of the watcher keeps the invariant.
LEMMA WatcherInvStep == WatcherInv /\ [Next]_vars => WatcherInv'
<1> SUFFICES ASSUME WatcherInv, [Next]_vars PROVE WatcherInv'
  OBVIOUS
<1>1. CASE UNCHANGED vars
  BY <1>1 DEF vars, WatcherInv, TypeOK, Apart, Live, Loops
<1>2. CASE Next
  BY <1>2, CallerKeepsInv, LoopKeepsInv DEF Next
<1> QED BY <1>1, <1>2

\* The invariant holds in every state.
LEMMA WatcherInvHolds == Spec => []WatcherInv
BY WatcherInit, WatcherInvStep, PTL DEF Spec

\* Every variable of a watcher always holds a value of its kind, and no event is
\* broadcast twice.
THEOREM WatcherTypeOK == Spec => []TypeOK
<1>1. WatcherInv => TypeOK
  BY DEF WatcherInv
<1> QED BY <1>1, WatcherInvHolds, PTL

\* When the last lifecycle call was a stop() and no stop() waits, no loop is left,
\* as long as no start() ran while a stop() was waiting.
THEOREM WatcherStops == Spec => []StopLeavesNoLoopApart
<1>1. WatcherInv => StopLeavesNoLoopApart
  <2> SUFFICES ASSUME WatcherInv, ~overlapped, lastCall = "stop", ~Stopping,
                      NEW i \in Loops, Live(i)
               PROVE  FALSE
    BY DEF StopLeavesNoLoopApart, StopLeavesNoLoop
  <2>1. PICK c \in Callers : waiting[c] = i
    BY DEF WatcherInv, Apart
  <2> QED BY <2>1 DEF Stopping, Loops
<1> QED BY <1>1, WatcherInvHolds, PTL

\* There is one loop at most and is_running() tells whether it is there and was
\* not cancelled, as long as no start() ran while a stop() was waiting.
THEOREM WatcherRunningIsTheLoop == Spec => []RunningIsTheLoop
<1>1. WatcherInv => RunningIsTheLoop
  BY DEF WatcherInv, Apart, RunningIsTheLoop
<1> QED BY <1>1, WatcherInvHolds, PTL

\* The _stopped test of a loop never ends it because of an earlier stop() or end
\* of source, as long as no start() ran while a stop() was waiting.
THEOREM WatcherEventEndsNoLoop == Spec => EventEndsNoLoop
<1>1. WatcherInv /\ [Next]_vars =>
        [\A i \in Loops :
           ~overlapped /\ loop[i] = "pulling" /\ pulled' > pulled => loop'[i] = "pulling"]_vars
  <2> SUFFICES ASSUME WatcherInv, Next, ~overlapped,
                      NEW i \in Loops, loop[i] = "pulling", pulled' > pulled
               PROVE  loop'[i] = "pulling"
    OBVIOUS
  <2>1. pulled \in Nat
    BY WatcherAssumption DEF WatcherInv, TypeOK
  <2>2. PICK j \in Loops : EventPulled(j)
    BY <2>1 DEF Next, Start, Spawn, StartAgain, Stop, StopReturns, LoopBegins,
                SourceEnds, LoopCancelled
  <2>3. started /\ ~stopped
    BY <2>2 DEF WatcherInv, Apart, EventPulled, Live
  <2> QED BY <2>2, <2>3 DEF EventPulled, Broadcast
<1> QED BY <1>1, WatcherInvHolds, PTL DEF Spec, EventEndsNoLoop
=============================================================================
