----------------------------- MODULE GuidedDemo ------------------------------
(***************************************************************************)
(* The guided demo of the frontend: the timers of                          *)
(* services/demoScript.ts, the part of store/uiStore.ts they write to, the *)
(* alert of components/common/FlashAlert.tsx with its own timer, the       *)
(* mempool of components/live/MempoolLanes.tsx that raises alerts, and a   *)
(* user who navigates, starts and skips demos, and moves the pointer.      *)
(*                                                                         *)
(* There is no clock.  The timers of one run are set for increasing times, *)
(* so they fire in order; otherwise any timer may fire at any time.  A     *)
(* callback and the re-rendering it causes are one action.                 *)
(***************************************************************************)
EXTENDS Integers, Sequences

CONSTANTS
  OtherPages,  \* the pages that neither raise alerts nor are landed on
  MaxRuns,     \* bound: calls of runDemo
  MaxSamples   \* bound: alerts raised by the mempool

ASSUME DemoAssumption ==
  /\ MaxRuns \in Nat /\ MaxSamples \in Nat
  /\ OtherPages \intersect {"live", "fork"} = {}

VARIABLES
  page, lens, running, step,  \* uiStore: page, lensStage, demoRunning, demoStep
  flash,      \* uiStore.flashAlert: who raised it, or "none"
  hovered,    \* the state of FlashAlert
  run,        \* the last call of runDemo
  kind,       \* the kind of each run
  timers,     \* how many timers of each run are set
  pointer,    \* whether the pointer is on the alert
  samples,    \* alerts raised by the mempool so far
  tangled,    \* whether the last run began with the lens on screen (history)
  vanished    \* whether an alert went away under the pointer (history)

storeVars == <<page, lens, running, step, flash>>
runVars   == <<run, kind, timers, tangled>>
hoverVars == <<hovered, pointer, vanished>>
vars      == <<storeVars, runVars, hoverVars, samples>>

Runs   == 1 .. MaxRuns
Pages  == {"live", "fork"} \union OtherPages
Stages == {"idle", "capture", "fork", "parse", "ready", "zooming"}

\* The steps of each kind of run, without those at time 0.
Script == [auto |-> <<"alert", "magnify", "fork", "parse", "ready", "zooming",
                      "land", "end">>,
           microscope |-> <<"capture", "fork", "parse", "ready", "zooming", "land">>]

Init ==
  /\ page = "live" /\ lens = "idle" /\ running = FALSE /\ step = 0
  /\ flash = "none"
  /\ hovered = FALSE /\ pointer = FALSE /\ vanished = FALSE
  /\ run = 0 /\ tangled = FALSE
  /\ kind = [r \in Runs |-> "auto"]
  /\ timers = [r \in Runs |-> 0]
  /\ samples = 0

-----------------------------------------------------------------------------
(* The alert.  FlashAlert stays mounted while its element comes and goes,  *)
(* and an element that is removed gets no mouseleave: `hovered` stays.     *)

Flash(f) ==
  /\ flash' = f
  /\ IF f = "none"
     THEN /\ pointer' = FALSE
          /\ vanished' = (vanished \/ hovered)
          /\ UNCHANGED hovered
     ELSE UNCHANGED hoverVars

\* Mutated form of SampleAlert: alerts are raised while a demo runs.
SampleAlertAnyway ==
  /\ page = "live"
  /\ samples < MaxSamples
  /\ samples' = samples + 1
  /\ Flash("sample")
  /\ UNCHANGED <<page, lens, running, step, runVars>>

\* The mempool of the live page samples a transaction worth an alert.
SampleAlert ==
  /\ page = "live" /\ ~running
  /\ samples < MaxSamples
  /\ samples' = samples + 1
  /\ Flash("sample")
  /\ UNCHANGED <<page, lens, running, step, runVars>>

PointerEnters ==
  /\ flash # "none" /\ ~pointer
  /\ pointer' = TRUE /\ hovered' = TRUE
  /\ UNCHANGED <<storeVars, runVars, vanished, samples>>

\* Mutated form of PointerLeaves: the timer is paused and never resumed.
PointerLeavesPaused ==
  /\ pointer
  /\ pointer' = FALSE
  /\ UNCHANGED <<hovered, vanished, storeVars, runVars, samples>>

PointerLeaves ==
  /\ pointer
  /\ pointer' = FALSE /\ hovered' = FALSE /\ vanished' = FALSE
  /\ UNCHANGED <<storeVars, runVars, samples>>

Ignore ==
  /\ flash # "none"
  /\ Flash("none")
  /\ UNCHANGED <<page, lens, running, step, runVars, samples>>

\* The timer of the alert on screen, which is set while nothing hovers.
AutoDismiss ==
  /\ flash # "none" /\ ~hovered
  /\ Flash("none")
  /\ UNCHANGED <<page, lens, running, step, runVars, samples>>

-----------------------------------------------------------------------------
(* Runs                                                                    *)

\* Mutated form of Cleared: the timers of earlier runs stay.
NotCleared == timers

\* clearDemoTimers
Cleared == [r \in Runs |-> 0]

\* The number of timers a run sets.
Scheduled(k) == Len(Script[k])

\* runDemo, with its step at time 0.
RunDemo(k) ==
  /\ run < MaxRuns
  /\ run' = run + 1
  /\ kind' = [kind EXCEPT ![run + 1] = k]
  /\ timers' = [Cleared EXCEPT ![run + 1] = Scheduled(k)]
  /\ tangled' = (lens # "idle")
  /\ running' = TRUE /\ step' = 0
  /\ IF k = "auto"
     THEN page' = "live" /\ UNCHANGED <<flash, hoverVars>>
     ELSE Flash("none") /\ UNCHANGED page
  /\ UNCHANGED <<lens, samples>>

\* The button of the header, of the alert and of a lane of the mempool.
StartTour       == RunDemo("auto")
EnterMicroscope == (flash # "none" \/ page = "live") /\ RunDemo("microscope")

\* Mutated form of Land: the lens is left to the last step of the tour.
LandLensOn == page' = "fork" /\ UNCHANGED lens

Land == lens' = "idle" /\ page' = "fork"

\* Mutated form of StopDemo: the run is left running.
StopDemoKeepsRunning ==
  /\ step' = 0
  /\ Flash("none")
  /\ UNCHANGED <<page, lens, running>>

StopDemo ==
  /\ running' = FALSE /\ step' = 0
  /\ Flash("none")
  /\ UNCHANGED <<page, lens>>

\* The action of a step.
Perform(s) ==
  \/ s = "end" /\ StopDemo
  \/ /\ s # "end"
     /\ step' = step + 1
     /\ UNCHANGED running
     /\ \/ s = "alert" /\ Flash("tour") /\ UNCHANGED <<page, lens>>
        \/ s = "magnify" /\ Flash("none") /\ lens' = "capture" /\ UNCHANGED page
        \/ s = "land" /\ Land /\ UNCHANGED <<flash, hoverVars>>
        \/ s \in Stages /\ lens' = s /\ UNCHANGED <<page, flash, hoverVars>>

\* The timer of run r that is set for the earliest time.
TimerFires(r) ==
  LET script == Script[kind[r]] IN
  /\ timers[r] > 0
  /\ timers' = [timers EXCEPT ![r] = @ - 1]
  /\ IF running
     THEN Perform(script[Len(script) - timers[r] + 1])
     ELSE UNCHANGED <<storeVars, hoverVars>>
  /\ UNCHANGED <<run, kind, tangled, samples>>

\* The button that skips the demo.
Skip ==
  /\ running
  /\ StopDemo
  /\ UNCHANGED <<runVars, samples>>

Navigate(p) ==
  /\ page' = p
  /\ UNCHANGED <<lens, running, step, flash, runVars, hoverVars, samples>>

-----------------------------------------------------------------------------
Next ==
  \/ SampleAlert \/ PointerEnters \/ PointerLeaves \/ Ignore \/ AutoDismiss
  \/ StartTour \/ EnterMicroscope \/ Skip
  \/ \E r \in Runs : TimerFires(r)
  \/ \E p \in Pages : Navigate(p)

Spec == Init /\ [][Next]_vars

\* Timers that stay set fire.  The user and the mempool owe nothing.
Fairness == WF_vars(AutoDismiss) /\ \A r \in Runs : WF_vars(TimerFires(r))

FairSpec == Spec /\ Fairness

-----------------------------------------------------------------------------
(* Properties                                                              *)

\* Every variable holds a value of its kind, and the pointer is only on an alert
\* that is there and hovered.
TypeOK ==
  /\ page \in Pages /\ lens \in Stages /\ running \in BOOLEAN /\ step \in Nat
  /\ flash \in {"none", "tour", "sample"}
  /\ hovered \in BOOLEAN /\ pointer \in BOOLEAN /\ vanished \in BOOLEAN
  /\ pointer => hovered /\ flash # "none"
  /\ run \in 0 .. MaxRuns /\ tangled \in BOOLEAN
  /\ kind \in [Runs -> {"auto", "microscope"}]
  /\ timers \in [Runs -> Nat]
  /\ \A r \in Runs : timers[r] <= Len(Script[kind[r]])
  /\ samples \in 0 .. MaxSamples

\* "The two runs never interleave": the progress on screen is the number of
\* timers of the last run that have fired, however often a run was started
\* in the middle of another.
StepIsProgress ==
  running => step = Len(Script[kind[run]]) - timers[run]

\* No alert lies over the lens during a run that began with the lens off: the
\* script takes its own alert down and the mempool raises none meanwhile.
NoAlertOnLens == running /\ ~tangled /\ lens # "idle" => flash = "none"

\* The lens goes off by itself, whichever runs were started over each other,
\* unless the user skips.
LensGoesOff == lens # "idle" ~> (lens = "idle" \/ ~running)

\* A tour ends by itself, unless another run takes its place.
TourEnds ==
  \A r \in Runs : (run = r /\ kind[r] = "auto") ~> (~running \/ run # r)

\* An alert goes away by itself once the pointer has left it, if none before
\* it went away under the pointer.
AlertGoes == flash # "none" ~> (flash = "none" \/ pointer \/ vanished)
=============================================================================
