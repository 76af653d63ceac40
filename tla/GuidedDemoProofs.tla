-------------------------- MODULE GuidedDemoProofs ---------------------------
(***************************************************************************)
(* Proofs about GuidedDemo, for any number of runs, alerts and pages.      *)
(*                                                                         *)
(* Only the timers of the last run are set, so its progress is what has    *)
(* been taken from them (OneRun).  While it runs, the mempool raises no    *)
(* alert, so the alert of the script is gone when its lens comes on        *)
(* (OwnAlert).                                                             *)
(***************************************************************************)
EXTENDS GuidedDemo, TLAPS

OneRun ==
  /\ running => run \in Runs
  /\ \A r \in Runs : r # run => timers[r] = 0
  /\ StepIsProgress

OwnAlert ==
  running =>
    /\ kind[run] = "microscope" => flash = "none"
    /\ kind[run] = "auto" /\ ~tangled =>
         /\ flash # "none" => timers[run] >= 7
         /\ timers[run] >= 7 => lens = "idle"

DemoInv == TypeOK /\ OneRun /\ OwnAlert

\* The two scripts, by their lengths: eight timers and six.
LEMMA ScriptLengths ==
  /\ Len(Script["auto"]) = 8 /\ Len(Script["microscope"]) = 6
  /\ \A k \in {"auto", "microscope"} : Len(Script[k]) \in {6, 8}
BY DEF Script

\* What a timer does, by how many are set: the step, and whether it is the last.
LEMMA ScriptSteps ==
  /\ \A n \in 1 .. 8 :
       LET s == Script["auto"][8 - n + 1] IN
       /\ s = "end" <=> n = 1
       /\ s = "alert" <=> n = 8
       /\ s = "magnify" <=> n = 7
       /\ s = "land" <=> n = 2
       /\ s \in Stages => n \in 3 .. 6
  /\ \A n \in 1 .. 6 :
       LET s == Script["microscope"][6 - n + 1] IN
       /\ s \notin {"end", "alert", "magnify"}
       /\ s = "land" <=> n = 1
BY DEF Script, Stages

\* A page begins with no run, no timer and no alert.
LEMMA DemoInit == Init => DemoInv
<1> SUFFICES ASSUME Init PROVE DemoInv
  OBVIOUS
<1>1. /\ kind \in [Runs -> {"auto", "microscope"}] /\ timers \in [Runs -> Nat]
      /\ \A r \in Runs : timers[r] = 0 /\ kind[r] = "auto"
  BY DEF Init
<1>2. \A r \in Runs : timers[r] <= Len(Script[kind[r]])
  BY <1>1, ScriptLengths
<1>3. TypeOK
  <2>1. /\ page \in Pages /\ lens \in Stages /\ step \in Nat
        /\ flash \in {"none", "tour", "sample"}
    BY DEF Init, Pages, Stages
  <2>2. /\ running \in BOOLEAN /\ hovered \in BOOLEAN /\ pointer \in BOOLEAN
        /\ vanished \in BOOLEAN /\ tangled \in BOOLEAN
    BY DEF Init
  <2>3. pointer => hovered /\ flash # "none"
    BY DEF Init
  <2>4. run \in 0 .. MaxRuns /\ samples \in 0 .. MaxSamples
    BY DemoAssumption DEF Init
  <2> QED BY <1>1, <1>2, <2>1, <2>2, <2>3, <2>4 DEF TypeOK
<1>4. OneRun /\ OwnAlert
  BY <1>1 DEF Init, OneRun, OwnAlert, StepIsProgress
<1> QED BY <1>3, <1>4 DEF DemoInv

\* The user's pointer and clicks, the mempool, the timer of the alert and
\* navigation touch no run, and take alerts away or raise one while none runs.
LEMMA AlertKeepsInv ==
  ASSUME DemoInv,
         \/ SampleAlert \/ PointerEnters \/ PointerLeaves \/ Ignore \/ AutoDismiss
         \/ Skip \/ \E p \in Pages : Navigate(p)
  PROVE  DemoInv'
<1> USE DemoAssumption
<1>1. CASE SampleAlert
  BY <1>1 DEF SampleAlert, Flash, runVars, hoverVars,
              DemoInv, TypeOK, OneRun, OwnAlert, StepIsProgress, Runs
<1>2. CASE PointerEnters
  BY <1>2 DEF PointerEnters, runVars, storeVars,
              DemoInv, TypeOK, OneRun, OwnAlert, StepIsProgress, Runs
<1>3. CASE PointerLeaves
  BY <1>3 DEF PointerLeaves, runVars, storeVars,
              DemoInv, TypeOK, OneRun, OwnAlert, StepIsProgress, Runs
<1>4. CASE Ignore
  BY <1>4 DEF Ignore, Flash, runVars,
              DemoInv, TypeOK, OneRun, OwnAlert, StepIsProgress, Runs
<1>5. CASE AutoDismiss
  BY <1>5 DEF AutoDismiss, Flash, runVars,
              DemoInv, TypeOK, OneRun, OwnAlert, StepIsProgress, Runs
<1>6. CASE Skip
  BY <1>6 DEF Skip, StopDemo, Flash, runVars,
              DemoInv, TypeOK, OneRun, OwnAlert, StepIsProgress, Runs
<1>7. CASE \E p \in Pages : Navigate(p)
  BY <1>7 DEF Navigate, runVars, hoverVars,
              DemoInv, TypeOK, OneRun, OwnAlert, StepIsProgress, Runs
<1> QED BY <1>1, <1>2, <1>3, <1>4, <1>5, <1>6, <1>7

\* A new run takes the timers of the one before with it.
LEMMA RunKeepsInv ==
  ASSUME DemoInv, NEW k \in {"auto", "microscope"}, RunDemo(k)
  PROVE  DemoInv'
<1> USE DemoAssumption, ScriptLengths DEF DemoInv
<1>1. run' = run + 1 /\ run' \in Runs
  BY DEF RunDemo, TypeOK, Runs
<1>2. kind' \in [Runs -> {"auto", "microscope"}] /\ kind'[run'] = k
  BY <1>1 DEF RunDemo, TypeOK
<1>3. /\ timers' \in [Runs -> Nat] /\ timers'[run'] = Len(Script[k])
      /\ \A r \in Runs : r # run' => timers'[r] = 0
  BY <1>1 DEF RunDemo, Cleared, Scheduled, TypeOK
<1>4. page' \in Pages /\ flash' \in {"none", "tour", "sample"} /\ lens' = lens
  BY DEF RunDemo, Flash, Pages, TypeOK
<1>5. TypeOK'
  <2>1. \A r \in Runs : timers'[r] <= Len(Script[kind'[r]])
    BY <1>1, <1>2, <1>3
  <2>2. /\ hovered' \in BOOLEAN /\ pointer' \in BOOLEAN /\ vanished' \in BOOLEAN
        /\ pointer' => hovered' /\ flash' # "none"
    BY DEF RunDemo, Flash, hoverVars, TypeOK
  <2>3. /\ page' \in Pages /\ lens' \in Stages /\ running' \in BOOLEAN /\ step' \in Nat
        /\ tangled' \in BOOLEAN /\ samples' \in 0 .. MaxSamples
    BY <1>4 DEF RunDemo, TypeOK
  <2>4. run' \in 0 .. MaxRuns
    BY <1>1 DEF Runs
  <2> QED BY <1>2, <1>3, <1>4, <2>1, <2>2, <2>3, <2>4 DEF TypeOK
<1>6. OneRun'
  BY <1>1, <1>2, <1>3 DEF OneRun, StepIsProgress, RunDemo
<1>7. OwnAlert'
  <2>1. k = "microscope" => flash' = "none"
    BY DEF RunDemo, Flash
  <2>2. ~tangled' => lens' = "idle"
    BY <1>4 DEF RunDemo
  <2>3. k = "auto" => timers'[run'] >= 7
    <3> HAVE k = "auto"
    <3>1. timers'[run'] = Len(Script["auto"])
      BY <1>3
    <3> QED BY <3>1
  <2> QED BY <1>2, <2>1, <2>2, <2>3 DEF OwnAlert
<1> QED BY <1>5, <1>6, <1>7

\* A timer of the last run takes the run one step further; there is no other.
LEMMA TimerKeepsInv ==
  ASSUME DemoInv, NEW r \in Runs, TimerFires(r)
  PROVE  DemoInv'
<1> USE DemoAssumption DEF DemoInv
<1> DEFINE s == Script[kind[r]][Len(Script[kind[r]]) - timers[r] + 1]
<1>1. r = run /\ timers[r] > 0 /\ run' = run /\ kind' = kind /\ tangled' = tangled
  BY DEF TimerFires, OneRun
<1>2. /\ kind[r] \in {"auto", "microscope"}
      /\ timers[r] \in 1 .. Len(Script[kind[r]])
      /\ Len(Script[kind[r]]) \in {6, 8}
  BY <1>1, ScriptLengths DEF TypeOK
<1>3. /\ timers' \in [Runs -> Nat] /\ timers'[r] = timers[r] - 1
      /\ \A q \in Runs : q # r => timers'[q] = timers[q]
  BY <1>2 DEF TimerFires, TypeOK
<1>4. \A q \in Runs : timers'[q] <= Len(Script[kind'[q]])
  <2>1. \A q \in Runs : Len(Script[kind[q]]) \in Nat
    BY ScriptLengths DEF TypeOK
  <2> QED BY <1>1, <1>3, <2>1 DEF TypeOK
<1>5. CASE ~running
  <2>1. UNCHANGED <<storeVars, hoverVars, samples>>
    BY <1>5 DEF TimerFires
  <2>2. TypeOK'
    <3>1. /\ page' = page /\ lens' = lens /\ running' = running /\ step' = step
          /\ flash' = flash /\ hovered' = hovered /\ pointer' = pointer
          /\ vanished' = vanished /\ samples' = samples
      BY <2>1 DEF storeVars, hoverVars
    <3> QED BY <1>1, <1>3, <1>4, <3>1 DEF TypeOK
  <2> QED BY <1>1, <1>3, <1>5, <2>1, <2>2 DEF OneRun, OwnAlert, StepIsProgress, storeVars
<1>6. CASE running
  <2>1. Perform(s) /\ samples' = samples
    BY <1>6 DEF TimerFires
  <2>2. TypeOK'
    <3> HIDE DEF s
    <3>1. /\ page' \in Pages /\ lens' \in Stages /\ running' \in BOOLEAN /\ step' \in Nat
          /\ flash' \in {"none", "tour", "sample"}
      <4>1. page' \in {page, "fork"} /\ lens' \in {lens, "capture", "idle"} \union Stages
        BY <2>1 DEF Perform, StopDemo, Land
      <4>2. running' \in {running, FALSE} /\ step' \in {0, step + 1}
        BY <2>1 DEF Perform, StopDemo
      <4>3. flash' \in {flash, "tour", "none"}
        BY <2>1 DEF Perform, StopDemo, Flash
      <4>4. "fork" \in Pages /\ {"capture", "idle"} \subseteq Stages
        BY DEF Pages, Stages
      <4>5. page' \in Pages /\ lens' \in Stages
        BY <4>1, <4>4 DEF TypeOK
      <4>6. running' \in BOOLEAN
        BY <4>2 DEF TypeOK
      <4>7. step' \in Nat
        BY <4>2 DEF TypeOK
      <4>8. flash' \in {"none", "tour", "sample"}
        BY <4>3 DEF TypeOK
      <4> QED BY <4>5, <4>6, <4>7, <4>8
    <3>2. /\ hovered' \in BOOLEAN /\ pointer' \in BOOLEAN /\ vanished' \in BOOLEAN
          /\ pointer' => hovered' /\ flash' # "none"
      <4>1. \/ UNCHANGED <<flash, hoverVars>>
            \/ Flash("none")
            \/ Flash("tour")
        BY <2>1 DEF Perform, StopDemo
      <4>2. CASE UNCHANGED <<flash, hoverVars>>
        BY <4>2 DEF hoverVars, TypeOK
      <4>3. CASE Flash("none")
        BY <4>3 DEF Flash, TypeOK
      <4>4. CASE Flash("tour")
        BY <4>4 DEF Flash, hoverVars, TypeOK
      <4> QED BY <4>1, <4>2, <4>3, <4>4
    <3> QED BY <1>1, <1>3, <1>4, <2>1, <3>1, <3>2 DEF TypeOK
  <2>3. s # "end" => running' = running /\ step' = step + 1
    BY <2>1 DEF Perform
  <2>4. s = "end" => running' = FALSE
    BY <2>1 DEF Perform, StopDemo
  <2>5. OneRun'
    <3>1. running' => run' \in Runs
      BY <1>1
    <3>2. \A q \in Runs : q # run' => timers'[q] = 0
      BY <1>1, <1>3 DEF OneRun
    <3>3. StepIsProgress'
      <4> SUFFICES ASSUME running' PROVE step' = Len(Script[kind'[run']]) - timers'[run']
        BY DEF StepIsProgress
      <4>1. step = Len(Script[kind[r]]) - timers[r]
        BY <1>1, <1>6 DEF OneRun, StepIsProgress
      <4>2. step' = step + 1
        BY <2>3, <2>4
      <4> HIDE DEF s
      <4> QED BY <1>1, <1>2, <1>3, <4>1, <4>2
    <3> QED BY <3>1, <3>2, <3>3 DEF OneRun
  <2>6. OwnAlert'
    <3> SUFFICES ASSUME running', s # "end" PROVE OwnAlert'
      BY <2>4 DEF OwnAlert
    <3>1. CASE kind[r] = "microscope"
      <4>1. s \notin {"end", "alert", "magnify"}
        BY <3>1, <1>2, ScriptLengths, ScriptSteps
      <4>2. flash' = flash
        BY <2>1, <4>1 DEF Perform
      <4> QED BY <1>1, <1>6, <3>1, <4>2 DEF OwnAlert
    <3>2. CASE kind[r] = "auto"
      <4> HIDE DEF s
      <4>1. /\ timers[r] \in 1 .. 8
            /\ s = "alert" <=> timers[r] = 8
            /\ s = "magnify" <=> timers[r] = 7
            /\ s \in Stages => timers[r] <= 6
            /\ s = "land" => timers[r] = 2
        BY <3>2, <1>2, ScriptLengths, ScriptSteps DEF s
      <4>2. s = "alert" => lens' = lens
        BY <2>1 DEF Perform, Stages
      <4>3. s = "magnify" => flash' = "none"
        BY <2>1 DEF Perform, Flash, Stages
      <4>4. s \notin {"alert", "magnify"} => flash' = flash
        BY <2>1 DEF Perform
      <4> QED BY <1>1, <1>3, <1>6, <3>2, <4>1, <4>2, <4>3, <4>4 DEF OwnAlert
    <3> QED BY <1>2, <3>1, <3>2
  <2> QED BY <2>2, <2>5, <2>6
<1> QED BY <1>5, <1>6 DEF TypeOK

\* Every step keeps the invariant.
LEMMA DemoStep == DemoInv /\ [Next]_vars => DemoInv'
<1> SUFFICES ASSUME DemoInv, [Next]_vars PROVE DemoInv'
  OBVIOUS
<1>1. CASE StartTour
  BY <1>1, RunKeepsInv DEF StartTour
<1>2. CASE EnterMicroscope
  BY <1>2, RunKeepsInv DEF EnterMicroscope
<1>3. CASE \E r \in Runs : TimerFires(r)
  BY <1>3, TimerKeepsInv
<1>4. CASE UNCHANGED vars
  BY <1>4 DEF vars, storeVars, runVars, hoverVars,
              DemoInv, TypeOK, OneRun, OwnAlert, StepIsProgress
<1>5. CASE \/ SampleAlert \/ PointerEnters \/ PointerLeaves \/ Ignore \/ AutoDismiss
           \/ Skip \/ \E p \in Pages : Navigate(p)
  BY <1>5, AlertKeepsInv
<1> QED BY <1>1, <1>2, <1>3, <1>4, <1>5 DEF Next

\* The invariant holds of every state of the guided demo.
LEMMA DemoInvariant == Spec => []DemoInv
<1>1. Init => DemoInv
  BY DemoInit
<1>2. DemoInv /\ [Next]_vars => DemoInv'
  BY DemoStep
<1> QED BY <1>1, <1>2, PTL DEF Spec

\* However runs are started over each other, every variable of the guided demo
\* holds a value of its kind and no run has more timers than its script.
THEOREM DemoTypeOK == Spec => []TypeOK
<1>1. DemoInv => TypeOK
  BY DEF DemoInv
<1> QED BY <1>1, DemoInvariant, PTL

\* runDemo: "the two runs never interleave".  While a run is on, its progress is
\* the number of its own timers that have fired.
THEOREM DemoRunsNeverInterleave == Spec => []StepIsProgress
<1>1. DemoInv => StepIsProgress
  BY DEF DemoInv, OneRun
<1> QED BY <1>1, DemoInvariant, PTL

\* A run that began with the lens off never has an alert over its lens.
THEOREM DemoNoAlertOnLens == Spec => []NoAlertOnLens
<1>1. DemoInv => NoAlertOnLens
  BY DEF DemoInv, TypeOK, OneRun, OwnAlert, NoAlertOnLens
<1> QED BY <1>1, DemoInvariant, PTL
=============================================================================
