---------------------------- MODULE ScriptsProofs ----------------------------
(***************************************************************************)
(* Proofs about Scripts, for any grace, number of signals and of tries.    *)
(*                                                                         *)
(* dev.sh kills the trees that begin at the processes it has launched, so  *)
(* what has to be invariant is that helpers hang on such a process, or are *)
(* about to be killed by their own process id (HelpersHang), that what     *)
(* pgrep has listed is complete only then (ListedNow), and that there is   *)
(* no helper before the launch (NothingYet).                               *)
(***************************************************************************)
EXTENDS Scripts, TLAPS

Places == Unlaunched \cup Trapped \cup
          {"launch frontend", "trap", "term", "grace", "list", "kill helpers", "kill process",
           "over"}

Processes == [Services -> [state : {"none", "up", "down"}, code : Int]]

ProcessesOK ==
  /\ pc \in Places
  /\ tree \in Services
  /\ proc \in Processes
  /\ helper \subseteq Services
  /\ astray \subseteq Services

NothingYet == pc \in Unlaunched => \A s \in Services : ~Up(s) /\ s \notin helper

HelpersHang == \A s \in helper \ astray : Up(s) \/ s \in listed

ListedNow == \A s \in (helper \cap listed) \ astray : pc = "kill helpers" /\ tree = s

FrontendFirst ==
  pc \in {"list", "kill helpers", "kill process"} /\ tree = "backend" => ~Up("frontend")

OverIsDown == pc = "over" => \A s \in Services \ astray : ~Up(s)

StubIsDown == script = "e2e" /\ testPc = "over" /\ known => stub # "up"

DevInv ==
  ProcessesOK /\ NothingYet /\ HelpersHang /\ ListedNow /\ FrontendFirst /\ OverIsDown

ScriptsInv == DevInv /\ StubIsDown

\* A script begins with nothing launched.
LEMMA ScriptsBegin == Init => ScriptsInv
<1> SUFFICES ASSUME Init PROVE ScriptsInv
  OBVIOUS
<1>1. ProcessesOK
  BY DEF Init, DevInit, ProcessesOK, Processes, Places, Unlaunched, Absent, Services
<1>2. NothingYet /\ HelpersHang /\ ListedNow /\ FrontendFirst /\ OverIsDown
  BY DEF Init, DevInit, NothingYet, HelpersHang, ListedNow, FrontendFirst, OverIsDown, Up,
         Absent
<1>3. StubIsDown
  BY DEF Init, TestInit, StubIsDown
<1> QED BY <1>1, <1>2, <1>3 DEF ScriptsInv, DevInv

\* The commands of the script that touch no process: they go from one stage to
\* another, and to "over" only before the launch or when all are down.
LEMMA CommandKeepsInv ==
  ASSUME DevInv,
         \/ Preflight \/ Install \/ SetTraps \/ Poll
         \/ LookAtBackend \/ LookAtFrontend \/ Wait
         \/ BeginShutdown \/ TermTree \/ Grace
  PROVE  DevInv'
<1>1. UNCHANGED <<proc, helper, listed, astray>>
  BY DEF Preflight, Install, SetTraps, Poll, LookAtBackend, LookAtFrontend, LookAt, Wait,
         BeginShutdown, TermTree, Grace, processVars
<1>2. pc' \in Places /\ tree' \in Services
  BY DEF Preflight, Install, SetTraps, Poll, LookAtBackend, LookAtFrontend, LookAt, Wait,
         BeginShutdown, TermTree, Grace, NextTree, Over, DevInv, ProcessesOK, Places,
         Unlaunched, Trapped, Services
<1>3. /\ pc # "kill helpers"
      /\ \/ pc' \notin {"list", "kill helpers", "kill process"}
         \/ pc' = "list" /\ tree' = "frontend"
  BY DEF Preflight, Install, SetTraps, Poll, LookAtBackend, LookAtFrontend, Wait,
         BeginShutdown, TermTree, Grace, NextTree, Over
<1>4. ProcessesOK' /\ HelpersHang' /\ ListedNow' /\ FrontendFirst'
  BY <1>1, <1>2, <1>3 DEF DevInv, ProcessesOK, HelpersHang, ListedNow, FrontendFirst, Up
<1>5. \/ pc \in Unlaunched
      \/ /\ pc' \notin Unlaunched
         /\ pc' = "over" => \A s \in Services : ~Up(s)
  BY DEF Preflight, Install, SetTraps, Poll, LookAtBackend, LookAtFrontend, Wait,
         BeginShutdown, TermTree, Grace, NextTree, Unlaunched
<1>6. NothingYet' /\ OverIsDown'
  <2>1. CASE pc \in Unlaunched
    BY <1>1, <2>1 DEF DevInv, NothingYet, OverIsDown, Up
  <2>2. CASE /\ pc' \notin Unlaunched
             /\ pc' = "over" => \A s \in Services : ~Up(s)
    BY <1>1, <2>2 DEF NothingYet, OverIsDown, Up
  <2> QED BY <1>5, <2>1, <2>2
<1> QED BY <1>4, <1>6 DEF DevInv

\* A launch makes a process, which nothing hangs on that was not there; when it
\* fails the process that was launched before it is astray.
LEMMA LaunchKeepsInv ==
  ASSUME DevInv, LaunchBackend \/ LaunchFrontend
  PROVE  DevInv'
<1>1. PICK s \in Services, next \in {"launch frontend", "trap"} : Launch(s, next)
  BY DEF LaunchBackend, LaunchFrontend, Services
<1>2. /\ UNCHANGED <<tree, helper, listed>>
      /\ pc \notin {"kill helpers", "over"} /\ pc' \in {"launch frontend", "trap", "over"}
  BY <1>1 DEF LaunchBackend, LaunchFrontend, Launch, Over
<1>3. /\ proc' \in Processes
      /\ \A t \in Services : Up(t) => Up(t)'
      /\ astray \subseteq astray' /\ astray' \subseteq Services
      /\ pc' = "over" => \A t \in Services \ astray' : ~Up(t)'
  <2>1. CASE proc' = proc /\ pc' # "over" /\ astray' = astray
    BY <2>1 DEF DevInv, ProcessesOK, Up
  <2>2. CASE proc' = [proc EXCEPT ![s].state = "up"] /\ pc' # "over" /\ astray' = astray
    BY <2>2 DEF DevInv, ProcessesOK, Processes, Up
  <2>3. CASE proc' = proc /\ astray' = astray \cup {t \in Services : Up(t)}
    BY <2>3 DEF DevInv, ProcessesOK, Up
  <2> QED BY <1>1, <2>1, <2>2, <2>3 DEF Launch
<1> QED BY <1>2, <1>3
        DEF DevInv, ProcessesOK, Places, Unlaunched, NothingYet, HelpersHang, ListedNow,
            FrontendFirst, OverIsDown

\* pgrep lists the helpers of a process that is up.
LEMMA ListKeepsInv ==
  ASSUME DevInv, ListHelpers
  PROVE  DevInv'
<1>1. UNCHANGED <<proc, helper, astray>> /\ pc = "list"
  BY DEF ListHelpers
<1>2. \A s \in (helper \cap listed) \ astray : FALSE
  BY <1>1 DEF DevInv, ListedNow
<1>3. CASE Up(tree) /\ pc' = "kill helpers" /\ listed' = listed \cup {tree} /\ tree' = tree
  BY <1>1, <1>2, <1>3
     DEF DevInv, ProcessesOK, Places, Unlaunched, NothingYet, HelpersHang, ListedNow,
         FrontendFirst, OverIsDown, Up
<1>4. CASE ~Up(tree) /\ NextTree("list", "over") /\ listed' = listed
  <2>1. \/ tree = "frontend" /\ pc' = "list" /\ tree' = "backend"
        \/ tree = "backend" /\ pc' = "over" /\ tree' = tree
    BY <1>4 DEF NextTree, DevInv, ProcessesOK, Services
  <2>2. pc' = "over" => ~Up("frontend") /\ ~Up("backend")
    BY <1>1, <1>4, <2>1 DEF DevInv, FrontendFirst
  <2> QED BY <1>1, <1>2, <1>4, <2>1, <2>2
          DEF DevInv, ProcessesOK, Places, Unlaunched, NothingYet, HelpersHang, ListedNow,
              FrontendFirst, OverIsDown, Up, Services
<1> QED BY <1>3, <1>4 DEF ListHelpers

\* After the helpers that were listed are killed, none is listed and up.
LEMMA KillHelpersKeepsInv ==
  ASSUME DevInv, KillHelpers
  PROVE  DevInv'
<1>1. /\ UNCHANGED <<proc, tree, listed, astray>>
      /\ pc = "kill helpers" /\ pc' = "kill process"
      /\ helper' = helper \ (listed \cap {tree})
  BY DEF KillHelpers
<1> QED BY <1>1 DEF DevInv, ProcessesOK, Places, Unlaunched, NothingYet, HelpersHang,
                    ListedNow, FrontendFirst, OverIsDown, Up

\* A process that ends with helpers which are not listed is astray from then on.
LEMMA EndsKeepsHelpers ==
  ASSUME DevInv, NEW s \in Services, NEW code \in Int, Ends(s, code),
         UNCHANGED <<helper, listed>>
  PROVE  /\ proc' \in Processes /\ astray' \subseteq Services /\ astray \subseteq astray'
         /\ \A t \in Services : Up(t)' <=> Up(t) /\ t # s
         /\ HelpersHang'
<1>1. /\ proc' = [proc EXCEPT ![s] = [state |-> "down", code |-> code]]
      /\ astray' = IF s \in helper \ listed THEN astray \cup {s} ELSE astray
  BY DEF Ends
<1>2. /\ proc' \in Processes
      /\ \A t \in Services : Up(t)' <=> Up(t) /\ t # s
  BY <1>1 DEF DevInv, ProcessesOK, Processes, Up
<1>3. astray' \subseteq Services /\ astray \subseteq astray'
  BY <1>1 DEF DevInv, ProcessesOK
<1>4. HelpersHang'
  BY <1>1, <1>2, <1>3 DEF DevInv, ProcessesOK, HelpersHang
<1> QED BY <1>2, <1>3, <1>4

LEMMA KillProcessKeepsInv ==
  ASSUME DevInv, KillProcess
  PROVE  DevInv'
<1>1. /\ pc = "kill process" /\ UNCHANGED <<helper, listed>> /\ tree \in Services
      /\ \/ tree = "frontend" /\ pc' = "list" /\ tree' = "backend"
         \/ tree = "backend" /\ pc' = "over" /\ tree' = tree
  BY DEF KillProcess, NextTree, DevInv, ProcessesOK, Services
<1>2. /\ proc' \in Processes /\ astray' \subseteq Services /\ astray \subseteq astray'
      /\ \A t \in Services : Up(t)' <=> Up(t) /\ t # tree
      /\ HelpersHang'
  <2>1. CASE Up(tree) /\ Ends(tree, 137)
    <3>1. 137 \in Int
      OBVIOUS
    <3>2. \A t \in Services : Up(t)' <=> Up(t) /\ t # tree
      BY ONLY <1>1, <2>1, <3>1, DevInv, EndsKeepsHelpers
    <3> QED BY ONLY <1>1, <2>1, <3>1, <3>2, DevInv, EndsKeepsHelpers
  <2>2. CASE ~Up(tree) /\ UNCHANGED <<proc, astray>>
    BY <1>1, <2>2 DEF DevInv, ProcessesOK, HelpersHang, Up
  <2> QED BY <2>1, <2>2 DEF KillProcess
<1>3. pc' = "over" => \A t \in Services : ~Up(t)'
  BY <1>1, <1>2 DEF DevInv, FrontendFirst, Services
<1>4. ProcessesOK' /\ NothingYet' /\ ListedNow' /\ FrontendFirst' /\ OverIsDown'
  BY <1>1, <1>2, <1>3
     DEF DevInv, ProcessesOK, Places, Unlaunched, NothingYet, ListedNow, FrontendFirst,
         OverIsDown, Services
<1> QED BY <1>2, <1>4 DEF DevInv

\* What the processes do between two commands.
LEMMA ProcessKeepsInv ==
  ASSUME DevInv, NEW s \in Services,
         StartHelper(s) \/ EndsByItself(s) \/ ObeysTerm(s) \/ HelpersEnd(s)
  PROVE  DevInv'
<1>1. pc' = pc /\ tree' = tree
  BY DEF StartHelper, EndsByItself, ObeysTerm, HelpersEnd, scriptVars
<1>2. CASE StartHelper(s)
  BY <1>1, <1>2 DEF StartHelper, DevInv, ProcessesOK, NothingYet, HelpersHang, ListedNow,
                    FrontendFirst, OverIsDown, Up
<1>3. CASE EndsByItself(s) \/ ObeysTerm(s)
  <2>1. PICK code \in Int : Ends(s, code)
    BY <1>3 DEF EndsByItself, ObeysTerm
  <2>2. UNCHANGED <<helper, listed>>
    BY <1>3 DEF EndsByItself, ObeysTerm
  <2>3. /\ proc' \in Processes /\ astray' \subseteq Services /\ astray \subseteq astray'
        /\ \A t \in Services : Up(t)' <=> Up(t) /\ t # s
        /\ HelpersHang'
    BY <2>1, <2>2, EndsKeepsHelpers
  <2> QED BY <1>1, <2>2, <2>3
          DEF DevInv, ProcessesOK, NothingYet, ListedNow, FrontendFirst, OverIsDown, Services
<1>4. CASE HelpersEnd(s)
  BY <1>1, <1>4 DEF HelpersEnd, DevInv, ProcessesOK, NothingYet, HelpersHang, ListedNow,
                    FrontendFirst, OverIsDown, Up
<1> QED BY <1>2, <1>3, <1>4

\* A signal leads into shutdown(), ends the script before anything is launched,
\* or makes every service one that may be left behind.
LEMMA SignalKeepsInv ==
  ASSUME DevInv, NEW codes, Signalled(codes)
  PROVE  DevInv'
<1>1. /\ UNCHANGED <<proc, tree, helper, listed>> /\ pc' \in {"shutdown", "over"}
      /\ \/ pc \in Unlaunched /\ astray' = astray
         \/ pc \in Trapped /\ pc' = "shutdown" /\ astray' = astray
         \/ astray' = Services
  BY DEF Signalled, Over, Trapped, Unlaunched
<1>2. ProcessesOK'
  BY <1>1 DEF DevInv, ProcessesOK, Places, Trapped
<1>3. NothingYet' /\ FrontendFirst'
  BY <1>1 DEF NothingYet, FrontendFirst, Unlaunched
<1>4. HelpersHang' /\ ListedNow' /\ OverIsDown'
  <2>1. CASE pc \in Unlaunched /\ astray' = astray
    BY <1>1, <2>1 DEF DevInv, ProcessesOK, NothingYet, HelpersHang, ListedNow, OverIsDown, Up
  <2>2. CASE pc \in Trapped /\ pc' = "shutdown" /\ astray' = astray
    BY <1>1, <2>2 DEF DevInv, HelpersHang, ListedNow, OverIsDown, Up, Trapped
  <2>3. CASE astray' = Services
    BY <1>1, <2>3 DEF DevInv, ProcessesOK, HelpersHang, ListedNow, OverIsDown
  <2> QED BY <1>1, <2>1, <2>2, <2>3
<1> QED BY <1>2, <1>3, <1>4 DEF DevInv

\* A step of dev.sh, of its processes or of those that send it signals.
LEMMA DevKeepsInv ==
  ASSUME DevInv, DevNext
  PROVE  DevInv'
<1>1. CASE ScriptStep
  BY <1>1, CommandKeepsInv, LaunchKeepsInv, ListKeepsInv, KillHelpersKeepsInv,
     KillProcessKeepsInv DEF ScriptStep
<1>2. CASE OnSignal
  BY <1>2, SignalKeepsInv DEF OnSignal
<1>3. CASE \E s \in Services : StartHelper(s) \/ EndsByItself(s) \/ ObeysTerm(s) \/ HelpersEnd(s)
  BY <1>3, ProcessKeepsInv
<1> QED BY <1>1, <1>2, <1>3 DEF DevNext

\* What the invariant reads of dev.sh.
LEMMA DevStutters ==
  ASSUME DevInv, UNCHANGED <<pc, proc, tree, helper, listed, astray>>
  PROVE  DevInv'
BY DEF DevInv, ProcessesOK, NothingYet, HelpersHang, ListedNow, FrontendFirst, OverIsDown, Up

\* A smoke test does nothing to dev.sh but signal it.
LEMMA TestKeepsDevInv ==
  ASSUME DevInv, TestNext
  PROVE  DevInv'
<1>1. CASE UNCHANGED <<pc, proc, tree, helper, listed, astray>>
  BY <1>1, DevStutters
<1>2. CASE Signalled({143})
  BY <1>2, SignalKeepsInv
<1>3. UNCHANGED <<pc, proc, tree, helper, listed, astray>> \/ Signalled({143})
  <2>1. CASE E2eStep \/ StubEnds \/ E2eSignal
    BY <2>1 DEF E2eStep, E2ePreflight, E2eInstall, E2eStart, E2eWait, E2eCheck, E2eCleanup,
                StubEnds, E2eSignal, devVars, processVars
  <2>2. CASE VisualStep
    BY <2>2 DEF VisualStep, SpawnDev, WaitForUrl, LaunchBrowser, RunTabs, Report, TermDev,
                devVars
  <2> QED BY <2>1, <2>2 DEF TestNext
<1> QED BY <1>1, <1>2, <1>3

\* A stub whose process id is known is up only before the cleanup.
LEMMA TestKeepsStub ==
  ASSUME StubIsDown, TestNext
  PROVE  StubIsDown'
<1>1. CASE E2eStep
  BY <1>1 DEF E2eStep, E2ePreflight, E2eInstall, E2eStart, E2eWait, E2eCheck, E2eCleanup,
              CleanUp, Fails, StubIsDown
<1>2. CASE VisualStep
  BY <1>2 DEF VisualStep, SpawnDev, WaitForUrl, LaunchBrowser, RunTabs, Report, StubIsDown
<1>3. CASE StubEnds \/ E2eSignal
  BY <1>3 DEF StubEnds, E2eSignal, CleanUp, StubIsDown
<1> QED BY <1>1, <1>2, <1>3 DEF TestNext

\* When a script is over so is what it started, whatever the services do between
\* two commands of the walk over their trees, but for the ways that `astray' names
\* and a stub whose process id got lost (dev.sh:299-309, 379-444;
\* e2e-smoke.sh:55-71, 106-116).
THEOREM ScriptsLeaveNothing == Spec => []StackIsDown
<1>1. Init => ScriptsInv
  BY ScriptsBegin
<1>2. ScriptsInv /\ [Next]_vars => ScriptsInv'
  <2> SUFFICES ASSUME ScriptsInv, [Next]_vars PROVE ScriptsInv'
    OBVIOUS
  <2>1. CASE DevMoves
    BY <2>1, DevKeepsInv DEF DevMoves, testVars, ScriptsInv, StubIsDown
  <2>2. CASE TestNext
    BY <2>2, TestKeepsDevInv, TestKeepsStub DEF ScriptsInv
  <2>3. CASE UNCHANGED vars
    BY <2>3, DevStutters DEF vars, devVars, testVars, ScriptsInv, StubIsDown
  <2> QED BY <2>1, <2>2, <2>3 DEF Next
<1>3. ScriptsInv => StackIsDown
  <2> SUFFICES ASSUME ScriptsInv PROVE StackIsDown
    OBVIOUS
  <2>1. pc = "over" => \A s \in Services \ astray : ~Up(s) /\ s \notin helper
    BY DEF ScriptsInv, DevInv, HelpersHang, ListedNow, OverIsDown
  <2> QED BY <2>1 DEF ScriptsInv, StubIsDown, StackIsDown
<1> QED BY <1>1, <1>2, <1>3, PTL DEF Spec

-----------------------------------------------------------------------------
(* The exit code of dev.sh.  Until shutdown() a process that is down ended by  *)
(* itself (EndedAreDown), and the first that did was not found alive           *)
(* (FirstUnseen), so it is among those that `wait' waits for; when it waits    *)
(* for both, the other is the second that ended (EndedOnce).                   *)

Asked == {"term", "grace", "list", "kill helpers", "kill process", "over"}

LaunchOrder ==
  /\ services \subseteq Services /\ services # {}
  /\ \A s \in Services \ services : proc[s].state = "none"
  /\ pc \in Unlaunched => \A s \in Services : proc[s].state = "none"
  /\ pc = "launch frontend" =>
       /\ proc["frontend"].state = "none"
       /\ "backend" \in services => proc["backend"].state # "none"
  /\ pc \in {"trap", "poll", "look at backend", "look at frontend", "wait"} =>
       \A s \in services : proc[s].state # "none"
  /\ pc = "poll" => services = Services

EndedAreDown ==
  /\ ended \in Seq(Services)
  /\ \A i \in DOMAIN ended : proc[ended[i]].state = "down"
  /\ pc \notin Asked =>
       /\ termed = {}
       /\ \A s \in Services : proc[s].state = "down" => \E i \in DOMAIN ended : ended[i] = s

EndedOnce == \A i, j \in DOMAIN ended : ended[i] = ended[j] => i = j

FirstUnseen ==
  /\ seen \subseteq Services
  /\ seen # {} => ended # <<>> /\ ended[1] \notin seen
  /\ pc \in {"look at backend", "look at frontend"} => ended # <<>>

Cause ==
  \/ ended # <<>> /\ exitCode = proc[ended[1]].code
  \/ /\ 2 \in DOMAIN ended /\ services = Services /\ seen = {}
     /\ exitCode = proc[ended[2]].code /\ exitCode # 0

CauseKnown ==
  /\ signals \in Nat
  /\ signals = 0 =>
       /\ pc \in {"shutdown"} \cup (Asked \ {"over"}) => Cause
       /\ pc = "over" => Cause \/ \E s \in services : proc[s].state = "none"

CauseInv == LaunchOrder /\ EndedAreDown /\ EndedOnce /\ FirstUnseen /\ CauseKnown

LEMMA CauseBegins == Init => CauseInv
<1> SUFFICES ASSUME Init PROVE CauseInv
  OBVIOUS
<1>1. LaunchOrder
  <2>1. services \subseteq Services /\ services # {} /\ pc = "preflight"
    BY DEF Init, DevInit
  <2>2. \A s \in Services : proc[s].state = "none"
    BY DEF Init, DevInit, Absent
  <2> QED BY <2>1, <2>2 DEF LaunchOrder
<1>2. EndedAreDown
  <2>1. <<>> \in Seq(Services) /\ DOMAIN <<>> = {}
    OBVIOUS
  <2>2. \A s \in Services : proc[s].state # "down"
    BY DEF Init, DevInit, Absent
  <2> QED BY <2>1, <2>2 DEF Init, DevInit, EndedAreDown
<1>3. EndedOnce /\ FirstUnseen /\ CauseKnown
  BY DEF Init, DevInit, EndedOnce, FirstUnseen, CauseKnown, Asked
<1> QED BY <1>1, <1>2, <1>3 DEF CauseInv

\* A sequence of services is empty or has a first.
LEMMA SomeEnded ==
  ASSUME ended \in Seq(Services)
  PROVE  /\ \A i \in DOMAIN ended : ended # <<>>
         /\ ended # <<>> => 1 \in DOMAIN ended
         /\ \A i \in DOMAIN ended : i # 1 => 2 \in DOMAIN ended
         /\ \A i \in DOMAIN ended : ended[i] \in Services
OBVIOUS

\* The commands that neither end the script nor take an exit code.
LEMMA StageKeepsCause ==
  ASSUME DevInv, CauseInv,
         \/ Preflight \/ Install \/ SetTraps \/ Poll \/ LookAtBackend \/ LookAtFrontend
  PROVE  CauseInv'
<1>1. UNCHANGED <<services, signals, proc, termed, ended>>
  BY DEF Preflight, Install, SetTraps, Poll, LookAtBackend, LookAtFrontend, LookAt,
         processVars
<1>2. LaunchOrder'
  BY <1>1 DEF Preflight, Install, SetTraps, Poll, LookAtBackend, LookAtFrontend, Over,
              CauseInv, LaunchOrder, Unlaunched, Started
<1>3. EndedAreDown'
  BY <1>1 DEF Preflight, Install, SetTraps, Poll, LookAtBackend, LookAtFrontend, Over,
              CauseInv, EndedAreDown, Asked
<1>4. EndedOnce' /\ FirstUnseen'
  <2> EndedOnce'
    BY <1>1 DEF CauseInv, EndedOnce
  <2> SUFFICES FirstUnseen'
    OBVIOUS
  <2>1. CASE Preflight \/ Install \/ SetTraps
    BY <1>1, <2>1 DEF Preflight, Install, SetTraps, Over, CauseInv, FirstUnseen
  <2>2. CASE Poll
    <3>1. pc' = "look at backend" => \E s \in Services : proc[s].state = "down"
      BY <2>2 DEF Poll, Up, DevInv, ProcessesOK, Processes, CauseInv, LaunchOrder
    <3>2. pc' = "look at backend" => ended # <<>>
      BY <2>2, <3>1, SomeEnded DEF Poll, CauseInv, EndedAreDown, Asked
    <3> QED BY <1>1, <2>2, <3>2 DEF Poll, CauseInv, FirstUnseen
  <2>3. ASSUME NEW s \in Services, LookAt(s), ended # <<>>
        PROVE  FirstUnseen'
    <3>1. ~Up(ended[1])
      BY <2>3, SomeEnded DEF Up, CauseInv, EndedAreDown
    <3> QED BY <1>1, <2>3, <3>1 DEF LookAt, CauseInv, FirstUnseen
  <2>4. CASE LookAtBackend \/ LookAtFrontend
    BY <2>3, <2>4 DEF LookAtBackend, LookAtFrontend, Services, CauseInv, FirstUnseen
  <2> QED BY <2>1, <2>2, <2>4
<1>5. CauseKnown'
  <2>1. CASE Preflight \/ Install
    <3>1. \E s \in services : proc[s].state = "none"
      BY <2>1 DEF Preflight, Install, CauseInv, LaunchOrder, Unlaunched
    <3>2. pc' \in {"install", "launch backend", "over"}
      BY <2>1 DEF Preflight, Install, Over
    <3> QED BY <1>1, <3>1, <3>2 DEF CauseInv, CauseKnown, Asked
  <2>2. CASE SetTraps \/ Poll \/ LookAtBackend \/ LookAtFrontend
    BY <1>1, <2>2
       DEF SetTraps, Poll, LookAtBackend, LookAtFrontend, CauseInv, CauseKnown, Asked
  <2> QED BY <2>1, <2>2
<1> QED BY <1>2, <1>3, <1>4, <1>5 DEF CauseInv

\* A launch makes a process that was not there; when it fails there is none.
LEMMA LaunchKeepsCause ==
  ASSUME DevInv, CauseInv, LaunchBackend \/ LaunchFrontend
  PROVE  CauseInv'
<1>1. PICK s \in Services, next \in {"launch frontend", "trap"} :
        /\ Launch(s, next)
        /\ \/ s = "backend" /\ pc = "launch backend" /\ next = "launch frontend"
           \/ s = "frontend" /\ pc = "launch frontend" /\ next = "trap"
  BY DEF LaunchBackend, LaunchFrontend, Services
<1>2. /\ UNCHANGED <<services, seen, signals, termed, ended>>
      /\ \/ pc' = next /\ UNCHANGED exitCode
            /\ proc' = IF s \in services THEN [proc EXCEPT ![s].state = "up"] ELSE proc
         \/ s \in services /\ pc' = "over" /\ UNCHANGED proc
  BY <1>1 DEF Launch, Over, Started
<1>3. proc[s].state = "none"
  BY <1>1 DEF CauseInv, LaunchOrder, Unlaunched
<1>4. proc \in Processes
  BY DEF DevInv, ProcessesOK
<1>5. \A t \in Services : /\ t # s => proc'[t] = proc[t]
                          /\ proc'[t].state = "down" <=> proc[t].state = "down"
  BY <1>2, <1>3, <1>4 DEF Processes
<1>6. LaunchOrder'
  BY <1>1, <1>2, <1>3, <1>4, <1>5 DEF CauseInv, LaunchOrder, Unlaunched, Services, Processes
<1>7. EndedAreDown'
  BY <1>1, <1>2, <1>5, SomeEnded DEF CauseInv, EndedAreDown, Asked
<1>8. EndedOnce' /\ FirstUnseen'
  BY <1>1, <1>2 DEF CauseInv, EndedOnce, FirstUnseen
<1>9. CauseKnown'
  BY <1>1, <1>2, <1>3 DEF CauseInv, CauseKnown, Asked
<1> QED BY <1>6, <1>7, <1>8, <1>9 DEF CauseInv

\* `wait' takes a code that is the cause.
LEMMA WaitFindsCause ==
  ASSUME DevInv, CauseInv, Wait
  PROVE  CauseInv'
<1> DEFINE waited == services \ seen
<1>1. /\ pc = "wait" /\ pc' = "shutdown" /\ \A s \in waited : ~Up(s)
      /\ exitCode' = IF waited = Services /\ proc["backend"].code = 0
                     THEN proc["frontend"].code
                     ELSE proc[IF "backend" \in waited THEN "backend" ELSE "frontend"].code
      /\ UNCHANGED <<services, seen, signals, proc, termed, ended>>
  BY DEF Wait, Started, processVars
<1>2. /\ services \subseteq Services /\ services # {}
      /\ \A s \in Services : proc[s].state # "none" <=> s \in services
      /\ ended \in Seq(Services)
      /\ \A i \in DOMAIN ended : proc[ended[i]].state = "down"
      /\ \A s \in Services : proc[s].state = "down" => \E i \in DOMAIN ended : ended[i] = s
      /\ seen # {} => ended # <<>> /\ ended[1] \notin seen
  BY <1>1 DEF CauseInv, LaunchOrder, EndedAreDown, FirstUnseen, Asked
<1>3. \A s \in waited : s \in Services /\ \E i \in DOMAIN ended : ended[i] = s
  <2> SUFFICES ASSUME NEW s \in waited
               PROVE  s \in Services /\ \E i \in DOMAIN ended : ended[i] = s
    OBVIOUS
  <2>1. s \in Services /\ proc[s].state # "none" /\ proc[s].state # "up"
    BY <1>1, <1>2 DEF Up
  <2>2. proc[s].state = "down"
    BY <2>1 DEF DevInv, ProcessesOK, Processes
  <2> QED BY <1>2, <2>1, <2>2
<1>4. ended # <<>>
  BY <1>2, <1>3, SomeEnded
<1>5. ended[1] \in waited
  BY <1>2, <1>4, SomeEnded
<1>6. waited = Services => services = Services /\ seen \cap Services = {}
  BY <1>2
<1>7. seen \subseteq Services
  BY DEF CauseInv, FirstUnseen
<1> HIDE DEF waited
<1>8. Cause'
  <2>1. CASE waited # Services
    <3>1. exitCode' = proc[ended[1]].code
      BY <1>1, <1>3, <1>5, <2>1 DEF Services
    <3> QED BY <1>1, <1>4, <3>1 DEF Cause
  <2>2. CASE waited = Services
    <3>1. PICK other \in Services :
            /\ other # ended[1] /\ {other, ended[1]} = {"backend", "frontend"}
      BY <1>5, <2>2 DEF Services
    <3>2. 2 \in DOMAIN ended /\ ended[2] = other
      <4>1. PICK k \in DOMAIN ended : ended[k] = other /\ k # 1
        BY <1>3, <2>2, <3>1
      <4>2. 1 \in DOMAIN ended /\ 2 \in DOMAIN ended /\ ended[2] \in Services
        BY <1>2, <4>1, SomeEnded
      <4>3. ended[2] # ended[1]
        BY <4>2 DEF CauseInv, EndedOnce
      <4> QED BY <3>1, <4>2, <4>3 DEF Services
    <3>3. services = Services /\ seen = {}
      BY <1>6, <1>7, <2>2
    <3>4. \/ exitCode' = proc[ended[1]].code
          \/ exitCode' = proc[other].code /\ exitCode' # 0
      BY <1>1, <2>2, <3>1 DEF Services
    <3> QED BY <1>1, <1>4, <3>2, <3>3, <3>4 DEF Cause
  <2> QED BY <2>1, <2>2
<1>9. LaunchOrder' /\ EndedAreDown' /\ EndedOnce' /\ FirstUnseen'
  BY <1>1 DEF CauseInv, LaunchOrder, EndedAreDown, EndedOnce, FirstUnseen, Unlaunched, Asked
<1> QED BY <1>1, <1>8, <1>9 DEF CauseInv, CauseKnown, Asked

\* shutdown() takes the code as it is, and ends no process that ended by itself.
LEMMA ShutdownKeepsCause ==
  ASSUME DevInv, CauseInv,
         \/ BeginShutdown \/ TermTree \/ Grace
         \/ ListHelpers \/ KillHelpers \/ KillProcess
  PROVE  CauseInv'
<1>1. /\ pc \in {"shutdown"} \cup (Asked \ {"over"}) /\ pc' \in Asked
      /\ UNCHANGED <<services, exitCode, seen, signals, ended>>
  BY DEF BeginShutdown, TermTree, Grace, ListHelpers, KillHelpers, KillProcess, NextTree,
         processVars, Asked
<1>2. \A s \in Services : /\ proc[s].state = "none" => proc'[s].state = "none"
                          /\ proc[s].state = "down" => proc'[s] = proc[s]
  <2>1. CASE proc' = proc
    BY <2>1
  <2>2. CASE Up(tree) /\ Ends(tree, 137)
    BY <2>2 DEF Ends, Up, DevInv, ProcessesOK, Processes
  <2> QED BY <2>1, <2>2
          DEF BeginShutdown, TermTree, Grace, ListHelpers, KillHelpers, KillProcess, processVars
<1>3. LaunchOrder'
  BY <1>1, <1>2 DEF CauseInv, LaunchOrder, Unlaunched, Asked
<1>4. EndedAreDown'
  BY <1>1, <1>2, SomeEnded DEF CauseInv, EndedAreDown
<1>5. EndedOnce' /\ FirstUnseen'
  BY <1>1 DEF CauseInv, EndedOnce, FirstUnseen, Asked
<1>6. Cause => Cause'
  BY <1>1, <1>2, SomeEnded DEF CauseInv, EndedAreDown, Cause
<1>7. CauseKnown'
  BY <1>1, <1>6 DEF CauseInv, CauseKnown, Asked
<1> QED BY <1>3, <1>4, <1>5, <1>7 DEF CauseInv

\* A process that ends by itself is the last of `ended', and was not in it; one
\* that obeys a SIGTERM does so when the code is known.
LEMMA ProcessKeepsCause ==
  ASSUME DevInv, CauseInv, NEW s \in Services,
         StartHelper(s) \/ EndsByItself(s) \/ ObeysTerm(s) \/ HelpersEnd(s)
  PROVE  CauseInv'
<1>1. UNCHANGED <<services, pc, exitCode, seen, signals, termed>>
  BY DEF StartHelper, EndsByItself, ObeysTerm, HelpersEnd, scriptVars
<1>2. CASE StartHelper(s) \/ HelpersEnd(s)
  <2>1. UNCHANGED <<proc, ended>>
    BY <1>2 DEF StartHelper, HelpersEnd
  <2> QED BY <1>1, <2>1
          DEF CauseInv, LaunchOrder, EndedAreDown, EndedOnce, FirstUnseen, CauseKnown, Cause
<1>3. ASSUME NEW code \in Int, Ends(s, code), Up(s)
      PROVE  /\ \A t \in Services : t # s => proc'[t] = proc[t]
             /\ proc'[s].state = "down" /\ proc[s].state # "none"
             /\ LaunchOrder'
             /\ \A i \in DOMAIN ended : ended[i] # s /\ proc'[ended[i]] = proc[ended[i]]
  <2>1. /\ \A t \in Services : t # s => proc'[t] = proc[t]
        /\ proc'[s].state = "down" /\ proc[s].state = "up"
    BY <1>3 DEF Ends, DevInv, ProcessesOK, Processes, Up
  <2>2. LaunchOrder'
    BY <1>1, <2>1 DEF CauseInv, LaunchOrder, Services
  <2>3. \A i \in DOMAIN ended : ended[i] # s /\ ended[i] \in Services
    BY <2>1, SomeEnded DEF CauseInv, EndedAreDown
  <2> QED BY <2>1, <2>2, <2>3
<1>4. CASE EndsByItself(s)
  <2>1. PICK code \in Int : Ends(s, code) /\ Up(s) /\ ended' = Append(ended, s)
    BY <1>4 DEF EndsByItself
  <2>2. ended \in Seq(Services)
    BY DEF CauseInv, EndedAreDown
  <2>3. /\ ended' \in Seq(Services) /\ ended' # <<>>
        /\ DOMAIN ended' = 1 .. Len(ended) + 1 /\ DOMAIN ended = 1 .. Len(ended)
        /\ Len(ended) \in Nat
        /\ \A i \in DOMAIN ended : ended'[i] = ended[i]
        /\ ended'[Len(ended) + 1] = s
        /\ ended # <<>> => ended'[1] = ended[1]
    BY <2>1, <2>2
  <2>4. \A i \in DOMAIN ended' : i \in DOMAIN ended \/ i = Len(ended) + 1
    BY <2>3
  <2>5. Len(ended) + 1 \in DOMAIN ended' /\ \A i \in DOMAIN ended : i \in DOMAIN ended'
    BY <2>3
  <2>6. /\ LaunchOrder' /\ proc'[s].state = "down"
        /\ \A t \in Services : t # s => proc'[t] = proc[t]
        /\ \A i \in DOMAIN ended : ended[i] # s /\ proc'[ended[i]] = proc[ended[i]]
    BY <1>3, <2>1
  <2>7. EndedAreDown' /\ EndedOnce'
    BY <1>1, <2>3, <2>4, <2>5, <2>6 DEF CauseInv, EndedAreDown, EndedOnce
  <2>8. FirstUnseen'
    BY <1>1, <2>3 DEF CauseInv, FirstUnseen
  <2>9. Cause => Cause'
    BY <1>1, <2>2, <2>3, <2>5, <2>6, SomeEnded DEF Cause
  <2>10. \A t \in services : proc[t].state = "none" => proc'[t].state = "none"
    BY <1>3, <2>1 DEF CauseInv, LaunchOrder
  <2>11. CauseKnown'
    BY <1>1, <2>9, <2>10 DEF CauseInv, CauseKnown
  <2> QED BY <2>6, <2>7, <2>8, <2>11 DEF CauseInv
<1>5. CASE ObeysTerm(s)
  <2>1. Ends(s, 143) /\ Up(s) /\ s \in termed /\ ended' = ended /\ 143 \in Int
    BY <1>5 DEF ObeysTerm
  <2>2. /\ LaunchOrder'
        /\ \A i \in DOMAIN ended : proc'[ended[i]] = proc[ended[i]]
    BY <1>3, <2>1
  <2>3. pc \in Asked
    BY <2>1 DEF CauseInv, EndedAreDown
  <2>4. EndedAreDown' /\ EndedOnce'
    BY <1>1, <2>1, <2>2, <2>3 DEF CauseInv, EndedAreDown, EndedOnce
  <2>5. FirstUnseen'
    BY <1>1, <2>1 DEF CauseInv, FirstUnseen
  <2>6. Cause => Cause'
    BY <1>1, <2>1, <2>2, SomeEnded DEF CauseInv, EndedAreDown, Cause
  <2>7. \A t \in services : proc[t].state = "none" => proc'[t].state = "none"
    BY <1>3, <2>1 DEF CauseInv, LaunchOrder
  <2>8. CauseKnown'
    BY <1>1, <2>6, <2>7 DEF CauseInv, CauseKnown
  <2> QED BY <2>2, <2>4, <2>5, <2>8 DEF CauseInv
<1> QED BY <1>2, <1>4, <1>5

\* After a signal nothing is said of the code.
LEMMA SignalKeepsCause ==
  ASSUME CauseInv, NEW codes, Signalled(codes)
  PROVE  CauseInv'
<1>1. /\ UNCHANGED <<services, seen, proc, termed, ended>>
      /\ signals' = signals + 1 /\ signals \in Nat
  BY DEF Signalled, CauseInv, CauseKnown
<1>2. \/ pc' = "over"
      \/ pc' = "shutdown" /\ pc \notin Asked
  BY DEF Signalled, Over, Asked, Trapped
<1>3. LaunchOrder' /\ EndedOnce' /\ FirstUnseen'
  BY <1>1, <1>2 DEF CauseInv, LaunchOrder, EndedOnce, FirstUnseen, Unlaunched
<1>4. EndedAreDown'
  BY <1>1, <1>2 DEF CauseInv, EndedAreDown, Asked
<1>5. CauseKnown'
  BY <1>1 DEF CauseKnown
<1> QED BY <1>3, <1>4, <1>5 DEF CauseInv

LEMMA DevKeepsCause ==
  ASSUME DevInv, CauseInv, DevNext
  PROVE  CauseInv'
<1>1. CASE ScriptStep
  BY <1>1, StageKeepsCause, LaunchKeepsCause, WaitFindsCause, ShutdownKeepsCause
     DEF ScriptStep
<1>2. CASE OnSignal
  BY <1>2, SignalKeepsCause DEF OnSignal
<1>3. CASE \E s \in Services : StartHelper(s) \/ EndsByItself(s) \/ ObeysTerm(s) \/ HelpersEnd(s)
  BY <1>3, ProcessKeepsCause
<1> QED BY <1>1, <1>2, <1>3 DEF DevNext

\* What CauseInv reads of dev.sh.
LEMMA CauseStutters ==
  ASSUME CauseInv, UNCHANGED <<services, pc, exitCode, seen, proc, termed, ended>>,
         signals' \in {signals, signals + 1}
  PROVE  CauseInv'
<1>1. LaunchOrder' /\ EndedAreDown' /\ EndedOnce' /\ FirstUnseen' /\ (Cause => Cause')
  BY DEF CauseInv, LaunchOrder, EndedAreDown, EndedOnce, FirstUnseen, Cause
<1>2. signals' \in Nat /\ (signals' = 0 => signals = 0)
  BY DEF CauseInv, CauseKnown
<1>3. CauseKnown'
  BY <1>1, <1>2 DEF CauseInv, CauseKnown, Up
<1> QED BY <1>1, <1>3 DEF CauseInv

LEMMA TestKeepsCause ==
  ASSUME CauseInv, TestNext
  PROVE  CauseInv'
<1>1. CASE Signalled({143})
  BY <1>1, SignalKeepsCause
<1>2. CASE E2eStep \/ StubEnds \/ E2eSignal
  <2>1. UNCHANGED <<services, pc, exitCode, seen, proc, termed, ended>>
        /\ signals' \in {signals, signals + 1}
    BY <1>2 DEF E2eStep, E2ePreflight, E2eInstall, E2eStart, E2eWait, E2eCheck, E2eCleanup,
                StubEnds, E2eSignal, devVars, processVars
  <2> QED BY <2>1, CauseStutters
<1>3. CASE VisualStep
  <2>1. UNCHANGED devVars \/ Signalled({143})
    BY <1>3 DEF VisualStep, SpawnDev, WaitForUrl, LaunchBrowser, RunTabs, Report, TermDev
  <2> QED BY <1>1, <2>1, CauseStutters DEF devVars
<1> QED BY <1>2, <1>3 DEF TestNext

\* Unless a signal or a launch that failed ended it, dev.sh exits with the code of
\* the service that ended first, or of a second one that failed before it looked
\* which was alive, whatever the services do between two of its commands
\* (dev.sh:31-34, 452-515).
THEOREM ExitCodeTellsTheCause == Spec => []ExitCodeIsTheCause
<1>1. Init => DevInv /\ CauseInv
  BY ScriptsBegin, CauseBegins DEF ScriptsInv
<1>2. DevInv /\ CauseInv /\ [Next]_vars => (DevInv /\ CauseInv)'
  <2> SUFFICES ASSUME DevInv, CauseInv, [Next]_vars PROVE (DevInv /\ CauseInv)'
    OBVIOUS
  <2>1. CASE DevMoves
    BY <2>1, DevKeepsInv, DevKeepsCause DEF DevMoves
  <2>2. CASE TestNext
    BY <2>2, TestKeepsDevInv, TestKeepsCause
  <2>3. CASE UNCHANGED vars
    BY <2>3, DevStutters, CauseStutters DEF vars, devVars
  <2> QED BY <2>1, <2>2, <2>3 DEF Next
<1>3. DevInv /\ CauseInv => ExitCodeIsTheCause
  BY DEF CauseInv, CauseKnown, Cause, ExitCodeIsTheCause, EndedByService, Started
<1> QED BY <1>1, <1>2, <1>3, PTL DEF Spec
=============================================================================
