------------------------------- MODULE DevStack -------------------------------
(* scripts/dev.sh: it installs what is missing, launches the backend and the   *)
(* frontend, waits for the first of them to end, and tears the other down; a   *)
(* signal does the same at any moment.                                         *)
(*                                                                             *)
(* A service is a process that may start helpers (pnpm its vite, uvicorn its   *)
(* worker) again and again.  A process may end by itself at any time, may end  *)
(* on SIGTERM, and ends on SIGKILL.  A helper has no helpers of its own here,  *)
(* so that kill_tree() recurses once.  A trap of the script runs between two   *)
(* of its commands.                                                            *)
EXTENDS Integers, Sequences, SequencesExt

CONSTANTS GraceRounds,  \* rounds of half a second that shutdown() waits
          MaxSignals    \* bound of a run: signals sent to the script

ASSUME DevStackAssumption == GraceRounds \in Nat /\ MaxSignals \in Nat

VARIABLES
  services,  \* RUN_BACKEND and RUN_FRONTEND: what it was asked to run
  pc,        \* where the script is; "over" when it has exited
  exitCode,  \* EXIT_CODE, or the exit_code of on_signal
  seen,      \* be_alive and fe_alive: the services that were found alive
  round,     \* rounds of grace so far
  proc,      \* the process of each service and its exit code
  tree,      \* the service whose tree kill_tree() is at
  helper,    \* services that have helpers
  listed,    \* services all of whose helpers pgrep has listed, last time it did
  termed,    \* services whose process was sent a SIGTERM
  ended,     \* services that ended by themselves, in order (history)
  signals,   \* signals that were sent (history)
  astray     \* services of which the script may leave processes behind (history)

devVars == <<services, pc, exitCode, seen, round, proc, tree, helper, listed, termed,
             ended, signals, astray>>

scriptVars  == <<services, pc, exitCode, seen, round, tree, signals>>
processVars == <<proc, helper, listed, termed, ended, astray>>

Services == {"backend", "frontend"}
Started == services
Absent == [state |-> "none", code |-> 0]

DevInit ==
  /\ services \in (SUBSET Services) \ {{}}
  /\ pc = "preflight" /\ exitCode = 0 /\ seen = {} /\ round = 0
  /\ proc = [s \in Services |-> Absent] /\ tree = "frontend" /\ helper = {} /\ listed = {}
  /\ termed = {} /\ ended = <<>> /\ signals = 0 /\ astray = {}

Up(s) == proc[s].state = "up"

-----------------------------------------------------------------------------
(* Up to the launch *)

Over(code) == pc' = "over" /\ exitCode' = code

(* The arguments, node, pnpm and python, and the ports, of which a busy one is *)
(* no more than a warning.                                                     *)
Preflight ==
  /\ pc = "preflight"
  /\ \/ pc' = "install" /\ UNCHANGED exitCode
     \/ \E code \in {0, 1, 2} : Over(code)
  /\ UNCHANGED <<services, seen, round, tree, signals, processVars>>

(* What is installed already, and what the installers achieve: they may fail,  *)
(* and uv may succeed and leave no python that can import the backend.         *)
Machines == [skipInstall : BOOLEAN, importable : BOOLEAN, goodVenv : BOOLEAN,
             modules : BOOLEAN, installs : BOOLEAN, provides : BOOLEAN]

EnsureBackendDeps(m) ==
  m.skipInstall \/ m.importable \/ m.goodVenv \/ (m.installs /\ m.provides)

EnsureFrontendDeps(m) == m.skipInstall \/ m.modules \/ m.installs

Install ==
  /\ pc = "install"
  /\ \E m \in Machines :
       IF /\ "backend" \in Started => EnsureBackendDeps(m)
          /\ "frontend" \in Started => EnsureFrontendDeps(m)
       THEN pc' = "launch backend" /\ UNCHANGED exitCode
       ELSE Over(1)
  /\ UNCHANGED <<services, seen, round, tree, signals, processVars>>

(* mktemp may fail, and set -e then ends the script, which has no trap yet.    *)
Launch(s, next) ==
  /\ \/ s \notin Started /\ pc' = next /\ UNCHANGED <<exitCode, proc, astray>>
     \/ s \in Started /\ pc' = next /\ proc' = [proc EXCEPT ![s].state = "up"]
        /\ UNCHANGED <<exitCode, astray>>
     \/ s \in Started /\ Over(1) /\ astray' = astray \cup {t \in Services : Up(t)}
        /\ UNCHANGED proc
  /\ UNCHANGED <<services, seen, round, tree, helper, listed, termed, ended, signals>>

LaunchBackend == pc = "launch backend" /\ Launch("backend", "launch frontend")
LaunchFrontend == pc = "launch frontend" /\ Launch("frontend", "trap")

SetTraps ==
  /\ pc = "trap" /\ pc' = IF Started = Services THEN "poll" ELSE "wait"
  /\ UNCHANGED <<services, exitCode, seen, round, tree, signals, processVars>>

-----------------------------------------------------------------------------
(* The processes *)

StartHelper(s) ==
  /\ Up(s) /\ helper' = helper \cup {s} /\ listed' = listed \ {s}
  /\ UNCHANGED <<scriptVars, proc, termed, ended, astray>>

(* One that has helpers which are not listed leaves them behind: the tree that *)
(* kill_tree() walks begins at the process.                                    *)
Ends(s, code) ==
  /\ proc' = [proc EXCEPT ![s] = [state |-> "down", code |-> code]]
  /\ astray' = IF s \in helper \ listed THEN astray \cup {s} ELSE astray

EndsByItself(s) ==
  /\ Up(s) /\ \E code \in 0 .. 2 : Ends(s, code)
  /\ ended' = Append(ended, s)
  /\ UNCHANGED <<scriptVars, helper, listed, termed>>

ObeysTerm(s) ==
  /\ Up(s) /\ s \in termed
  /\ Ends(s, 143)
  /\ UNCHANGED <<scriptVars, helper, listed, termed, ended>>

HelpersEnd(s) ==
  /\ s \in helper /\ helper' = helper \ {s}
  /\ UNCHANGED <<scriptVars, proc, listed, termed, ended, astray>>

-----------------------------------------------------------------------------
(* The wait *)

Poll ==
  /\ pc = "poll"
  /\ pc' = IF \A s \in Services : Up(s) THEN "poll" ELSE "look at backend"
  /\ UNCHANGED <<services, exitCode, seen, round, tree, signals, processVars>>

LookAt(s) ==
  /\ seen' = IF Up(s) THEN seen \cup {s} ELSE seen
  /\ UNCHANGED <<services, exitCode, round, tree, signals, processVars>>

LookAtBackend == pc = "look at backend" /\ pc' = "look at frontend" /\ LookAt("backend")
LookAtFrontend == pc = "look at frontend" /\ pc' = "wait" /\ LookAt("frontend")

(* Mutant: of two that have ended the code of the backend alone is taken. *)
WaitForBackend ==
  /\ pc = "wait"
  /\ LET waited == Started \ seen
     IN /\ \A s \in waited : ~Up(s)
        /\ exitCode' = proc[IF "backend" \in waited THEN "backend" ELSE "frontend"].code
        /\ pc' = "shutdown"
  /\ UNCHANGED <<services, seen, round, tree, signals, processVars>>

(* Mutant: the script waits for the service that it is about to stop. *)
WaitForOther ==
  /\ pc = "wait"
  /\ LET waited == IF seen = {} THEN Started ELSE seen
     IN /\ \A s \in waited : ~Up(s)
        /\ exitCode' = proc[CHOOSE s \in waited : TRUE].code
        /\ pc' = "shutdown"
  /\ UNCHANGED <<services, seen, round, tree, signals, processVars>>

(* wait for the services that were not found alive.  Of two, the code of the   *)
(* backend goes before the other unless it is 0.                               *)
Wait ==
  /\ pc = "wait"
  /\ LET waited == Started \ seen
     IN /\ \A s \in waited : ~Up(s)
        /\ exitCode' = IF waited = Services /\ proc["backend"].code = 0
                       THEN proc["frontend"].code
                       ELSE proc[IF "backend" \in waited THEN "backend" ELSE "frontend"].code
        /\ pc' = "shutdown"
  /\ UNCHANGED <<services, seen, round, tree, signals, processVars>>

-----------------------------------------------------------------------------
(* shutdown(), which runs once, and the traps *)

BeginShutdown ==
  /\ pc = "shutdown" /\ pc' = "term" /\ tree' = "frontend" /\ round' = 0
  /\ UNCHANGED <<services, exitCode, seen, signals, processVars>>

(* The frontend's tree goes before the backend's. *)
NextTree(again, done) ==
  IF tree = "frontend" THEN pc' = again /\ tree' = "backend" ELSE pc' = done /\ UNCHANGED tree

(* kill_tree with TERM, which a helper may mind or not (HelpersEnd). *)
TermTree ==
  /\ pc = "term" /\ NextTree("term", "grace")
  /\ termed' = IF Up(tree) THEN termed \cup {tree} ELSE termed
  /\ UNCHANGED <<services, exitCode, seen, round, signals, proc, helper, listed, ended, astray>>

Grace ==
  /\ pc = "grace"
  /\ IF \A s \in Services : ~Up(s) THEN pc' = "over" /\ UNCHANGED <<round, tree>>
     ELSE IF round < GraceRounds THEN round' = round + 1 /\ UNCHANGED <<pc, tree>>
     ELSE pc' = "list" /\ tree' = "frontend" /\ UNCHANGED round
  /\ UNCHANGED <<services, exitCode, seen, signals, processVars>>

(* kill_tree with KILL, command by command: kill -0 and pgrep, *)
ListHelpers ==
  /\ pc = "list"
  /\ IF Up(tree) THEN pc' = "kill helpers" /\ listed' = listed \cup {tree} /\ UNCHANGED tree
     ELSE NextTree("list", "over") /\ UNCHANGED listed
  /\ UNCHANGED <<services, exitCode, seen, round, signals, proc, helper, termed, ended, astray>>

(* Mutant: the recursion does not hand on its signal, which is TERM then. *)
TermHelpers ==
  /\ pc = "kill helpers" /\ pc' = "kill process"
  /\ UNCHANGED <<services, exitCode, seen, round, tree, signals, processVars>>

(* kill_tree of each child that pgrep has listed, *)
KillHelpers ==
  /\ pc = "kill helpers" /\ pc' = "kill process"
  /\ helper' = helper \ (listed \cap {tree})
  /\ UNCHANGED <<services, exitCode, seen, round, tree, signals, proc, listed, termed, ended,
                 astray>>

(* and kill of the process.  Helpers that it has started since pgrep are left. *)
KillProcess ==
  /\ pc = "kill process" /\ NextTree("list", "over")
  /\ IF Up(tree) THEN Ends(tree, 137) ELSE UNCHANGED <<proc, astray>>
  /\ UNCHANGED <<services, exitCode, seen, round, signals, helper, listed, termed, ended>>

(* INT and TERM.  Before the traps are set a signal ends the script at once;   *)
(* during shutdown() it does so too, since that runs once.                     *)
Unlaunched == {"preflight", "install", "launch backend"}
Trapped == {"poll", "look at backend", "look at frontend", "wait", "shutdown"}

Signalled(codes) ==
  /\ pc # "over" /\ signals' = signals + 1
  /\ \E code \in codes :
       IF pc \in Trapped THEN pc' = "shutdown" /\ exitCode' = code ELSE Over(code)
  /\ astray' = IF pc \in Unlaunched \cup Trapped THEN astray ELSE Services
  /\ UNCHANGED <<services, seen, round, proc, tree, helper, listed, termed, ended>>

OnSignal == signals < MaxSignals /\ Signalled({130, 143})

-----------------------------------------------------------------------------
ScriptStep ==
  \/ Preflight \/ Install \/ LaunchBackend \/ LaunchFrontend \/ SetTraps
  \/ Poll \/ LookAtBackend \/ LookAtFrontend \/ Wait
  \/ BeginShutdown \/ TermTree \/ Grace \/ ListHelpers \/ KillHelpers \/ KillProcess

DevNext ==
  \/ ScriptStep \/ OnSignal
  \/ \E s \in Services : StartHelper(s) \/ EndsByItself(s) \/ ObeysTerm(s) \/ HelpersEnd(s)
=============================================================================
