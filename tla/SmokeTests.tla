------------------------------ MODULE SmokeTests ------------------------------
(* The two scripts that start the system and test it from outside:             *)
(* scripts/e2e-smoke.sh, whose server is the offline stub that it launches,    *)
(* and frontend/scripts/visual-smoke.mjs, which launches dev.sh and drives a   *)
(* browser through the tabs.  Whether an assertion about a page or an answer   *)
(* holds is left open, but none holds of a server that is not there.           *)
EXTENDS DevStack

CONSTANTS Tries,     \* 60: how often e2e-smoke.sh asks whether the stub is ready
          Foreign    \* BOOLEAN: another program may already listen on the port

VARIABLES
  script,   \* which of the scripts runs: "dev", "visual" or "e2e"
  testPc,   \* where the smoke test is
  testCode, \* the exit code of the smoke test
  stub,     \* the e2e stub server: "none", "up" or "down"
  known,    \* SERVER_PID is set
  taken,    \* another program listens on the port that is tested
  tries,    \* how often e2e-smoke.sh asked whether the stub is ready
  checked,  \* how many of the checks have passed
  dropped   \* visual-smoke.mjs may not tell dev.sh to stop (history)

testVars == <<script, testPc, testCode, stub, known, taken, tries, checked, dropped>>

(* The answers that e2e-smoke.sh verifies, in order. *)
Checks == <<"health", "pools", "transactions", "lending", "lp", "experiments",
            "experiment", "unknown experiment", "sandwich", "il", "attribution",
            "cors", "ws">>
TABS == {"live", "fork", "liquidation", "lpil", "edu", "report"}

TestInit ==
  /\ script \in {"dev", "visual", "e2e"}
  /\ taken \in {FALSE, Foreign}
  /\ testPc = "preflight" /\ testCode = 0 /\ stub = "none" /\ known = FALSE /\ tries = 0
  /\ checked = 0 /\ dropped = FALSE

-----------------------------------------------------------------------------
(* e2e-smoke.sh.  "die" leaves through the EXIT trap, which is cleanup().      *)

Fails == testPc' = "exit" /\ testCode' = 1

E2ePreflight ==
  /\ script = "e2e" /\ testPc = "preflight"
  /\ (testPc' = "install" /\ UNCHANGED testCode) \/ Fails
  /\ UNCHANGED <<devVars, script, stub, known, taken, tries, checked, dropped>>

E2eInstall ==
  /\ script = "e2e" /\ testPc = "install"
  /\ (testPc' = "start" /\ UNCHANGED testCode) \/ Fails
  /\ UNCHANGED <<devVars, script, stub, known, taken, tries, checked, dropped>>

(* The subshell may fail before it launches the stub; and once it has, its     *)
(* process id may get lost with the file that it is written to and read from.  *)
E2eStart ==
  /\ script = "e2e" /\ testPc = "start"
  /\ \/ Fails /\ UNCHANGED <<stub, known>>
     \/ Fails /\ stub' = "up" /\ UNCHANGED known
     \/ testPc' = "wait" /\ stub' = "up" /\ known' = TRUE /\ UNCHANGED testCode
  /\ UNCHANGED <<devVars, script, taken, tries, checked, dropped>>

(* By itself, for one because the port is taken. *)
StubEnds ==
  /\ stub = "up" /\ stub' = "down"
  /\ UNCHANGED <<devVars, script, testPc, testCode, known, taken, tries, checked, dropped>>

Answers == stub = "up" \/ taken

E2eWait ==
  /\ script = "e2e" /\ testPc = "wait"
  /\ \/ stub # "up" /\ Fails /\ UNCHANGED tries
     \/ stub = "up" /\ testPc' = "check" /\ UNCHANGED <<tries, testCode>>
     \/ /\ stub = "up" /\ tries' = tries + 1
        /\ IF tries' = Tries THEN Fails ELSE UNCHANGED <<testPc, testCode>>
  /\ UNCHANGED <<devVars, script, stub, known, taken, checked, dropped>>

(* One check of the wire format, or of a status, a header or a handshake. *)
E2eCheck ==
  /\ script = "e2e" /\ testPc = "check"
  /\ IF checked = Len(Checks) THEN testPc' = "exit" /\ UNCHANGED <<testCode, checked>>
     ELSE \/ Answers /\ checked' = checked + 1 /\ UNCHANGED <<testPc, testCode>>
          \/ Fails /\ UNCHANGED checked
  /\ UNCHANGED <<devVars, script, stub, known, taken, tries, dropped>>

(* cleanup(), of a process id that is known: SIGTERM, three seconds, SIGKILL.  *)
CleanUp == stub' = IF known /\ stub = "up" THEN "down" ELSE stub

(* As EXIT trap. *)
E2eCleanup ==
  /\ script = "e2e" /\ testPc = "exit" /\ testPc' = "over"
  /\ CleanUp
  /\ UNCHANGED <<devVars, script, testCode, known, taken, tries, checked, dropped>>

(* As trap of INT and TERM: it does not exit, so that the script goes on       *)
(* without its server.                                                         *)
E2eSignal ==
  /\ script = "e2e" /\ testPc \in {"wait", "check"} /\ signals < MaxSignals
  /\ signals' = signals + 1
  /\ CleanUp
  /\ UNCHANGED <<services, pc, exitCode, seen, round, tree, processVars,
                 script, testPc, testCode, known, taken, tries, checked, dropped>>

-----------------------------------------------------------------------------
(* visual-smoke.mjs, without SKIP_DEV.  It has no handler for signals.         *)

SpawnDev ==
  /\ script = "visual" /\ testPc = "preflight"
  /\ \/ testPc' = "over" /\ testCode' = 2
     \/ testPc' = "wait" /\ UNCHANGED testCode
  /\ UNCHANGED <<devVars, script, stub, known, taken, tries, checked, dropped>>

Answering == Up("frontend") \/ taken

(* devProc.kill('SIGTERM'), for which nobody waits. *)
TermDev == IF pc = "over" THEN UNCHANGED devVars ELSE Signalled({143})

WaitForUrl ==
  /\ script = "visual" /\ testPc = "wait"
  /\ \/ Answering /\ testPc' = "launch" /\ UNCHANGED <<testCode, devVars>>
     \/ testPc' = "over" /\ testCode' = 1 /\ TermDev
  /\ UNCHANGED <<script, stub, known, taken, tries, checked, dropped>>

(* chromium.launch() and the two calls after it are outside the try: when one  *)
(* throws, main().catch() exits and dev.sh is never told.                      *)
LaunchBrowser ==
  /\ script = "visual" /\ testPc = "launch"
  /\ \/ testPc' = "tabs" /\ UNCHANGED <<testCode, dropped>>
     \/ testPc' = "over" /\ testCode' = 1 /\ dropped' = TRUE
  /\ UNCHANGED <<devVars, script, stub, known, taken, tries, checked>>

(* The page is opened, or not, and runTab() told of each tab whether it shows  *)
(* its elements; once opened, the page needs no server for that.  In the       *)
(* finally the browser is closed and dev.sh told to stop, unless closing threw.*)
RunTabs ==
  /\ script = "visual" /\ testPc = "tabs"
  /\ \/ /\ Answering /\ \E shown \in SUBSET TABS : testCode' = IF shown = TABS THEN 0 ELSE 1
        /\ testPc' = "report"
     \/ testPc' = "over" /\ testCode' = 1
  /\ \/ TermDev /\ UNCHANGED dropped
     \/ testPc' = "over" /\ dropped' = TRUE /\ UNCHANGED devVars
  /\ UNCHANGED <<script, stub, known, taken, tries, checked>>

Report ==
  /\ script = "visual" /\ testPc = "report" /\ testPc' = "over"
  /\ testCode' \in {testCode, 1}
  /\ UNCHANGED <<devVars, script, stub, known, taken, tries, checked, dropped>>

-----------------------------------------------------------------------------
E2eStep == E2ePreflight \/ E2eInstall \/ E2eStart \/ E2eWait \/ E2eCheck \/ E2eCleanup
VisualStep == SpawnDev \/ WaitForUrl \/ LaunchBrowser \/ RunTabs \/ Report

TestNext == E2eStep \/ VisualStep \/ StubEnds \/ E2eSignal
=============================================================================
