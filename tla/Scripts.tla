-------------------------------- MODULE Scripts --------------------------------
(* One of the scripts that start the system runs: dev.sh by itself, the visual *)
(* smoke test with dev.sh as its child, or the end-to-end smoke test.          *)
EXTENDS SmokeTests

vars == <<devVars, testVars>>

Init ==
  /\ DevInit /\ TestInit
  /\ script # "dev" => services = Services
  /\ script = "dev" => ~taken

DevRuns ==
  \/ script = "dev"
  \/ script = "visual" /\ testPc # "preflight" /\ testCode # 2

DevMoves == DevRuns /\ DevNext /\ UNCHANGED testVars
DevSteps == DevRuns /\ ScriptStep /\ UNCHANGED testVars

Next == DevMoves \/ TestNext

(* A script that can go on does.  Nothing is promised of the services: neither *)
(* that they end nor that they mind a SIGTERM.                                 *)
Spec == Init /\ [][Next]_vars /\ WF_vars(DevSteps) /\ WF_vars(E2eStep \/ VisualStep)

-----------------------------------------------------------------------------
(* When a script is over so is what it started.  Of dev.sh that is the         *)
(* services and their helpers, however little they mind being asked, unless a  *)
(* service left helpers that kill_tree() has not listed (one that ended before *)
(* it was walked, or started them since pgrep), the second launch failed, or a *)
(* signal found the script without its traps or within shutdown()              *)
(* (dev.sh:299-309, 379-444); of e2e-smoke.sh the stub, whichever check failed *)
(* or signal came, unless its process id got lost (e2e-smoke.sh:55-71, 114).   *)
StackIsDown ==
  /\ pc = "over" => \A s \in Services \ astray : ~Up(s) /\ s \notin helper
  /\ script = "e2e" /\ testPc = "over" /\ known => stub # "up"

(* A service has ended by itself, and neither a signal nor a launch that       *)
(* failed has ended dev.sh.                                                    *)
EndedByService ==
  /\ pc = "over" /\ signals = 0 /\ ended # <<>>
  /\ \A s \in Started : proc[s].state # "none"

(* The exit code of dev.sh is then that of the service that ended first.  Only *)
(* when both had ended before dev.sh looked which of them was alive may it be  *)
(* the other's, and then it is a failure (dev.sh:452-515).                     *)
ExitCodeIsTheCause ==
  EndedByService =>
    \/ exitCode = proc[ended[1]].code
    \/ Started = Services /\ seen = {} /\ exitCode = proc[ended[2]].code /\ exitCode # 0

(* The header of dev.sh: 0 if both ended well, "the exit code of whichever     *)
(* process died first, otherwise" (dev.sh:31-33).                              *)
ExitCodeOfTheFirst ==
  EndedByService =>
    exitCode = IF \A i \in DOMAIN ended : proc[ended[i]].code = 0
               THEN 0 ELSE proc[ended[1]].code

(* dev.sh ends once a service has or a signal has come, and so it does after   *)
(* the visual smoke test, which ends itself, unless the test was cut short     *)
(* around its browser (visual-smoke.mjs:90-116); e2e-smoke.sh ends too.        *)
StackEnds ==
  /\ DevRuns /\ (ended # <<>> \/ signals > 0) ~> pc = "over"
  /\ script = "visual" ~> testPc = "over" /\ (testCode # 2 /\ ~dropped => pc = "over")
  /\ script = "e2e" ~> testPc = "over"
=============================================================================
