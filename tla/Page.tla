--------------------------------- MODULE Page ---------------------------------
(* The parts of the frontend that share no state: the shell with the live page *)
(* (LivePage), the focus mode of the liquidation page (FocusView), the fork    *)
(* page (ForkPage), the pages on liquidity positions and lessons (LpLab,       *)
(* Lesson), and one canvas of any of them (Canvas); Charts is about what those *)
(* of the first three show.  A behaviour exercises one part.                   *)
EXTENDS Charts, LpLab, Lesson, Canvas

VARIABLE part

vars == <<part, pageVars, focusVars, forkVars, lp, eduVars, canvasVars>>

Init ==
  /\ part \in {"live", "focus", "fork", "lp", "edu", "canvas"}
  /\ LivePageInit /\ FocusInit /\ ForkInit /\ LpInit /\ EduInit /\ CanvasInit

(* A step of one part leaves the others alone.                                 *)
LiveStep(A) ==
  part = "live" /\ A /\ UNCHANGED <<part, focusVars, forkVars, lp, eduVars, canvasVars>>
FocusStep(A) ==
  part = "focus" /\ A /\ UNCHANGED <<part, pageVars, forkVars, lp, eduVars, canvasVars>>
ForkStep(A) ==
  part = "fork" /\ A /\ UNCHANGED <<part, pageVars, focusVars, lp, eduVars, canvasVars>>
LpStep ==
  part = "lp" /\ LpNext /\ UNCHANGED <<part, pageVars, focusVars, forkVars, eduVars, canvasVars>>
EduStep ==
  part = "edu" /\ EduNext /\ UNCHANGED <<part, pageVars, focusVars, forkVars, lp, canvasVars>>
CanvasStep ==
  part = "canvas" /\ CanvasNext /\ UNCHANGED <<part, pageVars, focusVars, forkVars, lp, eduVars>>

Next ==
  \/ LiveStep(LivePageNext) \/ FocusStep(FocusNext) \/ ForkStep(ForkNext)
  \/ LpStep \/ EduStep \/ CanvasStep

(* An interval that is set goes on firing, and a timer that is set fires.      *)
Spec ==
  /\ Init /\ [][Next]_vars
  /\ WF_vars(LiveStep(Poll)) /\ WF_vars(FocusStep(FocusTick)) /\ WF_vars(ForkStep(ReplayTimer))

-----------------------------------------------------------------------------
(* A simulation and a replay end by themselves, whatever the user does: one    *)
(* that is started at the last step again too (FocusView.tsx:77-90,            *)
(* forkStore.ts:170-186).                                                      *)
SimulationsEnd == (run.running ~> ~run.running) /\ (replaying ~> ~replaying)

(* The panels of a page, each of which computes from the store by itself, tell *)
(* one story: on the fork page the stages are in order along the curve, the    *)
(* shares of the profit add up but for rounding, and the conclusion foretells  *)
(* no more profit at another depth than the simulation gives there, although   *)
(* it takes the depth from the parameters and the profit from the result       *)
(* (ForkConclusion.tsx:34-41, QuantResults.tsx:34-47, ForkSankeyPanel.tsx      *)
(* :37-56); on the liquidation page the gauge lies on the curve as long as its *)
(* threshold is the curve's, and a gauge in danger is on no curve above it     *)
(* (FocusView.tsx:39-51, 120-140).  The other pages and the charts agree with  *)
(* themselves: LpPanelsAgree, LessonAgrees and ChartsFit say in what.          *)
PanelsAgree ==
  LET stage == Result.markers
      shares == Shares[1] + Shares[2] + Shares[3] + Shares[4]
      there == ComputeResult([params EXCEPT !.poolDepth = AltDepth])
      tenths(hf) == (10 * hf[1]) \div hf[2]
      curve == BuildCurve
  IN /\ stage.pre.x[1] < stage.post.x[1] /\ stage.post.x[1] < stage.victim.x[1]
     /\ shares \in 999..1002
     /\ AltProfit <= there.profitUsd
     /\ QuantResults.level = "high" => Result.profitUsd >= params.poolDepth
     /\ sliders.ltv = 80 => tenths(Gauge) \in tenths(curve[9].hf) .. tenths(curve[10].hf)
     /\ Level = "danger" => tenths(curve[0].hf) < 9
     /\ LpPanelsAgree /\ LessonAgrees /\ ChartsFit
=============================================================================
