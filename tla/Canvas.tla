-------------------------------- MODULE Canvas --------------------------------
(* A canvas of a page and the hook that draws it (canvas/useCanvas.ts): two    *)
(* effects, the second of which sizes the backing store and draws, frame after *)
(* frame, or once where the user prefers reduced motion.                       *)
(*                                                                             *)
(* React runs the effects of a render some time after it, and so the cleanup   *)
(* of a canvas that is removed: frames may come between.                       *)
EXTENDS Plot

CONSTANTS Screens,     \* the box that the layout gives the canvas, and devicePixelRatio
          RatioUnit,   \* what a ratio is a multiple of, inverted
          MaxEffects,  \* bound of a run: how often the second effect runs
          MaxSide      \* bound of a run: the sides of a backing store

ASSUME CanvasAssumption ==
  /\ RatioUnit \in Nat \ {0} /\ MaxEffects \in Nat
  /\ Screens # {} /\ Screens \subseteq [width : Nat \ {0}, height : Nat \ {0}, ratio : Nat \ {0}]

VARIABLES
  kind,      \* which canvas it is
  screen,
  reduced,   \* the media query prefers-reduced-motion, which an effect asks
  phase,     \* "away", "rendered" (its effects have not run), "settled" or "removed"
  backing,   \* the size of the backing store
  setUp,     \* the second effect: "no", or it has drawn "once" or set up a "loop"
  effects,   \* how many second effects have run, the last of which is the one set up
  queued,    \* those with a frame that is requested
  fresh      \* the canvas shows what was rendered last

canvasVars == <<kind, screen, reduced, phase, backing, setUp, effects, queued, fresh>>

(* What the style gives: both sides, the width alone, or nothing; the height   *)
(* attribute; whether the data that are drawn change, and are among the        *)
(* dependencies of the second effect; and whether it is a pie.                 *)
StrategyPie == [css |-> "none", attr |-> 150, data |-> "fixed", pie |-> TRUE]

CanvasKinds ==
  {StrategyPie,
   [css |-> "width", attr |-> 300, data |-> "missing", pie |-> FALSE],   \* LiveAmmPanel
   [css |-> "width", attr |-> 160, data |-> "listed", pie |-> FALSE],    \* ForkSankeyPanel and others
   [css |-> "both", attr |-> 150, data |-> "fixed", pie |-> FALSE],      \* ParticleBackground
   [css |-> "none", attr |-> 150, data |-> "fixed", pie |-> FALSE]}      \* RiskRadar, ProfitWaterfall

CanvasInit ==
  /\ kind = StrategyPie /\ screen = (CHOOSE s \in Screens : TRUE) /\ reduced = FALSE
  /\ phase = "away" /\ backing = [w |-> 300, h |-> kind.attr]
  /\ setUp = "no" /\ effects = 0 /\ queued = {} /\ fresh = FALSE

-----------------------------------------------------------------------------
(* The size in CSS pixels, as fractions: of a width alone the height follows   *)
(* from the proportions of the backing store; without a style, and where there *)
(* is no layout any more, the size is that of the backing store.               *)
Css ==
  CASE phase = "removed" \/ kind.css = "none" -> [w |-> <<backing.w, 1>>, h |-> <<backing.h, 1>>]
    [] phase # "removed" /\ kind.css = "both" -> [w |-> <<screen.width, 1>>, h |-> <<screen.height, 1>>]
    [] OTHER -> [w |-> <<screen.width, 1>>, h |-> <<screen.width * backing.h, backing.w>>]

Side(css) == Larger(1, Rounded(css[1] * screen.ratio, css[2] * RatioUnit))

(* Mutant: the height is not scaled. *)
ResizedInWidth == [w |-> Side(Css.w), h |-> Larger(1, Rounded(Css.h[1], Css.h[2]))]

(* resize(). *)
Resized == [w |-> Side(Css.w), h |-> Side(Css.h)]

(* The radius of a pie is negative below a height of 16, and arc() throws.     *)
Throws == kind.pie /\ Css.h[1] < 16

-----------------------------------------------------------------------------
Mount ==
  /\ phase = "away" /\ phase' = "rendered"
  /\ kind' \in CanvasKinds /\ backing' = [w |-> 300, h |-> kind'.attr] /\ fresh' = FALSE
  /\ UNCHANGED <<screen, reduced, setUp, effects, queued>>

(* The data change and are rendered.                                           *)
Rerender ==
  /\ phase = "settled" /\ kind.data # "fixed"
  /\ phase' = "rendered" /\ fresh' = FALSE
  /\ UNCHANGED <<kind, screen, reduced, backing, setUp, effects, queued>>

(* The first effect hands over what is to be drawn; the second does not run    *)
(* again where its dependencies leave the data out.                            *)
RunFirstEffect ==
  /\ phase = "rendered" /\ setUp # "no" /\ kind.data = "missing"
  /\ phase' = "settled"
  /\ UNCHANGED <<kind, screen, reduced, backing, setUp, effects, queued, fresh>>

(* Mutant: the second effect has no cleanup. *)
RunEffectsAlone ==
  /\ phase = "rendered" /\ ~(setUp # "no" /\ kind.data = "missing") /\ effects < MaxEffects
  /\ phase' = "settled" /\ setUp' = IF reduced THEN "once" ELSE "loop"
  /\ effects' = effects + 1
  /\ IF reduced THEN backing' = Resized /\ fresh' = ~Throws /\ UNCHANGED queued
     ELSE queued' = queued \union {effects'} /\ UNCHANGED <<backing, fresh>>
  /\ UNCHANGED <<kind, screen, reduced>>

(* Both effects.  The second one before, if any, is cleaned up first: it is    *)
(* stopped and its frame cancelled.                                            *)
RunEffects ==
  /\ phase = "rendered" /\ ~(setUp # "no" /\ kind.data = "missing") /\ effects < MaxEffects
  /\ phase' = "settled" /\ setUp' = IF reduced THEN "once" ELSE "loop"
  /\ effects' = effects + 1
  /\ IF reduced THEN backing' = Resized /\ fresh' = ~Throws /\ queued' = queued \ {effects}
     ELSE queued' = (queued \ {effects}) \union {effects'} /\ UNCHANGED <<backing, fresh>>
  /\ UNCHANGED <<kind, screen, reduced>>

(* A frame of an effect.  It requests the next one when it has drawn.          *)
CanvasFrame(e) ==
  /\ e \in queued /\ Resized.w <= MaxSide /\ Resized.h <= MaxSide
  /\ backing' = Resized
  /\ IF Throws THEN queued' = queued \ {e} /\ fresh' = FALSE
     ELSE fresh' = (phase = "settled") /\ UNCHANGED queued
  /\ UNCHANGED <<kind, screen, reduced, phase, setUp, effects>>

(* The page of the canvas is left, and some time after the effect cleaned up.  *)
RemoveCanvas ==
  /\ phase = "settled" /\ phase' = "removed"
  /\ UNCHANGED <<kind, screen, reduced, backing, setUp, effects, queued, fresh>>

CleanUp ==
  /\ phase = "removed" /\ phase' = "away" /\ setUp' = "no" /\ queued' = queued \ {effects}
  /\ backing' = [w |-> 300, h |-> kind.attr] /\ fresh' = FALSE
  /\ UNCHANGED <<kind, screen, reduced, effects>>

(* The window is resized, moved to another screen or zoomed, or the user       *)
(* prefers otherwise.                                                          *)
ScreenChanges ==
  /\ screen' \in Screens /\ reduced' \in BOOLEAN
  /\ UNCHANGED <<kind, phase, backing, setUp, effects, queued, fresh>>

CanvasNext ==
  \/ Mount \/ Rerender \/ RunFirstEffect \/ RunEffects \/ RemoveCanvas \/ CleanUp \/ ScreenChanges
  \/ \E e \in queued : CanvasFrame(e)

-----------------------------------------------------------------------------
(* At most one effect draws, the one that is set up, and none once the canvas  *)
(* is gone; and what a canvas does not show yet it has a frame to come for.    *)
(* Two kinds may stay behind: one that draws once and whose data are missing   *)
(* among its dependencies, and the pie, whose frames end where it has shrunk   *)
(* (useCanvas.ts:33-89).                                                       *)
CanvasKeepsUp ==
  /\ queued \subseteq {effects} /\ (phase = "away" => queued = {})
  /\ phase = "settled" /\ ~fresh
       => effects \in queued \/ (setUp = "once" /\ kind.data = "missing") \/ kind.pie

(* A frame that finds the backing store as wide as the screen asks for, and as *)
(* high where the style says how high, leaves it as it is, although the height *)
(* that it reads may be one that follows from its own rounding; and so without *)
(* any style where a CSS pixel is one of the screen.  On other screens such a  *)
(* canvas grows or shrinks with each frame (useCanvas.ts:49-60).               *)
CanvasSettles ==
  [][ LET onPage == phase \in {"rendered", "settled"}
          fitted == CASE kind.css = "width" -> backing.w = Side(<<screen.width, 1>>)
                      [] kind.css = "both" -> /\ backing.w = Side(<<screen.width, 1>>)
                                              /\ backing.h = Side(<<screen.height, 1>>)
                      [] OTHER -> screen.ratio = RatioUnit
      IN onPage /\ fitted => backing' = backing ]_canvasVars
=============================================================================
