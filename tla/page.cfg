\* The shell with two loads at most, two prices and two transactions; a
\* simulation of three steps; three replays; a canvas whose effect runs twice.
\* Pushes, replays and effects run out while the user goes on, so deadlock is not
\* checked.
CONSTANTS
  Prices = {2, 3}
  DefaultPrice = 2
  HistoryLen = 2
  MaxPushed = 2
  MaxSteps = 3
  SliderRanges <- MCSliders
  ParamRanges <- MCParams
  MaxReplays = 3
  LpInputs <- MCLpInputs
  V2IL <- MCV2IL
  EduInputs <- MCEduInputs
  Screens <- MCScreens
  RatioUnit = 2
  MaxEffects = 2
  MaxSide = 700
SPECIFICATION Spec
INVARIANTS ChartShowsPrice PanelsAgree CanvasKeepsUp
PROPERTIES CanvasSettles ShownStays BadgeSettles SimulationsEnd
CHECK_DEADLOCK FALSE
