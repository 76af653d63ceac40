\* dev.sh by itself or below the visual smoke test; the bounds of dev.cfg, without
\* signals, which the property leaves out.
CONSTANTS
  GraceRounds = 1
  MaxSignals = 0
  Tries = 1
  Foreign = FALSE
SPECIFICATION Spec
INVARIANTS ExitCodeOfTheFirst
CHECK_DEADLOCK FALSE
