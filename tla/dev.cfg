\* One script of the three runs.  Half a second of grace and two questions are
\* enough for a round that is not the last; a signal of the user and one of the
\* visual smoke test make two in one run.  A script that is over has stopped.
CONSTANTS
  GraceRounds = 1
  MaxSignals = 1
  Tries = 2
  Foreign = TRUE
SPECIFICATION Spec
INVARIANTS StackIsDown ExitCodeIsTheCause
PROPERTIES StackEnds
CHECK_DEADLOCK FALSE
