\* Two callers: a start() that runs while a stop() waits for the loop.
CONSTANTS
  x = x
  y = y
  Callers = {x, y}
  MaxStarts = 2
  MaxEvents = 2
SPECIFICATION Spec
INVARIANT StopLeavesNoLoop
CHECK_DEADLOCK FALSE
