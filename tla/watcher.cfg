\* Two callers, three starts, two events: enough for a start() inside another
\* caller's stop(), for the loop it spawns to be lost, and for a third one next
\* to it.  Everything may stop once the bounds are used up, so deadlock is not
\* checked.
CONSTANTS
  x = x
  y = y
  Callers = {x, y}
  MaxStarts = 3
  MaxEvents = 2
SPECIFICATION FairSpec
INVARIANTS StopLeavesNoLoopApart RunningIsTheLoop
PROPERTIES EventEndsNoLoop StopEnds
CHECK_DEADLOCK FALSE
