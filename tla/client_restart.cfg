\* Two starts, no fault: start() again, directly or after a stop().
CONSTANTS
  tA = tA
  BadTopic = BadTopic
  Topics = {tA}
  InitialTopics = {}
  MaxStarts = 2
  MaxStops = 1
  MaxCalls = 1
  MaxFaults = 0
SPECIFICATION Spec
INVARIANT OneSocket
CHECK_DEADLOCK FALSE
