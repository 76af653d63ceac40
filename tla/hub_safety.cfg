\* One connection on two topics, a queue of two: the queue fills, drops events
\* and makes the receiver wait, with acknowledgements of overlapping topic sets
\* on their way.  The system stops when the route has returned and the bounds
\* are used up, so deadlock is not checked.
CONSTANTS
  c1 = c1
  Conns = {c1}
  tA = tA
  tB = tB
  Topics = {tA, tB}
  BadTopic = BadTopic
  QueueSize = 2
  MaxEvents = 2
  MaxFrames = 2
SPECIFICATION Spec
SYMMETRY Symmetry
INVARIANTS TypeOK NoOrphans AckLedger EventsCovered DeliveredInOrder
PROPERTIES FeedSpec ClosedIsFinal
CHECK_DEADLOCK FALSE
