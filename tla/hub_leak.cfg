\* One connection, one topic, a queue of one, under the event loop's fairness:
\* the receiver's reply finds the queue full and the client leaves at any
\* moment.  The system stops when the route has returned, so deadlock is not
\* checked.
CONSTANTS
  c1 = c1
  Conns = {c1}
  tA = tA
  Topics = {tA}
  BadTopic = BadTopic
  QueueSize = 1
  MaxEvents = 2
  MaxFrames = 3
SPECIFICATION FairSpec
PROPERTY LeaverUnregistered
CHECK_DEADLOCK FALSE
