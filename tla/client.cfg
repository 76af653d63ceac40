\* A valid topic and one the server rejects, two starts around a stop, and two
\* faults: enough to leave a second socket and a stray timer behind, and to lose
\* a subscription twice on the way.  Everything may stop once the bounds are used
\* up, so deadlock is not checked.
CONSTANTS
  tA = tA
  BadTopic = BadTopic
  Topics = {tA}
  InitialTopics = {}
  MaxStarts = 2
  MaxStops = 1
  MaxCalls = 2
  MaxFaults = 2
SPECIFICATION FairSpec
INVARIANTS SocketsApart TopicLedger
PROPERTIES StoppedOpensNothing SubscriptionsArrive
CHECK_DEADLOCK FALSE
