\* Three frames over three connections; one client and a ring of one output, so that it can lag;
\* delays 1, 2, 3: first, doubled, capped.
CONSTANTS
  FirstDelay = 1
  MaxDelay = 3
  Capacity = 1
  MaxFrames = 3
  MaxConnections = 3
  Clients = {c1}
  Ring = 1
SPECIFICATION Spec
INVARIANTS
  ClientsSeeNoGap
  OneConnectionAfterGone
PROPERTIES
  OutputsReachBroadcast
  FeedStopsOrWaits
\* The process ends when run and the sink task have.
CHECK_DEADLOCK FALSE
