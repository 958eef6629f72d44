SPECIFICATION FairSpec
CONSTANTS
  Requests = {q1, q2, q3, d1, p1}
  DebugRequests = {d1}
  PluginRequests = {p1}
  HttpRequests = {q3}
  Limit = 1
  BufferSize = 2
  MaxOutages = 1
  MayShutDown = TRUE
  MayDrop = TRUE
  q1 = q1
  q2 = q2
  q3 = q3
  d1 = d1
  p1 = p1
INVARIANT TypeOK
INVARIANT SlotsMatch
INVARIANT OneReplayer
INVARIANT BufferExact
INVARIANT NoneLeftBuffered
PROPERTY ClientsInOrder
PROPERTY ReplayedEventually
CHECK_DEADLOCK FALSE
