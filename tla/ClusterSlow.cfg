SPECIFICATION FairSpec
CONSTANTS
  Nodes = {n1, n2}
  Rooms = {r1}
  NoEntry = NoEntry
  Seeds = {n1}
  Joiners = {n2}
  Publishers = {n1}
  MaxPublished = 2
  MaxBeats = 1
  MaxLog = 3
  MaxSubs = 2
  MaxLost = 1
  MaxCrashes = 1
  SlowHandshake = FALSE
  SlowLinks = TRUE
  MayShutDown = TRUE
  n1 = n1
  n2 = n2
  n3 = n3
  r1 = r1
INVARIANT ViewMatchesSender
INVARIANT GhostsAreDead
PROPERTY HandshakeEnds
CHECK_DEADLOCK FALSE
