SPECIFICATION FairSpec
CONSTANTS
  Nodes = {n1, n2, n3}
  Rooms = {r1}
  NoEntry = NoEntry
  Seeds = {n1, n2, n3}
  Joiners = {}
  Publishers = {n1}
  MaxPublished = 2
  MaxBeats = 0
  MaxLog = 4
  MaxSubs = 2
  MaxLost = 1
  MaxCrashes = 1
  SlowHandshake = FALSE
  SlowLinks = FALSE
  MayShutDown = FALSE
  n1 = n1
  n2 = n2
  n3 = n3
  r1 = r1
INVARIANT NoGhostEntries
PROPERTY DeadForgotten
CHECK_DEADLOCK FALSE
