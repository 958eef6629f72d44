SPECIFICATION FairSpec
CONSTANTS
  Nodes = {n1, n2, n3}
  Rooms = {r1}
  NoEntry = NoEntry
  Seeds = {n1, n2}
  Joiners = {}
  Publishers = {n1}
  MaxPublished = 3
  MaxBeats = 1
  MaxLog = 5
  MaxSubs = 2
  MaxLost = 1
  MaxCrashes = 0
  SlowHandshake = FALSE
  SlowLinks = FALSE
  MayShutDown = FALSE
  n1 = n1
  n2 = n2
  n3 = n3
  r1 = r1
PROPERTY DesyncIsFatal
CHECK_DEADLOCK FALSE
