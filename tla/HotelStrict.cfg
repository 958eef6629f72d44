SPECIFICATION FairSpec
CONSTANTS
  Nodes = {self, other}
  Rooms = {r1}
  NoEntry = NoEntry
  Self = self
  Conns = {c1, c2, c3}
  JoinConns = {c3}
  NoRoom = NoRoom
  RoomsLimit = 0
  Propagates = {TRUE}
  Notifies = {TRUE}
  BadChannels = FALSE
  MaxSent = 5
  MaxExpired = 1
  self = self
  other = other
  c1 = c1
  c2 = c2
  c3 = c3
  r1 = r1
  r2 = r2
INVARIANT AnnouncedCounts
INVARIANT NoEmptyRoom
PROPERTY AnnouncesLegally
PROPERTY DeadUnsubscribed
CHECK_DEADLOCK FALSE
