SPECIFICATION Spec
CONSTANTS
  Nodes = {self, other}
  Rooms = {r1}
  NoEntry = NoEntry
  Self = self
  Conns = {c1, c2, c3}
  JoinConns = {c2, c3}
  NoRoom = NoRoom
  RoomsLimit = 1
  Propagates = {FALSE}
  Notifies = {TRUE}
  BadChannels = FALSE
  MaxSent = 4
  MaxExpired = 1
  self = self
  other = other
  c1 = c1
  c2 = c2
  c3 = c3
  r1 = r1
  r2 = r2
INVARIANT NeverNegative
CHECK_DEADLOCK FALSE
