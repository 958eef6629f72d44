SPECIFICATION Spec
CONSTANTS
  Nodes = {self, other}
  Rooms = {r1, r2}
  NoEntry = NoEntry
  Self = self
  Conns = {c1, c2}
  JoinConns = {c2}
  NoRoom = NoRoom
  RoomsLimit = 1
  Propagates = {TRUE, FALSE}
  Notifies = {TRUE, FALSE}
  BadChannels = TRUE
  MaxSent = 3
  MaxExpired = 0
  self = self
  other = other
  c1 = c1
  c2 = c2
  c3 = c3
  r1 = r1
  r2 = r2
INVARIANT TypeOK
INVARIANT RoomsMatchSubscriptions
INVARIANT RoomsCountExact
INVARIANT AnnouncedRooms
INVARIANT FiltersInUse
INVARIANT ListensToOwnRooms
SYMMETRY Symmetry
CHECK_DEADLOCK FALSE
