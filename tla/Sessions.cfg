SPECIFICATION FairSpec
CONSTANTS
  Conns = {c1, c2}
  Tokens = {f1, f2, i1}
  Exp <- MCExp
  TimeoutMax = 1
  Copies = 3
  None = None
  MaxConcurrent = 1
  MaxBufferSize = 1
  MaxReqs = 2
  Http = Http
  Owner <- MCOwner
  MaxTime = 3
  MaxClosed = 1
  Sessions0 <- MCSessions0
  c1 = c1
  c2 = c2
  f1 = f1
  f2 = f2
  i1 = i1
  u1 = u1
  u2 = u2
INVARIANT TypeOK
INVARIANT Sorted
INVARIANT TimerCovers
INVARIANT LinksKept
INVARIANT NoIdleSlot
PROPERTY ExpiredLeave
CHECK_DEADLOCK FALSE
