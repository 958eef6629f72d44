SPECIFICATION FairSpec
CONSTANTS
  n1 = n1
  n2 = n2
  v1 = v1
  v2 = v2
  Nodes = {n1, n2}
  None = None
  Dead = Dead
  ImportTypes <- MCTypes
  Payload <- MCPayload
  MaxStarts = 3
  MaxFaults = 2
INVARIANTS TypeOK OneInside SecretsAgree MarksTrue InstallOnce StoreCreated
PROPERTIES LocksImplement StartEnds
CHECK_DEADLOCK FALSE
