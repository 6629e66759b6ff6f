SPECIFICATION FairSpec
CONSTANTS
  MaxClient = 3
  MaxRemote = 2
  MaxPending = 2
CHECK_DEADLOCK FALSE
INVARIANT
  DataSafe
PROPERTIES
  UpstreamDelivers
  EndsNoticed
