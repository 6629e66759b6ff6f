SPECIFICATION FairSpec
CONSTANTS
  MaxClient = 2
  MaxRemote = 3
CHECK_DEADLOCK FALSE
INVARIANT
  DataSafe
PROPERTIES
  DownstreamDelivers
  ClientEndCloses
