SPECIFICATION MCSpec
CONSTANTS
  MaxListeners = 2
  MaxConnections = 5
  MaxRequests = 2
  parallel_max = 2
  q1 = q1
  q2 = q2
  b1 = b1
  b2 = b2
  NULL = NULL
  Queues <- MCQueues
  Buffers <- MCBuffers
  Bytes <- MCBytes
  DEFAULT_QUEUE_LENGTH = 3
  MaxSize = 6
CHECK_DEADLOCK FALSE
INVARIANTS
  Accounting
  ParkedWillWake
  DrainedReleasesGuard
  AcceptSound
  OccupiedSlots
  ObserversAgree
PROPERTIES
  EndsAfterRequest
  Refines
