SPECIFICATION MCSpec
CONSTANTS
  Lists <- MCLists
  Rate = 2
  Int64Max = 7999
  Amounts = {3}
  Burst = 6
  Steps = {1500}
  MaxTime = 7500
  MaxBack = 1500
CHECK_DEADLOCK FALSE
INVARIANTS
  WaitersContinue
  EndsClean
  LimitKept
PROPERTY
  ConnectAnswered
