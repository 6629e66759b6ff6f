SPECIFICATION Spec
CONSTANTS
  Configs = {c1, c2}
  NoConfig = none
  BadForm = bad
  MaxActs = 3
  Platforms <- MCPlatforms
INVARIANT
  StateTrue
PROPERTIES
  CallsAnswered
  ExitEnds
CHECK_DEADLOCK FALSE
