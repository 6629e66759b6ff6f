SPECIFICATION MCSpec
CONSTANTS
  Parts = {"resolver", "certificates", "settings", "programs", "parser"}
  Users = {"stream", "connection", "client"}
  BackEnds = {"doh", "cares", "libc"}
  MaxLookups = 3
  Platforms = {"windows", "mac", "ios", "unix"}
  CommonNames = {"root", "overruled", "denied", "allowed", "leaf", "signing", "emSign", "x1", "x2"}
  RequiredRoots = {"x1", "x2"}
  SystemStores <- MCSystemStores
  Bundles <- MCBundles
  Embedded <- MCEmbedded
  Heads <- MCHeads
  Brackets <- MCBrackets
  Kinds = {"gui", "cli", "server"}
  Places = {"local", "windows", "apple"}
  IntMax = 1000
  RateMax = 1073741824
  MaxEdits = 1
  MaxSaves = 1
  MaxRuns = 2
  Mains = {"server", "client"}
  MaxEndpoints = 2
  MaxConnections = 2
  MaxSignals = 3
CHECK_DEADLOCK FALSE
INVARIANTS
  AnswersRight
  StoreRight
  SettingsKept
  StartsValid
  InstanceThere
  HeadsRight
PROPERTY
  ServicesEnd
