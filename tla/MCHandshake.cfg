SPECIFICATION MCSpec
CONSTANTS
  Methods = {"ss", "https", "socks4", "socks4a", "socks5", "socks5h"}
  Fronts = {"redir", "socks4", "socks5", "connect", "plain"}
  Destinations = {"domain", "ipv4", "ipv6", "none", "self"}
  MaxData = 2
  Parts = {"proxy", "keepalive"}
  Hosts = {"h1", "h2"}
  MaxRequests = 3
  MaxBody = 2
  SplitHeads = FALSE
  SendsWhileReplaced = FALSE
CHECK_DEADLOCK FALSE
INVARIANTS
  Agreement
  PayloadIntact
  EndedForAReason
  RequestsKept
PROPERTY
  BothWaysDeliver
