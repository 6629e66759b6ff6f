SPECIFICATION MCSpec
CONSTANTS
  Methods = {"ss", "https", "socks4", "socks4a", "socks5", "socks5h"}
  Fronts = {"redir"}
  Destinations = {"ipv4", "ipv6", "none", "self"}
  MaxData = 2
  Parts = {"proxy"}
  Hosts = {"h1", "h2"}
  MaxRequests = 3
  MaxBody = 2
  SplitHeads = FALSE
  SendsWhileReplaced = FALSE
CHECK_DEADLOCK FALSE
INVARIANT
  FrontFull
