SPECIFICATION MCSpec
CONSTANTS
  Capacity = 2
  Requests = 2
  Greetings = 1
  Keys = {"host", "host_and_ip", "other_host"}
  max_entries = 2
  expiration_check_count = 2
  Timeout = 2
  Width = 1000
  MaxTime = 3
  MaxSessions = 3
  MaxConnections = 3
  cipher = "http2"
  renego_allowed_for_http11_proto = FALSE
  Offers <- MCOffers
INVARIANTS
  SocketsSound
  CacheSound
  NegotiatedSupported
PROPERTY
  MCSettles
CHECK_DEADLOCK FALSE
