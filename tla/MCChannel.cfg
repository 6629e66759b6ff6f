SPECIFICATION MCSpec
CONSTANTS
  Parts = {"http2", "cipher"}
  Paddings = {"both", "server", "none"}
  kFirstPaddings = 2
  Window = 2
  MaxTokens = 3
  Ciphers = {"aead", "stream", "stream_short_iv"}
  FrameSize = 2
  ChunkSizeMask = 3
  MaxRead = 5
  MaxSent = 6
CHECK_DEADLOCK FALSE
INVARIANTS
  TunnelIntact
  CipherInStep
PROPERTY
  TunnelDelivers
