CONSTANTS
  NumFiles = 2
  NumChunks = 2
  MaxAttempts = 1
  MaxConns = 2
  Encrypted = FALSE
  MaxLosses = 1
  Losses = {"break", "sender-blip", "receiver-blip"}
  Stalls = FALSE
  MaxUpsets = 0
  Upsets = {}
  MaxPauses = 0
  FullAt = 9
  OneAnswer = TRUE
  SinkKinds = {"db"}
  MaxClears = 0
SPECIFICATION StoredSpec
INVARIANTS
  ResumePointHeld
  NoGap
  NothingLeft
PROPERTIES
  KeepsPromise
CHECK_DEADLOCK FALSE
