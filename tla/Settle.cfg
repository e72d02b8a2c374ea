CONSTANTS
  NumFiles = 1
  NumChunks = 1
  MaxAttempts = 1
  MaxConns = 2
  Encrypted = FALSE
  MaxLosses = 1
  Losses = {"break"}
  Stalls = TRUE
  MaxUpsets = 1
  Upsets = {"sender-drops", "receiver-drops", "expires", "refuses", "fault", "cancel", "leaves"}
  MaxPauses = 0
  FullAt = 9
  OneAnswer = TRUE
SPECIFICATION FairSpec
PROPERTIES
  InterruptedSettles
  CancelIsFinal
  KeepsPromise
CHECK_DEADLOCK FALSE
