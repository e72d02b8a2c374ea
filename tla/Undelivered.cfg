CONSTANTS
  NumFiles = 1
  NumChunks = 1
  MaxAttempts = 1
  MaxConns = 2
  Encrypted = FALSE
  MaxLosses = 1
  Losses = {"break"}
  Stalls = FALSE
  MaxUpsets = 0
  Upsets = {}
  MaxPauses = 0
  FullAt = 9
  OneAnswer = TRUE
SPECIFICATION FairSpec
PROPERTIES
  CompletedIsDelivered
CHECK_DEADLOCK FALSE
