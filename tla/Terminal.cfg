CONSTANTS
  NumFiles = 1
  NumChunks = 1
  MaxAttempts = 1
  MaxConns = 1
  Encrypted = FALSE
  MaxLosses = 0
  Losses = {}
  Stalls = FALSE
  MaxUpsets = 1
  Upsets = {"receiver-drops"}
  MaxPauses = 0
  FullAt = 9
  OneAnswer = TRUE
SPECIFICATION Spec
PROPERTIES
  TerminalStays
CHECK_DEADLOCK FALSE
