CONSTANTS
  NumFiles = 2
  NumChunks = 3
  MaxAttempts = 1
  MaxConns = 1
  Encrypted = TRUE
  MaxLosses = 0
  Losses = {}
  Stalls = FALSE
  MaxUpsets = 1
  Upsets = {"fault"}
  MaxPauses = 2
  FullAt = 1
  OneAnswer = TRUE
  SinkKinds = {"disk", "db"}
  MaxClears = 1
SPECIFICATION StoredSpec
INVARIANTS
  TypeOK
  CompletedMeansVerified
  HashedInOrder
  VerifiedIsSaved
PROPERTIES
  AcceptedIsDelivered
  FollowsTable
CHECK_DEADLOCK FALSE
