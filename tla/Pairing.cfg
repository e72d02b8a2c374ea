CONSTANTS
  Senders = {a1}
  Receivers = {b1}
  NoObject = NoObject
  MaxReconnects = 1
  MaxFailures = 1
  Sockets = {s1, s2, s3}
  Ids = {i1}
  Codes = {c1}
  NoSocket = NoSocket
  NoSession = NoSession
  NoId = NoId
  Timeouts = {0}
  MaxTime = 1
  MaxSessions = 2
SPECIFICATION FairSpec
INVARIANTS
  TypeOK
  OneSocket
PROPERTIES
  KeepsServerSpec
  ClosedForGood
  RequestAnswered
  SilentPeerLeaves
  ExpiredIsRemoved
CHECK_DEADLOCK FALSE
