CONSTANTS
  Sockets = {s1, s2, s3}
  Ids = {i1, i2}
  Codes = {c1, c2}
  NoSocket = NoSocket
  NoSession = NoSession
  NoId = NoId
  Timeouts = {1, 2}
  MaxTime = 2
  MaxSessions = 3
SYMMETRY Symmetry
SPECIFICATION Spec
INVARIANTS
  TypeOK
  CodesIndexed
  NoGhost
PROPERTIES
  PartnerTold
  ReceiverKept
CHECK_DEADLOCK FALSE
