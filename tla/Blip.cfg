CONSTANTS
  Senders = {a1}
  Receivers = {}
  NoObject = NoObject
  MaxReconnects = 1
  MaxFailures = 1
  Sockets = {s1, s2}
  Ids = {i1}
  Codes = {c1}
  NoSocket = NoSocket
  NoSession = NoSession
  NoId = NoId
  Timeouts = {1}
  MaxTime = 0
  MaxSessions = 1
SPECIFICATION FairSpec
PROPERTIES
  BlipKeepsPairing
CHECK_DEADLOCK FALSE
