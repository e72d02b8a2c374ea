CONSTANTS
  PingInterval = 2
  PongTimeout = 5
  Grace = 1
  GiveUpAfter = 8
  MaxAttempts = 2
  MaxPeers = 3
  MaxOutages = 2
SPECIFICATION Spec
INVARIANTS
  TypeOK
  LossIsNoticed
  InterruptionEnds
  WaitingEnds
PROPERTIES
  NoFalseAlarm
CHECK_DEADLOCK FALSE
