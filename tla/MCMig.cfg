SPECIFICATION Spec
CONSTANTS
  Count = 3
  IdSpace = 4
  QueryLimit = 4
  Nanoseconds = 4
  RecvTimeout = 2
  SocketBuffer = 1
  MaxReplies = 2
  MaxGap = 1
  MaxStrays = 1
  StrayId <- MCStrayId
  Uninitialized <- MCUninitialized
  None = None
INVARIANTS
  TypeOK
  PairsMatch
  LostOnlyUnread
  WritesReport
  RateLimited
PROPERTIES
  Terminates
  IsMeasurement
CHECK_DEADLOCK FALSE
