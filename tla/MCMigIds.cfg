SPECIFICATION Spec
CONSTANTS
  Count = 3
  IdSpace = 2
  QueryLimit = 0
  Nanoseconds = 4
  RecvTimeout = 2
  SocketBuffer = 1
  MaxReplies = 2
  MaxGap = 2
  MaxStrays = 0
  StrayId <- MCStrayId
  Uninitialized <- MCUninitialized
  None = None
INVARIANT OnlySentAnswered
CHECK_DEADLOCK FALSE
