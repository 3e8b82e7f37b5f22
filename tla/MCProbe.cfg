SPECIFICATION Spec
CONSTANTS
  Count = 2
  IdSpace = 4
  QueryLimit = 0
  Nanoseconds = 4
  RecvTimeout = 1
  MaxReplies = 2
  MaxGap = 1
  Uninitialized <- MCUninitialized
  ReplySize <- MCReplySize
  Size = 5
  MaxTimestamps = 0
  MaxSignals = 1
  Body = Body
  Wrap = Wrap
  Garbage <- MCGarbage
  SocketBuffer = 1
  None = None
  MaxLost = 1
INVARIANTS
  CountsAgree
  LossIsReal
CHECK_DEADLOCK FALSE
