SPECIFICATION Spec
CONSTANTS
  q1 = q1
  q2 = q2
  q3 = q3
  q4 = q4
  Body = Body
  Wrap = Wrap
  None = None
  Query <- MCTwo
  Malformed = {}
  ReplySize <- MCReplySize
  Garbage <- MCGarbage
  Size = 4
  SocketBuffer = 1
  MaxTimestamps = 1
  MaxSignals = 2
PROPERTIES
  RepliesSent
  SignalServed
  MessagesReported
CHECK_DEADLOCK FALSE
