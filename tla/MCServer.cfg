SPECIFICATION Spec
CONSTANTS
  q1 = q1
  q2 = q2
  q3 = q3
  q4 = q4
  Body = Body
  Wrap = Wrap
  None = None
  Query <- MCQuery
  Malformed <- MCMalformed
  ReplySize <- MCReplySize
  Garbage <- MCGarbage
  Size = 6
  SocketBuffer = 1
  MaxTimestamps = 1
  MaxSignals = 1
INVARIANTS
  TypeOK
  RepliesInOrder
  NothingSleptThrough
  EventsAccounted
CHECK_DEADLOCK FALSE
