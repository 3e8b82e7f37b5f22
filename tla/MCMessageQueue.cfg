SPECIFICATION Spec
CONSTANTS
  a = a
  b = b
  c = c
  Body = Body
  Wrap = Wrap
  None = None
  Size = 8
  Message <- MCMessage
  RecordSize <- MCRecordSize
  Garbage <- MCGarbage
INVARIANTS
  EmptyWhenDrained
  RefusesOnlyNearFull

PROPERTY IsFifo
