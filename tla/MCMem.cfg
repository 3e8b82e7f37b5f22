SPECIFICATION Spec
CONSTANTS
  Alloc <- MCAlloc
  Period = 2
  MaxStep = 1
  None = None
INVARIANTS
  TypeOK
  ExtremesWritten
  LossBounded
PROPERTIES
  SignalServed
  StopsEnd
CHECK_DEADLOCK FALSE
