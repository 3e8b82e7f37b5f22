SPECIFICATION Spec
CONSTANTS
  w1 = w1  w2 = w2
  Worker <- MCWorker
  Clients = 3
  MaxConns = 4
  MaxRequests = 3
  MaxDuplicates = 1
  None = None
INVARIANTS
  TypeOK
  PoolKept
  DuplicateCostsOneRequest
PROPERTIES
  ClientsServed
CHECK_DEADLOCK FALSE
