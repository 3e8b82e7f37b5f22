SPECIFICATION Spec
CONSTANTS
  FitPoints = 3
  AnyRate <- MCAnyRate
  Arguments <- MCArguments
  Unreadable = Unreadable
  None = None
INVARIANTS
  CountsExact
  RatesAccounted
  LatencyBinned
  InAirExact
  NothingBeforeStart
  RatesAgree
CHECK_DEADLOCK FALSE
