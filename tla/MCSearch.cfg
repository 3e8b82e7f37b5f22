SPECIFICATION SearchSpec
CONSTANTS
  Limits <- MCLimits
  Capacities <- MCCapacities
  Noise = 12
  ClientRates <- MCClientRates
  Unknown <- MCUnknown
INVARIANT TestsInside
PROPERTY SearchEnds
