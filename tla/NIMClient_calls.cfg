SPECIFICATION FairSpec
CONSTANTS
  c1 = c1  c2 = c2  c3 = c3
  Callers <- ThreeCallers
  MaxConcurrent = 1
  Capacity = 1
  Cost = 1
  MaxAttempts = 2
  MaxContinuations = 1
INVARIANTS PermitsConserved ThroughputBound RequestsBounded
PROPERTIES InvokesEnd
CHECK_DEADLOCK FALSE
