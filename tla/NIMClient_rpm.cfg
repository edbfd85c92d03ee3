SPECIFICATION Spec
CONSTANTS
  c1 = c1  c2 = c2  c3 = c3
  Callers <- TwoCallers
  MaxConcurrent = 2
  Capacity = 1
  Cost = 2
  MaxAttempts = 2
  MaxContinuations = 1
INVARIANT WithinRPM
CHECK_DEADLOCK FALSE
