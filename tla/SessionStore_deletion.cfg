SPECIFICATION Spec
CONSTANTS
  t1 = t1  t2 = t2  t3 = t3  goal = goal  plan = plan
  Tasks <- ThreeTasks
  Fields <- TwoFields
  Iterations <- TwoIterations
  Initial = Initial
  NoField = NoField
  NoSession = NoSession
  Limit = 1
INVARIANT DeletesAllData
CHECK_DEADLOCK FALSE
