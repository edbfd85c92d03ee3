SPECIFICATION ExecutorsSpec
CONSTANTS
  w1 = w1  w2 = w2  u1 = u1  e1 = e1  e2 = e2  NoOne = NoOne
  Callers <- TwoWriters
  Uuids <- OneUuid
  Batches <- TwoBatches
  MaxRetries = 2
  OtherWriters = TRUE
  a = a  b = b  NoAnswer = NoAnswer  Raised = Raised  c1 = c1  c2 = c2
  Calls <- TwoCalls
  num_executions = 3
  max_concurrency = 2
  Thresholds <- SomeThresholds
  Answers <- TwoAnswers
  Threshold = 2
  MaxEvents = 4
  Kinds <- SomeKinds
INVARIANTS ReturnedCallsAreQuiet SelectedByPlurality
  EventsConserved TrajectoriesAgree
PROPERTIES ImplementsLog CallsEnd ExecuteEnds DeliveredIsSettled
CHECK_DEADLOCK FALSE
