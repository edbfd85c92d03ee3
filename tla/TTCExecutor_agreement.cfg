SPECIFICATION TTCSpec
CONSTANTS
  a = a  b = b  c1 = c1  NoAnswer = NoAnswer  Raised = Raised
  Calls <- OneCall
  num_executions = 3
  max_concurrency = 2
  Thresholds <- OneThreshold
  Answers <- TwoAnswers
INVARIANT StopsOnAgreement
CHECK_DEADLOCK FALSE
