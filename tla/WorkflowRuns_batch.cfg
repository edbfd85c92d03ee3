SPECIFICATION FairSpec
CONSTANTS
  r1 = r1  r2 = r2  r3 = r3  planner = planner  validator = validator
  Client = Client  NoStack = NoStack  END = END
  Runs <- ThreeRuns
  Nodes <- TwoNodes
  Entry = planner
  Direct <- PlanThenValidate
  Conditional <- UntilTerminal
  MaxSteps = 2

INVARIANTS IInv ReplayHasNoGaps ReturnedRunsReplay ScopesBalanced
PROPERTIES QuietAfterEnd RunsEnd
CHECK_DEADLOCK FALSE
