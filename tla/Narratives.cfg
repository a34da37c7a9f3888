SPECIFICATION FairSpec
CONSTANTS
  NWorkers = 2
  NRequests = 2
  Calls <- Mixed
  MaxEvents = 1
INVARIANTS TypeOK BaselineIsAgents WarmWhileServed SignalsCountOnce LabelsMatchSteps
PROPERTIES OtherTabsKept StalePlanIsTold RequestsAnswered
CHECK_DEADLOCK FALSE
