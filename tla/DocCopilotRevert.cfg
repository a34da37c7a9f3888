SPECIFICATION Spec
CONSTANTS
  NWorkers = 1
  NRequests = 3
  Calls <- PlanAndCopilot
  MaxEvents = 1
INVARIANT CopilotFollowsRevert
CHECK_DEADLOCK FALSE
