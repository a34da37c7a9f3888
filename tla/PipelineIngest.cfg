SPECIFICATION Spec
CONSTANTS
  a = a  b = b  s = s  t = t  v = v  g = g  w1 = w1  w2 = w2
  None = None
  Callers = {v, g}
  Workers = {w1, w2}
  WorkerOf <- OwnWorker
  Cases = {a, b}
  Subjects = {s, t}
  Direct <- TwoSubjects
  Population <- TwoSubjects
  PoolSize = 3
  MaxCalls = 2
  MaxFaults = 2
  MaxOutages = 0
  Ingesters = {g}
  Batches <- WholeBatch
  MaxAttempts = 2
INVARIANTS TypeOK LockedRunsExclude CompletedIsWhole CompletedIsCurrent BatchSeenWhole ReasonedMeansRun
CHECK_DEADLOCK FALSE
