SPECIFICATION FairSpec
CONSTANTS
  a = a  b = b  s = s  t = t  v = v  g = g  w1 = w1  w2 = w2
  None = None
  Callers = {v, g}
  Workers = {w1}
  WorkerOf <- OneWorker
  Cases = {a}
  Subjects = {s}
  Direct <- OwnSubject
  Population <- OwnSubject
  PoolSize = 2
  MaxCalls = 2
  MaxFaults = 1
  MaxOutages = 1
  Ingesters = {g}
  Batches <- Singles
  MaxAttempts = 2
PROPERTIES CallsEnd
CHECK_DEADLOCK FALSE
