SPECIFICATION Spec
CONSTANTS
  a = a  b = b  s = s  t = t  v = v  g = g  w1 = w1  w2 = w2
  None = None
  Callers = {v, g}
  Workers = {w1, w2}
  WorkerOf <- OwnWorker
  Cases = {a}
  Subjects = {s}
  Direct <- OwnSubject
  Population <- OwnSubject
  PoolSize = 3
  MaxCalls = 3
  MaxFaults = 0
  MaxOutages = 1
  Ingesters = {g}
  Batches <- Singles
  MaxAttempts = 2
PROPERTIES NextTriggerReruns
CHECK_DEADLOCK FALSE
