CONSTANTS
  t1 = t1
  t2 = t2
  a = a
  Threads = {t1, t2}
  Elts = {a}
  N = 3
  ULONG = 16
  Foreign <- Garbage
  Workload <- Random
  MaxCalls = 5
  MaxCount = 8
SPECIFICATION SoloSpec
PROPERTY SoloReturns
CHECK_DEADLOCK FALSE
