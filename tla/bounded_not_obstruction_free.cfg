CONSTANTS
  t1 = t1
  t2 = t2
  a = a
  Threads = {t1, t2}
  Elts = {a}
  N = 4
  ULONG = 16
  Foreign <- Garbage
  Workload <- Random
  MaxCalls = 3
  MaxCount = 8
SPECIFICATION SoloSpec
PROPERTY ObstructionFree
CHECK_DEADLOCK FALSE
