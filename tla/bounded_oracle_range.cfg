CONSTANTS
  t1 = t1
  t2 = t2
  t3 = t3
  a = a
  b = b
  Threads = {t1, t2}
  Elts = {a}
  N = 4
  ULONG = 16
  Foreign <- Garbage
  Workload <- Random
  MaxCalls = 4
  MaxCount = 8
SPECIFICATION LinSpec
SYMMETRY Symmetric
INVARIANT OracleInRange
CHECK_DEADLOCK FALSE
