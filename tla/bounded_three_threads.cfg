CONSTANTS
  t1 = t1
  t2 = t2
  t3 = t3
  a = a
  b = b
  Threads = {t1, t2, t3}
  Elts = {a}
  N = 3
  ULONG = 8
  Foreign <- Garbage
  Workload <- RightStack
  MaxCalls = 4
  MaxCount = 8
SPECIFICATION LinSpec
SYMMETRY Symmetric
INVARIANTS Inv HintExact SizeExact
PROPERTY LinearizableButEmpty
CHECK_DEADLOCK FALSE
