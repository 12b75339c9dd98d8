CONSTANTS
  t1 = t1
  t2 = t2
  a = a
  b0 = b0
  b1 = b1
  b2 = b2
  Threads = {t1, t2}
  Elts = {a}
  Buffers = {b0, b1, b2}
  Root = b0
  D = 4
  ULONG = 16
  Workload <- Random
  MaxCalls = 6
  MaxCount = 6
SPECIFICATION StackSpec
PROPERTY PopsElements
CHECK_DEADLOCK FALSE
