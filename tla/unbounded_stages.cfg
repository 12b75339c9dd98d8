CONSTANTS
  t1 = t1
  t2 = t2
  a = a
  b = b
  b0 = b0
  b1 = b1
  b2 = b2
  Threads = {t1, t2}
  Elts = {a, b}
  Buffers = {b0, b1, b2}
  Root = b0
  D = 4
  ULONG = 16
  Workload <- Random
  MaxCalls = 5
  MaxCount = 4
SPECIFICATION OpenedSpec
SYMMETRY Symmetric
INVARIANTS TypeOK MemInv ChainInv Shape NoDangling NoLeak NoUseAfterFree LoadedOlder NoCrash SizeExact
PROPERTIES PopsElements Linearizable
CHECK_DEADLOCK FALSE
