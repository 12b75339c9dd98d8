CONSTANTS
  t1 = t1
  t2 = t2
  t3 = t3
  Threads = {t1, t2, t3}
  NIL = NIL
  W = 4
SPECIFICATION Spec
INVARIANTS MutualExclusion LockInv
PROPERTIES IsMutex IsFair Progress TurnComes
