CONSTANTS
  MaxThreads = 4
  Commands <- Small
  OpsPerThread = 2
  Room = 1
  MaxOps = 2
  MaxShoves = 10
SPECIFICATION Spec
INVARIANTS TypeOK IInv Overshoot Conserved PopsCountTwice StdDequeSafe TimesAll ArgsLive HangsAlone
PROPERTIES StopEnds TimingEnds
CHECK_DEADLOCK FALSE
