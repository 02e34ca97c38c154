\* SIGTERM and the sleeps may beat the start-up of any thread.
CONSTANTS
  CpuThreads = 1
  MAX_CAPACITY = 2
  MaxTick = 0
  CountResults = {"OK"}
  ReadResults = {"OK"}
  SigtermSent = TRUE
  PromptStart = FALSE
  Garbage = Garbage
SPECIFICATION Spec
CHECK_DEADLOCK FALSE
INVARIANT TypeOK
INVARIANT MutualExclusion
INVARIANT NoMissedWakeup
INVARIANT BarrierPublishesThreadsNum
INVARIANT NoOrphanedLock
INVARIANT StopsOnlyWhenAsked
INVARIANT TeardownQuiet
