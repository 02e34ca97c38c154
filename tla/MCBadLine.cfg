\* A line of /proc/stat has more than ten counters.
CONSTANTS
  CpuThreads = 1
  MAX_CAPACITY = 2
  MaxTick = 0
  CountResults = {"OK"}
  ReadResults = {"OK", "INCORRECT_NUM_CPU_USAGE"}
  SigtermSent = FALSE
  PromptStart = TRUE
  Garbage = Garbage
SPECIFICATION Spec
CHECK_DEADLOCK FALSE
INVARIANT NoOrphanedLock
