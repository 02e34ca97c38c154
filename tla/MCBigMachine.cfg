\* The queues do not hold one round.
CONSTANTS
  CpuThreads = 2
  MAX_CAPACITY = 2
  MaxTick = 0
  CountResults = {"OK"}
  ReadResults = {"OK"}
  SigtermSent = FALSE
  PromptStart = TRUE
  Garbage = Garbage
SPECIFICATION Spec
CHECK_DEADLOCK FALSE
INVARIANT FrameWhole
