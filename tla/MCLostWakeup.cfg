\* A healthy machine, and a SIGTERM once the program runs.
CONSTANTS
  CpuThreads = 1
  MAX_CAPACITY = 2
  MaxTick = 0
  CountResults = {"OK"}
  ReadResults = {"OK"}
  SigtermSent = TRUE
  PromptStart = TRUE
  Garbage = Garbage
SPECIFICATION FairSpec
CHECK_DEADLOCK FALSE
PROPERTY SigtermEndsProgram
