\* Watchdog and SIGTERM may close the program at any time.
CONSTANTS
  CpuThreads = 1
  MAX_CAPACITY = 2
  MaxTick = 0
  CountResults = {"OK"}
  ReadResults = {"OK"}
  SigtermSent = TRUE
  PromptStart = TRUE
  Garbage = Garbage
SPECIFICATION FairSpec
CHECK_DEADLOCK FALSE
PROPERTY IdleShutdown
PROPERTY CloseRequestsStick
