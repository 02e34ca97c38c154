\* The clock ticks in quarters of a second; seven rounds fit the queues.
CONSTANTS
  CpuThreads = 1
  MAX_CAPACITY = 14
  MaxTick = 0
  CountResults = {"OK"}
  ReadResults = {"OK", "FILE_READ_ERROR"}
  SigtermSent = FALSE
  PromptStart = TRUE
  Garbage = Garbage
  ReaderNap = 4
  WatchdogNap = 8
  ReadTimes = {0, 1, 3}
  PrintTimes = {0, 2, 11, 20}
SPECIFICATION TimedSpec
CHECK_DEADLOCK FALSE
INVARIANT HealthyStaysOpen
INVARIANT SilenceNoticed
INVARIANT PileUpBounded
INVARIANT BatchFitsInTime
