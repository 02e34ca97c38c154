\* /proc/stat may fail in every way; the queues hold more than a batch.
CONSTANTS
  CpuThreads = 1
  MAX_CAPACITY = 7
  MaxTick = 0
  CountResults = {"OK", "FILE_OPEN_ERROR", "FILE_READ_ERROR", "READ_NO_CPU_THR"}
  ReadResults = {"OK", "FILE_OPEN_ERROR", "FILE_READ_ERROR", "INCORRECT_NUM_CPU_USAGE"}
  SigtermSent = FALSE
  PromptStart = TRUE
  Garbage = Garbage
SPECIFICATION FairSpec
CHECK_DEADLOCK FALSE
PROPERTY WatchdogNotices
PROPERTY ReaderStops
