\* Two rounds fit the queues, and half of a third one.
CONSTANTS
  CpuThreads = 1
  MAX_CAPACITY = 5
  MaxTick = 2
  CountResults = {"OK"}
  ReadResults = {"OK"}
  SigtermSent = FALSE
  PromptStart = TRUE
  Garbage = Garbage
SPECIFICATION FairSpec
CHECK_DEADLOCK FALSE
INVARIANT FrameWhole
INVARIANT FramesAdjoin
PROPERTY ImplementsDisplay
PROPERTY DisplayCatchesUp
