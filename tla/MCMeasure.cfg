\* Two CPUs, three passes (the first has nothing to compare with).
CONSTANTS
  Width = 4
  Cpus = {0, 1}
  Columns = {4, 10}
  BusyCounters = {"user", "irq"}
  Moves <- MCMoves
  Origins <- MCOrigins
  Cut = 2
  Rests <- MCRests
  MaxPass = 3
SPECIFICATION Spec
CHECK_DEADLOCK FALSE
INVARIANT RowPerCpu
INVARIANT ReadingExact
INVARIANT FiguresTrue
INVARIANT BarsFit
