CONSTANTS
  Dims <- Grid3x2
  PeriodicDirs = {2}
  Flag = 11
  Cells <- Cells1x2
  NStages = 1
  TagUB = 1
  Nil = Nil
  Periodic <- MCPeriodic
  Sched <- MCSched
  Slot <- MCSlot
  Hash <- MCHash
  Eliminate <- MCEliminate
  Substitute <- MCSubstitute
SPECIFICATION FairSpec
INVARIANTS TypeOK Solved BufferIntact OneOutstanding
PROPERTIES ImplementsLineSolve Terminates
