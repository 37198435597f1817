CONSTANTS
  Dims <- Blocks3x2x2
  PeriodicDirs = {1, 3}
  loc <- ZOrder
  Nil = Nil
SPECIFICATION Spec
INVARIANTS
  TypeOK
  ColorsAreGroups
  StackedBottomUp
