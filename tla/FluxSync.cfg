CONSTANTS
  N = 1
  Cells = 2
  loclist <- TreeOrder
  ranklist <- OnePerRank
  Stages = 2
  Nil = Nil
SPECIFICATION Spec
INVARIANTS
  TypeOK
  SameRiemannProblem
  OneStageApart
  NeverAllBlocked
PROPERTIES
  Terminates
  ImplementsEdgeStages
