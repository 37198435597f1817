CONSTANTS
  N = 1
  Cells = 2
  loclist <- TreeOrder
  ranklist <- TwoPerRank
  Stages = 1
  Nil = Nil
SPECIFICATION Spec
PROPERTY Terminates
\* The ranks block for ever: that is what the run shows.
CHECK_DEADLOCK FALSE
