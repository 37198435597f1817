CONSTANTS
  Rank = {0, 1, 2, 3}
  Plane <- MCPlane
  Diags <- MCDiags
  Due <- MCDue
  Cycles = 5
  Starts = {0, 1}
  Nil = Nil
SPECIFICATION Spec
INVARIANTS TypeOK AverageRight NeverAllBlocked
PROPERTIES Terminates
