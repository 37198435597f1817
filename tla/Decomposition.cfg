CONSTANTS
  Forms = {"perturbation", "temperature"}
  nblocks = 4
  N = 3
  NGHOST = 3
  inner_x1 = "reflect"
  outer_x1 = "outflow"
  Stages = 3
  Weight <- MCWeight
  TopPressure <- MCTopPressure
  Nil = Nil
SPECIFICATION Spec
INVARIANTS
  TypeOK
  Balanced
  PressureOfStage
PROPERTY Terminates
