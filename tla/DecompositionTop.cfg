CONSTANTS
  Forms = {"temperature"}
  nblocks = 2
  N = 3
  NGHOST = 3
  inner_x1 = "reflect"
  outer_x1 = "outflow"
  Stages = 1
  Weight <- MCWeight
  TopPressure <- MCTopPressure
  Nil = Nil
SPECIFICATION Spec
INVARIANT PressureAtTop
