CONSTANTS
  a = a  b = b  c = c
  Rank = {a, b, c}
  Beside <- MCBeside
  Across <- MCAcross
  nstages = 2
  Cycles = 3
  Cooldown = 1
  Dts = {1, 2}
  Nil = Nil
SPECIFICATION Spec
INVARIANTS
  TypeOK
  GhostsFresh
  TwoOutstanding
  RadiationRecent
PROPERTY Terminates
