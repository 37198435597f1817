CONSTANTS
  N = 2
  Cells = 4
  NGHOST = 2
SPECIFICATION GhostSpec
INVARIANTS
  GhostTypeOK
  Reciprocal
  GhostAligned
  GhostProjected
  FaceProjected
\* A behaviour is one message: it ends when the message is unpacked.
CHECK_DEADLOCK FALSE
