CONSTANTS
  Chunks <- MCSmallChunks
  MaxPushes = 2
  ReadSizes <- MCReadSizes
  Threshold = 600
  Spurious = FALSE
  CallbackFirst = FALSE
  OpenFails = FALSE
  DestroyAnyTime = FALSE
SPECIFICATION Spec
INVARIANT PlaysStreamInOrder
CHECK_DEADLOCK FALSE
