CONSTANTS
  Chunks <- MCChunks
  MaxPushes = 2
  ReadSizes <- MCReadSizes
  Threshold = 600
  Spurious = FALSE
  CallbackFirst = FALSE
  OpenFails = TRUE
  DestroyAnyTime = FALSE
SPECIFICATION Spec
INVARIANT TypeOK
 
INVARIANT PlaysStreamInOrder
INVARIANT DestroyReleasesAll
PROPERTY FifoRefinement
CHECK_DEADLOCK FALSE
