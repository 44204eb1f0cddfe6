CONSTANTS
  Chunks <- MCChunks
  MaxPushes = 2
  ReadSizes <- MCReadSizes
  Threshold = 600
  Spurious = FALSE
  CallbackFirst = FALSE
  OpenFails = FALSE
  DestroyAnyTime = FALSE
SPECIFICATION Spec
CHECK_DEADLOCK FALSE
INVARIANT OneDownloadAtATime
