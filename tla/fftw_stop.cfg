\* Stopping the program while batches are on their way.
SPECIFICATION FairSpec
CONSTANTS
  c1 = c1
  c2 = c2
  c3 = c3
  Agc = {c1, c2}
  MaxBatches = 4
  MayStop = TRUE
PROPERTIES
  StopEndsProgram
CHECK_DEADLOCK FALSE
