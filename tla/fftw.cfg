\* The FFTW pipeline, stopped at any moment.
SPECIFICATION FairSpec
CONSTANTS
  c1 = c1
  c2 = c2
  c3 = c3
  Agc = {c1, c2, c3}
  MaxBatches = 4
  MayStop = TRUE
INVARIANTS
  IInv
  EveryBatchOnce
  NothingLost
PROPERTIES
  GivenBackWhenDone
  BatchesReachAgc
CHECK_DEADLOCK FALSE
