\* Both GPU pipelines, with errors of the GPU and stopped at any moment.
SPECIFICATION GpuFairSpec
CONSTANTS
  c1 = c1
  c2 = c2
  Agc = {c1, c2}
  MaxBatches = 4
  MayStop = TRUE
INVARIANTS
  GpuIInv
  HistoryKept
  EachBatchNearItsPlace
PROPERTIES
  BatchesReachAgcIfGpuWorks
CHECK_DEADLOCK FALSE
