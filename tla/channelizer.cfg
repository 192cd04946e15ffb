CONSTANTS
    M = 4
    SubLen = 4
    Batch = 8
    Transfers <- SomeTransfers
    Centers <- SomeCenters
    MaxSteps = 18
SPECIFICATION Spec
INVARIANTS
    IInv
    CpuConvolves
    GpuConvolves
    ThreadsMatchBins
CHECK_DEADLOCK FALSE
