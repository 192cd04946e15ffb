SPECIFICATION LinkSpec
CONSTANTS
    Freqs <- AllFreqs
    Frames <- SomeFrames
    CrcInits <- SomeInits
    MaxFlips = 1
INVARIANTS
    LinkIInv
    Dewhitened
    VerdictRight
CHECK_DEADLOCK FALSE
