SPECIFICATION Spec
CONSTANTS
    adv = adv
    a = a
    b = b
    c = c
    spec = spec
    other = other
    MaxConnections = 2
    AAs <- SomeAAs
    AdvAA = adv
    Inits <- SomeInits
    AdvInit = spec
    BurstLens <- SomeBurstLens
    Silences <- SomeSilences
    HeaderLens <- SomeHeaderLens
    BitStarts <- SomeBitStarts
    MaxTime = 3
SYMMETRY Connections
INVARIANTS
    IInv
    LeastRecentForgotten
    InsideBurst
