CONSTANTS
    s1 = s1
    s2 = s2
    s3 = s3
    NoSC = NoSC
    Chain <- MCChain1
    NumImages = 2
    Modes = {"FIFO", "SHARED_DEMAND", "SHARED_CONTINUOUS"}
    RingSize = 2
    Deferred = TRUE
    AppThreads = 1
    MaxAllocFailures = 1
    MaxPayloadFailures = 1
SPECIFICATION Spec
INVARIANT TokenBackedByImage
PROPERTY TeardownTerminates
PROPERTY ImplementsImageOwnership
