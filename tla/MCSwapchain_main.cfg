CONSTANTS
    s1 = s1
    s2 = s2
    s3 = s3
    NoSC = NoSC
    Chain <- MCChain2
    NumImages = 2
    Modes = {"FIFO", "SHARED_DEMAND", "SHARED_CONTINUOUS"}
    RingSize = 2
    Deferred = TRUE
    AppThreads = 1
    MaxAllocFailures = 0
    MaxPayloadFailures = 0
SPECIFICATION Spec
INVARIANT TypeOK
INVARIANT TokenBackedByImage
INVARIANT NoUseOfDestroyedSwapchain
INVARIANT AncestorAtMostOneInFlight
PROPERTY TeardownTerminates
PROPERTY PendingEventuallyReleased
PROPERTY ImplementsImageOwnership
