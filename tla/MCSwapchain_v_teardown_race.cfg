CONSTANTS
    s1 = s1
    s2 = s2
    s3 = s3
    NoSC = NoSC
    Chain <- MCChain2
    NumImages = 2
    Modes = {"FIFO"}
    RingSize = 2
    Deferred = FALSE
    AppThreads = 2
    MaxAllocFailures = 0
    MaxPayloadFailures = 0
SPECIFICATION Spec
INVARIANT NoUseOfDestroyedSwapchain
