CONSTANTS
    s1 = s1
    s2 = s2
    s3 = s3
    NoSC = NoSC
    Chain <- MCChain1
    NumImages = 2
    Modes = {"SHARED_CONTINUOUS"}
    RingSize = 2
    Deferred = FALSE
    AppThreads = 1
    MaxAllocFailures = 0
    MaxPayloadFailures = 0
SPECIFICATION Spec
PROPERTY RingPushSucceeds
