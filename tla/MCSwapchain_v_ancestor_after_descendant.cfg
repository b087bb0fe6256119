CONSTANTS
    s1 = s1
    s2 = s2
    s3 = s3
    NoSC = NoSC
    Chain <- MCChain2
    NumImages = 3
    Modes = {"FIFO"}
    RingSize = 3
    Deferred = FALSE
    AppThreads = 1
    MaxAllocFailures = 0
    MaxPayloadFailures = 0
SPECIFICATION Spec
CHECK_DEADLOCK FALSE
PROPERTY TeardownTerminates
