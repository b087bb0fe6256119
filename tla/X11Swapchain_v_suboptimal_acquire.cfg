CONSTANTS
  NumImages = 2
  MinImageCount = 1
  Modes = {"FIFO"}
  MaxPendingCompletions = 1
  ServerOrder = "copy"
  MaxConfigure = 1
  MayDisconnect = FALSE
  MaxPayloadFailures = 0
SPECIFICATION Spec
INVARIANT AcquireSuccessYieldsImage
CHECK_DEADLOCK FALSE
