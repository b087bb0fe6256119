CONSTANTS
  NumImages = 2
  MinImageCount = 1
  Modes = {"FIFO"}
  MaxPendingCompletions = 1
  ServerOrder = "copy"
  MaxConfigure = 0
  MayDisconnect = FALSE
  MaxPayloadFailures = 1
SPECIFICATION Spec
PROPERTY AcquireReturns
CHECK_DEADLOCK FALSE
