CONSTANTS
  NumImages = 2
  MinImageCount = 1
  Modes = {"FIFO"}
  MaxPendingCompletions = 1
  ServerOrder = "copy"
  MaxConfigure = 0
  MayDisconnect = FALSE
  MaxPayloadFailures = 0
SPECIFICATION Spec
INVARIANT DestructorJoinsEventThread
CHECK_DEADLOCK FALSE
