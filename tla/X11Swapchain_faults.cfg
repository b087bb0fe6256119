CONSTANTS
  NumImages = 2
  MinImageCount = 1
  Modes = {"FIFO", "MAILBOX"}
  MaxPendingCompletions = 1
  ServerOrder = "any"
  MaxConfigure = 1
  MayDisconnect = TRUE
  MaxPayloadFailures = 1
SPECIFICATION Spec
INVARIANT ServerNeverReadsOwnedImage
INVARIANT TokensMatchFreeImages
CHECK_DEADLOCK FALSE
