CONSTANTS
  NumImages = 2
  MinImageCount = 1
  Modes = {"FIFO", "MAILBOX"}
  MaxPendingCompletions = 1
  ServerOrder = "copy"
  MaxConfigure = 1
  MayDisconnect = TRUE
  MaxPayloadFailures = 0
SPECIFICATION Spec
INVARIANT TypeOK
INVARIANT ServerNeverReadsOwnedImage
INVARIANT TokensMatchFreeImages
PROPERTY DestructorReturns
PROPERTY AcquireReturns
