CONSTANTS
  MaxLogFiles = 2
  MaxLogSize = 2
  MaxLogs = 3
  Packets = {FALSE}
  Writes = {TRUE}
  TransferUnlisted = FALSE
  Provider = "aws"
  MaxLate = 1
SPECIFICATION Spec
INVARIANTS
  UploadTypeOK
  OpenLogNotListed
  ObjectsWhole
PROPERTY UploadedBeforeRemoved
