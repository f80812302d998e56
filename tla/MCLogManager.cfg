CONSTANTS
  MaxLogFiles = 2
  MaxLogSize = 3
  MaxLogs = 4
  Packets = {TRUE, FALSE}
  Writes = {TRUE, FALSE}
  TransferUnlisted = TRUE
SPECIFICATION LogSpec
INVARIANTS
  LogTypeOK
  InventoryMatchesCard
  NoDataAnnounced
PROPERTIES
  OverwritesOnlyWhenFull
  ImplementsLogStore
