SPECIFICATION SeenSpec
CONSTANTS
  t1 = t1
  t2 = t2
  Threads = {t1, t2}
  Capacity = 2
  blocksize = 512
  Bits = {1}
  Junk = Junk
  IsFsFlag = TRUE
  Commands <- AllCommands
  ThinProvisioning = TRUE
  MallocResults = {TRUE, FALSE}
  CachingPages = {TRUE, FALSE}
INVARIANTS UsesOnlyMetBlocks ScsiTypeOK CommandEffect OnlyItsBlocks ComparesExistingData
PROPERTY EveryCommandAnswered
