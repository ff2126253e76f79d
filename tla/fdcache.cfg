SPECIFICATION Spec
CONSTANTS
  Threads = {t1}
  nb_objects = 4
  NBMAXOBJECTS = 2
  Placed = {0, 1, 2}
  Requests <- SpanRequests
  Garbage <- Memory
  FirstFd = 4
  LastFd = 7
  Starts = {1}
  MaxOpens = 2
  MaxMade = 2
  Faults = {"stat", "creat", "fallocate", "open", "io", "close"}
CHECK_DEADLOCK FALSE
INVARIANTS
  CacheTypeOK
  TransfersOwnObject
  WritesReachObject
  NoDescriptorLost
