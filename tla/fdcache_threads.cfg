SPECIFICATION Spec
CONSTANTS
  Threads = {t1, t2}
  nb_objects = 2
  NBMAXOBJECTS = 1
  Placed = {0, 1}
  Requests <- TwoObjectRequests
  Garbage <- ZeroedMemory
  FirstFd = 4
  LastFd = 9
  Starts = {1}
  MaxOpens = 1
  MaxMade = 1
  Faults = {}
CHECK_DEADLOCK FALSE
INVARIANT TransfersOwnObject
