SPECIFICATION Spec
CONSTANTS
  nb_objects = 2
  object_size = 2
  start_object = 3
  CounterMod = 4
  MAX_GET_OBJECT_LOCK = 2
  FirstFd = 4
  LastFd = 8
  Faults = {}
  Requests <- AllRequests
  WriteBuffers <- AddressBuffers
  dp_data <- TwoNodes
  Threads = {t1}
  OtherThreads = {}
  NoThread = NoThread
  Zero = Zero
  Junk = Junk
  IsFsFlag = FALSE
INVARIANT InRangeSucceeds
