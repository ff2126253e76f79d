SPECIFICATION Spec
CONSTANTS
  nb_objects = 3
  object_size = 2
  start_object = 3
  CounterMod = 4
  MAX_GET_OBJECT_LOCK = 2
  FirstFd = 4
  LastFd = 6
  Faults = {"stat", "io"}
  Requests <- AllRequests
  WriteBuffers <- AddressBuffers
  dp_data <- FirstNodeOnly
  Threads = {t1}
  OtherThreads = {}
  NoThread = NoThread
  Zero = Zero
  Junk = Junk
  IsFsFlag = FALSE
INVARIANTS
  CursorInv
PROPERTY ImplementsBlockDevice
