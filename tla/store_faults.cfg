SPECIFICATION Spec
CONSTANTS
  nb_objects = 2
  object_size = 2
  start_object = 3
  CounterMod = 4
  MAX_GET_OBJECT_LOCK = 1
  FirstFd = 3
  LastFd = 7
  Faults = {"creat", "fallocate", "open", "io", "close", "crash"}
  Requests <- BoundaryRequests
  WriteBuffers <- TaggedBuffers
  dp_data <- TwoNodes
  Threads = {t1, t2}
  OtherThreads = {}
  NoThread = NoThread
  Zero = Zero
  Junk = Junk
  IsFsFlag = FALSE
SYMMETRY ThreadSymmetry
INVARIANTS
  TypeOK
  LockDiscipline
  FdAccounting
PROPERTY ImplementsBlockDevice
