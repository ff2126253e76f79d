SPECIFICATION FairSpec
CONSTANTS
  ThreadsA = {a1}
  ThreadsB = {b1}
  nb_objects = 1
  object_size = 1
  start_object = 1
  CounterMod = 2
  dp_data <- OneNode
  NoThread = NoThread
  Zero = Zero
  Junk = Junk
  Requests <- LunRequests
  WriteBuffers <- ThreadBuffers
  IsFsFlag = FALSE
  MAX_GET_OBJECT_LOCK = 1
  FirstFd = 3
  LastFd = 7
  Faults = {"fallocate", "open", "io", "close", "crash"}
INVARIANT OwnDescriptors
PROPERTY LunsImplementDevices
PROPERTY EveryLunCallReturns
