SPECIFICATION FairSpec
CONSTANTS
  nb_objects = 2
  object_size = 2
  start_object = 3
  CounterMod = 4
  MAX_GET_OBJECT_LOCK = 2
  FirstFd = 4
  LastFd = 7
  Faults = {}
  Requests <- MixedRequests
  WriteBuffers <- TaggedBuffers
  dp_data <- TwoNodes
  Threads = {t1, t2}
  OtherThreads = {}
  NoThread = NoThread
  Zero = Zero
  Junk = Junk
  IsFsFlag = FALSE
INVARIANTS
  CreatedOnce
  FixedSizeObjects
  NoSpuriousError
  UnformattedIsEmpty
PROPERTY EveryCallReturns
