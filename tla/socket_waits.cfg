SPECIFICATION FairSpec
CONSTANTS
  Threads = {t1, t2}
  Calls <- AllCalls
  IntBits = 12
  FirstFd = 3
  LastFd = 4
  Faults = {"epoll_create", "epoll_ctl", "wait", "getsockopt"}
INVARIANTS
  SuccessMeansConnected
  ErrorExplained
  EpollReleased
PROPERTY WaitsEnd
