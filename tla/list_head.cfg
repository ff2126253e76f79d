SPECIFICATION FairSpec
CONSTANTS
  Heads = {h1, h2}
  Entries = {e1, e2, e3, e4}
  NULL = NULL
INVARIANTS
  RingsConsistent
  LoopOnList
PROPERTY ImplementsLists
PROPERTY LoopsFinish
