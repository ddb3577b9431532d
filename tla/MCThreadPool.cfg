SPECIFICATION FairSpec
CONSTANTS
  Cells = 3
  Raw = Raw
  Producers = {p1, p2}
  NumWorkers = 2
  Sinks = {file}
  NoSink = NoSink
  NoMsg = NoMsg
  Free = Free
  MaxPosts = 2
  MaxSpurious = 1
INVARIANTS
  OneFate
  QueueIsNewest
  OvertakesFew
  BacklogIsCovered
  NoMissedStop
  DrainedWhenJoined
  CopyIsOldest
  IInv
PROPERTIES
  ImplementsAsyncDelivery
  EveryPostSettles
  DestructionEnds
