SPECIFICATION FairSpec
CONSTANTS
  Client = {c1, c2}
  Owner = owner
  Worker = {w1, w2}
  file = file
  console = console
  Sink = {file, console}
  SinkList <- TwoSinks
  Level = {2}
  LoggerLevel = 1
  SinkLevel <- ConsoleIsQuiet
  Capacity = 2
  NoMsg = NoMsg
  SetLevelTo = {1, 3}
  MaxSets = 1
  MaxCalls = 1
INVARIANTS
  TypeOK
  SinkOutlivesMessages
  PoolOutlivesPosts
  AllSinksOrNone
  EverythingSettled
  WrittenOnce
PROPERTY
  PoolIsDestroyed
