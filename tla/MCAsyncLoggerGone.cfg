SPECIFICATION FairSpec
CONSTANTS
  Client = {c1}
  Owner = owner
  Worker = {w1, w2}
  file = file
  console = console
  Sink = {file, console}
  SinkList <- OneSink
  Level = {2}
  LoggerLevel = 1
  SinkLevel <- ConsoleIsQuiet
  Capacity = 2
  NoMsg = NoMsg
  SetLevelTo = {1, 3}
  MaxSets = 1
  MaxCalls = 2
INVARIANT
  LoggerOutlivesMessages
