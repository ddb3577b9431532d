SPECIFICATION RootFairSpec
CONSTANTS
  Thread = {t1, t2}
  Root = root
  Sink = {root, log}
  Locking = {log}
  SinkList <- RootOnly
  CallLevel = {1, 2}
  SetLevelTo = {1, 2}
  Nobody = Nobody
  Done = Done
  MaxCalls = 1
  MaxChanges = 6
  MaxFormatters = 2
INVARIANTS
  TypeOK
  LinesWhole
  FormatterAlive
  FormattersInOrder
  LinesPerCall
  FlushedOnReturn
PROPERTIES
  RootIsALogger
  MacrosReturn
