SPECIFICATION Spec
CONSTANTS
  Cells = 5
  Value = {a, b, c}
  Raw = Raw
INVARIANTS
  TypeOK
  CellsExact
PROPERTY
  ImplementsDropOldestQueue
CHECK_DEADLOCK FALSE
