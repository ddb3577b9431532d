SPECIFICATION Spec
CONSTANTS
  Requested = 3
  Cells = 4
  Value = {v1, v2}
  NoValue = NoValue
  Raw = Raw
INVARIANTS
  TypeOK
  CellsAreApart
  SizeIsSafe
  NothingLeaks
PROPERTY
  ImplementsBoundedFifo
