SPECIFICATION InlineSpec
CONSTANTS
  a = a
  b = b
  NUL = NUL
  EOF = EOF
  Char = {a, b, NUL}
  InlineCapacity = 3
  Data <- Strings
  MaxLength = 6
INVARIANT
  EraseStaysInside
