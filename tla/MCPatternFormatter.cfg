SPECIFICATION Spec
CONSTANTS
  NUL = "NUL"
  Char <- Chars
  InlineCapacity = 5
  Space = " "
  Reset <- Off
  Digit <- Digits
  MaxWidth = 6
  SizeMod = 65536
  DefaultPattern <- Blanks
  Constructions <- Constructed
  NewItemLists <- Few
  Customs = {"n"}
  LevelText <- Names
  TimeText <- Times
  TimeArray = 5
  UnknownText <- Unknown
  CustomText <- Custom
  Elapsed = {7, 10}
  LoggerName <- Name
  Stamps <- Now
  Calls <- Made
  Messages <- Given
  Colors <- Shades
  MaxOps = 3
INVARIANTS
  CompiledAsMeant
  CloneIsAlike
  FieldWidths
  LineShowsMessage
