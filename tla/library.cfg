SPECIFICATION LibrarySpec
CONSTANTS
  MaxDepth = 100
  StackLimit = 100
  LoadsNegative = TRUE
  Reserved <- MCReserved
  MaxCaptures = 32
  MaxCCalls = 200
  MaxReps = 100000
  HalfBits = 4
  Places = 2
  TextLimit = 8
  BigBits = 6
  IntBits = 5
  PowLimit = 10
  ConvertLimit = 20
  DivForked = TRUE
  ByteValues = 16
  NameSize = 4
  ArgTypes = {1, 2}
  Base = 4
  IntValues = 16
  LongValues = 64
  KeyOrder <- MCKeyOrder
  Values <- AllValues
  NoChange = NoChange
  Calls <- MCCalls
  NoCall = NoCall
INVARIANTS ReadsBack SearchesAgree ArithmeticExact DiffReconstructs
CHECK_DEADLOCK FALSE
