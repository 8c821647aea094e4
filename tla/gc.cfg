SPECIFICATION Spec
CONSTANTS
  Align = 2
  MaxSmall = 4
  BlockSize = 8
  MaxTotal = 18
  MaxPool = 1
  MaxShort = 3
  StringSize = 3
  GrowLimit = 5
  MinArray = 2
  HashBits = 24
  Texts <- MCTexts
  Sizes = {1, 3, 10}
  MaxHeld = 2
  MaxKept = 2
  MaxVector = 2
INVARIANTS HeapSound StringIsText
CHECK_DEADLOCK FALSE
