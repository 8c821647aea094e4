SPECIFICATION Spec
CONSTANTS
  Slots <- MCSlots
  FastNames = {"f"}
  Declared <- MCDeclared
  KeyOrder <- MCKeyOrder
  HeadBlock = 1
  StorageGas = 1
  Contracts = {"c1", "c2"}
  User = "u"
  Payees = {"u"}
  Keys = {"k"}
  SetValues <- MCSetValues
  ItemValues <- MCItemValues
  InitStores <- MCInit
  Kinds = {"invoke", "create"}
  GasLimit = 6
  ApiGas = 1
  MaxDepth = 3
INVARIANTS ReadYourWrites CommittedIsLastWritten SuccessIsClean MoneyConserved
CHECK_DEADLOCK FALSE
