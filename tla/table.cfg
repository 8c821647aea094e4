SPECIFICATION Spec
CONSTANTS
  Values = {1, 2}
  Keys <- MCKeys
  Orders <- MCOrders
  MaxLen = 4
  MaxItems = 1
  StrLess <- MCLess
INVARIANTS ReflectsWrites PairsSeesEachOnce SortSorts
CHECK_DEADLOCK FALSE
