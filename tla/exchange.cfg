SPECIFICATION Spec
CONSTANTS
  alice = alice  bob = bob  rita = rita  X = X  Y = Y
  buy = buy  sell1 = sell1  sell2 = sell2
  None = None
  Users <- MCUsers
  Assets <- MCAssets
  Orders <- MCOrders
  OrderOf <- MCOrderOf
  Matches <- MCMatches
  Deposits <- MCDeposits
  Withdrawals <- MCWithdrawals
  Creator = rita
  FeeReceivers <- MCReceivers
  MinFees <- MCMinFees
  FeeUnit = 2
  Pow64 = 64
  MaxNet = 3
  MaxNow = 1
INVARIANTS Solvency SpendingCovered BooksReconcile
PROPERTY CancelSticks
CHECK_DEADLOCK FALSE
