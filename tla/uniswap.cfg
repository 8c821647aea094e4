SPECIFICATION Spec
CONSTANTS
  u1 = u1
  u2 = u2
  Null = Null
  Creator = u1
  Scale = 16
  Users <- TwoUsers
  Amounts = {2}
  AssetAmounts = {0, 1, 2}
  Deposits <- MixDeposits
  MinAmounts <- OneMinimum
  FeeRates = {0, 4}
  Expiries = {1}
  MaxApprovals = 0
  MaxAssetAmount = 3
  MintFactor = 2
  MaxHeld = 3
  MaxSupply = 6
  MaxHead = 1
INVARIANTS PoolUnified BooksAddUp
PROPERTIES ShareValueKept ExchangePays
CHECK_DEADLOCK FALSE
