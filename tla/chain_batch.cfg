SPECIFICATION OrderedSpec
CONSTANTS
  a1 = a1  a2 = a2  c1 = c1  core = core  gold = gold  k1 = k1
  t1 = t1  t2 = t2  t3 = t3  t4 = t4  t5 = t5
  None = None
  Accounts <- MCAccounts
  Contracts <- MCContracts
  AssetIds <- MCAssetIds2
  CoreAsset = core
  PubKeys <- MCPubKeys
  TxIds <- MCTxIds4
  Ops <- BatchOps
  MaxOps = 2
  MaxBlocks = 4
  Pow64 = 16
  MaxSupply = 2
  MaxHeld = 4
  Rank <- MCRank
  FcIsStd = FALSE
INVARIANT Solvency
CHECK_DEADLOCK FALSE
