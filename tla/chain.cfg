SPECIFICATION OrderedSpec
CONSTANTS
  a1 = a1  a2 = a2  c1 = c1  core = core  gold = gold  k1 = k1
  t1 = t1  t2 = t2  t3 = t3  t4 = t4  t5 = t5
  None = None
  Accounts <- MCAccounts
  Contracts <- MCContracts
  AssetIds <- MCAssetIds
  CoreAsset = core
  PubKeys <- MCPubKeys
  TxIds <- MCTxIds5
  Ops <- ChainOps
  MaxOps = 1
  MaxBlocks = 4
  Pow64 = 16
  MaxSupply = 6
  MaxHeld = 6
  Rank <- MCRank
  FcIsStd = TRUE
INVARIANTS NonNegative EachTxOnce ClaimsConserved ReceiptsMatchChain
PROPERTIES GenerateBlockReturns ValidTxIncluded
CHECK_DEADLOCK FALSE
