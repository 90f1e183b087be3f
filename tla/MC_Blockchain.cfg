\* The manager with storage errors inside the transaction and crashes, but
\* a commit that succeeds and a sub-epoch summary that always parses.
CONSTANTS
  G = G  A1 = A1  A2 = A2  B1 = B1  B2 = B2  C1 = C1  X = X
  GENESIS_CHALLENGE = GENESIS_CHALLENGE
  NONE = NONE
  NoPeak = NoPeak
  PREFARM_ADDRESS = PREFARM_ADDRESS
  PREFARM_AMOUNT = 2
  Blocks <- MCBlocks
  Parent <- MCParent
  BlockHeight <- MCBlockHeight
  Difficulty <- MCDifficulty
  TxBlocks <- MCTxBlocks
  Batches <- MCConnectedBatches
  Statuses <- MCStatuses
  BLOCKS_CACHE_SIZE = 1
  MaxHeight = 2
  ReadHeights = {0, 1, 2}
  WarmupPoints = {0, 1, 2}
  OptimisticImport = TRUE
  StoreMayFail = TRUE
  CommitMayFail = FALSE
  SesMayFail = FALSE
SPECIFICATION Spec
INVARIANT TypeOK
INVARIANT HeightMapConsistent
PROPERTY ImplementsChainStore
INVARIANT CacheHoldsRecentChain
PROPERTY PeakFollowedByEngine
