\* A pre-validation batch may fail on a block's sub-epoch summary.
CONSTANTS
  G = G  A1 = A1  A2 = A2  B1 = B1  B2 = B2  C1 = C1  X = X
  GENESIS_CHALLENGE = GENESIS_CHALLENGE
  NONE = NONE
  NoPeak = NoPeak
  PREFARM_ADDRESS = PREFARM_ADDRESS
  PREFARM_AMOUNT = 2
  Blocks <- MCBlocks
  Parent <- MCParent
  BlockHeight <- MCBlockHeight
  Difficulty <- MCDifficulty
  TxBlocks <- MCTxBlocks
  Batches <- MCConnectedBatches
  Statuses <- MCStatuses
  BLOCKS_CACHE_SIZE = 1
  MaxHeight = 2
  ReadHeights = {}
  WarmupPoints = {}
  OptimisticImport = TRUE
  StoreMayFail = TRUE
  CommitMayFail = FALSE
  SesMayFail = TRUE
SPECIFICATION Spec
PROPERTY ImplementsChainStore
