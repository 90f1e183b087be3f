\* Every failure mode on: storage errors, a failing commit, a bad sub-epoch
\* summary and a disconnected pre-validation batch; two blocks without a
\* payload, for the reward walk.
CONSTANTS
  G = G  A1 = A1  A2 = A2  B1 = B1  B2 = B2  C1 = C1  X = X
  GENESIS_CHALLENGE = GENESIS_CHALLENGE
  NONE = NONE
  NoPeak = NoPeak
  PREFARM_ADDRESS = PREFARM_ADDRESS
  PREFARM_AMOUNT = 2
  Blocks <- MCBlocks
  Parent <- MCParent
  BlockHeight <- MCBlockHeight
  Difficulty <- MCDifficulty
  TxBlocks <- MCTxBlocksSparse
  Batches <- MCBatches
  Statuses <- MCStatuses
  BLOCKS_CACHE_SIZE = 1
  MaxHeight = 2
  ReadHeights = {}
  WarmupPoints = {}
  OptimisticImport = TRUE
  StoreMayFail = TRUE
  CommitMayFail = TRUE
  SesMayFail = TRUE
SPECIFICATION Spec
PROPERTY PeakWeightIncreases
INVARIANT RewardScheduleMatches
INVARIANT WithdrawalsPayEachBlockOnce
INVARIANT PoolResultsInBlockOrder
