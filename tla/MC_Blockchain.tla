---------------------------- MODULE MC_Blockchain ----------------------------
(***************************************************************************)
(* A block tree that reaches every fork-choice case of _reconsider_peak:   *)
(*                                                                         *)
(*        G(w1) -- A1(w2) -- A2(w3)      A2 extends A1 (fork = peak height) *)
(*          |         \                                                    *)
(*          |          X (claims height 3: INVALID_HEIGHT)                 *)
(*          +-- B1(w3) -- B2(w4)         B1 ties A2, B2 reorgs at height 2 *)
(*          +-- C1(w5)                   C1 reorgs down to height 1        *)
(*                                                                         *)
(* A2 and X carry no execution payload; the others are transaction blocks. *)
(***************************************************************************)
EXTENDS Blockchain, BlockRewards, PreValidationPool

CONSTANTS G, A1, A2, B1, B2, C1, X

MCBlocks == {G, A1, A2, B1, B2, C1, X}

MCParent == [b \in MCBlocks |->
               CASE b = G -> GENESIS_CHALLENGE
                 [] b \in {A1, B1, C1} -> G
                 [] b \in {A2, X} -> A1
                 [] b = B2 -> B1]

MCBlockHeight == [b \in MCBlocks |->
                    CASE b = G -> 0
                      [] b \in {A1, B1, C1} -> 1
                      [] b \in {A2, B2} -> 2
                      [] b = X -> 3]

MCDifficulty == [b \in MCBlocks |->
                   CASE b = B1 -> 2
                     [] b = C1 -> 4
                     [] OTHER -> 1]

MCTxBlocks == {G, A1, B1, B2, C1}

\* A1 and B1 without a payload: the reward walk from A2 and B2 passes them.
MCTxBlocksSparse == {G, A2, B2, C1}

\* batches of consecutive blocks, as a syncing peer sends them
MCConnectedBatches == {<<A1, A2>>, <<B1, B2>>}

\* plus a batch whose second block does not follow the first
MCBatches == MCConnectedBatches \cup {<<A1, B2>>}

-----------------------------------------------------------------------------
(* Block rewards over the stored chain (BlockRewards).                     *)

\* Every stored block, and every height on either side of a halving
\* boundary, is paid what the schedule of spec 4.G.1 says.  Breaks if
\* _calculate_block_reward takes a boundary inclusively or halves wrongly.
RewardScheduleMatches ==
  \A h \in BoundaryHeights \cup {BlockHeight[b] : b \in dbBlocks} :
    CalculateBlockReward(h) = RewardReference(h)

\* For every stored transaction block, create_withdrawals along its chain
\* pays each block of the chain exactly once, with consecutive withdrawal
\* indices.  Breaks if the walk stops a block too late or too early, or if
\* next_wd_index is not advanced past last_withdrawal_index.
WithdrawalsPayEachBlockOnce ==
  \A t \in dbBlocks \cap TxBlocks : PaysEachBlockOnce(t)

-----------------------------------------------------------------------------
(* The worker pool of pre-validation (PreValidationPool), over every       *)
(* batch of up to PoolMaxBlocks homogeneous blocks, every batch_size up to *)
(* PoolMaxBatchSize and every set of blocks whose validation raises.       *)

PoolMaxBlocks == 4
PoolMaxBatchSize == 3

\* A verdict that names its block and the difficulty it was checked with.
PoolVerdict == [j \in 1..PoolMaxBlocks, d \in {10 * i : i \in 1..PoolMaxBlocks} |-> <<j, d>>]

\* pre_validate_blocks_multiprocessing returns one result per block, in
\* the order of `blocks`, each computed with that block's own expected
\* difficulty, whatever the batch size and wherever validation raised.
\* receive_block pairs blocks[i] with results[i], so a batch boundary that
\* skips or repeats a block, or a difficulty list cut at the wrong offset,
\* hands a block another block's verdict.  The pool runs only once every
\* block passed the checks before it (pre-validation verdict "ok").
PoolResultsInBlockOrder ==
  preval = "ok" =>
  \A n \in 1..PoolMaxBlocks, size \in 1..PoolMaxBatchSize, k \in {"full", "header"} :
    \A raises \in [1..n -> BOOLEAN] :
      LET diffSsis == [j \in 1..n |-> 10 * j] IN
      PreValidatePool(n, size, [j \in 1..n |-> k], diffSsis, PoolVerdict, raises)
        = PoolReference(n, diffSsis, PoolVerdict, raises)

MCStatuses == {"VALID", "INVALID", "SYNCING", "UNKNOWN_STATUS"}
=============================================================================
