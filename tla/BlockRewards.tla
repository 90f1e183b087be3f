----------------------------- MODULE BlockRewards -----------------------------
(***************************************************************************)
(* create_withdrawals and _calculate_block_reward (block_rewards.py): the  *)
(* withdrawals the execution client is asked to pay after a transaction    *)
(* block.  They pay the prefarm once after genesis and each block's        *)
(* coinbase its reward, walking back from the transaction block to the     *)
(* previous one.  A coinbase address is modelled by the block it pays.     *)
(***************************************************************************)
EXTENDS BlockTree, Sequences, FiniteSets

CONSTANTS
  PREFARM_ADDRESS,    \* constants.PREFARM_ADDRESS
  PREFARM_AMOUNT      \* constants.PREFARM_AMOUNT, in whole coins

\* _corpochain_to_gwei and _blocks_per_year
CorpochainToGwei == 1000000000
BlocksPerYear == 4608 * 2 * 365

\* WithdrawalV1(index, validator_index, address, amount)
Withdrawal(idx, kind, addr, amt) ==
  [index |-> idx, validator |-> kind, address |-> addr, amount |-> amt]

\* A mutant: the halving boundaries taken inclusively.
CalculateBlockRewardInclusive(height) ==
  CASE height <= 3 * BlocksPerYear -> 2 * CorpochainToGwei
    [] height <= 6 * BlocksPerYear -> CorpochainToGwei
    [] height <= 9 * BlocksPerYear -> CorpochainToGwei \div 2
    [] height <= 12 * BlocksPerYear -> CorpochainToGwei \div 4
    [] height <= 15 * BlocksPerYear -> CorpochainToGwei \div 8
    [] OTHER -> 0

\* _calculate_block_reward; uint64(0.5 * 10^9) and the like are exact.
CalculateBlockReward(height) ==
  CASE height < 3 * BlocksPerYear -> 2 * CorpochainToGwei
    [] height < 6 * BlocksPerYear -> CorpochainToGwei
    [] height < 9 * BlocksPerYear -> CorpochainToGwei \div 2
    [] height < 12 * BlocksPerYear -> CorpochainToGwei \div 4
    [] height < 15 * BlocksPerYear -> CorpochainToGwei \div 8
    [] OTHER -> 0

\* A mutant of the walk: the transaction-block test made after the parent
\* is paid, so the previous transaction block is paid a second time.
RECURSIVE RewardWalkPastTx(_, _)
RewardWalkPastTx(curr, idx) ==
  <<Withdrawal(idx, 1, curr, CalculateBlockReward(BlockHeight[curr]))>>
  \o IF Parent[curr] = GENESIS_CHALLENGE THEN <<>>
     ELSE IF Parent[curr] \in TxBlocks
            THEN <<Withdrawal(idx + 1, 1, Parent[curr],
                              CalculateBlockReward(BlockHeight[Parent[curr]]))>>
            ELSE RewardWalkPastTx(Parent[curr], idx + 1)

\* The "Add block rewards" loop: pay curr, stop at the genesis challenge,
\* else step to the parent and stop if it is a transaction block.
RECURSIVE RewardWalk(_, _)
RewardWalk(curr, idx) ==
  <<Withdrawal(idx, 1, curr, CalculateBlockReward(BlockHeight[curr]))>>
  \o IF Parent[curr] = GENESIS_CHALLENGE \/ Parent[curr] \in TxBlocks
       THEN <<>>
       ELSE RewardWalk(Parent[curr], idx + 1)

\* create_withdrawals(constants, prev_tx_block, blocks), given the
\* prev_tx_block's last_withdrawal_index (NONE for None).
CreateWithdrawals(prev, lastIndex) ==
  LET first   == IF lastIndex = NONE THEN 0 ELSE lastIndex + 1
      prefarm == IF BlockHeight[prev] = 0
                   THEN <<Withdrawal(first, 0, PREFARM_ADDRESS,
                                     PREFARM_AMOUNT * CorpochainToGwei)>>
                   ELSE <<>>
  IN prefarm \o RewardWalk(prev, first + Len(prefarm))

-----------------------------------------------------------------------------
(* The chain of payloads.  A transaction block's payload carries the       *)
(* withdrawals created from the transaction block before it, and its       *)
(* record's last_withdrawal_index is the index of the last of them (spec   *)
(* 4.G.1; BlockRecord is not under src).                                   *)

\* The transaction block strictly below b, or NONE.
PrevTx(b) ==
  IF Parent[b] = GENESIS_CHALLENGE THEN NONE
  ELSE LET t == LatestTxBlock(Parent[b]) IN IF t \in TxBlocks THEN t ELSE NONE

\* Every withdrawal paid by the payloads of the chain up to tx block t.
RECURSIVE Payouts(_)
Payouts(t) ==
  IF PrevTx(t) = NONE THEN <<>>
  ELSE LET p == PrevTx(t)
           before == Payouts(p)
           last == IF before = <<>> THEN NONE ELSE before[Len(before)].index
       IN before \o CreateWithdrawals(p, last)

\* BlockRecord.last_withdrawal_index of tx block t.
LastWithdrawalIndex(t) ==
  IF Payouts(t) = <<>> THEN NONE ELSE Payouts(t)[Len(Payouts(t))].index

\* What the payload of a transaction block built on t pays, appended.
PaidThrough(t) == Payouts(t) \o CreateWithdrawals(t, LastWithdrawalIndex(t))

-----------------------------------------------------------------------------
(* Reference definitions.                                                  *)

\* Spec 4.G.1: 2 coins for the first three years, halved every three years,
\* nothing from the fifteenth year on.
RewardReference(height) ==
  LET era == height \div (3 * BlocksPerYear)
  IN IF era < 5 THEN (2 * CorpochainToGwei) \div (2 ^ era) ELSE 0

\* Heights on both sides of every halving boundary.
BoundaryHeights ==
  {k * 3 * BlocksPerYear + d : k \in 0..6, d \in {-1, 0, 1}} \ {-1}

\* Tx block t's chain: the withdrawals of successive transaction blocks,
\* each starting at the previous block's last_withdrawal_index + 1, are
\* numbered 0, 1, 2, ... without gap or repeat, pay the prefarm at most once,
\* and pay every block of Ancestry(t) exactly once and no other block.
PaysEachBlockOnce(t) ==
  LET w == PaidThrough(t)
      paid(b) == {k \in 1..Len(w) : w[k].validator = 1 /\ w[k].address = b}
  IN /\ \A k \in 1..Len(w) : w[k].index = k - 1
     /\ Cardinality({k \in 1..Len(w) : w[k].validator = 0}) <= 1
     /\ \A b \in Blocks : Cardinality(paid(b)) = IF b \in Ancestry(t) THEN 1 ELSE 0
=============================================================================
