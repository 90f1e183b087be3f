------------------------------ MODULE BlockTree ------------------------------
(***************************************************************************)
(* The blocks a beacon node may be handed, as a fixed tree of block        *)
(* records.  A block is a model value standing for its header_hash; its    *)
(* BlockRecord fields that fork choice reads (prev_hash, height, weight,   *)
(* is_transaction_block) are given as constants.  Weight is cumulative     *)
(* difficulty, as block_to_block_record computes it from the parent's      *)
(* record.                                                                 *)
(***************************************************************************)
EXTENDS Integers, FiniteSets

CONSTANTS
  Blocks,             \* header hashes of every block the node may receive
  Parent,             \* prev_hash of each block: a block or GENESIS_CHALLENGE
  BlockHeight,        \* the height each block claims (block.height)
  Difficulty,         \* difficulty added by each block to the chain weight
  TxBlocks,           \* transaction blocks: they carry an execution payload
  GENESIS_CHALLENGE,  \* the prev_hash of a genesis block
  NONE                \* an absent hash (Optional[...] = None)

ASSUME /\ Parent \in [Blocks -> Blocks \cup {GENESIS_CHALLENGE}]
       /\ BlockHeight \in [Blocks -> Nat]
       /\ Difficulty \in [Blocks -> Nat \ {0}]
       /\ TxBlocks \subseteq Blocks
\* A genesis block carries a payload (the prefarm withdrawal of spec 4), so
\* the backward walk of get_prev_transaction_block always ends.
ASSUME \A b \in Blocks : Parent[b] = GENESIS_CHALLENGE => b \in TxBlocks

\* receive_block: genesis: bool = block.height == 0
Genesis(b) == BlockHeight[b] = 0

\* BlockRecord.weight: the parent's weight plus this block's difficulty.
RECURSIVE Weight(_)
Weight(b) == IF Parent[b] = GENESIS_CHALLENGE
               THEN Difficulty[b]
               ELSE Weight(Parent[b]) + Difficulty[b]

\* The block and all its ancestors, following prev_hash.
RECURSIVE Ancestry(_)
Ancestry(b) == {b} \cup (IF Parent[b] = GENESIS_CHALLENGE THEN {}
                         ELSE Ancestry(Parent[b]))

\* get_prev_transaction_block: while not curr.is_transaction_block,
\* curr = blocks.block_record(curr.prev_hash).
RECURSIVE LatestTxBlock(_)
LatestTxBlock(b) == IF b \in TxBlocks THEN b ELSE LatestTxBlock(Parent[b])
=============================================================================
