------------------------------ MODULE Blockchain ------------------------------
(***************************************************************************)
(* The blockchain manager of corpochain/consensus/blockchain.py: the       *)
(* single writer that receives blocks (receive_block), persists them in a  *)
(* writer transaction of the block store, reconsiders the peak             *)
(* (_reconsider_peak) and keeps the in-memory projection of the committed  *)
(* chain (the block-record cache, __heights_in_cache, the height map and   *)
(* _peak_height).  Also modelled, because they change the same state:      *)
(*   - body validation through the execution client (block_body_validation)*)
(*   - the tentative cache inserts of pre_validate_blocks_multiprocessing  *)
(*   - cache garbage collection (clean_block_records)                      *)
(*   - a crash of the node and the reload of _load_chain_from_store.       *)
(*                                                                         *)
(* Every await of the code is a step boundary: readers of the chain state  *)
(* (RPC, peers, the full node) run between any two steps, so the state     *)
(* invariants below are what such a reader may observe.                    *)
(***************************************************************************)
EXTENDS BlockTree, Sequences, SequencesExt, FiniteSetsExt

CONSTANTS
  BLOCKS_CACHE_SIZE,  \* constants.BLOCKS_CACHE_SIZE
  MaxHeight,          \* the height map covers heights 0..MaxHeight
  OptimisticImport,   \* config "optimistic_import"
  Statuses,           \* payload status strings the engine may answer
  Batches,            \* block lists handed to pre-validation
  StoreMayFail,       \* a block-store call may raise inside the transaction
  CommitMayFail,      \* the commit of the writer transaction may raise
  SesMayFail,         \* block_to_block_record may raise ValueError (bad SES)
  NoPeak,             \* _peak_height = None
  ReadHeights,        \* heights other tasks may ask get_header_block_by_height for
  WarmupPoints        \* fork points warmup may be called with

ASSUME /\ BLOCKS_CACHE_SIZE \in Nat \ {0}
       /\ \A b \in Blocks : BlockHeight[b] <= MaxHeight + 1
       /\ {"VALID", "INVALID", "SYNCING"} \subseteq Statuses
       /\ \A s \in Batches : s \in Seq(Blocks) /\ Len(s) > 0
       /\ NoPeak \notin Nat
       /\ ReadHeights \subseteq 0..MaxHeight /\ WarmupPoints \subseteq 0..MaxHeight

VARIABLES
  dbBlocks,       \* committed block store: full blocks and their records
  dbPeak,         \* committed block store: the peak pointer
  txn,            \* the open writer transaction: its pending writes, or NONE
  cache,          \* domain of Blockchain.__block_records
  cachedHeights,  \* keys of Blockchain.__heights_in_cache
  hmap,           \* Blockchain.__height_map: height -> hash or NONE
  peakHeight,     \* Blockchain._peak_height
  engineHead,     \* head last set in the execution client by forkchoice_update
  pc,             \* where the writer task is in receive_block
  blk,            \* the block receive_block is working on
  outcome,        \* the ReceiveBlockResult (or exception) of the last call
  preval,         \* the verdict of the last pre_validate_blocks_multiprocessing
  rd,             \* a get_header_block_by_height call of another task
  rdOut           \* what the last such call returned or raised

reader == <<rd, rdOut>>
vars == <<dbBlocks, dbPeak, txn, cache, cachedHeights, hmap, peakHeight,
          engineHead, pc, blk, outcome, preval, rd, rdOut>>

Heights == 0..MaxHeight
Outcomes == {"none", "NEW_PEAK", "ADDED_AS_ORPHAN", "INVALID_BLOCK",
             "ALREADY_HAVE_BLOCK", "DISCONNECTED_BLOCK", "EXCEPTION"}
PrevalVerdicts == {"none", "ok", "INVALID_PREV_BLOCK_HASH", "INVALID_POSPACE",
                   "INVALID_SUB_EPOCH_SUMMARY", "AssertionError"}
\* payload statuses by the branch validate_block_body takes on them
BadStatus == {"INVALID", "INVALID_BLOCK_HASH"}
GoodStatus == {"VALID", "SYNCING", "ACCEPTED"}

TypeOK ==
  /\ dbBlocks \subseteq Blocks
  /\ dbPeak \in Blocks \cup {NONE}
  /\ txn \in {NONE} \cup [blocks : SUBSET Blocks, peak : Blocks \cup {NONE},
                           newPeak : BOOLEAN]
  /\ cache \subseteq Blocks
  /\ cachedHeights \subseteq Heights
  /\ hmap \in [Heights -> Blocks \cup {NONE}]
  /\ peakHeight \in Heights \cup {NoPeak}
  /\ engineHead \in Blocks \cup {NONE}
  /\ pc \in {"idle", "new_payload", "forkchoice", "txn", "commit", "down"}
  /\ blk \in Blocks \cup {NONE}
  /\ outcome \in Outcomes
  /\ preval \in PrevalVerdicts
  /\ rd \in [pc : {"idle", "await"}, h : Heights, want : Blocks \cup {NONE},
            hash : Blocks \cup {NONE}, lru : BOOLEAN]
  /\ rdOut \in Blocks \cup {NONE, "None", "ValueError"}

-----------------------------------------------------------------------------
(* The in-memory chain view.                                               *)

\* height_to_hash
HashAt(h) == IF h \in Heights THEN hmap[h] ELSE NONE

\* get_peak raises (ValueError, or KeyError in block_record) when the
\* height map or the cache lacks the block at _peak_height.
GetPeakFails == peakHeight # NoPeak /\ HashAt(peakHeight) \notin cache

\* get_peak, when it does not raise
GetPeak == IF peakHeight = NoPeak THEN NONE ELSE HashAt(peakHeight)

\* Mutant: the height key is recorded one too high.
AddRecordsNextHeight(S) ==
  /\ cache' = cache \cup S
  /\ cachedHeights' = cachedHeights \cup {BlockHeight[b] + 1 : b \in S}

\* add_block_record: the record and its height key enter the cache.
AddRecords(S) == /\ cache' = cache \cup S
                 /\ cachedHeights' = cachedHeights \cup {BlockHeight[b] : b \in S}

\* Mutant: the height map is not rolled back above the fork height.
RollbackAndApplyNoRollback(m, fork, recs) ==
  [h \in Heights |->
     IF \E i \in 1..Len(recs) : BlockHeight[recs[i]] = h
       THEN CHOOSE r \in ToSet(recs) : BlockHeight[r] = h
       ELSE m[h]]

\* BlockHeightMap.rollback(fork_height) then update_height for each record.
RollbackAndApply(m, fork, recs) ==
  [h \in Heights |->
     IF \E i \in 1..Len(recs) : BlockHeight[recs[i]] = h
       THEN CHOOSE r \in ToSet(recs) : BlockHeight[r] = h
       ELSE IF h > fork THEN NONE ELSE m[h]]

\* find_fork_point_in_chain (consensus/find_fork_point.py, not in src):
\* the height of the highest common ancestor, or -1 when there is none.
FindForkPoint(a, b) ==
  LET common == Ancestry(a) \cap Ancestry(b)
  IN IF common = {} THEN -1 ELSE Max({BlockHeight[c] : c \in common})

\* The backtracking loop of _reconsider_peak, newest block first:
\* while fork_height < 0 or curr != height_to_hash(fork_height).
RECURSIVE WalkToFork(_, _)
WalkToFork(curr, fork) ==
  IF fork >= 0 /\ curr = HashAt(fork) THEN <<>>
  ELSE IF BlockHeight[curr] = 0 THEN <<curr>>
  ELSE <<curr>> \o WalkToFork(Parent[curr], fork)

\* Mutant: a block of equal weight replaces the peak.
NotHeavierStrict(b, peak) == peak = NONE \/ Weight(b) < Weight(peak)

\* _reconsider_peak: `if block_record.weight <= peak.weight` (no new peak).
NotHeavier(b, peak) == peak = NONE \/ Weight(b) <= Weight(peak)

\* _reconsider_peak for block b, with the store holding `stored` and the
\* peak record `peak` (get_peak).  ok is FALSE when a block of the walk is
\* missing from the store (the asserts on get_full_block/get_block_record).
ReconsiderPeak(b, stored, peak) ==
  IF Genesis(b)
    THEN IF peak = NONE
           THEN [ok |-> TRUE, newPeak |-> TRUE, recs |-> <<b>>, fork |-> 0]
           ELSE [ok |-> TRUE, newPeak |-> FALSE, recs |-> <<>>, fork |-> 0]
  ELSE IF NotHeavier(b, peak)
    THEN [ok |-> peak # NONE, newPeak |-> FALSE, recs |-> <<>>, fork |-> 0]
  ELSE LET fork == IF Parent[b] = peak THEN BlockHeight[peak]
                   ELSE FindForkPoint(b, peak)
           walk == WalkToFork(b, fork)
       IN [ok |-> ToSet(walk) \subseteq stored, newPeak |-> TRUE,
           recs |-> Reverse(walk), fork |-> Max({fork, 0})]

-----------------------------------------------------------------------------
Init ==
  /\ dbBlocks = {}
  /\ dbPeak = NONE
  /\ txn = NONE
  /\ cache = {}
  /\ cachedHeights = {}
  /\ hmap = [h \in Heights |-> NONE]
  /\ peakHeight = NoPeak
  /\ engineHead = NONE
  /\ pc = "idle"
  /\ blk = NONE
  /\ outcome = "none"
  /\ preval = "none"
  /\ rd = [pc |-> "idle", h |-> 0, want |-> NONE, hash |-> NONE, lru |-> FALSE]
  /\ rdOut = NONE

\* Mutant: the contains_block(prev_header_hash) check is skipped.
ParentKnownSkipped(b) == TRUE

\* receive_block: the parent is in the cache, or the block is a genesis.
ParentKnown(b) == Genesis(b) \/ Parent[b] \in cache

\* receive_block returns without touching the chain.
Return(res) == /\ pc' = "idle"
               /\ blk' = NONE
               /\ outcome' = res

\* receive_block, up to the first await (validate_block_body): the cache
\* lookups, the height check and the pre-validation result.
ReceiveBlock(b) ==
  /\ pc = "idle"
  /\ \/ /\ b \in cache
        /\ Return("ALREADY_HAVE_BLOCK")
     \/ /\ b \notin cache /\ ~ParentKnown(b)
        /\ Return("DISCONNECTED_BLOCK")
     \/ /\ b \notin cache /\ ParentKnown(b) /\ ~Genesis(b)
        /\ BlockHeight[Parent[b]] + 1 # BlockHeight[b]
        /\ Return("INVALID_BLOCK")
     \/ /\ b \notin cache /\ ParentKnown(b)
        /\ ~Genesis(b) => BlockHeight[Parent[b]] + 1 = BlockHeight[b]
        /\ \/ Return("INVALID_BLOCK")          \* pre_validation_result.error
           \/ /\ pc' = "new_payload"
              /\ blk' = b
              /\ outcome' = "none"
  /\ UNCHANGED <<dbBlocks, dbPeak, txn, cache, cachedHeights, hmap, peakHeight,
                 engineHead, preval, reader>>

\* Mutant: a full block whose payload is VALID skips forkchoice_update.
AfterNewPayloadValidSkips(s) == IF s = "VALID" THEN "txn" ELSE "forkchoice"

\* validate_block_body: for a FullBlock, forkchoice_update follows any
\* new_payload status that does not return an error.
AfterNewPayload(s) == "forkchoice"

\* validate_block_body: await execution_client.new_payload.  A block without
\* an execution payload skips both engine calls.
NewPayload ==
  /\ pc = "new_payload"
  /\ \/ /\ blk \notin TxBlocks
        /\ pc' = "txn"
        /\ UNCHANGED <<blk, outcome>>
     \/ /\ blk \in TxBlocks
        /\ \E s \in Statuses :
             IF s \in GoodStatus THEN pc' = AfterNewPayload(s) /\ UNCHANGED <<blk, outcome>>
             ELSE Return("INVALID_BLOCK")  \* PAYLOAD_INVALIDATED or UNKNOWN
  /\ UNCHANGED <<dbBlocks, dbPeak, txn, cache, cachedHeights, hmap, peakHeight,
                 engineHead, preval, reader>>

\* validate_block_body: await execution_client.forkchoice_update(block_record).
\* The engine takes the block as its head unless it rejects it.
Forkchoice ==
  /\ pc = "forkchoice"
  /\ \E s \in Statuses :
       /\ engineHead' = IF s \in GoodStatus THEN blk ELSE engineHead
       /\ IF s = "VALID" \/ (s \in GoodStatus \ {"VALID"} /\ OptimisticImport)
            THEN pc' = "txn" /\ UNCHANGED <<blk, outcome>>
            ELSE Return("INVALID_BLOCK")
  /\ UNCHANGED <<dbBlocks, dbPeak, txn, cache, cachedHeights, hmap, peakHeight,
                 preval, reader>>

\* An exception inside `async with writer()`: the transaction rolls back,
\* rollback_cache_block, and the exception propagates out of receive_block.
Abort == /\ txn' = NONE
         /\ Return("EXCEPTION")

\* The body of the writer transaction: add_full_block, _reconsider_peak,
\* then, with no await left, add_block_record and the height-map updates.
\* Any awaited store call may raise instead.
WriteTxn ==
  /\ pc = "txn"
  /\ LET stored == dbBlocks \cup {blk}
         r == ReconsiderPeak(blk, stored, GetPeak)
     IN \/ /\ StoreMayFail \/ GetPeakFails \/ ~r.ok
           /\ Abort
           /\ UNCHANGED <<cache, cachedHeights, hmap>>
        \/ /\ ~GetPeakFails /\ r.ok
           /\ txn' = [blocks |-> stored,
                      peak |-> IF r.newPeak THEN blk ELSE dbPeak,
                      newPeak |-> r.newPeak]
           /\ AddRecords({blk})
           /\ hmap' = IF r.newPeak THEN RollbackAndApply(hmap, r.fork, r.recs)
                      ELSE hmap
           /\ pc' = "commit"
           /\ UNCHANGED <<blk, outcome>>
  /\ UNCHANGED <<dbBlocks, dbPeak, peakHeight, engineHead, preval, reader>>

\* Leaving `async with writer()`: the commit, then _peak_height is set and
\* the height map is flushed (maybe_flush writes no chain state we track).
Commit ==
  /\ pc = "commit"
  /\ dbBlocks' = txn.blocks
  /\ dbPeak' = txn.peak
  /\ peakHeight' = IF txn.newPeak THEN BlockHeight[blk] ELSE peakHeight
  /\ txn' = NONE
  /\ Return(IF txn.newPeak THEN "NEW_PEAK" ELSE "ADDED_AS_ORPHAN")
  /\ UNCHANGED <<cache, cachedHeights, hmap, engineHead, preval, reader>>

\* The commit raises.  It runs outside the try block, so the cache and
\* height-map updates already made are not undone.
CommitFails ==
  /\ CommitMayFail
  /\ pc = "commit"
  /\ Abort
  /\ UNCHANGED <<dbBlocks, dbPeak, cache, cachedHeights, hmap, peakHeight,
                 engineHead, preval, reader>>

-----------------------------------------------------------------------------
(* pre_validate_blocks_multiprocessing, called under the blockchain lock.  *)
(* It tentatively adds the record of each block to the cache so that the   *)
(* next block finds its parent, and removes them again before the workers *)
(* run.  PoSpace failures and ValueError (sub-epoch summary) are decided  *)
(* per block; the workers' verdicts only reach receive_block's             *)
(* pre_validation_result, which ReceiveBlock chooses freely.               *)

\* The first index whose `assert block_records.contains_block(prev)` fails,
\* given that the blocks before it were tentatively added; Len+1 if none.
AssertIndex(batch) ==
  LET bad == {j \in 1..Len(batch) :
                /\ ~Genesis(batch[j])
                /\ Parent[batch[j]] \notin cache \cup {batch[k] : k \in 1..j-1}}
  IN IF bad = {} THEN Len(batch) + 1 ELSE Min(bad)

\* The cache after block i fails: the PoSpace path removes the records it
\* added; the sub-epoch-summary paths return with them still in place.
PoSpaceCleanup(kind, added) ==
  IF kind = "INVALID_POSPACE" THEN cache ELSE cache \cup added

PreValidate(batch) ==
  /\ pc = "idle"
  /\ LET first == batch[1]
         tentative(n) == {batch[k] : k \in 1..n} \ cache
         keys(n) == {BlockHeight[b] : b \in tentative(n)}
         kinds == IF SesMayFail THEN {"INVALID_POSPACE", "INVALID_SUB_EPOCH_SUMMARY"}
                  ELSE {"INVALID_POSPACE"}
     IN \/ /\ ~Genesis(first) /\ Parent[first] \notin cache
           /\ preval' = "INVALID_PREV_BLOCK_HASH"
           /\ UNCHANGED <<cache, cachedHeights>>
        \/ /\ Genesis(first) \/ Parent[first] \in cache
           /\ \E i \in 1..Len(batch) + 1 :
                LET stop == Min({i, AssertIndex(batch)}) IN
                \* the assert fires first: the exception leaves the records
                \/ /\ AssertIndex(batch) <= i /\ AssertIndex(batch) <= Len(batch)
                   /\ AddRecords(tentative(stop - 1))
                   /\ preval' = "AssertionError"
                \* block i fails PoSpace: tentative records are removed
                \* (remove_block_record keeps the emptied height keys)
                \/ /\ i < AssertIndex(batch) /\ i <= Len(batch)
                   /\ \E kind \in kinds :
                        /\ preval' = kind
                        /\ cachedHeights' = cachedHeights \cup keys(i - 1)
                        /\ cache' = PoSpaceCleanup(kind, tentative(i - 1))
                \* every block passes: all tentative records are removed
                \/ /\ i = Len(batch) + 1 /\ AssertIndex(batch) > Len(batch)
                   /\ preval' = "ok"
                   /\ cachedHeights' = cachedHeights \cup keys(Len(batch))
                   /\ UNCHANGED cache
  /\ UNCHANGED <<dbBlocks, dbPeak, txn, hmap, peakHeight, engineHead, pc, blk,
                 outcome, reader>>

\* Mutant: the eviction boundary one height higher.
GcHeightAbove(ph) == ph - BLOCKS_CACHE_SIZE + 1

\* The height clean_block_records hands to clean_block_record.
GcHeight(ph) == ph - BLOCKS_CACHE_SIZE

\* clean_block_records -> clean_block_record(GcHeight): drops every cached
\* height from that height downwards, stopping at the first height that
\* has no key in __heights_in_cache.
CleanBlockRecords ==
  /\ pc = "idle"
  /\ Cardinality(cache) >= BLOCKS_CACHE_SIZE
  /\ peakHeight # NoPeak
  /\ GcHeight(peakHeight) >= 0
  /\ LET top == GcHeight(peakHeight)
         dropped == {h \in 0..top : \A k \in h..top : k \in cachedHeights}
     IN /\ dropped # {}
        /\ cache' = {b \in cache : BlockHeight[b] \notin dropped}
        /\ cachedHeights' = cachedHeights \ dropped
  /\ UNCHANGED <<dbBlocks, dbPeak, txn, hmap, peakHeight, engineHead, pc, blk,
                 outcome, preval, reader>>

\* warmup(fork_point): the records of every stored block at heights
\* max(fork_point - BLOCKS_CACHE_SIZE, 0)..fork_point enter the cache.
\* Called under the blockchain lock; its one await reads only the store,
\* which the lock keeps still.
Warmup(forkPoint) ==
  /\ pc = "idle"
  /\ peakHeight # NoPeak
  /\ AddRecords({b \in dbBlocks :
                  BlockHeight[b] \in Max({forkPoint - BLOCKS_CACHE_SIZE, 0})..forkPoint})
  /\ UNCHANGED <<dbBlocks, dbPeak, txn, hmap, peakHeight, engineHead, pc, blk,
                 outcome, preval, reader>>

-----------------------------------------------------------------------------
(* A reader: get_header_block_by_height(height, header_hash) of a task     *)
(* that does not hold the blockchain lock (peers' and RPC requests).  It   *)
(* calls get_header_blocks_in_range(height, height), which suspends at     *)
(* `await block_store.get_blocks_by_hash(...)`.  The block store (outside  *)
(* src) keeps an LRU of the full blocks add_full_block was given, the      *)
(* pending ones of an open transaction among them; get_blocks_by_hash      *)
(* raises ValueError for a hash that is not committed.                     *)

IdleReader == [pc |-> "idle", h |-> 0, want |-> NONE, hash |-> NONE, lru |-> FALSE]

\* Up to the await: height_to_hash, then the block store's LRU lookup.
ReadHeaderStart(h, want) ==
  /\ pc # "down"
  /\ rd.pc = "idle"
  /\ rd' = [pc |-> "await", h |-> h, want |-> want, hash |-> HashAt(h),
            lru |-> txn # NONE /\ HashAt(h) \in txn.blocks]
  /\ rdOut' = NONE
  /\ UNCHANGED <<dbBlocks, dbPeak, txn, cache, cachedHeights, hmap, peakHeight,
                 engineHead, pc, blk, outcome, preval>>

\* After the await: the store's answer, the check that each block is still
\* the height map's block at its height ("no longer in the blockchain (it's
\* in a fork)"), then get_header_block_by_height's lookups of header_hash.
ReadHeaderReturn ==
  /\ rd.pc = "await"
  /\ LET got == IF rd.hash = NONE THEN {} ELSE {rd.hash} IN
     \/ /\ ~rd.lru /\ got \cap dbBlocks # got
        /\ rdOut' = "ValueError"
     \/ /\ rd.lru \/ got \subseteq dbBlocks
        /\ \E b \in got : HashAt(BlockHeight[b]) # b
        /\ rdOut' = "ValueError"
     \/ /\ rd.lru \/ got \subseteq dbBlocks
        /\ \A b \in got : HashAt(BlockHeight[b]) = b
        /\ rdOut' = IF rd.want \in got THEN rd.want ELSE "None"
  /\ rd' = IdleReader
  /\ UNCHANGED <<dbBlocks, dbPeak, txn, cache, cachedHeights, hmap, peakHeight,
                 engineHead, pc, blk, outcome, preval>>

-----------------------------------------------------------------------------
(* Crash and restart of the node.  The store keeps what was committed; an  *)
(* open transaction and all memory are lost; the execution client runs on. *)

Crash ==
  /\ pc # "down"
  /\ pc' = "down"
  /\ txn' = NONE
  /\ blk' = NONE
  /\ cache' = {}
  /\ cachedHeights' = {}
  /\ hmap' = [h \in Heights |-> NONE]
  /\ peakHeight' = NoPeak
  /\ rd' = IdleReader
  /\ UNCHANGED <<dbBlocks, dbPeak, engineHead, outcome, preval, rdOut>>

\* Blockchain.create -> _load_chain_from_store: the height map is rebuilt
\* from the store's peak (BlockHeightMap.create), the cache is loaded with
\* get_block_records_close_to_peak(BLOCKS_CACHE_SIZE).
LoadChainFromStore ==
  /\ pc = "down"
  /\ LET ph == IF dbPeak = NONE THEN NoPeak ELSE BlockHeight[dbPeak]
         loaded == IF dbPeak = NONE THEN {}
                   ELSE {b \in dbBlocks : BlockHeight[b] >= ph - BLOCKS_CACHE_SIZE}
     IN /\ peakHeight' = ph
        /\ hmap' = [h \in Heights |->
                      IF dbPeak # NONE /\ \E a \in Ancestry(dbPeak) : BlockHeight[a] = h
                        THEN CHOOSE a \in Ancestry(dbPeak) : BlockHeight[a] = h
                        ELSE NONE]
        /\ cache' = loaded
        /\ cachedHeights' = {BlockHeight[b] : b \in loaded}
  /\ pc' = "idle"
  /\ outcome' = "none"
  /\ preval' = "none"
  /\ UNCHANGED <<dbBlocks, dbPeak, txn, engineHead, blk, reader>>

-----------------------------------------------------------------------------
Next ==
  \/ \E b \in Blocks : ReceiveBlock(b)
  \/ NewPayload
  \/ Forkchoice
  \/ WriteTxn
  \/ Commit
  \/ CommitFails
  \/ \E batch \in Batches : PreValidate(batch)
  \/ CleanBlockRecords
  \/ \E f \in WarmupPoints : Warmup(f)
  \/ \E h \in ReadHeights, want \in Blocks : BlockHeight[want] = h /\ ReadHeaderStart(h, want)
  \/ ReadHeaderReturn
  \/ Crash
  \/ LoadChainFromStore

Spec == Init /\ [][Next]_vars

-----------------------------------------------------------------------------
(* Properties.                                                             *)

\* Spec 8.2: while no receive_block is in flight, the height map holds
\* exactly the committed peak's chain: one block per height 0.._peak_height,
\* each the parent of the next, the top one the store's peak, nothing
\* above.  Breaks if _reconsider_peak picks a wrong fork height or the
\* height map is not rolled back before the new chain is written.
HeightMapConsistent ==
  pc = "idle" =>
    IF peakHeight = NoPeak THEN \A h \in Heights : hmap[h] = NONE
    ELSE /\ hmap[peakHeight] = dbPeak
         /\ \A h \in 0..peakHeight :
              /\ hmap[h] \in dbBlocks
              /\ BlockHeight[hmap[h]] = h
              /\ h > 0 => Parent[hmap[h]] = hmap[h - 1]
         /\ \A h \in Heights : h > peakHeight => hmap[h] = NONE

\* Spec 8.3 and 8.6: outside the commit of a receive_block, every record in
\* the cache is a block the store holds.  receive_block answers
\* ALREADY_HAVE_BLOCK from the cache alone, so a cached but unstored block
\* can never be stored.  Threatened by the tentative inserts of
\* pre-validation and by the cache update made before the commit.  No run
\* checks it: both paths break it once commits or sub-epoch summaries may
\* fail (README, Findings), and without them it holds trivially.
CacheImpliesStored == pc # "commit" => cache \subseteq dbBlocks

\* Spec 5 (ordering guarantees): a reader calling get_peak at any moment
\* gets a block that is in the committed store; _peak_height is set only
\* after the commit, but the height map is written before it.
ReaderPeakPersisted ==
  peakHeight # NoPeak => HashAt(peakHeight) \in dbBlocks

\* The committed peak only moves to a strictly heavier block (the only
\* exception being the first genesis block): _reconsider_peak's
\* `weight <= peak.weight` guard, evaluated against the in-memory peak.
PeakWeightIncreases ==
  [][dbPeak # NONE /\ dbPeak' # dbPeak => Weight(dbPeak') > Weight(dbPeak)]_dbPeak

\* Outside receive_block, the cache holds the peak chain's blocks at every
\* height above _peak_height - BLOCKS_CACHE_SIZE: get_peak and the
\* difficulty lookups of the last BLOCKS_CACHE_SIZE blocks never miss.
\* clean_block_records evicts the boundary height itself (one more than its
\* docstring says); an eviction one height higher, a restart that loads
\* too little, or a pre-validation cleanup that drops a chain block breaks it.
CacheHoldsRecentChain ==
  pc = "idle" /\ peakHeight # NoPeak =>
    \A h \in Heights :
      h > peakHeight - BLOCKS_CACHE_SIZE /\ h <= peakHeight => hmap[h] \in cache

\* When a block with an execution payload becomes the committed peak, the
\* execution client's head is already that block: validate_block_body
\* sends forkchoice_update before the writer transaction, and nothing
\* between them moves the engine.  (The converse fails by design: a block
\* whose transaction then fails or that loses fork choice stays the
\* engine's head until the next payload-carrying block.)
PeakFollowedByEngine ==
  [][dbPeak' # dbPeak /\ dbPeak' \in TxBlocks => engineHead' = dbPeak']_vars

\* The manager implements the abstract chain store of ChainStore.tla under
\* the mapping stored <- committed blocks, peak <- committed peak.
Abstract == INSTANCE ChainStore WITH stored <- dbBlocks, peak <- dbPeak
ImplementsChainStore == Abstract!Spec

=============================================================================
