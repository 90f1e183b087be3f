-------------------------- MODULE PreValidationPool --------------------------
(***************************************************************************)
(* The worker-pool half of pre_validate_blocks_multiprocessing             *)
(* (corpochain/consensus/multiprocess_validation.py): the blocks are cut   *)
(* into batches of batch_size, each batch goes to batch_pre_validate_blocks*)
(* in a pool worker with the expected difficulties of its blocks, and the  *)
(* results are gathered.  Blocks are their positions 1..n in `blocks`; a  *)
(* block's kind is "full" (FullBlock) or "header" (HeaderBlock).  Workers  *)
(* may finish in any order; asyncio.gather returns their results in the   *)
(* order the futures were created, which is what the operators compute.   *)
(***************************************************************************)
EXTENDS Integers, SequencesExt

\* Mutant: the batch loop steps one block past each batch.
BatchStartsSkip(n, size) == {i \in 0..n-1 : i % (size + 1) = 0}

\* for i in range(0, len(blocks), batch_size)
BatchStarts(n, size) == {i \in 0..n-1 : i % size = 0}

\* blocks[i:end_i] with end_i = min(i + batch_size, len(blocks)), 1-based
BatchIndices(n, size, i) == [k \in 1..((IF i + size < n THEN i + size ELSE n) - i) |-> i + k]

\* The blocks of a batch that go to the worker in b_pickled (FullBlock) and
\* in hb_pickled (the others), each list in batch order.
Pickled(idx, kind, k) == SelectSeq(idx, LAMBDA j : kind[j] = k)

\* batch_pre_validate_blocks: full blocks if b_pickled was passed, else the
\* header blocks; one result per block validated, in order.  Validation
\* of the k-th block validated yields validate[j, expected_difficulty[k]],
\* or Err.UNKNOWN when it raises.  `assert ValueError(...)` asserts a truthy
\* object, so passing both lists validates only the full blocks.
BatchPreValidateBlocks(idx, kind, diffs, validate, raises) ==
  LET full == Pickled(idx, kind, "full")
      header == Pickled(idx, kind, "header")
      run == IF Len(full) > 0 THEN full ELSE header
  IN [k \in 1..Len(run) |->
        IF raises[run[k]] THEN "UNKNOWN" ELSE validate[run[k], diffs[k]]]

\* The futures in creation order, each called with
\* [diff_ssis[j][0] for j in range(i, end_i)], and the gathered flat list.
PreValidatePool(n, size, kind, diffSsis, validate, raises) ==
  LET starts == SetToSortSeq(BatchStarts(n, size), <)
      batch(s) == BatchIndices(n, size, s)
  IN FlattenSeq([f \in 1..Len(starts) |->
       BatchPreValidateBlocks(batch(starts[f]), kind,
                              [k \in 1..Len(batch(starts[f])) |-> diffSsis[batch(starts[f])[k]]],
                              validate, raises)])

\* What receive_block reads as pre_validation_result for block j.
PoolReference(n, diffSsis, validate, raises) ==
  [j \in 1..n |-> IF raises[j] THEN "UNKNOWN" ELSE validate[j, diffSsis[j]]]
=============================================================================
