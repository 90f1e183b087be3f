# TLA+ models of the corpochain beacon client

This directory holds TLA+ specifications of the parts of `src/corpochain` that
hold state across concurrent steps:

- the blockchain manager, with its pre-validation and its calls to the
  execution client;
- the daemon's plot queue, with the command line each plotter is started
  with and how the plotter's argument parser reads it;
- the daemon's service management, composed with its websocket handlers,
  message forwarding, broadcast tasks and keyring commands;
- block rewards and the withdrawals that pay them;
- a service's start and stop sequence, running the introducer and its
  peer-vetting loop.

Each is checked with TLC. `PROJECT.json` lists:

- every component, including those not modelled and why;
- every run and what it shows;
- the mutants that show each passing property can fail;
- the source lines each definition translates;
- the findings;
- the hazards the code is exposed to.

## The system and how its parts interact

- **Blockchain manager** (`consensus/blockchain.py`). This is the single writer
  of chain state. Under the blockchain lock, `receive_block` does the following:
  - checks the block against the in-memory record cache;
  - asks the execution client to validate the payload
    (`block_body_validation.validate_block_body`: `new_payload` then
    `forkchoice_update`);
  - opens a writer transaction on the block store: `add_full_block`, then
    `_reconsider_peak`, which may reorg;
  - updates the cache and the height map;
  - after the commit, publishes `_peak_height`.

  Readers (RPC, peers, the full node) call `get_peak`, `height_to_hash` and
  `contains_block` at any await point of this sequence.
- **Pre-validation** (`consensus/multiprocess_validation.py`). This runs under
  the same lock before `receive_block`. It tentatively adds each block's record
  to the shared cache so the next block of the batch finds its parent, and
  removes them afterwards.
- **Cache GC and restart.** `clean_block_records` evicts old heights from the
  cache. After a restart, `_load_chain_from_store` rebuilds the height map and
  the cache from the store.
- **Daemon** (`daemon/server.py`). A websocket server on one asyncio loop:
  - `start_plotting` and `stop_plotting` manage a queue of plot jobs. Each job
    is run by a `_start_plotting` task that sleeps, launches a plotter process
    and tracks its log. The job's command line is built from the request when
    the job is queued (`_build_plotting_command_args`); the plotter process
    (`corpochain plotters ...`, `plotters/plotters.py`) reads it with argparse
    parsers built from one option list per plotter, and exits with a usage
    message when it rejects it.
  - `start_service` and `stop_service` launch and kill service processes.
  - `register_service` records websocket connections.
  - `ping_task` pings registered services every 30 s.
  - `stop()` shuts everything down.
  - `incoming_connection` runs one handler per websocket. A message for
    another service is forwarded, by `send_all_responses`, to that service's
    set in `self.connections`; a daemon command is answered to the sender.
  - `state_changed` and `keyring_status_changed` create tasks that send an
    event to every websocket of the plotter or the GUI (`"ui"`).
- **Block rewards** (`consensus/block_rewards.py`). After a transaction block,
  `create_withdrawals` lists what the next payload pays: the prefarm once after
  genesis, and each block's reward back to the previous transaction block.
  `forkchoice_update` sends the list to the execution client.
- **Service runner** (`server/start_service.py`). `run()` takes a lock file and
  calls `start()`. That starts the node, UPnP, the peer server, the reconnect
  tasks and the RPC server. `wait_closed()` then waits for `stop()`, which a
  signal handler or the RPC server's `stop_node` calls. The node modelled here
  is the introducer (`introducer/introducer.py`). Its `_vetting_loop` task
  sleeps, takes some peers and tries to connect to each one. A peer that
  fails seven times in a row is removed.

## Modules

| Module | Models | State | Actions |
|---|---|---|---|
| `BlockTree` | the block records fork choice reads | constants: `Parent` (prev_hash), `BlockHeight`, `Difficulty`, `TxBlocks` | operators `Weight`, `Ancestry` and `LatestTxBlock` (RECURSIVE) |
| `ChainStore` | the abstract chain store the manager must implement (spec 4.B, 4.H) | `stored`, `peak` | `Add(b)`: a block is stored once its parent is; the peak moves only to a heavier block |
| `Blockchain` | `receive_block`, `_reconsider_peak`, body validation, pre-validation's tentative cache, `clean_block_records`, `warmup`, `get_header_block_by_height`, crash and `_load_chain_from_store` | store: `dbBlocks`, `dbPeak`, `txn`. Memory: `cache`, `cachedHeights`, `hmap`, `peakHeight`. Engine: `engineHead`. The writer's position: `pc`, `blk`. One header reader: `rd` (its await point and what it read before the await) and `rdOut` (its answer) | `ReceiveBlock`, `NewPayload`, `Forkchoice`, `WriteTxn`, `Commit`, `CommitFails`, `PreValidate`, `CleanBlockRecords`, `Warmup`, `ReadHeaderStart`, `ReadHeaderReturn`, `Crash`, `LoadChainFromStore` |
| `PreValidationPool` | the worker-pool half of `pre_validate_blocks_multiprocessing` and `batch_pre_validate_blocks` | operators only | `BatchStarts`, `BatchIndices`, `Pickled`, `BatchPreValidateBlocks`, `PreValidatePool`, and the reference `PoolReference` |
| `PlotCommand` | `_build_plotting_command_args` and its per-plotter helpers; the `Options` lists, `build_parser` and `call_plotters` of `plotters.py` | operators only | `BuildArgs` (the words), `Table(name)` (a subparser's arguments), `ParseArgs` (RECURSIVE, argparse over the words), `ParseCommand` |
| `PlotQueue` | `start_plotting`, `stop_plotting`, `_start_plotting` tasks, `_run_next_serial_plotting`, plotter processes; EXTENDS `PlotCommand` | `plots` (plots_queue), `state`, `parallel`, `proc`, `wrote` (final log line), `launches`, `tasks` (live tasks per id and await point), `stopping`, `cmd` (command_args), `parsed` (how the parser reads it), the history `origin` | `StartPlotting`, `TaskBegin`, `TaskWake`, `TaskTrack`, `StopPlotting`, `StopKillDone`, `PlotterWritesFinal`, `PlotterCrashes` |
| `BlockRewards` | `create_withdrawals`, `_calculate_block_reward`, and the chain of payloads each built on the transaction block before it | operators over `BlockTree` | `CalculateBlockReward`, `RewardWalk` (RECURSIVE), `CreateWithdrawals`; `Payouts` and `LastWithdrawalIndex` (RECURSIVE, from spec 4.G.1) |
| `Introducer` | `Introducer._start`, `_close`, `_vetting_loop` | `shutDown`, the task's position `vet`, `rawPeers`, `cur`. Per peer: `vetted`, `attemptOld`, `stale`, `present`, and the history `failRun` | `NodeStart`, `NodeClose`, `VetWake`, `VetPeer`, `VetConnected`, `VetFailed`, `Tick` (time) |
| `ServiceRunner` | `Service.run`, `start`, `stop`, `wait_closed`, composed with `Introducer` | `pc` (run's await point), `stopping`, `didStart`, `lockHeld`, `mapped`, `reconnKeys`, `reconnTasks`, `serverClosed`, `rpc`, the history `stopPhase` | `AlreadyRunning`, `StartBegin`, `StartServerDone`, `StartRpcDone`, `Stop`, `WaitServerClosed`, `WaitRpcClosed`, `Vetting` |
| `DaemonMessages` | `incoming_connection`, `handle_message`, `send_all_responses`, the `_state_changed`/`_keyring_status_changed` tasks, `unlock_keyring`, `set_keyring_passphrase`, `remove_keyring_passphrase`; EXTENDS `DaemonServices` | `sock` (the peer's end), `handler` (each handler's await point), the iteration of `send_all_responses` (`sendTo`, `sendLeft`, `sendSize`), `notes` (the broadcast tasks), `checkKeys` | `PeerCloses`, `HandlerClose`, `Forward`, `SendStep`, `CloseStep`, `DaemonCommand` (the service commands of `DaemonServices`), `UnlockKeyring`, `SetKeyringPassphrase`, `RemoveKeyringPassphrase`, `PlotStateChanged`, `NoteStart`, `NoteSend`, and every other `DaemonServices` action |
| `DaemonServices` | `start_service`, `stop_service`/`kill_service`/`kill_processes`, `register_service`, connection close, `ping_task`, `stop()` | `services`, process states, `killing`, shutdown `phase`, the connections dict (`connKeys`, `conns`) and the ping task's iteration state | `StartService`, `StopService`, `KillDone`, `ServiceExits`, `RegisterService`, `CloseConnection`, `PingWake`, `PingOne`, `Exit`, `StopTaskRun`, `StopFinish` |

### How the modules correspond to the code

- **Await points.** Each stretch of code between two awaits is one action;
  other coroutines run only between actions.
  - In `Blockchain`, the writer's `pc` records where `receive_block` is
    suspended: `new_payload`, `forkchoice`, `txn` (inside the writer
    transaction) or `commit`.
  - `WriteTxn` is the whole body of the transaction. Its store calls are
    awaits, but only the single writer acts between them. It ends with
    `add_block_record` and the height-map rollback and update, as the code
    does. `Commit` is the commit followed by `_peak_height`.
- **Failure paths.**
  - An exception inside the transaction is `Abort`: rollback and
    `rollback_cache_block`.
  - A failing commit is `CommitFails`. It leaves the memory changes in place
    because the commit runs in `__aexit__`, outside the `try`.
- **`PreValidate(batch)`** covers every exit of
  `pre_validate_blocks_multiprocessing`:
  - `INVALID_PREV_BLOCK_HASH`;
  - the assert on the parent, which leaves the records added so far;
  - an invalid proof of space, which removes them;
  - a bad sub-epoch summary, which leaves them;
  - success, which removes them.

  The header checks of the worker processes are abstracted. Their verdict
  reaches `receive_block` as a free choice of `pre_validation_result.error`.
- **Header reader.** `get_header_block_by_height` is `ReadHeaderStart`
  (it reads `height_to_hash`, the transaction's LRU, and suspends in the
  block store) and `ReadHeaderReturn` (after the await: a missing block is
  `ValueError`, and a block whose height no longer maps to it is
  `ValueError` too). The writer, GC and crashes run in between.
  `ReadHeights` bounds the heights asked for; the runs that do not ask
  about readers set it to `{}`. No property is stated about the answer:
  that it is the height map's block at its height is the one re-check
  after the await, restated. The reader's interleavings are in
  `chain_core`'s state space, where the other properties must hold with it.
- **Warmup.** `Warmup(f)` adds the stored blocks at heights
  `f - BLOCKS_CACHE_SIZE .. f` to the cache, as `warmup` does from the store.
- **Pre-validation pool.** `PreValidatePool` cuts the blocks into batches,
  passes each batch its slice of `diff_ssis`, splits it into the full and
  header lists, and flattens the gathered results; `PoolReference` is what
  `receive_block` expects (one result per block, in order). Workers may
  finish in any order, but `asyncio.gather` keeps creation order, so the
  model is the deterministic result.
- **Plot tasks.** The `_start_plotting` tasks are counted per plot id and await
  point (`start`, `sleep`, `track`), because two tasks can exist for one id.
  `Finish` is the task's `finally`, which calls `_run_next_serial_plotting`
  with the states of that moment.
- **Plot command lines.** A word of `command_args` is a record of the option
  string it starts with and the text after it, so `"-k32"` (madmax's
  f-strings) and `"-k", "32"` differ as they do in the code. `str()` of an
  int is its decimal digits and `isdigit` and `int()` read them back; a
  path or a key is one opaque character. `Request(given)` is a request with
  the keys the GUI sent, every other key as `request.get` sees it.
  - `ParseArgs` follows argparse on these words: an option string it does
    not know, a missing or option-like value, a bad `int`, a value on a
    switch, a word left over or a missing required option is a usage error.
    A parser with a `-2` option reads every word starting with `-` as an
    option; one without (cudaplot, ramplot) reads `-2` as a value.
  - `StartPlotting` stores each item's line and its parse; they never
    change. A plotter whose line is rejected exits before any log line
    (`PlotterCrashes` is then always enabled, and fair).
- **The ping loop.** In `DaemonServices`, `Advance` is the step of
  `for ... in self.connections.items()`. It raises, so the task dies, when the
  dict has grown since the iteration began. CPython checks this on every
  `next()`, and keys are never removed, so a growth is always detected at the
  next step. A `cancel()` from `stop()` is delivered once, at the next
  await: during the sleep it ends the task; during a ping it is caught,
  the inner loop breaks with `restart = False`, and the remaining services
  are still pinged.
- **Websocket handlers.** In `DaemonMessages`, a handler is `idle` (awaiting
  `receive()`), `sending` or `closing` (awaiting a send or a `close()` in
  `send_all_responses`), `ended` or `crashed`.
  - `Forward` is `handle_message` for a destination with an entry in
    `self.connections`: the loop then runs over that live set, not a copy.
    `IterationBroken` is CPython's "Set changed size during iteration",
    raised by the loop's next step (`NextConnection`) after any change of
    the set's size. A successful send is followed by that step at once; a
    failed one removes the websocket (`remove_connection`) and awaits
    `close()` first.
  - The RuntimeError escapes `incoming_connection`, whose `try` covers only
    `handle_message`: the handler dies without `remove_connection`.
  - The broadcast tasks iterate a copy. A failed send runs `remove` on the
    live set, which raises `KeyError`, ending the task, when the websocket
    has already left it.
  - The Keychain is not in the repository. `UnlockKeyring`,
    `SetKeyringPassphrase` and `RemoveKeyringPassphrase` model its success;
    its failures and the commands' early returns change nothing. A failing
    `check_keys` leaves `run_check_keys_on_unlock` set.
  - A peer may leave at any time (`PeerCloses`). A send to it then fails,
    and its handler's next `receive()` returns CLOSE (`HandlerClose`).
  - The locals of a finished loop (`SendEnds`, `PingEnds`, `NoTask`) are
    reset, so that states differing only in dead locals are one state.
- **Rewards.** The block rewards are pure functions, written as operators and
  checked in `MC_Blockchain` over the stored blocks of every reachable state.
  - A coinbase address is modelled by the block it pays.
  - `LatestTxBlock` is the backward walk of `get_prev_transaction_block`.
    `BlockTree` assumes every genesis block is a transaction block (the
    genesis block pays the prefarm, spec 4), so the walk always ends, as
    it must in the code. The `total_iters` comparison after the walk is
    not modelled.
  - `last_withdrawal_index` is kept by `BlockRecord`, which is not under `src`.
    `Payouts(t)` rebuilds it from spec 4.G.1 as the index of the last
    withdrawal in t's payload.
- **Service runner.** `pc` is where `run()` is suspended.
  - `stop()` may run at any of those points, from a signal or, once the RPC
    server is open, from `stop_node`.
  - The introducer's `_start` creates its task without suspending, so
    `StartBegin` runs it together with the code before `start_server`.
  - Servers that are not under `src` are modelled by their contract:
    `await_closed()` returns once `close()` has been called.
  - The vetting task's steps interleave with `run()`'s. A pass through
    `raw_peers` has no await, so `LoopIdle` keeps other steps out of it.
  - `NodeClose` cancels the task at its sleep or connection. So the
    `_shut_down` checks in the loop (`VetWake` and `VetPeer`) can never see
    `True`: their branches are dead code in this service.

## Runs

| Run | Config | Expect | What it shows |
|---|---|---|---|
| chain_core | `MC_Blockchain.cfg` | pass | The following hold with failing store calls, crashes and restarts, connected pre-validation batches (including proof-of-space failures) and every engine answer: the height map is exactly the committed chain (`HeightMapConsistent`), and the manager refines `ChainStore` (`ImplementsChainStore`). With warmups, GC and a header reader racing the writer too: the last `BLOCKS_CACHE_SIZE` chain blocks stay cached (`CacheHoldsRecentChain`), and a payload-carrying block that becomes the peak is already the execution client's head (`PeakFollowedByEngine`). |
| chain_failures | `MC_Blockchain_failures.cfg` | pass | With failing commits, sub-epoch-summary failures and a disconnected batch too, the committed peak still only gets heavier, although the in-memory peak that `_reconsider_peak` compares against can then disagree with the store (`PeakWeightIncreases`). With a sparse set of transaction blocks, every stored chain's withdrawals pay each block exactly once, with indices 0, 1, 2, ... (`WithdrawalsPayEachBlockOnce`). The reward matches the spec's halving schedule on both sides of every boundary (`RewardScheduleMatches`). The worker pool returns one result per block, in block order, with each block's own difficulty, for every batch size up to 3, every list of up to 4 full or header blocks and every raising block (`PoolResultsInBlockOrder`). |
| chain_prevalidation_leak | `..._prevalidation_leak.cfg` | violation | A sub-epoch-summary failure leaves a tentative record cached. A child is then stored as an orphan while its parent is not: `ImplementsChainStore` fails. |
| chain_reader_peak | `..._reader_peak.cfg` | violation | The height map is rewritten before the commit. In a reorg to a block at the same height, `get_peak` returns a block the store does not hold yet. |
| plot_queue | `MC_PlotQueue.cfg` | pass | Requests for madmax (with tmp toggle), chiapos, ramplot and diskplot; plotters may crash and stops may come at any point. Even so, no plot is launched twice (`LaunchedOnce`) and no deleted item keeps a live plotter (`NoOrphanPlotter`). Madmax's consecutive plots swap tmp and tmp2 (`ToggleAlternates`). Unless a plotter dies without its final line, every submitted item eventually starts or is removed (`SubmittedLeavesUnlessStalled`). |
| plot_serial | `MC_PlotQueue_serial.cfg` | violation | Two serial requests, the second arriving while the first item sleeps in SUBMITTED, run two serial plotters together. |
| plot_crash_stall | `MC_PlotQueue_crash_stall.cfg` | violation | With plotters that never crash, a bladebit cudaplot request with a tmp2 directory is rejected by its plotter, which exits before its final log line; the serial queue stalls for ever. |
| service_runner | `MC_ServiceRunner.cfg` | pass | The introducer service, with two peers, the lock possibly taken, UPnP and an RPC server. No reconnect task outlives `stop()` (`NoReconnectAfterStop`). A peer is removed only after six or more failures in a row (`PeerRemovedAfterRepeatedFailures`). A stop after start-up always ends `run()` with the lock released (`StopAfterStartExits`). |
| service_stop_during_start | `..._stop_during_start.cfg` | violation | A signal while `start()` awaits `start_rpc_server` finds no RPC server to close. `start()` then stores an open one, and `wait_closed()` waits on it for ever with the lock held (`StopExits`). |
| daemon_services | `MC_DaemonMessages.cfg` | pass | Websocket handlers, forwarding, broadcast tasks, keyring commands and peers leaving, composed with service management. While the daemon runs, every live service process is tracked or being killed (`ProcessesTracked`); a requested shutdown always completes (`StopTerminates`); and a websocket whose peer has gone eventually leaves every service's set unless its handler crashed (`ClosedSocketForgotten`). |
| daemon_shutdown | `MC_DaemonServices_shutdown.cfg` | violation | `stop()` is re-entrant: a second `exit` command while the first stop task awaits its kills clears `services` and ends the daemon with a process still being killed (`ShutdownLeavesNoProcess`); a `start_service` during the await does the same with a live process. |
| daemon_ping | `MC_DaemonServices_ping.cfg` | violation | A new key registered while `ping_task` awaits a ping kills the ping job for good. |

## Findings

Each finding below has a violation run.

1. **Pre-validation leaks tentative records.** `multiprocess_validation.py:199`,
   `:207` and the assert at `:159` return without undoing `add_block_record`.
   Spec 4.F and property 6 of spec 8 require no side effect on failure. The
   leaked record makes `receive_block` answer ALREADY_HAVE_BLOCK for an
   unstored block and admit its children.
2. **Readers can see an uncommitted peak.** The height map is updated inside
   the transaction (`blockchain.py:253-261`). Only `_peak_height` waits for the
   commit, but `get_peak` reads through the height map. This contradicts the
   ordering guarantee of spec 5.
3. **A stop during start-up hangs the service.** `stop()` closes the RPC server
   only if one is set (`start_service.py:249`). A signal handled while
   `start()` awaits `start_server` or `start_rpc_server` lets `start()` go on
   to store an RPC server that nothing closes. `wait_closed()` awaits it with
   the lock file held. A second signal does nothing, because `_is_stopping` is
   already set. The RPC server is not under `src`: this assumes its
   `await_closed()` needs `close()`.
4. **Serial plotting is not exclusive** (`server.py:1028`).
5. **A cudaplot request with tmp2 stalls the serial queue.** The daemon
   writes `-2 <t2>` for cudaplot (`server.py:777`), but the cudaplot option
   list (`plotters.py:97`) has no `TMP_DIR2`, so the plotter's parser rejects
   the line and the plotter exits. `_watch_file_changes` (`server.py:667`)
   waits for the final words and never checks that the process has exited,
   so the item stays RUNNING and the serial items behind it never start. Any
   plotter that dies before its final line does the same.
6. **Services started during shutdown outlive the daemon**
   (`server.py:217`, `services.clear()`). `stop()` has no guard against a
   second call (`server.py:209`): a second `exit` clears `services` while the
   first stop task still awaits `kill_service`, so the daemon finishes with
   a process nobody waits for. TLC's shortest trace is this double stop.
7. **The ping task dies if a service registers during a ping**
   (`server.py:309`).

Further divergences are recorded as hazards without a run of their own:

- **A failed commit leaves memory ahead of the store.** The commit runs in the
  writer's `__aexit__`, outside the `try`. Adding `INVARIANT CacheImpliesStored`
  to `MC_Blockchain_failures.cfg` shows the trace. No run checks
  `CacheImpliesStored`: with commits that cannot fail it holds only because
  the two paths that break it are switched off.
- **The engine head runs ahead of the beacon peak.** `forkchoice_update` is
  sent for every valid transaction block (`block_body_validation.py:51`). That
  includes orphans and blocks later lost to a store error or a crash. Spec 4.H
  orders body validation (step 6) before the transaction (step 7), so this is
  the designed order. `PeakFollowedByEngine` checks the direction the code
  does guarantee (a payload block that becomes the peak is the engine head).
  The converse fails: `B1` is forkchoiced, its transaction raises, and the
  payload-less `A2` then becomes the peak while the engine stays on `B1`.
- **Forwarding kills the sender's handler.** `send_all_responses`
  (`server.py:278`) iterates the live set `self.connections[destination]`.
  A failed send inside the loop removes that websocket from the set, and the
  loop's next step raises RuntimeError. It escapes `incoming_connection`, so
  the sender's connection is dropped and stays registered. A ping failure
  or a registration during the send's await does the same. Adding
  `INVARIANT NoHandlerCrash` to `MC_DaemonMessages.cfg` shows a trace:
  a websocket registers as a service, forwards to that service, its peer
  goes away, and the send to it fails.
- **diskplot switches are always on.** The diskplot builder
  (`server.py:827-832`) appends `--alternate`, `--no-t1-direct` and
  `--no-t2-direct` when the request's values are `not None`, and their
  defaults are `False`. `CommandLineCarriesRequest` (a command line asks for
  what its request asked, and its plotter's parser accepts it) fails for a
  diskplot request with one of them off, and for a cudaplot request with a
  tmp2 directory. It is not checked by any run: a run whose requests avoid
  both cases would show nothing, and no run slot is free for the violation.
- **GC evicts one height too many.** `clean_block_record(peak - SIZE)` deletes
  height `peak - SIZE` itself, while spec 4.H and its Cache GC scenario keep
  `height >= peak - SIZE`. The spec's own unit scenario reaches this directly.
  `CacheHoldsRecentChain` checks the window the code does keep (the last
  `SIZE` heights); a mutant evicting one more height breaks it.
- **Mixed batches lose results.** `batch_pre_validate_blocks`
  (`multiprocess_validation.py:55`) has `assert ValueError(...)`, which
  always passes, so a batch given both full and header blocks validates only
  the full ones and the results after it shift. `PreValidatePool` evaluates
  `<<full, header, full>>` to two results. `receive_block` callers under
  `src` send only full blocks, so `PoolResultsInBlockOrder` quantifies over
  single-kind lists and the mixed case is a hazard.

## Bounds, and why they are enough

- **`MC_Blockchain`**: seven blocks.
  - Genesis `G`; the chain `A1`, `A2`; the heavier branch `B1`, `B2` (`B1` has
    difficulty 2); the heaviest single block `C1`; and `X`, which claims a
    wrong height.
  - This gives appends, an orphan of equal weight (`A2` against `B1`), a reorg
    with a fork at genesis (`A2` to `B2`), a reorg to a lower height (`B2` to
    `C1`), and invalid heights.
  - `BLOCKS_CACHE_SIZE = 1` makes GC and the reload window cut through these
    short chains.
  - `chain_failures` makes only `G`, `A2`, `B2` and `C1` transaction blocks.
    The reward walk then crosses non-transaction blocks and reorgs. The
    reward schedule is also checked at the heights next to every
    halving boundary, which no short chain reaches.
  - `chain_core` lets the reader ask for heights 0 to 2 (every height of
    the model) and warmup start at fork points 0 to 2; the other runs set
    `ReadHeights` and `WarmupPoints` to `{}` to stay within the time limit.
  - The pool is checked for up to 4 blocks and batch sizes 1 to 3: that
    has a batch that divides the list, one that does not, one batch of
    all blocks, and a last batch of one.
  - The transaction, non-transaction (`A2`) and invalid-height blocks, the
    engine's four answers and the two or three batches reach every branch of
    every action. Coverage shows every action firing in the two pass runs.
- **`MC_PlotQueue`**: three plot ids with requests of one or two items. That is
  enough for a serial request of two items next to another request, for two
  tasks on one id, and for stops in every state. The requests cover every
  plotter and plot type and every kind of word: values given and absent,
  attached values, switches, a key, numbers of one to four digits, and
  madmax's swap at an odd index. Three directories and one key are enough
  to tell tmp, tmp2 and the final directory apart. The liveness runs use two ids
  to stay within the time limit. `plot_queue` uses two ids for its liveness
  property for the same reason.
- **`MC_ServiceRunner`**: one connect peer and two introducer peers. This is
  enough for seven failures in a row, a success in between, a skip within
  500 s and a stale re-vet. Every await of `start()` and `wait_closed()` is
  reachable by a stop.
- **`MC_DaemonMessages`**: one service, the plotter and the GUI names, one
  websocket, one process launch and one broadcast task at a time, with
  `--wait-for-unlock` off. A start whose launch fails while the process
  still runs, a start during shutdown, a websocket registered under several
  names, a forward to the sender's own set, a send to a gone peer, a
  `KeyError` in a task and a ping racing a send are all reachable.
  About 400,000 states; two websockets or two launches do not fit the time
  limit with the liveness properties. A loop over a set of two websockets
  (the third branch of `NextConnection`) is therefore not reached by a
  passing run.
- **`MC_DaemonServices`** (violation runs only): two services, the plotter
  and GUI names, two websockets and three launches.

## Fairness

- **`PlotQueue`**: weak fairness on each task step (the event loop runs every
  ready task), on `StopKillDone` (`kill_processes` ends with `kill()` and
  `wait()`), and on `PlotterWritesFinal` (a plotter that does not crash
  finishes its plot), and on a plotter's exit when its command line is
  rejected (argparse exits). User requests and plotter crashes are not fair.
- **`DaemonServices`**: weak fairness on the `kill_service` tasks of `stop()`,
  on `KillDone` and on `StopFinish`. Clients and services are not assumed to
  act.
- **`DaemonMessages`**: that, and weak fairness on each handler's close and
  send steps and on each broadcast task's steps: the event loop runs every
  ready task, and aiohttp delivers CLOSE to the handler of a gone peer.
  Peers, clients and the plot queue are not fair.
- **`ServiceRunner`**: weak fairness on `run()`'s steps and on the vetting
  task's steps, because the event loop runs every ready task. The servers'
  start-up awaits are assumed to return. Signals, RPC requests and time passing
  come from the environment and are not fair. `Stop` is therefore a premise of
  the liveness properties, never a consequence.
- **`Blockchain`**: only safety properties are checked, so no fairness is
  assumed. The engine's answer has no timeout in the code, so it cannot
  justify any liveness.

## Not modelled, and why

- **Read-only queries of the blockchain.** These are
  `get_block_records_in_range`, `get_header_blocks_in_range` (its
  stale-read check is the one of `get_header_block_by_height`, which is
  modelled), `get_sp_and_ip_sub_slots` and `get_recent_reward_challenges`.
  `seen_compact_proofs` is a bounded set that is cleared when full; it
  changes no chain state. `BlockCache` is a read-only view handed to header
  validation, which is not under `src`; `protocol_state_machine` has no
  caller under `src`. Header validation is also left out: it is pure
  computation over VDFs and proofs.
- **`fork_point_with_peak` hints.** The model always searches for the fork
  point.
- **The block store, the height map's persistence and `find_fork_point`.**
  These live outside `src`; they are modelled from the spec.
- **The daemon's read-only commands, the Keychain, and launching.** `is_running`, `running_services`, `get_status`, `ping`,
  `keyring_status`, `is_keyring_locked` and `validate_keyring_passphrase`
  change nothing. The `KeychainServer` commands and `Keychain` are not in the
  repository. `Popen`, pid files and log paths in `launch_plotter` are I/O;
  the plotter back ends (`plot_chia`, `plot_madmax`, `plot_bladebit`) are
  not under `src`. The parser's long-option abbreviations and `-h` are not
  modelled: the daemon writes neither.
  The two awaits of `stop()` (`kill_service` tasks, then the cancel of the
  ping task) are merged in `StopTaskRun`.
- **The seeder's crawler API, protocol definitions, `request_peers` and the
  `start_*` entry points.** These are read-only, data or configuration glue.
- **The nodes other than the introducer** (farmer, harvester, timelord,
  crawler). These are not under `src`. So the window in `start()` where
  `_shut_down = False` overwrites a stop during `_start` is listed as a hazard
  only.
- **Planned.** Larger instances of the plot queue and of
  the daemon's websockets.
