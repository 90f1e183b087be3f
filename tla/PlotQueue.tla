------------------------------ MODULE PlotQueue ------------------------------
(***************************************************************************)
(* The plot queue of the daemon (corpochain/daemon/server.py): the         *)
(* start_plotting and stop_plotting handlers of the websocket server, the  *)
(* _start_plotting tasks they create on the event loop, and the plotter    *)
(* processes those tasks launch.  One queue ("default") is modelled; items *)
(* of other queues never read each other's state.                          *)
(*                                                                         *)
(* A _start_plotting task suspends at `await asyncio.sleep(delay)` and at  *)
(* `await self._track_plotting_progress(...)`; stop_plotting suspends at   *)
(* `await kill_processes(...)`.  Each stretch between awaits is one step.  *)
(* Several tasks may exist for one plot id, so tasks are counted per id    *)
(* and per await point.  Plot delays are left out: the order in which      *)
(* sleeping tasks wake is chosen freely.                                   *)
(***************************************************************************)
EXTENDS PlotCommand

CONSTANTS
  IdOrder,          \* the plot ids (uuid4) in the order requests create them
  Requests,         \* the start_plotting requests the GUI may send
  PlotterMayCrash   \* a plotter process may exit without its final log line

ASSUME /\ IdOrder \in Seq(ToSet(IdOrder)) /\ IsInjective(IdOrder)
       /\ \A r \in Requests : r.n \in Nat \ {0} /\ r.parallel \in BOOLEAN
       /\ PlotterMayCrash \in BOOLEAN

Ids == ToSet(IdOrder)

\* Mutant: every item gets the command line of the request's first plot.
ItemArgsFirstIndex(r, k) == BuildArgs(r, TRUE, 0)

\* The command_args of the k-th item (k = 0, 1, ...) of request r.
ItemArgs(r, k) == BuildArgs(r, TRUE, k)

VARIABLES
  plots,     \* self.plots_queue: the sequence of item ids
  state,     \* config["state"] of each item; "NONE" before it is created
  parallel,  \* config["parallel"]
  proc,      \* the plotter process of the item: "none", "alive" or "dead"
  wrote,     \* the plotter has written its final words to its log
  launches,  \* how many times launch_plotter ran for the item
  tasks,     \* live _start_plotting tasks: id -> await point -> count
  stopping,  \* ids whose stop_plotting is awaiting kill_processes
  created,   \* how many ids requests have taken from IdOrder
  cmd,       \* config["command_args"] of each item
  parsed,    \* how the plotter's parser reads cmd: ParseCommand(cmd[i]), kept
             \* with it because the line never changes once the item exists
  origin     \* history: the request, its loop index and its first id's position

vars == <<plots, state, parallel, proc, wrote, launches, tasks, stopping, created,
          cmd, parsed, origin>>

PlotStates == {"NONE", "SUBMITTED", "RUNNING", "REMOVING", "FINISHED"}
TaskPcs == {"start", "sleep", "track"}   \* not yet run; in sleep; in tracking
NoTasks == [p \in TaskPcs |-> 0]

TypeOK ==
  /\ plots \in Seq(Ids) /\ IsInjective(plots)
  /\ state \in [Ids -> PlotStates]
  /\ parallel \in [Ids -> BOOLEAN]
  /\ proc \in [Ids -> {"none", "alive", "dead"}]
  /\ wrote \in [Ids -> BOOLEAN]
  /\ launches \in [Ids -> Nat]
  /\ tasks \in [Ids -> [TaskPcs -> Nat]]
  /\ stopping \subseteq Ids
  /\ created \in 0..Len(IdOrder)
  /\ cmd \in [Ids -> {ItemArgs(r, k) : r \in Requests, k \in 0..Len(IdOrder)} \cup {<<>>}]
  /\ \A i \in Ids :
       \/ parsed[i] = NONE
       \/ parsed[i].ok \in BOOLEAN /\ DOMAIN parsed[i] = {"ok", "name", "ns"}
  /\ origin \in [Ids -> {NONE} \cup [req : Requests, index : Nat, batch : Nat]]

-----------------------------------------------------------------------------
\* _is_serial_plotting_running over queue q and states st
SerialRunning(q, st) ==
  \E k \in 1..Len(q) : ~parallel[q[k]] /\ st[q[k]] = "RUNNING"

\* tk with one more task for id i, created by loop.create_task
Spawn(tk, i) == [tk EXCEPT ![i]["start"] = @ + 1]

\* _run_next_serial_plotting: unless a serial plot runs, a task is created
\* for the first submitted serial item of the queue.
RunNextSerialPlotting(q, st, tk) ==
  LET k == SelectInSeq(q, LAMBDA i : st[i] = "SUBMITTED" /\ ~parallel[i])
  IN IF SerialRunning(q, st) \/ k = 0 THEN tk ELSE Spawn(tk, q[k])

\* Mutant: _run_next_serial_plotting runs before the item's state is set.
FinishStaleState(i, pc, st) ==
  tasks' = RunNextSerialPlotting(plots, state, [tasks EXCEPT ![i][pc] = @ - 1])

\* Mutant: the ending task is taken off the wrong await point's count.
FinishFromStart(i, pc, st) ==
  tasks' = RunNextSerialPlotting(plots, st, [tasks EXCEPT ![i]["start"] = @ - 1])

\* A task for i leaves await point pc for good; its `finally` clause calls
\* _run_next_serial_plotting with the item states st of that moment.
Finish(i, pc, st) ==
  tasks' = RunNextSerialPlotting(plots, st, [tasks EXCEPT ![i][pc] = @ - 1])

\* A task for i moves from await point pc to the next one.
Move(i, from, to) == tasks' = [tasks EXCEPT ![i][from] = @ - 1, ![i][to] = @ + 1]

-----------------------------------------------------------------------------
Init ==
  /\ plots = <<>>
  /\ state = [i \in Ids |-> "NONE"]
  /\ parallel = [i \in Ids |-> FALSE]
  /\ proc = [i \in Ids |-> "none"]
  /\ wrote = [i \in Ids |-> FALSE]
  /\ launches = [i \in Ids |-> 0]
  /\ tasks = [i \in Ids |-> NoTasks]
  /\ stopping = {}
  /\ created = 0
  /\ cmd = [i \in Ids |-> <<>>]
  /\ parsed = [i \in Ids |-> NONE]
  /\ origin = [i \in Ids |-> NONE]

\* start_plotting(r): n = r["n"] items are appended as SUBMITTED with
\* their command lines; a task is created for every parallel item, and for
\* the first item of a serial request when no serial plot is RUNNING.
StartPlotting(r) ==
  /\ created + r.n <= Len(IdOrder)
  /\ LET par == r.parallel
         new == ToSet(SubSeq(IdOrder, created + 1, created + r.n))
         index(i) == CHOOSE k \in 0..r.n - 1 : IdOrder[created + 1 + k] = i
         first == IdOrder[created + 1]
         canStartSerial == ~SerialRunning(plots, state)
     IN /\ plots' = plots \o SubSeq(IdOrder, created + 1, created + r.n)
        /\ state' = [i \in Ids |-> IF i \in new THEN "SUBMITTED" ELSE state[i]]
        /\ parallel' = [i \in Ids |-> IF i \in new THEN par ELSE parallel[i]]
        /\ cmd' = [i \in Ids |-> IF i \in new THEN ItemArgs(r, index(i)) ELSE cmd[i]]
        /\ parsed' = [i \in Ids |-> IF i \in new THEN ParseCommand(cmd'[i]) ELSE parsed[i]]
        /\ origin' = [i \in Ids |->
                        IF i \in new THEN [req |-> r, index |-> index(i), batch |-> created]
                        ELSE origin[i]]
        /\ tasks' = [i \in Ids |->
                       IF i \in new /\ (par \/ (i = first /\ canStartSerial))
                         THEN [tasks[i] EXCEPT !["start"] = @ + 1]
                         ELSE tasks[i]]
        /\ created' = created + r.n
  /\ UNCHANGED <<proc, wrote, launches, stopping>>

\* _start_plotting up to `await asyncio.sleep(delay)`: the item must be in
\* the queue (next() raises StopIteration otherwise) and SUBMITTED (else an
\* Exception); a raising task still runs its `finally`.
TaskBegin(i) ==
  /\ tasks[i]["start"] > 0
  /\ IF i \in ToSet(plots) /\ state[i] = "SUBMITTED"
       THEN Move(i, "start", "sleep")
       ELSE Finish(i, "start", state)
  /\ UNCHANGED <<plots, state, parallel, proc, wrote, launches, stopping, created, cmd, parsed, origin>>

\* Mutant: the state is not checked again after the sleep.
StillSubmittedUnchecked(i) == TRUE

\* _start_plotting after the sleep: `if config["state"] is not SUBMITTED`.
StillSubmitted(i) == state[i] = "SUBMITTED"

\* _start_plotting from the sleep to `await self._track_plotting_progress`:
\* return if the item left SUBMITTED meanwhile; launch_plotter may raise
\* (SubprocessError, IOError), which marks the item FINISHED; otherwise the
\* process runs and the item is RUNNING.
TaskWake(i) ==
  /\ tasks[i]["sleep"] > 0
  /\ \/ /\ ~StillSubmitted(i)
        /\ Finish(i, "sleep", state)
        /\ UNCHANGED <<state, proc, launches>>
     \/ /\ StillSubmitted(i)
        /\ state' = [state EXCEPT ![i] = "FINISHED"]
        /\ Finish(i, "sleep", state')
        /\ UNCHANGED <<proc, launches>>
     \/ /\ StillSubmitted(i)
        /\ state' = [state EXCEPT ![i] = "RUNNING"]
        /\ proc' = [proc EXCEPT ![i] = "alive"]
        /\ launches' = [launches EXCEPT ![i] = @ + 1]
        /\ Move(i, "sleep", "track")
  /\ UNCHANGED <<plots, parallel, wrote, stopping, created, cmd, parsed, origin>>

\* _watch_file_changes: the read loop returns when the item is no longer
\* RUNNING or a line holds the plotter's final words; a plotter that died
\* without them leaves the loop reading empty lines for ever.
TrackingReturns(i) == state[i] # "RUNNING" \/ wrote[i]

\* _track_plotting_progress returns once a read log line holds the final
\* words or the item is no longer RUNNING (_watch_file_changes).  Then the
\* item is FINISHED and `finally` waits for the process (a blocking
\* process.wait()) before _run_next_serial_plotting.
TaskTrack(i) ==
  /\ tasks[i]["track"] > 0
  /\ TrackingReturns(i)
  /\ state' = [state EXCEPT ![i] = "FINISHED"]
  /\ proc' = [proc EXCEPT ![i] = "dead"]
  /\ Finish(i, "track", state')
  /\ UNCHANGED <<plots, parallel, wrote, launches, stopping, created, cmd, parsed, origin>>

\* Mutant: the kill is keyed on the wrong state constant.
KillNeededSubmitted(i) == proc[i] # "none" /\ state[i] = "SUBMITTED"

\* stop_plotting: `if process is not None and state == PlotState.RUNNING`.
KillNeeded(i) == proc[i] # "none" /\ state[i] = "RUNNING"

\* stop_plotting up to `await kill_processes`: a RUNNING item becomes
\* REMOVING and its process is signalled; any other item is marked
\* FINISHED and deleted from the queue at once.  A REMOVING item is
\* refused (returns success False without a change).
StopPlotting(i) ==
  /\ i \in ToSet(plots)
  /\ state[i] # "REMOVING"
  /\ \/ /\ KillNeeded(i)
        /\ state' = [state EXCEPT ![i] = "REMOVING"]
        /\ stopping' = stopping \cup {i}
        /\ UNCHANGED plots
     \/ /\ ~KillNeeded(i)
        /\ state' = [state EXCEPT ![i] = "FINISHED"]
        /\ plots' = Remove(plots, i)
        /\ UNCHANGED stopping
  /\ UNCHANGED <<parallel, proc, wrote, launches, tasks, created, cmd, parsed, origin>>

\* stop_plotting after kill_processes, which waits for the process to exit:
\* FINISHED, deleted from the queue, then _run_next_serial_plotting.
StopKillDone(i) ==
  /\ i \in stopping
  /\ proc' = [proc EXCEPT ![i] = "dead"]
  /\ state' = [state EXCEPT ![i] = "FINISHED"]
  /\ plots' = Remove(plots, i)
  /\ stopping' = stopping \ {i}
  /\ tasks' = RunNextSerialPlotting(plots', state', tasks)
  /\ UNCHANGED <<parallel, wrote, launches, created, cmd, parsed, origin>>

Accepted(i) == parsed[i].ok

\* The plotter process writes its final log line ("Renamed final file");
\* one whose command line its parser rejects never gets that far.
PlotterWritesFinal(i) ==
  /\ proc[i] = "alive" /\ ~wrote[i]
  /\ Accepted(i)
  /\ wrote' = [wrote EXCEPT ![i] = TRUE]
  /\ UNCHANGED <<plots, state, parallel, proc, launches, tasks, stopping, created, cmd, parsed, origin>>

\* The plotter process dies before it writes its final log line: it may
\* crash (out of space, killed by the OS), and it exits with a usage
\* message when its parser rejects its command line.
PlotterCrashes(i) ==
  /\ proc[i] = "alive" /\ ~wrote[i]
  /\ PlotterMayCrash \/ ~Accepted(i)
  /\ proc' = [proc EXCEPT ![i] = "dead"]
  /\ UNCHANGED <<plots, state, parallel, wrote, launches, tasks, stopping, created, cmd, parsed, origin>>

-----------------------------------------------------------------------------
Next ==
  \/ \E r \in Requests : StartPlotting(r)
  \/ \E i \in Ids :
       \/ TaskBegin(i) \/ TaskWake(i) \/ TaskTrack(i)
       \/ StopPlotting(i) \/ StopKillDone(i)
       \/ PlotterWritesFinal(i) \/ PlotterCrashes(i)

\* A plotter whose command line is rejected exits (argparse's exit(2)).
PlotterRejected(i) == PlotterCrashes(i) /\ ~Accepted(i)

\* The event loop runs every ready task; kill_processes returns once the
\* signalled process exits; a plotter that does not crash finishes, and one
\* with a rejected command line exits.  The user's requests are not
\* assumed to come.
Fairness ==
  \A i \in Ids :
    /\ WF_vars(TaskBegin(i)) /\ WF_vars(TaskWake(i)) /\ WF_vars(TaskTrack(i))
    /\ WF_vars(StopKillDone(i)) /\ WF_vars(PlotterWritesFinal(i))
    /\ WF_vars(PlotterRejected(i))

Spec == Init /\ [][Next]_vars /\ Fairness

-----------------------------------------------------------------------------
(* Properties.                                                             *)

\* No plot is launched twice: two tasks may exist for one item (from the
\* `finally` of a task and the run_next of stop_plotting), and only the
\* second look at config["state"] after the sleep keeps the later one from
\* starting a second plotter for the same id.
LaunchedOnce == \A i \in Ids : launches[i] <= 1

\* Once stop_plotting has deleted an item from plots_queue, no plotter
\* process of it is left running: a running item is killed and waited for,
\* and a task that wakes for a deleted item does not launch it.
NoOrphanPlotter ==
  \A i \in Ids : state[i] # "NONE" /\ i \notin ToSet(plots) => proc[i] # "alive"

\* "only the first item can start when user selected serial plotting":
\* at no time do two serial plotter processes of the queue run together.
SerialExclusive ==
  \A i, j \in Ids :
    i # j /\ ~parallel[i] /\ ~parallel[j] => ~(proc[i] = "alive" /\ proc[j] = "alive")

\* "Plotting will start automatically when previous plotting finish":
\* every submitted item eventually leaves SUBMITTED (starts or is removed).
SubmittedEventuallyLeaves ==
  \A i \in Ids : state[i] = "SUBMITTED" ~> state[i] # "SUBMITTED"

\* A plotter died before its final log line while its item is RUNNING:
\* _watch_file_changes never sees "Renamed final file" for it.
PlotterStalled ==
  \E i \in Ids : proc[i] = "dead" /\ ~wrote[i] /\ state[i] = "RUNNING"

\* The same promise, in behaviours where no plotter dies without its final
\* log line: then each sleeping task launches its plotter or returns, each
\* finish starts the next serial item, and no item waits for ever.
SubmittedLeavesUnlessStalled ==
  []~PlotterStalled => SubmittedEventuallyLeaves

\* The parsed command line of item i; r its request.
ParsedArgs(i) == parsed[i].ns

\* Request keys that switch a store_true option, and the option's dest.
SwitchDest ==
  [e |-> "nobitfield", x |-> "exclude_final_dir", overrideK |-> "override",
   w |-> "warmstart", m |-> "nonuma", no_cpu_affinity |-> "no_cpu_affinity",
   disk_128 |-> "disk_128", disk_16 |-> "disk_16", alternate |-> "alternate",
   no_t1_direct |-> "no_t1_direct", no_t2_direct |-> "no_t2_direct"]

\* The temporary directories a namespace or a request names.
TmpDirsOf(ns) == {ns[d] : d \in {"tmpdir", "tmpdir2"} \cap DOMAIN ns} \ {<<>>, NONE}
RequestTmpDirs(r) == {Str(x) : x \in {r.t, r.t2} \ {NONE}}

\* Each queue item's command_args, as the plotter's parser reads them, ask
\* for what the start_plotting request asked: the plotter is the one
\* requested, exactly one plot (the queue holds one item per plot), the
\* final directory, threads and temporary directories of the request, and
\* each switch on exactly when the request set it.  A flag the parser does
\* not know, a value it cannot read, or a switch the builder writes
\* unasked all break it.  No run checks it: the diskplot builder's switches
\* and cudaplot's '-2' break it for requests the GUI can send (README,
\* Findings), and a run restricted to the other requests proves little.
CommandLineCarriesRequest ==
  \A i \in Ids : origin[i] # NONE =>
    LET r == origin[i].req
        p == parsed[i]
    IN /\ p.ok
       /\ p.name = IF r.plotter = "bladebit" THEN r.plot_type ELSE r.plotter
       /\ p.ns.count = 1
       /\ p.ns.finaldir = Str(r.d) /\ p.ns.threads = r.r
       /\ TmpDirsOf(p.ns) = RequestTmpDirs(r)
       /\ \A f \in DOMAIN SwitchDest :
            SwitchDest[f] \in DOMAIN p.ns => p.ns[SwitchDest[f]] = (r[f] = TRUE)

\* madmax's tmptoggle, done by the daemon: of two consecutive plots of one
\* request with "G" set and two different temporary directories, the
\* second writes to the first's tmp2 as its tmp and the other way round.
ToggleAlternates ==
  \A i, j \in Ids :
    /\ origin[i] # NONE /\ origin[j] # NONE
    /\ origin[i].batch = origin[j].batch
    /\ origin[j].index = origin[i].index + 1
    /\ origin[i].req.plotter = "madmax" /\ origin[i].req.G = TRUE
    /\ origin[i].req.t # origin[i].req.t2
    => /\ ParsedArgs(i).tmpdir = ParsedArgs(j).tmpdir2
       /\ ParsedArgs(i).tmpdir2 = ParsedArgs(j).tmpdir

=============================================================================
