---------------------------- MODULE DaemonServices ----------------------------
(***************************************************************************)
(* Service management of the daemon's WebSocketServer                      *)
(* (corpochain/daemon/server.py): start_service, stop_service (through      *)
(* kill_service and kill_processes), register_service and remove_connection *)
(* on the connections dict, the ping_task that pings registered services,   *)
(* and stop(), the shutdown started by the "exit" command or a signal.      *)
(*                                                                         *)
(* Handlers run on one event loop; the steps below end at their awaits:    *)
(* kill_processes, the asyncio.wait of stop(), and the sleep and pings of   *)
(* ping_task.  A service process is a number from 1..MaxLaunches.          *)
(***************************************************************************)
EXTENDS Integers, Sequences, SequencesExt, FiniteSets

CONSTANTS
  Svcs,         \* service names start_service may launch (validate_service)
  PLOTTER,      \* service_plotter: registers for the plot queue, never pinged
  UI,           \* "ui": the GUI, destination of keyring status changes
  Sockets,      \* websocket connections of clients and services
  MaxLaunches,  \* bound on the service processes launched in a behaviour
  NONE

ASSUME PLOTTER \notin Svcs /\ UI \notin Svcs \cup {PLOTTER} /\ MaxLaunches \in Nat \ {0}

Procs == 1..MaxLaunches
Names == Svcs \cup {PLOTTER, UI}

VARIABLES
  services,    \* self.services: service -> its process, NONE if no key
  pstate,      \* each process: "unused", "alive" or "dead"
  launched,    \* how many processes launch_service has started
  killing,     \* processes a kill_processes call is terminating
  phase,       \* "running"; "stopping" while stop() awaits; "stopped"
  stopTodo,    \* services whose kill_service task of stop() has not run yet
  stopProcs,   \* processes the kill_service tasks of stop() are killing
  connKeys,    \* the keys of self.connections, in insertion order
  conns,       \* self.connections: name -> set of websockets
  ping,        \* ping_job: "none", "sleep", "ping", "done" or "dead"
  pingIdx,     \* position in connKeys of the service being pinged
  pingSize,    \* the number of keys when the dict iteration started
  pingLeft,    \* the copy of that service's connections not yet pinged
  pingRestart, \* the local `restart` of ping_task
  pingCancel   \* a cancel() of ping_job not yet delivered

vars == <<services, pstate, launched, killing, phase, stopTodo, stopProcs,
          connKeys, conns, ping, pingIdx, pingSize, pingLeft, pingRestart,
          pingCancel>>

Launched == {p \in Procs : pstate[p] # "unused"}

TypeOK ==
  /\ services \in [Svcs -> Procs \cup {NONE}]
  /\ pstate \in [Procs -> {"unused", "alive", "dead"}]
  /\ launched \in 0..MaxLaunches
  /\ killing \subseteq Launched
  /\ phase \in {"running", "stopping", "stopped"}
  /\ stopTodo \subseteq Svcs /\ stopProcs \subseteq Launched
  /\ connKeys \in Seq(Names) /\ IsInjective(connKeys)
  /\ conns \in [Names -> SUBSET Sockets]
  /\ ping \in {"none", "sleep", "ping", "done", "dead"}
  /\ pingIdx \in 0..Len(connKeys) /\ pingSize \in Nat
  /\ pingLeft \subseteq Sockets
  /\ pingRestart \in BOOLEAN /\ pingCancel \in BOOLEAN

-----------------------------------------------------------------------------
\* Mutant: kill_service does not check that the service has processes.
RegisteredUnchecked(s) == TRUE

\* kill_service: `if processes is None: return False`
Registered(s) == services[s] # NONE

\* kill_service up to `await kill_processes`: the key is deleted first and
\* the process is terminated; the caller resumes when it has exited.
KillService(s) ==
  /\ services' = [services EXCEPT ![s] = NONE]
  /\ killing' = killing \cup {services[s]}

\* Mutant: a service the daemon launched is not seen as running.
AlreadyRunningRegisteredOnly(s) == services[s] = NONE /\ conns[s] # {}

\* start_service: already_running when its process still polls as alive,
\* or, with no process entry, when the service has registered a connection.
AlreadyRunning(s) ==
  \/ services[s] # NONE /\ pstate[services[s]] = "alive"
  \/ services[s] = NONE /\ conns[s] # {}

\* The ping_task ends (or a new one sleeps): its loop state is gone.
PingEnds(st) ==
  /\ ping' = st /\ pingIdx' = 0 /\ pingSize' = 0 /\ pingLeft' = {}
  /\ pingRestart' = TRUE

\* ping_task's `for service_name, connections in self.connections.items()`
\* after position idx: the dict iterator raises RuntimeError if a key was
\* added since the iteration began; the plotter and services without
\* connections are passed over without an await.  At the end of the loop
\* a new ping_task is created when `restart` holds.
Advance(idx, restart) ==
  LET ks == {k \in idx + 1..Len(connKeys) :
               connKeys[k] # PLOTTER /\ conns[connKeys[k]] # {}}
  IN IF Len(connKeys) # pingSize THEN PingEnds("dead")
     ELSE IF ks = {} THEN PingEnds(IF restart THEN "sleep" ELSE "done")
     ELSE /\ ping' = "ping"
          /\ pingIdx' = Min(ks)
          /\ pingLeft' = conns[connKeys[Min(ks)]]
          /\ pingRestart' = restart
          /\ UNCHANGED pingSize

\* Mutant: the loop of remove_connection stops at the first set holding w.
RemoveConnectionFirst(w) ==
  conns' = IF \E n \in Names : w \in conns[n]
           THEN LET m == CHOOSE n \in Names : w \in conns[n]
                IN [conns EXCEPT ![m] = @ \ {w}]
           ELSE conns

\* remove_connection: the websocket leaves every service's set.
RemoveConnection(w) == conns' = [n \in Names |-> conns[n] \ {w}]

-----------------------------------------------------------------------------
Init ==
  /\ services = [s \in Svcs |-> NONE]
  /\ pstate = [p \in Procs |-> "unused"]
  /\ launched = 0
  /\ killing = {}
  /\ phase = "running"
  /\ stopTodo = {} /\ stopProcs = {}
  /\ connKeys = <<>>
  /\ conns = [n \in Names |-> {}]
  /\ ping = "none" /\ pingIdx = 0 /\ pingSize = 0 /\ pingLeft = {}
  /\ pingRestart = TRUE /\ pingCancel = FALSE

PingVars == <<ping, pingIdx, pingSize, pingLeft, pingRestart, pingCancel>>

\* start_service(s): a dead process entry is popped and relaunched; no
\* launch when already running; launch_service may raise (start failed).
StartService(s) ==
  /\ phase # "stopped"
  /\ ~AlreadyRunning(s)
  /\ \/ /\ launched < MaxLaunches
        /\ launched' = launched + 1
        /\ pstate' = [pstate EXCEPT ![launched + 1] = "alive"]
        /\ services' = [services EXCEPT ![s] = launched + 1]
     \/ /\ services' = [services EXCEPT ![s] = NONE]
        /\ UNCHANGED <<pstate, launched>>
  /\ UNCHANGED <<killing, phase, stopTodo, stopProcs, connKeys, conns, PingVars>>

\* stop_service(s) -> kill_service, up to its await.
StopService(s) ==
  /\ phase # "stopped"
  /\ Registered(s)
  /\ KillService(s)
  /\ UNCHANGED <<pstate, launched, phase, stopTodo, stopProcs, connKeys,
                 conns, PingVars>>

\* Mutant: no process.kill() fallback: the wait returns only for a
\* process that has already exited.
KillReturnsIfExited(p) == pstate[p] = "dead"

\* kill_processes: the `while count < delay_before_kill` loop ends in
\* process.kill() when the process ignores the terminate signal, so the
\* final process.wait() always returns.
KillReturns(p) == TRUE

\* kill_processes returns: terminate, then kill after delay_before_kill,
\* then process.wait().
KillDone(p) ==
  /\ p \in killing
  /\ KillReturns(p)
  /\ pstate' = [pstate EXCEPT ![p] = "dead"]
  /\ killing' = killing \ {p}
  /\ UNCHANGED <<services, launched, phase, stopTodo, stopProcs, connKeys,
                 conns, PingVars>>

\* A service process exits on its own; start_service will see poll() set.
ServiceExits(p) ==
  /\ pstate[p] = "alive" /\ p \notin killing
  /\ pstate' = [pstate EXCEPT ![p] = "dead"]
  /\ UNCHANGED <<services, launched, killing, phase, stopTodo, stopProcs,
                 connKeys, conns, PingVars>>

\* register_service(w, n): the key is added if new, the websocket joins it;
\* for a service other than the plotter a ping_task is created when
\* ping_job is None (only then: a finished or crashed job is not None).
RegisterService(w, n) ==
  /\ phase # "stopped"
  /\ connKeys' = IF n \in ToSet(connKeys) THEN connKeys ELSE Append(connKeys, n)
  /\ conns' = [conns EXCEPT ![n] = @ \cup {w}]
  /\ IF n # PLOTTER /\ ping = "none"
       THEN /\ ping' = "sleep" /\ pingRestart' = TRUE /\ pingCancel' = FALSE
            /\ UNCHANGED <<pingIdx, pingSize, pingLeft>>
       ELSE UNCHANGED PingVars
  /\ UNCHANGED <<services, pstate, launched, killing, phase, stopTodo, stopProcs>>

\* incoming_connection: a CLOSE or ERROR message, or a failed send, removes
\* the websocket from every service.
CloseConnection(w) ==
  /\ phase # "stopped"
  /\ \E n \in Names : w \in conns[n]
  /\ RemoveConnection(w)
  /\ UNCHANGED <<services, pstate, launched, killing, phase, stopTodo,
                 stopProcs, connKeys, PingVars>>

\* ping_task wakes from `await asyncio.sleep(30)`: a pending cancel raises
\* there and ends the task; otherwise the iteration over the dict begins.
PingWake ==
  /\ ping = "sleep"
  /\ IF pingCancel
       THEN PingEnds("done")
       ELSE /\ LET ks == {k \in 1..Len(connKeys) :
                            connKeys[k] # PLOTTER /\ conns[connKeys[k]] # {}}
               IN IF ks = {} THEN PingEnds("sleep")
                  ELSE /\ ping' = "ping" /\ pingIdx' = Min(ks)
                       /\ pingSize' = Len(connKeys) /\ pingRestart' = TRUE
                       /\ pingLeft' = conns[connKeys[Min(ks)]]
  /\ UNCHANGED pingCancel
  /\ UNCHANGED <<services, pstate, launched, killing, phase, stopTodo,
                 stopProcs, connKeys, conns>>

\* `await connection.ping()` for w returns: a pending cancel is caught
\* (restart = False, break out of this service's set; the cancel is
\* delivered once, so the outer loop pings the remaining services); a
\* failed ping (always for a closed socket) removes and closes the
\* connection.  The loop then moves on.
PingOne(w) ==
  /\ ping = "ping" /\ w \in pingLeft
  /\ \/ /\ pingCancel
        /\ UNCHANGED conns
        /\ Advance(pingIdx, FALSE)
     \/ /\ ~pingCancel /\ w \in conns[connKeys[pingIdx]]
        /\ UNCHANGED conns
        /\ IF pingLeft = {w} THEN Advance(pingIdx, pingRestart)
           ELSE pingLeft' = pingLeft \ {w}
                /\ UNCHANGED <<ping, pingIdx, pingSize, pingRestart>>
     \/ /\ ~pingCancel
        /\ RemoveConnection(w)
        /\ IF pingLeft = {w} THEN Advance(pingIdx, pingRestart)
           ELSE pingLeft' = pingLeft \ {w}
                /\ UNCHANGED <<ping, pingIdx, pingSize, pingRestart>>
  /\ pingCancel' = FALSE
  /\ UNCHANGED <<services, pstate, launched, killing, phase, stopTodo,
                 stopProcs, connKeys>>

\* stop(), up to `await asyncio.wait(stop_service_jobs)`: ping_job is
\* cancelled and a kill_service task is created for every service key.
\* With no keys nothing is awaited: services are cleared and the shutdown
\* event is set.  Nothing keeps a second stop() (another signal, another
\* "exit") from running while the first awaits; its tasks join the ones
\* awaited (the two waits are merged into one).
Exit ==
  /\ phase # "stopped"
  /\ pingCancel' = (ping \in {"sleep", "ping"})
  /\ LET keys == {s \in Svcs : services[s] # NONE}
     IN IF keys = {} THEN phase' = "stopped" /\ stopTodo' = {}
        ELSE phase' = "stopping" /\ stopTodo' = stopTodo \cup keys
  /\ UNCHANGED <<services, pstate, launched, killing, stopProcs, connKeys,
                 conns, ping, pingIdx, pingSize, pingLeft, pingRestart>>

\* A kill_service task of stop() runs up to its await (or returns False
\* when stop_service already deleted the key).
StopTaskRun(s) ==
  /\ s \in stopTodo
  /\ stopTodo' = stopTodo \ {s}
  /\ IF Registered(s)
       THEN KillService(s) /\ stopProcs' = stopProcs \cup {services[s]}
       ELSE UNCHANGED <<services, killing, stopProcs>>
  /\ UNCHANGED <<pstate, launched, phase, connKeys, conns, PingVars>>

\* stop() resumes when all its tasks are done: self.services.clear() and
\* the shutdown event is set; the daemon then exits.
StopFinish ==
  /\ phase = "stopping" /\ stopTodo = {} /\ stopProcs \cap killing = {}
  /\ services' = [s \in Svcs |-> NONE]
  /\ phase' = "stopped"
  /\ UNCHANGED <<pstate, launched, killing, stopTodo, stopProcs, connKeys,
                 conns, PingVars>>

-----------------------------------------------------------------------------
Next ==
  \/ \E s \in Svcs : StartService(s) \/ StopService(s) \/ StopTaskRun(s)
  \/ \E p \in Procs : KillDone(p) \/ ServiceExits(p)
  \/ \E w \in Sockets : CloseConnection(w) \/ PingOne(w)
                        \/ \E n \in Names : RegisterService(w, n)
  \/ PingWake \/ Exit \/ StopFinish

\* The event loop runs every ready task, and kill_processes ends in
\* process.kill() and process.wait(), so every kill returns.  Requests
\* from clients and services exiting on their own are not assumed.
Fairness ==
  /\ \A s \in Svcs : WF_vars(StopTaskRun(s))
  /\ \A p \in Procs : WF_vars(KillDone(p))
  /\ WF_vars(StopFinish)

Spec == Init /\ [][Next]_vars /\ Fairness

-----------------------------------------------------------------------------
(* Properties.                                                             *)

\* While the daemon runs, every live service process it launched is in
\* self.services or being killed: start_service never overwrites the entry
\* of a process that still runs, and kill_service only forgets a process it
\* is terminating.  An untracked process can be stopped by nothing.
ProcessesTracked ==
  phase # "stopped" =>
    \A p \in Procs : pstate[p] = "alive" =>
      (\E s \in Svcs : services[s] = p) \/ p \in killing

\* "exit" stops every service: once stop() has set the shutdown event,
\* every process stop() set out to kill has exited, and no other service
\* process launched by the daemon is alive and left unkilled.  Broken by a
\* service started while stop() awaits, and by a second stop() that finds
\* no keys left and sets the event while the first one's kills still wait.
ShutdownLeavesNoProcess ==
  phase = "stopped" =>
    /\ stopProcs \cap killing = {}
    /\ \A p \in Procs : pstate[p] = "alive" => p \in killing

\* Once requested, stop() completes: every kill_service task it awaits
\* returns, so the shutdown event is set.
StopTerminates == phase = "stopping" ~> phase = "stopped"

\* While the daemon runs, a ping_job that exists is alive: registered
\* services keep being pinged every 30 s (ping_task re-creates itself).
PingJobAlive == phase = "running" => ping # "dead"
=============================================================================
