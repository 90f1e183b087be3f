----------------------------- MODULE ServiceRunner -----------------------------
(***************************************************************************)
(* Service (server/start_service.py) running the introducer node:          *)
(* run() takes the service lock file, start() starts the node, UPnP, the   *)
(* peer server, the reconnect tasks and the RPC server, and wait_closed()  *)
(* waits for stop() and then for each part to close.  stop() runs from a   *)
(* SIGINT/SIGTERM handler or from the RPC server's stop_node, on the event *)
(* loop, whenever run() is suspended at an await.                          *)
(*                                                                         *)
(* The peer server, the RPC server and the reconnect tasks are not under   *)
(* src: a server's await_closed() returns once its close() has been        *)
(* called, and start_rpc_server returns a running RPC server.              *)
(***************************************************************************)
EXTENDS Introducer

CONSTANTS
  ConnectPeers,     \* connect_peers: the keys of _reconnect_tasks
  RpcInfo,          \* rpc_info is not None: start() starts an RPC server
  UpnpPorts,        \* upnp_ports is not empty
  LockMayBeTaken    \* another process may hold the service's lock file

ASSUME RpcInfo \in BOOLEAN /\ UpnpPorts \in BOOLEAN /\ LockMayBeTaken \in BOOLEAN

VARIABLES
  pc,           \* where run() is: "init", "start_server", "start_rpc"
                \* (awaits in start), "wait_stop", "await_rpc" (awaits in
                \* wait_closed), "exited"
  stopping,     \* the _is_stopping event
  didStart,     \* _did_start
  lockHeld,     \* the Lockfile of run() is held
  mapped,       \* UPnP ports are mapped
  reconnKeys,   \* the keys of _reconnect_tasks
  reconnTasks,  \* peers with a live reconnect task
  serverClosed, \* close_all() was called on the peer server
  rpc,          \* rpc_server: "none", "open" or "closed"
  stopPhase     \* history: "none", or where run() was when stop() ran:
                \* "during_start" or "after_start"

svcVars == <<pc, stopping, didStart, lockHeld, mapped, reconnKeys, reconnTasks,
             serverClosed, rpc, stopPhase>>
vars == <<svcVars, introVars>>

Suspended == {"start_server", "start_rpc", "wait_stop", "await_rpc"}

TypeOK ==
  /\ IntroTypeOK
  /\ pc \in {"init", "exited"} \cup Suspended
  /\ stopping \in BOOLEAN /\ didStart \in BOOLEAN /\ lockHeld \in BOOLEAN
  /\ mapped \in BOOLEAN /\ serverClosed \in BOOLEAN
  /\ reconnKeys \subseteq ConnectPeers
  /\ reconnTasks \subseteq ConnectPeers
  /\ rpc \in {"none", "open", "closed"}
  /\ stopPhase \in {"none", "during_start", "after_start"}

\* Service.__init__: _reconnect_tasks = {peer: None for peer in connect_peers}.
Init ==
  /\ IntroInit
  /\ pc = "init"
  /\ stopping = FALSE /\ didStart = FALSE /\ lockHeld = FALSE
  /\ mapped = FALSE
  /\ reconnKeys = ConnectPeers
  /\ reconnTasks = {}
  /\ serverClosed = FALSE
  /\ rpc = "none"
  /\ stopPhase = "none"

\* run(): the lock file (timeout 1 s) is held by another process, and the
\* LockfileError becomes ValueError("... already running").
AlreadyRunning ==
  /\ LockMayBeTaken
  /\ pc' = "exited"
  /\ UNCHANGED <<lockHeld, didStart, mapped, introVars>>

\* run() takes the lock file and calls start(), up to its first await:
\* _did_start = True, the node's _start (which does not suspend),
\* _node._shut_down = False, UPnP setup and remap, then start_server.
StartBegin ==
  /\ lockHeld' = TRUE
  /\ didStart' = TRUE
  /\ NodeStart
  /\ shutDown' = FALSE
  /\ mapped' = UpnpPorts
  /\ pc' = "start_server"
  /\ UNCHANGED <<rawPeers, cur, vetted, attemptOld, stale, present, failRun>>

Run ==
  /\ pc = "init"
  /\ AlreadyRunning \/ StartBegin
  /\ UNCHANGED <<stopping, reconnKeys, reconnTasks, serverClosed, rpc, stopPhase>>

\* start_server returns: add_peer for every key still in _reconnect_tasks,
\* then start_rpc_server if rpc_info is set.
StartServerDone ==
  /\ pc = "start_server" /\ LoopIdle
  /\ reconnTasks' = reconnKeys
  /\ pc' = IF RpcInfo THEN "start_rpc" ELSE "wait_stop"
  /\ UNCHANGED <<stopping, didStart, lockHeld, mapped, reconnKeys, serverClosed,
                 rpc, stopPhase, introVars>>

\* start_rpc_server returns: self.rpc_server is set; start() returns and
\* wait_closed() awaits _is_stopping.
StartRpcDone ==
  /\ pc = "start_rpc" /\ LoopIdle
  /\ rpc' = "open"
  /\ pc' = "wait_stop"
  /\ UNCHANGED <<stopping, didStart, lockHeld, mapped, reconnKeys, reconnTasks,
                 serverClosed, stopPhase, introVars>>

\* A mutant: the reconnect tasks are cancelled but the dict is kept.
ClearReconnectKeepKeys(keys) == keys

\* self._reconnect_tasks.clear()
ClearReconnect(keys) == {}

\* A mutant: the RPC server is left open.
CloseRpcSkipped(r) == r

\* if self.rpc_server is not None: self.rpc_server.close()
CloseRpc(r) == IF r = "open" THEN "closed" ELSE r

\* stop(), from a signal handler (_accept_signal) or from the RPC server,
\* the first time: release the UPnP ports, cancel and forget the reconnect
\* tasks, close the peer server, _node._close(), _node._shut_down = True,
\* close the RPC server if there is one.  Later calls do nothing.
Stop(viaRpc) ==
  /\ pc \in Suspended /\ LoopIdle
  /\ viaRpc => rpc = "open"
  /\ ~stopping
  /\ stopping' = TRUE
  /\ mapped' = FALSE
  /\ reconnTasks' = {}
  /\ reconnKeys' = ClearReconnect(reconnKeys)
  /\ serverClosed' = TRUE
  /\ NodeClose
  /\ rpc' = CloseRpc(rpc)
  /\ stopPhase' = IF pc \in {"start_server", "start_rpc"} THEN "during_start"
                  ELSE "after_start"
  /\ UNCHANGED <<pc, didStart, lockHeld, vetted, attemptOld, stale, present, failRun>>

\* The end of wait_closed: the node's _await_closed (a no-op for the
\* introducer), upnp.shutdown(), _did_start = False, _is_stopping.clear();
\* run() leaves the lock file's with block and returns.
Finish ==
  /\ pc' = "exited"
  /\ didStart' = FALSE
  /\ stopping' = FALSE
  /\ lockHeld' = FALSE

\* wait_closed: _is_stopping is set and the peer server's await_closed()
\* returns; then the RPC server's await_closed() if there is one.
WaitServerClosed ==
  /\ pc = "wait_stop" /\ LoopIdle
  /\ stopping /\ serverClosed
  /\ IF rpc # "none"
       THEN /\ pc' = "await_rpc"
            /\ UNCHANGED <<didStart, stopping, lockHeld>>
       ELSE Finish
  /\ UNCHANGED <<mapped, reconnKeys, reconnTasks, serverClosed, rpc, stopPhase, introVars>>

WaitRpcClosed ==
  /\ pc = "await_rpc" /\ LoopIdle
  /\ rpc = "closed"
  /\ Finish
  /\ UNCHANGED <<mapped, reconnKeys, reconnTasks, serverClosed, rpc, stopPhase, introVars>>

\* The introducer's vetting task and time passing, while the service runs.
Vetting ==
  /\ pc # "exited"
  /\ \/ VettingStep
     \/ \E p \in IntroPeers : Tick(p)
  /\ UNCHANGED svcVars

Next ==
  \/ Run
  \/ StartServerDone
  \/ StartRpcDone
  \/ \E viaRpc \in BOOLEAN : Stop(viaRpc)
  \/ WaitServerClosed
  \/ WaitRpcClosed
  \/ Vetting

\* The event loop runs every ready task: run() and the vetting task are
\* weakly fair, and so are the servers' start-up awaits.  Signals, RPC
\* requests and time are the environment's and are not assumed.
Fairness ==
  /\ WF_vars(Run) /\ WF_vars(StartServerDone) /\ WF_vars(StartRpcDone)
  /\ WF_vars(WaitServerClosed) /\ WF_vars(WaitRpcClosed)
  /\ WF_vars(pc # "exited" /\ VettingStep /\ UNCHANGED svcVars)

Spec == Init /\ [][Next]_vars /\ Fairness

-----------------------------------------------------------------------------
(* Properties.                                                             *)

\* Once stop() has run, no reconnect task is alive, even when the signal
\* came while start() awaited start_server and start() went on to call
\* add_peer afterwards.  Breaks if stop() cancels the tasks but leaves the
\* keys of _reconnect_tasks for start() to re-add.
NoReconnectAfterStop ==
  stopPhase # "none" => reconnTasks = {}

\* A stop() that comes once start() has returned always ends run(): the
\* peer and RPC servers it closes let wait_closed() through, and the lock
\* file is released.  Breaks if stop() leaves the RPC server open.
StopAfterStartExits ==
  stopPhase = "after_start" ~> pc = "exited" /\ ~lockHeld

\* Every stop() ends run(), wherever run() was when the signal came.
StopExits ==
  stopPhase # "none" ~> pc = "exited" /\ ~lockHeld
=============================================================================
