---------------------------- MODULE DaemonMessages ----------------------------
(***************************************************************************)
(* The websocket side of the daemon (corpochain/daemon/server.py), composed *)
(* with its service management (DaemonServices):                           *)
(*   - incoming_connection: one handler per websocket, awaiting receive(); *)
(*     a TEXT message goes to handle_message and the response to          *)
(*     send_all_responses, anything else removes the connection and ends  *)
(*     the handler;                                                        *)
(*   - handle_message: a message for another destination is forwarded to  *)
(*     the set self.connections[destination] itself, a message for the    *)
(*     daemon runs a command (start/stop_service, register_service, exit, *)
(*     the keyring commands) and is answered to the sender alone;         *)
(*   - send_all_responses: `for connection in connections`, and on a      *)
(*     failed send remove_connection and close;                            *)
(*   - the tasks created by state_changed and keyring_status_changed,     *)
(*     which send to a copy of self.connections[service] and, on a failed *)
(*     send, remove the websocket from that set.                           *)
(*                                                                         *)
(* A websocket's peer may go away at any time: a send to it then raises,  *)
(* and its handler's next receive() returns CLOSE.  The Keychain is not   *)
(* under src; its calls succeed or fail freely.  Messages and statuses    *)
(* are not modelled, only who is sent to.                                  *)
(***************************************************************************)
EXTENDS DaemonServices

CONSTANTS
  MaxNotes,        \* bound on the state_changed/keyring tasks pending at once
  WaitForUnlock    \* run_check_keys_on_unlock (daemon --wait-for-unlock)

ASSUME MaxNotes \in Nat /\ WaitForUnlock \in BOOLEAN

NoteIds == 1..MaxNotes

VARIABLES
  sock,       \* the peer's end of each websocket: "open" or "closed"
  handler,    \* incoming_connection of each websocket: "idle" (awaiting
              \* receive), "sending" or "closing" (awaiting a send or a
              \* close in send_all_responses), "ended",
              \* or "crashed" (an exception left the handler)
  sendTo,     \* the set send_all_responses iterates: a name n for the live
              \* set self.connections[n], NONE for the literal {ws}
  sendLeft,   \* the sockets of that iteration not yet sent to
  sendSize,   \* the set's size when the iteration began
  notes,      \* the state_changed / keyring_status_changed tasks
  checkKeys   \* self.run_check_keys_on_unlock

msgVars == <<sock, handler, sendTo, sendLeft, sendSize, notes, checkKeys>>
allVars == <<vars, msgVars>>

Note == [st : {"unused", "new", "run"}, to : Names,
         left : SUBSET Sockets]

\* A free task slot; a task that returns, or dies of an exception, frees it.
NoTask == [st |-> "unused", to |-> UI, left |-> {}]

MessagesTypeOK ==
  /\ TypeOK
  /\ sock \in [Sockets -> {"open", "closed"}]
  /\ handler \in [Sockets -> {"idle", "sending", "closing", "ended", "crashed"}]
  /\ sendTo \in [Sockets -> Names \cup {NONE}]
  /\ sendLeft \in [Sockets -> SUBSET Sockets]
  /\ sendSize \in [Sockets -> 0..Cardinality(Sockets)]
  /\ notes \in [NoteIds -> Note]
  /\ checkKeys \in BOOLEAN

MessagesInit ==
  /\ Init
  /\ sock = [w \in Sockets |-> "open"]
  /\ handler = [w \in Sockets |-> "idle"]
  /\ sendTo = [w \in Sockets |-> NONE]
  /\ sendLeft = [w \in Sockets |-> {}]
  /\ sendSize = [w \in Sockets |-> 0]
  /\ notes = [t \in NoteIds |-> NoTask]
  /\ checkKeys = WaitForUnlock

\* The handler of w awaits receive() on an open websocket of a running daemon.
Live(w) == handler[w] = "idle" /\ sock[w] = "open" /\ phase # "stopped"

-----------------------------------------------------------------------------
(* Broadcast tasks.                                                        *)

\* asyncio.create_task(self._state_changed(to, ...)) or
\* (self._keyring_status_changed(..., to)): the next unused task id.
NewNote(to) ==
  \E t \in NoteIds :
    /\ notes[t].st = "unused"
    /\ \A u \in NoteIds : u < t => notes[u].st # "unused"
    /\ notes' = [notes EXCEPT ![t] = [st |-> "new", to |-> to, left |-> {}]]

\* The task starts: with no entry for the service it returns; otherwise it
\* iterates over websockets.copy(), and an empty copy ends it at once.
NoteStart(t) ==
  /\ notes[t].st = "new"
  /\ phase # "stopped"
  /\ notes' = [notes EXCEPT ![t] = IF notes[t].to \in ToSet(connKeys) /\ conns[notes[t].to] # {}
                                   THEN [@ EXCEPT !.st = "run", !.left = conns[notes[t].to]]
                                   ELSE NoTask]
  /\ UNCHANGED <<vars, sock, handler, sendTo, sendLeft, sendSize, checkKeys>>

\* The task has sent to every websocket of the copy, or died.
NoteLeft(t, left) ==
  notes' = [notes EXCEPT ![t] = IF left = {} THEN NoTask ELSE [@ EXCEPT !.left = left]]

\* `await websocket.send_str(response)` for one websocket c of the copy.  A
\* failed send runs `websockets.remove(websocket)` on the live set and
\* awaits close(); remove raises KeyError, ending the task, when
\* remove_connection got there first.
NoteSend(t) ==
  /\ notes[t].st = "run"
  /\ phase # "stopped"
  /\ \E c \in notes[t].left :
       LET to == notes[t].to IN
       \/ /\ sock[c] = "open"
          /\ NoteLeft(t, notes[t].left \ {c})
          /\ UNCHANGED vars
       \/ /\ sock[c] = "closed" /\ c \in conns[to]
          /\ conns' = [conns EXCEPT ![to] = @ \ {c}]
          /\ NoteLeft(t, notes[t].left \ {c})
          /\ UNCHANGED <<services, pstate, launched, killing, phase, stopTodo,
                         stopProcs, connKeys, PingVars>>
       \/ /\ sock[c] = "closed" /\ c \notin conns[to]
          /\ NoteLeft(t, {})
          /\ UNCHANGED vars
  /\ UNCHANGED <<sock, handler, sendTo, sendLeft, sendSize, checkKeys>>

\* A plot queue event: state_changed(service_plotter, ...).
PlotStateChanged ==
  /\ phase # "stopped"
  /\ NewNote(PLOTTER)
  /\ UNCHANGED <<vars, sock, handler, sendTo, sendLeft, sendSize, checkKeys>>

-----------------------------------------------------------------------------
(* The handler of each websocket.                                          *)

\* The peer goes away: its sends now raise, its next receive() is CLOSE.
PeerCloses(w) ==
  /\ sock[w] = "open"
  /\ phase # "stopped"
  /\ sock' = [sock EXCEPT ![w] = "closed"]
  /\ UNCHANGED <<vars, handler, sendTo, sendLeft, sendSize, notes, checkKeys>>

\* receive() returns CLOSE (or ERROR): remove_connection, close, break.
HandlerClose(w) ==
  /\ handler[w] = "idle" /\ sock[w] = "closed"
  /\ \/ CloseConnection(w)
     \/ /\ phase # "stopped" /\ \A n \in Names : w \notin conns[n]
        /\ UNCHANGED vars
  /\ handler' = [handler EXCEPT ![w] = "ended"]
  /\ UNCHANGED <<sock, sendTo, sendLeft, sendSize, notes, checkKeys>>

\* handle_message for a destination other than "daemon" that has an entry
\* in self.connections: the response goes to that very set.  (With no
\* entry it returns None, and with an empty set the loop does nothing;
\* either way the handler goes back to receive().)
Forward(w, d) ==
  /\ Live(w)
  /\ d \in ToSet(connKeys) /\ conns[d] # {}
  /\ handler' = [handler EXCEPT ![w] = "sending"]
  /\ sendTo' = [sendTo EXCEPT ![w] = d]
  /\ sendLeft' = [sendLeft EXCEPT ![w] = conns[d]]
  /\ sendSize' = [sendSize EXCEPT ![w] = Cardinality(conns[d])]
  /\ UNCHANGED <<vars, sock, notes, checkKeys>>

\* `for connection in connections` raises RuntimeError ("Set changed size
\* during iteration") at its next step when the live set has grown or
\* shrunk since the loop began.
IterationBroken(w) == Cardinality(conns[sendTo[w]]) # sendSize[w]

\* send_all_responses returns or raises: its locals are gone.
SendEnds(w, h) ==
  /\ handler' = [handler EXCEPT ![w] = h]
  /\ sendTo' = [sendTo EXCEPT ![w] = NONE]
  /\ sendLeft' = [sendLeft EXCEPT ![w] = {}]
  /\ sendSize' = [sendSize EXCEPT ![w] = 0]

\* The loop takes its next step: RuntimeError, the end of the loop, or the
\* next send.  The RuntimeError is raised outside the try of
\* incoming_connection, so the handler ends without removing its own
\* websocket from self.connections, and aiohttp closes it.
NextConnection(w, left) ==
  \/ /\ IterationBroken(w)
     /\ SendEnds(w, "crashed")
     /\ sock' = [sock EXCEPT ![w] = "closed"]
  \/ /\ ~IterationBroken(w) /\ left = {}
     /\ SendEnds(w, "idle")
     /\ UNCHANGED sock
  \/ /\ ~IterationBroken(w) /\ left # {}
     /\ handler' = [handler EXCEPT ![w] = "sending"]
     /\ sendLeft' = [sendLeft EXCEPT ![w] = left]
     /\ UNCHANGED <<sock, sendTo, sendSize>>

\* `await connection.send_str(response)` returns for one connection c.  A
\* successful send is followed at once by the loop's next step; a failed
\* one removes c from every set (remove_connection) and awaits close().
SendStep(w) ==
  /\ handler[w] = "sending"
  /\ phase # "stopped"
  /\ \E c \in sendLeft[w] :
       \/ /\ sock[c] = "open"
          /\ NextConnection(w, sendLeft[w] \ {c})
          /\ UNCHANGED vars
       \/ /\ sock[c] = "closed"
          /\ RemoveConnection(c)
          /\ handler' = [handler EXCEPT ![w] = "closing"]
          /\ sendLeft' = [sendLeft EXCEPT ![w] = @ \ {c}]
          /\ UNCHANGED <<services, pstate, launched, killing, phase, stopTodo,
                         stopProcs, connKeys, PingVars, sock, sendTo, sendSize>>
  /\ UNCHANGED <<notes, checkKeys>>

\* `await connection.close()` after a failed send returns; the loop steps on.
CloseStep(w) ==
  /\ handler[w] = "closing"
  /\ phase # "stopped"
  /\ NextConnection(w, sendLeft[w])
  /\ UNCHANGED <<vars, notes, checkKeys>>

\* handle_message for the daemon: the service commands of DaemonServices,
\* run by a live handler and answered to the sender alone.  The other
\* commands, and a command missing its data, only read state.  A reply to
\* a peer that has gone fails and removes ws from every set, as the CLOSE
\* its handler reads next does, so the reply is not modelled.
DaemonCommand(w) ==
  /\ Live(w)
  /\ \/ \E s \in Svcs : StartService(s) \/ StopService(s)
     \/ \E n \in Names : RegisterService(w, n)
     \/ Exit
  /\ UNCHANGED msgVars

\* keyring_status_changed(await self.keyring_status(), "ui")
KeyringStatusChanged == NewNote(UI)

\* unlock_keyring with a valid key: the passphrase is cached, the GUI is
\* told, and check_keys runs if still pending; when it raises, it is
\* retried at the next unlock.  A missing or bad key changes nothing.
UnlockKeyring(w) ==
  /\ Live(w)
  /\ KeyringStatusChanged
  /\ checkKeys' \in IF checkKeys THEN BOOLEAN ELSE {FALSE}
  /\ UNCHANGED <<vars, sock, handler, sendTo, sendLeft, sendSize>>

\* set_keyring_passphrase or remove_keyring_passphrase succeeding in the
\* Keychain: the GUI is told.  Their early returns change nothing.
SetKeyringPassphrase(w) ==
  /\ Live(w)
  /\ KeyringStatusChanged
  /\ UNCHANGED <<vars, sock, handler, sendTo, sendLeft, sendSize, checkKeys>>

RemoveKeyringPassphrase(w) ==
  /\ Live(w)
  /\ KeyringStatusChanged
  /\ UNCHANGED <<vars, sock, handler, sendTo, sendLeft, sendSize, checkKeys>>

\* The daemon's own tasks, which touch no websocket handler.
ServicesStep ==
  /\ \/ \E s \in Svcs : StopTaskRun(s)
     \/ \E p \in Procs : KillDone(p) \/ ServiceExits(p)
     \/ \E w \in Sockets : PingOne(w)
     \/ PingWake \/ StopFinish
  /\ UNCHANGED msgVars

MessagesNext ==
  \/ ServicesStep
  \/ PlotStateChanged
  \/ \E t \in NoteIds : NoteStart(t) \/ NoteSend(t)
  \/ \E w \in Sockets :
       \/ PeerCloses(w) \/ HandlerClose(w) \/ SendStep(w) \/ CloseStep(w)
       \/ DaemonCommand(w)
       \/ UnlockKeyring(w) \/ SetKeyringPassphrase(w) \/ RemoveKeyringPassphrase(w)
       \/ \E d \in Names : Forward(w, d)

\* The event loop runs every ready task and handler; clients, services and
\* the plot queue are not assumed to act.
MessagesFairness ==
  /\ Fairness
  /\ \A w \in Sockets : WF_allVars(HandlerClose(w)) /\ WF_allVars(SendStep(w))
                         /\ WF_allVars(CloseStep(w))
  /\ \A t \in NoteIds : WF_allVars(NoteStart(t)) /\ WF_allVars(NoteSend(t))

MessagesSpec == MessagesInit /\ [][MessagesNext]_allVars /\ MessagesFairness

-----------------------------------------------------------------------------
(* Properties.                                                             *)

\* A websocket whose peer has gone is eventually forgotten: it leaves every
\* service's set in self.connections, through its handler's CLOSE path,
\* a failed send, a failed ping or a broadcast task, unless its handler
\* died of an exception or the daemon stopped.  A websocket left in a set
\* is sent every later message for that service, and is counted by
\* is_service_running as a running service.
ClosedSocketForgotten ==
  \A w \in Sockets :
    sock[w] = "closed" ~>
      \/ \A n \in Names : w \notin conns[n]
      \/ handler[w] = "crashed"
      \/ phase = "stopped"

\* A handler ends only through its CLOSE path: forwarding a message to a
\* service never kills the sender's connection.
NoHandlerCrash == \A w \in Sockets : handler[w] # "crashed"
=============================================================================
