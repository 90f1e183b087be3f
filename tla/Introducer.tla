------------------------------ MODULE Introducer ------------------------------
(***************************************************************************)
(* The introducer node (introducer/introducer.py): _start creates the      *)
(* _vetting_loop task, _close sets _shut_down and cancels it.  Each pass   *)
(* of the loop sleeps 60 s, takes raw_peers from introducer_peers and,     *)
(* for every peer not vetted recently, opens a connection (timeout 3 s):   *)
(* success makes it vetted, failure counts down, and below -6 the peer is  *)
(* removed.  Time is abstracted to two flags per peer: attemptOld ("now >= *)
(* last_attempt + 500") and stale ("now > vetted_timestamp + 3600").       *)
(***************************************************************************)
EXTENDS Integers, FiniteSets

CONSTANTS
  IntroPeers,   \* the VettedPeer entries of server.introducer_peers
  NONE

VARIABLES
  shutDown,     \* Introducer._shut_down
  vet,          \* _vetting_task: "none" (not created), "sleep" (in the 60 s
                \* of asyncio.sleep), "peers" (running through raw_peers),
                \* "connect" (awaiting open_connection), "done"
  rawPeers,     \* the peers of raw_peers still to look at in this pass
  cur,          \* the peer being connected to, or NONE
  vetted,       \* VettedPeer.vetted
  attemptOld,   \* 500 s have passed since VettedPeer.last_attempt
  stale,        \* 3600 s have passed since VettedPeer.vetted_timestamp
  present,      \* the peer is still in introducer_peers
  failRun       \* history: connection failures since the peer's last success

introVars == <<shutDown, vet, rawPeers, cur, vetted, attemptOld, stale, present, failRun>>

\* The range vetted can take: a success sets it to 1, the seventh failure
\* in a row takes it to -7 and removes the peer.
VettedRange == -7..1

IntroTypeOK ==
  /\ shutDown \in BOOLEAN
  /\ vet \in {"none", "sleep", "peers", "connect", "done"}
  /\ rawPeers \subseteq IntroPeers
  /\ cur \in IntroPeers \cup {NONE}
  /\ vetted \in [IntroPeers -> VettedRange]
  /\ attemptOld \in [IntroPeers -> BOOLEAN]
  /\ stale \in [IntroPeers -> BOOLEAN]
  /\ present \in [IntroPeers -> BOOLEAN]
  /\ failRun \in [IntroPeers -> 0..7]

\* Introducer.__init__; new VettedPeers have vetted = 0 and timestamps 0.
IntroInit ==
  /\ shutDown = FALSE
  /\ vet = "none"
  /\ rawPeers = {}
  /\ cur = NONE
  /\ vetted = [p \in IntroPeers |-> 0]
  /\ attemptOld = [p \in IntroPeers |-> TRUE]
  /\ stale = [p \in IntroPeers |-> FALSE]
  /\ present = [p \in IntroPeers |-> TRUE]
  /\ failRun = [p \in IntroPeers |-> 0]

\* Between two awaits the loop runs alone: nothing else happens while it
\* walks through raw_peers.
LoopIdle == vet # "peers"

\* _start: the vetting task is created; it runs from its next scheduling.
NodeStart == vet' = "sleep"

\* _close: _shut_down = True and _vetting_task.cancel().  The task is
\* suspended in a sleep or a connection, so the CancelledError (not an
\* Exception, so not caught) ends it.
NodeClose ==
  /\ shutDown' = TRUE
  /\ vet' = IF vet \in {"sleep", "connect"} THEN "done" ELSE vet
  /\ rawPeers' = {}
  /\ cur' = NONE

\* The end of one peer of the for loop: on to the next, or back to the top
\* of the while loop and its sleep.
NextPeer(rest) ==
  /\ rawPeers' = rest
  /\ vet' = IF rest = {} THEN "sleep" ELSE "peers"

\* The 60 one-second sleeps end (each preceded by the _shut_down check),
\* and get_peers(100, True, ...) returns some of the peers; an empty
\* answer is "continue".
VetWake ==
  /\ vet = "sleep"
  /\ IF shutDown
       THEN /\ vet' = "done"
            /\ UNCHANGED rawPeers
       ELSE \E S \in SUBSET {p \in IntroPeers : present[p]} : NextPeer(S)
  /\ UNCHANGED <<shutDown, cur, vetted, attemptOld, stale, present, failRun>>

\* One peer of raw_peers: a vetted peer whose check is over an hour old is
\* reset to 0; a vetted peer, or one tried in the last 500 s, is skipped;
\* otherwise last_attempt = now and the loop awaits open_connection.
VetPeer(p) ==
  /\ vet = "peers"
  /\ p \in rawPeers
  /\ IF shutDown
       THEN /\ vet' = "done"
            /\ UNCHANGED <<rawPeers, cur, vetted, attemptOld>>
       ELSE LET v == IF vetted[p] > 0 /\ stale[p] THEN 0 ELSE vetted[p]
            IN /\ vetted' = [vetted EXCEPT ![p] = v]
               /\ IF v > 0 \/ ~attemptOld[p]
                    THEN /\ NextPeer(rawPeers \ {p})
                         /\ UNCHANGED <<cur, attemptOld>>
                    ELSE /\ attemptOld' = [attemptOld EXCEPT ![p] = FALSE]
                         /\ cur' = p
                         /\ vet' = "connect"
                         /\ UNCHANGED rawPeers
  /\ UNCHANGED <<shutDown, stale, present, failRun>>

\* A mutant: a success only counts up, without the floor of 1.
VettedAfterSuccessNoReset(v) == v + 1

\* peer.vetted = max(peer.vetted + 1, 1)
VettedAfterSuccess(v) == IF v + 1 > 1 THEN v + 1 ELSE 1

\* peer.vetted = min(peer.vetted - 1, -1)
VettedAfterFailure(v) == IF v - 1 < -1 THEN v - 1 ELSE -1

\* open_connection returns: vetted_timestamp = now and the peer counts up.
VetConnected ==
  /\ vet = "connect"
  /\ vetted' = [vetted EXCEPT ![cur] = VettedAfterSuccess(vetted[cur])]
  /\ stale' = [stale EXCEPT ![cur] = FALSE]
  /\ failRun' = [failRun EXCEPT ![cur] = 0]
  /\ cur' = NONE
  /\ NextPeer(rawPeers \ {cur})
  /\ UNCHANGED <<shutDown, attemptOld, present>>

\* A mutant: the peer is kept one failure longer.
KeepPeerOneMore(v) == v >= -7

\* if peer.vetted < -6: introducer_peers.remove(peer)
KeepPeer(v) == v >= -6

\* open_connection raises or times out: the peer counts down, and is
\* removed from introducer_peers once vetted < -6.
VetFailed ==
  /\ vet = "connect"
  /\ LET v == VettedAfterFailure(vetted[cur])
     IN /\ vetted' = [vetted EXCEPT ![cur] = v]
        /\ present' = [present EXCEPT ![cur] = KeepPeer(v)]
  /\ failRun' = [failRun EXCEPT ![cur] = @ + 1]
  /\ cur' = NONE
  /\ NextPeer(rawPeers \ {cur})
  /\ UNCHANGED <<shutDown, attemptOld, stale>>

\* Time passes: 500 s after the last attempt, or an hour after the last
\* success (which came at most 3 s after its attempt).
Tick(p) ==
  /\ LoopIdle
  /\ present[p] /\ cur # p
  /\ \/ /\ ~attemptOld[p]
        /\ attemptOld' = [attemptOld EXCEPT ![p] = TRUE]
        /\ UNCHANGED stale
     \/ /\ attemptOld[p] /\ vetted[p] > 0 /\ ~stale[p]
        /\ stale' = [stale EXCEPT ![p] = TRUE]
        /\ UNCHANGED attemptOld
  /\ UNCHANGED <<shutDown, vet, rawPeers, cur, vetted, present, failRun>>

\* The steps of the vetting task.
VettingStep ==
  \/ VetWake
  \/ \E p \in IntroPeers : VetPeer(p)
  \/ VetConnected
  \/ VetFailed

-----------------------------------------------------------------------------
(* Properties.                                                             *)

\* "If we have failed 6 times in a row, remove the peer": a peer leaves
\* introducer_peers only after at least six connection attempts in a row
\* failed, with no success in between.  Breaks if a success does not
\* reset the countdown, so failures before it count towards removal.
PeerRemovedAfterRepeatedFailures ==
  \A p \in IntroPeers : ~present[p] => failRun[p] >= 6
=============================================================================
