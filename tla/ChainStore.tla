------------------------------ MODULE ChainStore ------------------------------
(***************************************************************************)
(* What the blockchain manager promises its callers about durable state    *)
(* (spec sections 4.B and 4.H): every block it persists is connected to a  *)
(* persisted parent or is a genesis block, and the persisted peak moves to *)
(* a newly added block exactly when that block is the first genesis block  *)
(* or is strictly heavier than the current peak.                           *)
(***************************************************************************)
EXTENDS BlockTree

VARIABLES stored, peak

Init == /\ stored = {}
        /\ peak = NONE

\* The fork-choice rule: does b replace the current peak?
Heavier(b) == IF Genesis(b) THEN peak = NONE
              ELSE peak # NONE /\ Weight(b) > Weight(peak)

\* One block is persisted, and becomes the peak if it wins fork choice.
Add(b) == /\ Genesis(b) \/ Parent[b] \in stored
          /\ stored' = stored \cup {b}
          /\ peak' = IF Heavier(b) THEN b ELSE peak

Next == \E b \in Blocks : Add(b)

Spec == Init /\ [][Next]_<<stored, peak>>
=============================================================================
