------------------------- MODULE MC_DaemonServices -------------------------
(* Two services and the plotter; one or two websockets; bounded launches. *)
EXTENDS DaemonServices

CONSTANTS S1, S2, W1, W2

MCSvcs == {S1, S2}
MCSockets == {W1, W2}
MCSockets1 == {W1}
=============================================================================
