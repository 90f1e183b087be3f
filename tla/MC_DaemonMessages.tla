------------------------- MODULE MC_DaemonMessages -------------------------
(* One service, the plotter and the GUI; one websocket; bounded tasks.    *)
EXTENDS DaemonMessages

CONSTANTS S1, W1, W2

MCSvcs == {S1}
MCSockets == {W1, W2}
MCSockets1 == {W1}
=============================================================================
