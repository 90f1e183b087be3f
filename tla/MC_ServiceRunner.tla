---------------------------- MODULE MC_ServiceRunner ----------------------------
(* The introducer service with one peer to reconnect to and one or two     *)
(* peers to vet.                                                           *)
EXTENDS ServiceRunner

CONSTANTS R1, Q1, Q2

MCConnectPeers == {R1}
MCIntroPeers1 == {Q1}
MCIntroPeers2 == {Q1, Q2}
=============================================================================
