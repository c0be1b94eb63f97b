--------------------------- MODULE MCRtspSession ---------------------------
(* RtspSession for TLC: who the clients are and what may go wrong.         *)
EXTENDS RtspSession

Orderly == {}
Unfailing == {}
AllButParse == FaultKinds \ {"parse"}
=============================================================================
