---------------------------- MODULE MCRtspInput ----------------------------
(* RtspInput for TLC: what the network and the clients do.                 *)
EXTENDS RtspInput

Careless == {"abandon", "bad"}
Following == {"follow"}
=============================================================================
