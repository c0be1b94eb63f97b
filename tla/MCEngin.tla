------------------------------ MODULE MCEngin ------------------------------
(* Engin for TLC: every call that may fail does.                           *)
EXTENDS Engin

AllFaults == FaultSites
=============================================================================
