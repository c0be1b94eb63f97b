---------------------------- MODULE MCEventEngin ----------------------------
(* TLC instance of EventEngin: nobody asks for room to write, which would   *)
(* be one more kind of report, worked off as the others are.                *)
EXTENDS EventEngin

ReadOnly == {{"in"}}
=============================================================================
