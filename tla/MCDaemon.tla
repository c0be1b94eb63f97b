------------------------------ MODULE MCDaemon ------------------------------
(* Daemon for TLC.                                                         *)
EXTENDS Daemon

(* A bound: channels have tracks only in a process that is its own worker. *)
(* What a lookup finds does not depend on who started the process, and no  *)
(* other step looks at the tracks.                                         *)
MCNext == Next /\ (mode = "daemon" => got' = 0)

MCSpec == Init /\ [][MCNext]_vars /\ Fairness
=============================================================================
