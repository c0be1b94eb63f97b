--------------------------- MODULE MCMoviePlayer ---------------------------
(* MoviePlayer for TLC: a sound track, and a video track with keys.     *)
EXTENDS MoviePlayer

MCStamps == <<<<0, 1, 3, 4>>, <<0, 2, 5>>>>
MCKeys == <<1..4, {1, 3}>>
MCRanges == {0, 3}
MCFaults == FaultSites \ {"redescribes"}
=============================================================================
