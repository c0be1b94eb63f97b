------------------------------- MODULE MCDisk -------------------------------
(* Two objects for Disk; the offsets lie in a block and at the second.     *)
EXTENDS Disk, TLC

TheContexts == 1..2
TheSizes == {0, 3}
TheOffsets == {1, 2}
TheLengths == {0, 2}
=============================================================================
