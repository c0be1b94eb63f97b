--------------------------- MODULE MCSampleTable ---------------------------
(* SampleTable for TLC: every way three tables of a few entries may go     *)
(* together, legal or not.                                                 *)
EXTENDS SampleTable

UpTo(S, n) == UNION {[1..k -> S] : k \in 0..n}

Sizes == {[k \in 1..n |-> k + 1] : n \in 0..4}
Offsets == {[k \in 1..n |-> 100 * k] : n \in 0..3}

MCBoxes == [stts : UpTo([n : {1, 3}, delta : {0, 2}], 2), stsz : Sizes,
            stsc : UpTo([first : 0..3, per : 0..2], 2), stco : Offsets]
MCHeap == {7}
=============================================================================
