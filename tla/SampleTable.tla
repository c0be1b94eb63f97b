---------------------------- MODULE SampleTable ----------------------------
(***************************************************************************)
(* CMp4Demuxer::ParseStts, ParseStsz, ParseStsc, ParseStco and ParseTrak   *)
(* (src/src/Mp4.cpp): how the tables of a track, run-length coded in the   *)
(* file, become one CSample per sample.  The tables come from any file, so *)
(* they need not fit together; ReadsPast says what the code then reads.    *)
(*                                                                         *)
(* pc is what is read next:                                                *)
(*   stts, stsc   the entries of that table, one per step                  *)
(*   start        ParseTrak, before its loop                               *)
(*   samples      in its loop                                              *)
(*   done         the track is known                                       *)
(*   refused      the file ended in a table: ParseTrak returns false       *)
(*   crashed      an empty vector was read, or 2^32 entries were pushed    *)
(* The boxes of a track may come in any order; each fills a vector of its  *)
(* own, so one order stands for all.  Chunks and samples count from 1.     *)
(***************************************************************************)
EXTENDS Integers, SequencesExt, FiniteSetsExt

CONSTANTS Boxes,  \* the tables a track may come with
          Heap    \* what a read behind a vector's end may return

\* stts: runs of samples with one duration; stsz: the sizes; stsc: from
\* which chunk on how many samples a chunk has; stco: the chunks' offsets.
BoxType == [stts : Seq([n : Nat, delta : Nat]), stsz : Seq(Nat),
            stsc : Seq([first : Nat, per : Nat]), stco : Seq(Nat)]

ASSUME BoxAssumption == Boxes \subseteq BoxType /\ Heap \subseteq Nat

VARIABLES box,       \* the tables in the file
          dur,       \* m_SampleDur
          cap,       \* m_ChunkCapacity
          entry,     \* the entry of the table being read
          chunk,     \* cidx + 1
          left,      \* ccapacity: what it counts down to zero
          base,      \* coffset
          offset,    \* offset
          ts,        \* ts
          samples,   \* m_Samples
          home,      \* history: the value of chunk when a sample was pushed
          pc

tables == <<dur, cap, entry>>
loop == <<chunk, left, base, offset, ts, samples, home>>
vars == <<box, tables, loop, pc>>

Init == /\ box \in Boxes
        /\ dur = << >> /\ cap = << >> /\ entry = 1
        /\ chunk = 1 /\ left = 0 /\ base = 0 /\ offset = 0 /\ ts = 0
        /\ samples = << >> /\ home = << >>
        /\ pc = "stts"

-----------------------------------------------------------------------------
(* ParseStts: an entry is n samples of one duration.                       *)
ParseStts == /\ pc = "stts"
             /\ IF entry <= Len(box.stts)
                THEN LET e == box.stts[entry]
                     IN /\ dur' = dur \o [j \in 1..e.n |-> e.delta]
                        /\ entry' = entry + 1
                        /\ UNCHANGED pc
                ELSE /\ pc' = "stsc" /\ entry' = 1
                     /\ UNCHANGED dur
             /\ UNCHANGED <<box, cap, loop>>

(* Variant: the chunk an entry begins with repeats the entry before it.    *)
PaddingOneMore(e) == [j \in 1..e.first - Len(cap) |-> Last(cap)]

(* The chunks between two entries have as many samples as the first says.  *)
Padding(e) == [j \in 1..e.first - 1 - Len(cap) |-> Last(cap)]

(* ParseStsc: the first entry stands for one chunk, whichever it names;    *)
(* firstChunk-1 wraps round for a later one that names chunk 0.            *)
ParseStsc == /\ pc = "stsc"
             /\ IF entry > Len(box.stsc)
                THEN pc' = "start" /\ UNCHANGED <<cap, entry>>
                ELSE LET e == box.stsc[entry]
                     IN \/ /\ cap = << >>
                           /\ cap' = <<e.per>> /\ entry' = entry + 1
                           /\ UNCHANGED pc
                        \/ /\ cap # << >> /\ e.first > 0
                           /\ cap' = Append(cap \o Padding(e), e.per)
                           /\ entry' = entry + 1
                           /\ UNCHANGED pc
                        \/ /\ cap # << >> /\ e.first = 0
                           /\ pc' = "crashed" /\ UNCHANGED <<cap, entry>>
             /\ UNCHANGED <<box, dur, loop>>

(* Read32BE fails: the parsers and ParseTrak return false.                 *)
FileEnds == /\ pc \in {"stts", "stsc"}
            /\ pc' = "refused"
            /\ UNCHANGED <<box, tables, loop>>

-----------------------------------------------------------------------------
(* v[i] of a vector: behind the end of one that is not empty the heap.     *)
ReadsPast(v, i) == IF i \in DOMAIN v THEN {v[i]} ELSE Heap

(* ParseTrak, up to the loop: the first chunk is read, there or not.       *)
Start == /\ pc = "start"
         /\ IF box.stco = << >> \/ cap = << >>
            THEN pc' = "crashed" /\ UNCHANGED <<left, base>>
            ELSE /\ pc' = "samples"
                 /\ base' = box.stco[1]
                 /\ left' = cap[1]
         /\ UNCHANGED <<box, tables, chunk, offset, ts, samples, home>>

(* A chunk is complete: on to the next, or to the last one again when      *)
(* there are no more; behind its table the capacity is that of the last.   *)
NextChunk ==
   /\ chunk' = chunk + 1
   /\ base' = IF chunk' <= Len(box.stco) THEN box.stco[chunk'] ELSE base
   /\ left' = IF chunk' <= Len(cap) THEN cap[chunk'] ELSE Last(cap)
   /\ offset' = 0

SameChunk(len) == /\ left' = left - 1
                  /\ offset' = offset + len
                  /\ UNCHANGED <<chunk, base>>

MoreSamples == Len(samples) < Len(dur)

(* ParseTrak, one round of the loop.  A capacity of 0 wraps round when it  *)
(* is counted down, and is not seen as complete again.                     *)
NextSample == /\ pc = "samples" /\ MoreSamples
              /\ box.stsz # << >>
              /\ \E len \in ReadsPast(box.stsz, Len(samples) + 1),
                    d \in ReadsPast(dur, Len(samples) + 1) :
                    /\ samples' = Append(samples, [ts |-> ts, dur |-> d,
                                            off |-> base + offset, len |-> len])
                    /\ ts' = ts + d
                    /\ IF left = 1 THEN NextChunk ELSE SameChunk(len)
              /\ home' = Append(home, chunk)
              /\ UNCHANGED <<box, tables, pc>>

NoSize == /\ pc = "samples" /\ MoreSamples
          /\ box.stsz = << >>
          /\ pc' = "crashed"
          /\ UNCHANGED <<box, tables, loop>>

Finish == /\ pc = "samples" /\ ~MoreSamples
          /\ pc' = "done"
          /\ UNCHANGED <<box, tables, loop>>

Next == \/ ParseStts \/ ParseStsc \/ FileEnds
        \/ Start \/ NextSample \/ NoSize \/ Finish

Spec == Init /\ [][Next]_vars

-----------------------------------------------------------------------------
(* What the tables mean, from the format they are in.                      *)

(* v[1] + ... + v[n].                                                      *)
SumTo(v, n) == LET s[i \in 0..n] == IF i = 0 THEN 0 ELSE s[i - 1] + v[i] IN s[n]

Chunks(b) == 1..Len(b.stco)

Per(b, c) == b.stsc[Max({i \in DOMAIN b.stsc : b.stsc[i].first <= c})].per

(* The samples in the chunks before c.                                     *)
Before(b, c) == SumTo([d \in Chunks(b) |-> Per(b, d)], c - 1)

ChunkOf(b, k) == CHOOSE c \in Chunks(b) : Before(b, c) < k /\ k <= Before(b, c + 1)

(* The samples in the first i runs.                                        *)
Runs(b, i) == SumTo([j \in DOMAIN b.stts |-> b.stts[j].n], i)

Duration(b, k) == b.stts[CHOOSE i \in DOMAIN b.stts :
                            Runs(b, i - 1) < k /\ k <= Runs(b, i)].delta

(* When sample k is due: after those before it.                            *)
Due(b, k) == SumTo([j \in DOMAIN b.stsz |-> Duration(b, j)], k - 1)

Meaning(b) ==
   [k \in DOMAIN b.stsz |->
      LET c == ChunkOf(b, k)
      IN [ts |-> Due(b, k),
          dur |-> Duration(b, k),
          off |-> b.stco[c] + SumTo(b.stsz, k - 1) - SumTo(b.stsz, Before(b, c)),
          len |-> b.stsz[k]]]

(* Tables that fit together, of a track with at least one sample: a size   *)
(* and a duration for every sample, entries of stsc in ascending order     *)
(* from chunk 1, each chunk with samples, and room for all of them.        *)
Legal(b) == /\ b.stsz # << >> /\ b.stco # << >> /\ b.stsc # << >>
            /\ Runs(b, Len(b.stts)) = Len(b.stsz)
            /\ b.stsc[1].first = 1
            /\ \A i \in DOMAIN b.stsc : b.stsc[i].per > 0
            /\ \A i \in DOMAIN b.stsc \ {1} :
                  b.stsc[i - 1].first < b.stsc[i].first
            /\ Before(b, Len(b.stco) + 1) >= Len(b.stsz)

-----------------------------------------------------------------------------
Sample == [ts : Nat, dur : Nat, off : Nat, len : Nat]

TypeOK == /\ box \in Boxes
          /\ dur \in Seq(Nat) /\ cap \in Seq(Nat)
          /\ entry \in Nat \ {0}
          /\ chunk \in Nat \ {0} /\ left \in Int
          /\ base \in Nat /\ offset \in Nat /\ ts \in Nat
          /\ samples \in Seq(Sample) /\ Len(samples) <= Len(dur)
          /\ home \in Seq(Nat \ {0}) /\ Len(home) = Len(samples)
          /\ pc \in {"stts", "stsc", "start", "samples", "done", "refused",
                    "crashed"}

(* From tables that fit together the parser makes the samples the format   *)
(* means: when each is due, where it is and how long it is.                *)
MatchesFormat == TypeOK /\ (pc = "done" /\ Legal(box) => samples = Meaning(box))
=============================================================================
