------------------------- MODULE SampleTableProofs -------------------------
(***************************************************************************)
(* Any tables at all, fitting together or not: what ParseTrak makes of     *)
(* them is a sequence in time and, chunk by chunk, in the file.            *)
(***************************************************************************)
EXTENDS SampleTable, SequenceTheorems, WellFoundedInduction, TLAPS

-----------------------------------------------------------------------------
(* Sets of numbers: what the inductions and Per need of them.         *)

(* The order of the naturals as a relation, which the library knows to be  *)
(* well founded.                                                           *)
LEMMA LessThan == ASSUME NEW x \in Nat, NEW y \in Nat
  PROVE <<y, x>> \in OpToRel(<,Nat) <=> y < x
  BY SMT DEF OpToRel

(* A set of naturals has a least element: what induction comes from here.  *)
LEMMA Least == ASSUME NEW T \in SUBSET Nat, T # {}
  PROVE \E x \in T : \A y \in T : x <= y
<1>1. PICK x \in T : \A y \in T : ~ (<<y, x>> \in OpToRel(<,Nat))
  BY WFMin, NatLessThanWellFounded, Zenon
<1>2. SUFFICES ASSUME NEW y \in T PROVE ~(y < x)
  BY SMT
<1>3. <<y, x>> \in OpToRel(<,Nat) <=> y < x
  BY LessThan
<1> QED BY <1>1, <1>3, Zenon

(* ... and the greatest of one that has a bound.                           *)
LEMMA MaxFacts ==
  ASSUME NEW S \in SUBSET Nat, S # {}, NEW B \in Nat, \A x \in S : x <= B
  PROVE  Max(S) \in S /\ \A y \in S : y <= Max(S)
<1> DEFINE T == {b \in Nat : \A x \in S : x <= b}
<1>1. T \in SUBSET Nat /\ T # {}
  OBVIOUS
<1>2. PICK b \in T : \A c \in T : b <= c
  BY <1>1, Least
<1>3. b \in S
  <2> SUFFICES ASSUME b \notin S PROVE FALSE
    OBVIOUS
  <2>1. \A x \in S : x < b
    BY <1>2
  <2>2. PICK x \in S : TRUE
    OBVIOUS
  <2>3. b - 1 \in T /\ ~(b <= b - 1)
    BY <2>1, <2>2
  <2> QED BY <1>2, <2>3
<1>4. \E x \in S : \A y \in S : x >= y
  BY <1>2, <1>3
<1>5. Max(S) \in S /\ \A y \in S : Max(S) >= y
  BY <1>4 DEF Max
<1> QED BY <1>5

-----------------------------------------------------------------------------

(* Whatever is in the file, a track is a sequence in time, and samples of  *)
(* one chunk follow each other in the file; the first of a chunk is where  *)
(* the table says, or at the last chunk when the table is too short.       *)
ChunkBase(c) == box.stco[IF c <= Len(box.stco) THEN c ELSE Len(box.stco)]

Contiguous ==
   /\ samples # << >> => /\ samples[1].ts = 0 /\ home[1] = 1
                         /\ samples[1].off = ChunkBase(1)
   /\ \A k \in 1..Len(samples) - 1 :
         /\ samples[k + 1].ts = samples[k].ts + samples[k].dur
         /\ \/ /\ home[k + 1] = home[k]
               /\ samples[k + 1].off = samples[k].off + samples[k].len
            \/ /\ home[k + 1] = home[k] + 1
               /\ samples[k + 1].off = ChunkBase(home[k + 1])

\* What the loop's locals say of the sample pushed last, and of the tables.
Link ==
   /\ pc \in {"stts", "stsc", "start"} => samples = << >>
   /\ pc \in {"start", "samples", "done"} /\ cap = << >> => samples = << >>
   /\ pc = "samples" => /\ cap # << >> /\ box.stco # << >>
                        /\ base = ChunkBase(chunk)
   /\ samples = << >> => chunk = 1 /\ offset = 0 /\ ts = 0
   /\ samples # << >> =>
         LET s == samples[Len(samples)]
             h == home[Len(samples)]
         IN /\ ts = s.ts + s.dur
            /\ \/ chunk = h /\ base + offset = s.off + s.len
               \/ chunk = h + 1 /\ offset = 0

IInv == TypeOK /\ Contiguous /\ Link

-----------------------------------------------------------------------------
(* The state before the first entry is read.                               *)
LEMMA InitIInv == Init => IInv
BY BoxAssumption DEF Init, IInv, TypeOK, Contiguous, Link, BoxType

(* The tables in the file, one by one.                                     *)
LEMMA BoxFields ==
  ASSUME box \in Boxes
  PROVE  /\ box.stts \in Seq([n : Nat, delta : Nat]) /\ box.stsz \in Seq(Nat)
         /\ box.stsc \in Seq([first : Nat, per : Nat]) /\ box.stco \in Seq(Nat)
BY BoxAssumption DEF BoxType

(* A number is read behind a table's end as well as within.                *)
LEMMA ReadNumber == ASSUME NEW v \in Seq(Nat), NEW i PROVE ReadsPast(v, i) \subseteq Nat
<1>1. CASE i \in DOMAIN v
  BY <1>1 DEF ReadsPast
<1>2. CASE i \notin DOMAIN v
  BY <1>2, BoxAssumption DEF ReadsPast
<1> QED BY <1>1, <1>2

(* What a place of a sequence holds, whatever it is a sequence of.         *)
LEMMA Element ==
  ASSUME NEW S, NEW q \in Seq(S), NEW i \in 1..Len(q) PROVE q[i] \in S
OBVIOUS

(* A table that is not empty: its last entry and any other are numbers.    *)
LEMMA Entries ==
  ASSUME NEW v \in Seq(Nat), v # << >>
  PROVE  /\ Len(v) \in Nat \ {0} /\ Last(v) \in Nat
         /\ \A c \in Nat \ {0} : c <= Len(v) => v[c] \in Nat
<1>1. Len(v) \in Nat \ {0}
  OBVIOUS
<1>2. \A c \in Nat \ {0} : c <= Len(v) => v[c] \in Nat
  BY Element
<1>3. Last(v) = v[Len(v)]
  BY DEF Last
<1> QED BY <1>1, <1>2, <1>3

(* Appending repeated values to a vector.                                  *)
LEMMA AppendCopies ==
  ASSUME NEW v \in Seq(Nat), NEW n \in Int, NEW x \in Nat
  PROVE  v \o [j \in 1..n |-> x] \in Seq(Nat)
<1>1. CASE n \in Nat
  <2>1. [j \in 1..n |-> x] \in Seq(Nat)
    BY <1>1
  <2> QED BY <2>1
<1>2. CASE n \notin Nat
  <2>1. [j \in 1..n |-> x] = << >>
    BY <1>2
  <2> QED BY <2>1
<1> QED BY <1>1, <1>2

(* Reading the tables touches nothing of the loop.                         *)
LEMMA TablesIInv == IInv /\ (ParseStts \/ ParseStsc \/ FileEnds) => IInv'
<1> SUFFICES ASSUME IInv, ParseStts \/ ParseStsc \/ FileEnds PROVE IInv'
  OBVIOUS
<1> USE DEF IInv
<1>1. dur \in Seq(Nat) /\ cap \in Seq(Nat) /\ entry \in Nat \ {0}
  BY DEF TypeOK
<1>2. samples = << >> /\ samples' = << >> /\ UNCHANGED <<box, loop>>
  <2>1. pc \in {"stts", "stsc"} /\ UNCHANGED <<box, loop>>
    BY DEF ParseStts, ParseStsc, FileEnds
  <2> QED BY <2>1 DEF Link, loop
<1>3. dur' \in Seq(Nat)
  <2>1. CASE ParseStts
    <3>1. CASE entry <= Len(box.stts)
      <4> DEFINE e == box.stts[entry]
      <4>1. e.n \in Nat /\ e.delta \in Nat
        <5>1. box.stts \in Seq([n : Nat, delta : Nat])
          BY BoxFields DEF TypeOK
        <5>2. entry \in 1..Len(box.stts)
          BY <1>1, <3>1, <5>1
        <5>3. e \in [n : Nat, delta : Nat]
          BY <5>1, <5>2, Element
        <5> QED BY <5>3
      <4>2. dur' = dur \o [j \in 1..e.n |-> e.delta]
        BY <2>1, <3>1 DEF ParseStts
      <4>3. dur \in Seq(Nat)
        BY DEF TypeOK
      <4>4. dur \o [j \in 1..e.n |-> e.delta] \in Seq(Nat)
        <5> HIDE DEF e
        <5> QED BY <4>1, <4>3, AppendCopies
      <4> QED BY <4>2, <4>4
    <3>2. CASE ~(entry <= Len(box.stts))
      BY <2>1, <3>2 DEF ParseStts, TypeOK
    <3> QED BY <3>1, <3>2
  <2>2. CASE ParseStsc \/ FileEnds
    BY <2>2 DEF ParseStsc, FileEnds, TypeOK, tables
  <2> QED BY <2>1, <2>2
<1>4. cap' \in Seq(Nat)
  <2>1. CASE ParseStsc /\ entry <= Len(box.stsc)
    <3> DEFINE e == box.stsc[entry]
    <3>1. e.first \in Nat /\ e.per \in Nat
      <4>1. box.stsc \in Seq([first : Nat, per : Nat])
        BY BoxFields DEF TypeOK
      <4>2. entry \in 1..Len(box.stsc)
        BY <1>1, <2>1, <4>1
      <4>3. e \in [first : Nat, per : Nat]
        BY <4>1, <4>2, Element
      <4> QED BY <4>3
    <3>2. CASE cap = << >>
      <4>1. cap' = cap \/ cap' = <<e.per>>
        BY <2>1, <3>2 DEF ParseStsc
      <4>2. <<e.per>> \in Seq(Nat)
        BY <3>1
      <4> QED BY <1>1, <4>1, <4>2
    <3>3. CASE cap # << >>
      <4>1. Last(cap) \in Nat /\ Len(cap) \in Nat
        BY <1>1, <3>3 DEF Last
      <4>2. cap \o Padding(e) \in Seq(Nat)
        <5>1. e.first - 1 - Len(cap) \in Int
          BY <3>1, <4>1
        <5>2. Padding(e) = [j \in 1..e.first - 1 - Len(cap) |-> Last(cap)]
          BY DEF Padding
        <5> HIDE DEF e
        <5> QED BY <1>1, <4>1, <5>1, <5>2, AppendCopies
      <4>3. cap' = cap \/ cap' = Append(cap \o Padding(e), e.per)
        BY <2>1, <3>3 DEF ParseStsc
      <4>4. Append(cap \o Padding(e), e.per) \in Seq(Nat)
        BY <3>1, <4>2
      <4> QED BY <1>1, <4>3, <4>4
    <3> QED BY <3>2, <3>3
  <2>2. CASE ~(ParseStsc /\ entry <= Len(box.stsc))
    <3>1. cap' = cap
      BY <1>1, <2>2 DEF ParseStts, ParseStsc, FileEnds, tables
    <3> QED BY <1>1, <3>1
  <2> QED BY <2>1, <2>2
<1>5. /\ entry' \in Nat \ {0}
      /\ pc' \in {"stts", "stsc", "start", "refused", "crashed"}
  BY DEF ParseStts, ParseStsc, FileEnds, TypeOK, tables
<1>6. Len(samples) <= Len(dur')
  BY <1>2, <1>3
<1>7. TypeOK'
  BY <1>2, <1>3, <1>4, <1>5, <1>6 DEF TypeOK, loop
<1>8. Contiguous' /\ Link'
  BY <1>2, <1>5 DEF Contiguous, Link, loop, ChunkBase
<1> QED BY <1>7, <1>8

(* ParseTrak reads the first chunk before its loop.                        *)
LEMMA StartIInv == IInv /\ Start => IInv'
<1> SUFFICES ASSUME IInv, Start PROVE IInv'
  OBVIOUS
<1> USE DEF IInv
<1>1. box.stco \in Seq(Nat) /\ cap \in Seq(Nat)
  BY BoxFields DEF TypeOK
<1>2. samples = << >> /\ chunk = 1 /\ UNCHANGED <<box, tables>>
      /\ UNCHANGED <<chunk, offset, ts, samples, home>>
  BY DEF Start, Link
<1>3. CASE box.stco = << >> \/ cap = << >>
  BY <1>2, <1>3 DEF Start, TypeOK, Contiguous, Link, tables, ChunkBase
<1>4. CASE ~(box.stco = << >> \/ cap = << >>)
  <2>1. Len(box.stco) \in Nat \ {0} /\ box.stco[1] \in Nat /\ cap[1] \in Nat
    BY <1>1, <1>4 DEF BoxType, TypeOK
  <2>2. pc' = "samples" /\ base' = box.stco[1] /\ left' = cap[1]
    BY <1>4 DEF Start
  <2>3. base' = ChunkBase(chunk)'
    BY <1>2, <2>1, <2>2 DEF ChunkBase
  <2>4. TypeOK'
    BY <1>2, <2>1, <2>2 DEF TypeOK, tables
  <2>5. Contiguous' /\ Link'
    BY <1>2, <1>4, <2>2, <2>3 DEF Contiguous, Link, tables, ChunkBase
  <2> QED BY <2>4, <2>5
<1> QED BY <1>3, <1>4

(* The loop: the new sample follows the last one, in time and, unless its  *)
(* chunk is a new one, in the file.                                        *)
LEMMA NextSampleIInv == IInv /\ NextSample => IInv'
<1> SUFFICES ASSUME IInv, NextSample PROVE IInv'
  OBVIOUS
<1> USE DEF IInv
<1> DEFINE n == Len(samples)
<1>1. /\ box.stsz \in Seq(Nat) /\ box.stco \in Seq(Nat)
      /\ dur \in Seq(Nat) /\ cap \in Seq(Nat) /\ Heap \subseteq Nat
  BY BoxFields, BoxAssumption DEF TypeOK
<1>2. PICK len \in ReadsPast(box.stsz, n + 1), d \in ReadsPast(dur, n + 1) :
         /\ samples' = Append(samples, [ts |-> ts, dur |-> d,
                                        off |-> base + offset, len |-> len])
         /\ ts' = ts + d
         /\ IF left = 1 THEN NextChunk ELSE SameChunk(len)
  BY DEF NextSample
<1>3. len \in Nat /\ d \in Nat
  <2>1. /\ ReadsPast(box.stsz, n + 1) \subseteq Nat
        /\ ReadsPast(dur, n + 1) \subseteq Nat
    BY <1>1, ReadNumber
  <2> HIDE DEF n, IInv
  <2> QED BY <1>2, <2>1
<1>4. /\ pc = "samples" /\ n < Len(dur) /\ home' = Append(home, chunk)
      /\ UNCHANGED <<box, dur, cap, entry, pc>>
  BY DEF NextSample, MoreSamples, tables
<1>5. /\ n \in Nat /\ Len(home) = n /\ chunk \in Nat \ {0}
      /\ base \in Nat /\ offset \in Nat /\ ts \in Nat
      /\ samples \in Seq(Sample) /\ home \in Seq(Nat \ {0})
  BY DEF TypeOK
<1> DEFINE s == [ts |-> ts, dur |-> d, off |-> base + offset, len |-> len]
<1>6. s \in Sample
  BY <1>3, <1>5 DEF Sample
<1>7. /\ samples' = Append(samples, s) /\ samples' \in Seq(Sample)
      /\ Len(samples') = n + 1 /\ samples'[n + 1] = s
      /\ \A k \in 1..n : samples'[k] = samples[k]
  BY <1>2, <1>5, <1>6
<1>8. /\ home' \in Seq(Nat \ {0}) /\ Len(home') = n + 1
      /\ home'[n + 1] = chunk
      /\ \A k \in 1..n : home'[k] = home[k]
  BY <1>4, <1>5
<1>9. /\ cap # << >> /\ box.stco # << >> /\ base = ChunkBase(chunk)
  BY <1>4 DEF Link
<1>10. /\ left' \in Int /\ base' \in Nat /\ offset' \in Nat
       /\ chunk' \in Nat \ {0} /\ base' = ChunkBase(chunk)'
       /\ \/ chunk' = chunk /\ base' = base /\ offset' = offset + len
          \/ chunk' = chunk + 1 /\ offset' = 0
  <2>1. CASE left = 1
    <3>1. NextChunk
      BY <1>2, <2>1
    <3>2. /\ Len(box.stco) \in Nat \ {0} /\ Last(cap) \in Nat
          /\ \A c \in Nat \ {0} : c <= Len(cap) => cap[c] \in Nat
          /\ \A c \in Nat \ {0} : c <= Len(box.stco) => box.stco[c] \in Nat
      BY <1>1, <1>9, Entries
    <3>3. chunk' = chunk + 1 /\ offset' = 0
      BY <3>1 DEF NextChunk
    <3>4. left' \in Int
      BY <1>5, <3>1, <3>2, <3>3 DEF NextChunk
    <3>5. base' = IF chunk + 1 <= Len(box.stco) THEN box.stco[chunk + 1]
                  ELSE base
      BY <3>1, <3>3 DEF NextChunk
    <3>6. base' = ChunkBase(chunk)' /\ base' \in Nat
      BY <1>4, <1>5, <1>9, <3>2, <3>3, <3>5, SMTT(40) DEF ChunkBase
    <3> QED BY <1>5, <3>3, <3>4, <3>6
  <2>2. CASE left # 1
    <3>1. SameChunk(len) /\ left \in Int
      BY <1>2, <2>2 DEF TypeOK
    <3>2. /\ left' = left - 1 /\ offset' = offset + len
          /\ chunk' = chunk /\ base' = base
      BY <3>1 DEF SameChunk
    <3>3. base' = ChunkBase(chunk)'
      BY <1>4, <1>9, <3>2 DEF ChunkBase
    <3> QED BY <1>3, <1>5, <3>1, <3>2, <3>3
  <2> QED BY <2>1, <2>2
<1>11. TypeOK'
  <2>1. ts' \in Nat
    BY <1>2, <1>3, <1>5
  <2>2. Len(samples') <= Len(dur')
    BY <1>4, <1>5, <1>7 DEF TypeOK
  <2> QED BY <1>4, <1>7, <1>8, <1>10, <2>1, <2>2 DEF TypeOK
<1>12. Contiguous'
  <2>1. ChunkBase(1)' = ChunkBase(1)
        /\ \A c : ChunkBase(c)' = ChunkBase(c)
    BY <1>4 DEF ChunkBase
  <2>2. /\ samples'[1].ts = 0 /\ home'[1] = 1
        /\ samples'[1].off = ChunkBase(1)
    <3>1. CASE n = 0
      BY <1>5, <1>7, <1>8, <1>9, <3>1 DEF Link
    <3>2. CASE n # 0
      BY <1>5, <1>7, <1>8, <3>2 DEF Contiguous
    <3> QED BY <3>1, <3>2
  <2>3. ASSUME NEW k \in 1..n
        PROVE  /\ samples'[k + 1].ts = samples'[k].ts + samples'[k].dur
               /\ \/ /\ home'[k + 1] = home'[k]
                     /\ samples'[k + 1].off = samples'[k].off + samples'[k].len
                  \/ /\ home'[k + 1] = home'[k] + 1
                     /\ samples'[k + 1].off = ChunkBase(home'[k + 1])
    <3>1. CASE k = n
      <4>1. samples # << >>
        BY <1>5, <3>1
      <4>2. /\ ts = samples[n].ts + samples[n].dur
            /\ \/ chunk = home[n] /\ base + offset = samples[n].off + samples[n].len
               \/ chunk = home[n] + 1 /\ offset = 0
        BY <4>1 DEF Link
      <4>3. /\ samples'[k] = samples[n] /\ home'[k] = home[n]
            /\ samples'[k + 1] = s /\ home'[k + 1] = chunk
        BY <1>5, <1>7, <1>8, <3>1
      <4> QED BY <1>5, <1>9, <4>2, <4>3
    <3>2. CASE k # n
      <4>1. k \in 1..n - 1 /\ k + 1 \in 1..n
        BY <1>5, <3>2
      <4>2. /\ samples'[k] = samples[k] /\ samples'[k + 1] = samples[k + 1]
            /\ home'[k] = home[k] /\ home'[k + 1] = home[k + 1]
        BY <1>7, <1>8, <4>1
      <4> QED BY <4>1, <4>2 DEF Contiguous
    <3> QED BY <3>1, <3>2
  <2> QED BY <1>5, <1>7, <2>1, <2>2, <2>3, SMTT(40) DEF Contiguous
<1>13. Link'
  <2>1. samples' # << >>
    BY <1>5, <1>7
  <2>2. /\ ts' = s.ts + s.dur
        /\ \/ chunk' = chunk /\ base' + offset' = s.off + s.len
           \/ chunk' = chunk + 1 /\ offset' = 0
    <3>1. s.ts = ts /\ s.dur = d /\ s.off = base + offset /\ s.len = len
      OBVIOUS
    <3>2. ts' = ts + d
      BY <1>2
    <3>3. base \in Nat /\ offset \in Nat /\ len \in Nat /\ offset' \in Nat
      BY <1>3, <1>5, <1>10
    <3>4. \/ chunk' = chunk /\ base' = base /\ offset' = offset + len
          \/ chunk' = chunk + 1 /\ offset' = 0
      BY <1>10
    <3> HIDE DEF s
    <3> QED BY <3>1, <3>2, <3>3, <3>4
  <2> QED BY <1>4, <1>5, <1>7, <1>8, <1>9, <1>10, <2>1, <2>2 DEF Link
<1> QED BY <1>11, <1>12, <1>13

(* The invariant is inductive.                                             *)
LEMMA NextIInv == IInv /\ [Next]_vars => IInv'
<1> SUFFICES ASSUME IInv, [Next]_vars PROVE IInv'
  OBVIOUS
<1>1. CASE NoSize \/ Finish
  BY <1>1, ZenonT(40) DEF NoSize, Finish, IInv, TypeOK, Contiguous, Link, tables, loop,
              ChunkBase
<1>2. CASE UNCHANGED vars
  BY <1>2 DEF vars, IInv, TypeOK, Contiguous, Link, tables, loop, ChunkBase
<1> QED BY <1>1, <1>2, TablesIInv, StartIInv, NextSampleIInv DEF Next

(* Whatever the tables are, the samples of a track follow each other in    *)
(* time, and those of a chunk follow each other in the file.               *)
THEOREM SamplesContiguous == Spec => [](TypeOK /\ Contiguous)
<1>1. IInv => TypeOK /\ Contiguous
  BY DEF IInv
<1> QED BY <1>1, InitIInv, NextIInv, PTL DEF Spec

-----------------------------------------------------------------------------
(* Sums: SumTo(v, n) is v[1] + ... + v[n].                                 *)
SumFn(f, v, n) == f = [i \in 0..n |-> IF i = 0 THEN 0 ELSE f[i - 1] + v[i]]

(* A value of the function that SumTo defines recursively ...              *)
LEMMA SumAt ==
  ASSUME NEW f, NEW v, NEW n \in Nat, SumFn(f, v, n), NEW i \in 0..n
  PROVE  f[i] = IF i = 0 THEN 0 ELSE f[i - 1] + v[i]
BY Zenon DEF SumFn

(* ... of which there is one ...                                           *)
LEMMA SumExists ==
  ASSUME NEW v, NEW n \in Nat
  PROVE  \E f : SumFn(f, v, n)
<1> DEFINE T == {m \in Nat : ~ \E f : SumFn(f, v, m)}
<1>1. SUFFICES ASSUME T # {} PROVE FALSE
  OBVIOUS
<1>2. T \in SUBSET Nat
  OBVIOUS
<1>3. PICK m \in T : \A k \in T : m <= k
  BY <1>1, <1>2, Least
<1>4. CASE m = 0
  <2> DEFINE f == [i \in 0..0 |-> 0]
  <2>1. f = [i \in 0..0 |-> IF i = 0 THEN 0 ELSE f[i - 1] + v[i]]
    OBVIOUS
  <2>2. SumFn(f, v, 0)
    BY <2>1, Zenon DEF SumFn
  <2> QED BY <2>2, <1>3, <1>4
<1>5. CASE m # 0
  <2>1. m \in Nat /\ m - 1 \in Nat /\ m - 1 \notin T
    BY <1>3, <1>5
  <2>2. PICK f : SumFn(f, v, m - 1)
    BY <2>1
  <2> DEFINE g == [i \in 0..m |-> IF i < m THEN f[i] ELSE f[i - 1] + v[i]]
             h == [i \in 0..m |-> IF i = 0 THEN 0 ELSE g[i - 1] + v[i]]
  <2>3. ASSUME NEW i \in 0..m PROVE g[i] = h[i]
    <3>1. CASE i < m
      <4>1. i \in 0..m - 1
        BY <2>1, <3>1
      <4>2. f[i] = IF i = 0 THEN 0 ELSE f[i - 1] + v[i]
        BY <2>1, <2>2, <4>1, SumAt
      <4>3. g[i] = f[i] /\ (i # 0 => g[i - 1] = f[i - 1])
        BY <2>1, <3>1
      <4> QED BY <4>2, <4>3
    <3>2. CASE i = m
      <4>1. i # 0 /\ g[i] = f[i - 1] + v[i] /\ g[i - 1] = f[i - 1]
        BY <1>5, <2>1, <3>2
      <4> QED BY <4>1
    <3> QED BY <2>1, <3>1, <3>2
  <2>4. g = h
    BY <2>3
  <2>5. SumFn(g, v, m)
    BY <2>4, Zenon DEF SumFn
  <2> QED BY <1>3, <2>5
<1> QED BY <1>4, <1>5

(* ... and which depends on the values so far only.                        *)
LEMMA SumUnique ==
  ASSUME NEW v, NEW f, NEW g, NEW n \in Nat, NEW o \in n..n + 1,
         SumFn(f, v, n), SumFn(g, v, o)
  PROVE  \A i \in 0..n : f[i] = g[i]
<1> DEFINE T == {i \in 0..n : f[i] # g[i]}
<1>1. SUFFICES ASSUME T # {} PROVE FALSE
  OBVIOUS
<1>2. T \in SUBSET Nat
  OBVIOUS
<1>3. PICK m \in T : \A k \in T : m <= k
  BY <1>1, <1>2, Least
<1>4. m \in 0..n /\ m \in 0..o /\ o \in Nat
  BY <1>3
<1>5. f[m] = IF m = 0 THEN 0 ELSE f[m - 1] + v[m]
  BY <1>4, SumAt
<1>6. g[m] = IF m = 0 THEN 0 ELSE g[m - 1] + v[m]
  BY <1>4, SumAt
<1>7. f[m] # g[m]
  BY <1>3
<1>8. m # 0
  BY <1>5, <1>6, <1>7
<1>9. m - 1 \in 0..n /\ m - 1 \notin T
  BY <1>3, <1>4, <1>8
<1>10. f[m - 1] = g[m - 1]
  BY <1>9
<1> QED BY <1>5, <1>6, <1>7, <1>8, <1>10

(* SumTo takes its last value.                                             *)
LEMMA SumIs ==
  ASSUME NEW v, NEW n \in Nat
  PROVE  \E f : SumFn(f, v, n) /\ SumTo(v, n) = f[n]
<1> DEFINE f == CHOOSE f : f = [i \in 0..n |-> IF i = 0 THEN 0 ELSE f[i - 1] + v[i]]
<1>1. \E g : g = [i \in 0..n |-> IF i = 0 THEN 0 ELSE g[i - 1] + v[i]]
  BY SumExists, Zenon DEF SumFn
<1>2. f = [i \in 0..n |-> IF i = 0 THEN 0 ELSE f[i - 1] + v[i]]
  BY <1>1, Zenon
<1>3. SumFn(f, v, n)
  BY <1>2, Zenon DEF SumFn
<1>4. SumTo(v, n) = f[n]
  BY Zenon DEF SumTo
<1> QED BY <1>3, <1>4, Zenon

(* Nothing added up.                                                       *)
LEMMA SumZero == ASSUME NEW v PROVE SumTo(v, 0) = 0
<1>1. PICK f : SumFn(f, v, 0) /\ SumTo(v, 0) = f[0]
  BY SumIs
<1>2. f[0] = IF 0 = 0 THEN 0 ELSE f[0 - 1] + v[0]
  BY <1>1, SumAt
<1> QED BY <1>1, <1>2

(* One value more.                                                         *)
LEMMA SumNext ==
  ASSUME NEW v, NEW n \in Nat PROVE SumTo(v, n + 1) = SumTo(v, n) + v[n + 1]
<1>1. PICK f : SumFn(f, v, n) /\ SumTo(v, n) = f[n]
  BY SumIs
<1>2. n + 1 \in Nat /\ n + 1 \in n..n + 1 /\ n + 1 \in 0..n + 1 /\ n \in 0..n /\ n + 1 # 0
  OBVIOUS
<1>3. PICK g : SumFn(g, v, n + 1) /\ SumTo(v, n + 1) = g[n + 1]
  BY <1>2, SumIs
<1>4. g[n + 1] = IF n + 1 = 0 THEN 0 ELSE g[n + 1 - 1] + v[n + 1]
  BY <1>2, <1>3, SumAt
<1>5. f[n] = g[n]
  BY <1>1, <1>2, <1>3, SumUnique
<1>6. n + 1 - 1 = n
  OBVIOUS
<1> QED BY <1>1, <1>2, <1>3, <1>4, <1>5, <1>6

(* Sums of numbers are numbers and grow.                                   *)
LEMMA SumGrows ==
  ASSUME NEW v, NEW N \in Nat, \A i \in 1..N : v[i] \in Nat, NEW n \in 0..N, NEW m \in 0..n
  PROVE  SumTo(v, n) \in Nat /\ SumTo(v, m) \in Nat /\ SumTo(v, m) <= SumTo(v, n)
<1> DEFINE Grows(k) == /\ SumTo(v, k) \in Nat
                       /\ \A j \in 0..k : SumTo(v, j) \in Nat /\ SumTo(v, j) <= SumTo(v, k)
           T == {k \in 0..N : ~Grows(k)}
<1>1. SUFFICES ASSUME T # {} PROVE FALSE
  <2>1. Grows(n) => SumTo(v, n) \in Nat /\ SumTo(v, m) \in Nat /\ SumTo(v, m) <= SumTo(v, n)
    OBVIOUS
  <2> HIDE DEF Grows
  <2> QED BY <2>1
<1>2. PICK k \in T : \A l \in T : k <= l
  <2>1. T \in SUBSET Nat
    OBVIOUS
  <2> QED BY <1>1, <2>1, Least
<1>3. k # 0
  <2>1. SUFFICES ASSUME k = 0 PROVE FALSE
    OBVIOUS
  <2>2. \A j \in 0..0 : j = 0
    OBVIOUS
  <2> QED BY <1>2, <2>1, <2>2, SumZero
<1>4. PICK l \in Nat : l + 1 = k /\ l \in 0..N /\ k \in 1..N
  <2>1. k - 1 \in Nat /\ k - 1 + 1 = k /\ k - 1 \in 0..N /\ k \in 1..N
    BY <1>2, <1>3
  <2> QED BY <2>1
<1>5. Grows(l)
  <2>1. ~(k <= l)
    BY <1>4
  <2> HIDE DEF Grows
  <2> QED BY <1>2, <1>4, <2>1
<1>6. SumTo(v, k) = SumTo(v, l) + v[k] /\ v[k] \in Nat
  BY <1>4, SumNext
<1>7. SumTo(v, k) \in Nat /\ SumTo(v, l) <= SumTo(v, k)
  BY <1>5, <1>6
<1>8. ASSUME NEW j \in 0..k PROVE SumTo(v, j) \in Nat /\ SumTo(v, j) <= SumTo(v, k)
  <2>1. CASE j = k
    BY <1>7, <2>1
  <2>2. CASE j # k
    <3>1. j \in 0..l
      BY <1>4, <2>2
    <3> QED BY <1>5, <1>7, <3>1
  <2> QED BY <2>1, <2>2
<1> QED BY <1>2, <1>7, <1>8

(* A number lies between two neighbouring sums only.                       *)
LEMMA SumPlace ==
  ASSUME NEW v, NEW N \in Nat, \A i \in 1..N : v[i] \in Nat, NEW k \in Nat,
         NEW i \in 1..N, SumTo(v, i - 1) < k, k <= SumTo(v, i),
         NEW j \in 1..N, SumTo(v, j - 1) < k, k <= SumTo(v, j)
  PROVE  i = j
<1>1. ASSUME NEW a \in 1..N, NEW b \in 1..N, a < b, k <= SumTo(v, a), SumTo(v, b - 1) < k
      PROVE  FALSE
  <2>1. a \in 0..b - 1 /\ b - 1 \in 0..N
    BY <1>1
  <2>2. /\ SumTo(v, a) \in Nat /\ SumTo(v, b - 1) \in Nat
        /\ SumTo(v, a) <= SumTo(v, b - 1)
    BY <2>1, SumGrows
  <2> QED BY <1>1, <2>2
<1>2. ~(i < j) /\ ~(j < i)
  BY <1>1
<1> QED BY <1>2

-----------------------------------------------------------------------------
(* What the tables of a file consist of.                                   *)
LEMMA TableFacts ==
  ASSUME NEW b \in Boxes
  PROVE  /\ DOMAIN b.stts = 1..Len(b.stts) /\ Len(b.stts) \in Nat
         /\ DOMAIN b.stsc = 1..Len(b.stsc) /\ Len(b.stsc) \in Nat
         /\ DOMAIN b.stsz = 1..Len(b.stsz) /\ Len(b.stsz) \in Nat
         /\ DOMAIN b.stco = 1..Len(b.stco) /\ Len(b.stco) \in Nat
         /\ \A i \in 1..Len(b.stts) : b.stts[i].n \in Nat /\ b.stts[i].delta \in Nat
         /\ \A i \in 1..Len(b.stsc) : b.stsc[i].first \in Nat /\ b.stsc[i].per \in Nat
         /\ \A i \in 1..Len(b.stsz) : b.stsz[i] \in Nat
         /\ \A i \in 1..Len(b.stco) : b.stco[i] \in Nat
<1>1. /\ b.stts \in Seq([n : Nat, delta : Nat]) /\ b.stsz \in Seq(Nat)
      /\ b.stsc \in Seq([first : Nat, per : Nat]) /\ b.stco \in Seq(Nat)
  BY BoxAssumption DEF BoxType
<1>2. \A i \in 1..Len(b.stts) : b.stts[i].n \in Nat /\ b.stts[i].delta \in Nat
  <2>1. \A i \in 1..Len(b.stts) : b.stts[i] \in [n : Nat, delta : Nat]
    BY <1>1, Element
  <2> QED BY <2>1
<1>3. \A i \in 1..Len(b.stsc) : b.stsc[i].first \in Nat /\ b.stsc[i].per \in Nat
  <2>1. \A i \in 1..Len(b.stsc) : b.stsc[i] \in [first : Nat, per : Nat]
    BY <1>1, Element
  <2> QED BY <2>1
<1>4. \A i \in 1..Len(b.stsz) : b.stsz[i] \in Nat
  BY <1>1, Element
<1>5. \A i \in 1..Len(b.stco) : b.stco[i] \in Nat
  BY <1>1, Element
<1>6. DOMAIN b.stts = 1..Len(b.stts) /\ Len(b.stts) \in Nat
  BY <1>1
<1>7. DOMAIN b.stsc = 1..Len(b.stsc) /\ Len(b.stsc) \in Nat
  BY <1>1
<1>8. DOMAIN b.stsz = 1..Len(b.stsz) /\ Len(b.stsz) \in Nat
  BY <1>1
<1>9. DOMAIN b.stco = 1..Len(b.stco) /\ Len(b.stco) \in Nat
  BY <1>1
<1> QED BY <1>2, <1>3, <1>4, <1>5, <1>6, <1>7, <1>8, <1>9

(* Runs of samples: each is behind those before it ...                     *)
LEMMA RunFacts ==
  ASSUME NEW b \in Boxes, NEW i \in 1..Len(b.stts)
  PROVE  /\ Runs(b, 0) = 0 /\ Runs(b, i) = Runs(b, i - 1) + b.stts[i].n
         /\ Runs(b, i) \in Nat /\ Runs(b, i - 1) \in Nat
<1> DEFINE v == [j \in DOMAIN b.stts |-> b.stts[j].n]
<1>1. \A j \in 1..Len(b.stts) : v[j] \in Nat /\ v[j] = b.stts[j].n
  BY TableFacts
<1>2. \A n : Runs(b, n) = SumTo(v, n)
  BY DEF Runs
<1> HIDE DEF v
<1>3. Len(b.stts) \in Nat /\ i - 1 \in Nat /\ i - 1 + 1 = i
      /\ i \in 0..Len(b.stts) /\ i - 1 \in 0..i
  BY TableFacts
<1>4. SumTo(v, i) = SumTo(v, i - 1) + v[i]
  BY <1>3, SumNext
<1>5. SumTo(v, i) \in Nat /\ SumTo(v, i - 1) \in Nat
  BY <1>1, <1>3, SumGrows
<1> QED BY <1>1, <1>2, <1>4, <1>5, SumZero

(* ... so a sample belongs to one, whose duration it has.                  *)
LEMMA DurationIs ==
  ASSUME NEW b \in Boxes, NEW i \in 1..Len(b.stts), NEW k \in Nat,
         Runs(b, i - 1) < k, k <= Runs(b, i)
  PROVE  Duration(b, k) = b.stts[i].delta
<1> DEFINE v == [j \in DOMAIN b.stts |-> b.stts[j].n]
           P(j) == Runs(b, j - 1) < k /\ k <= Runs(b, j)
           r == CHOOSE j \in DOMAIN b.stts : P(j)
<1>1. DOMAIN b.stts = 1..Len(b.stts) /\ Len(b.stts) \in Nat
  BY TableFacts
<1>2. r \in 1..Len(b.stts) /\ P(r)
  BY <1>1
<1>3. Duration(b, k) = b.stts[r].delta
  BY DEF Duration
<1>4. \A j \in 1..Len(b.stts) : v[j] \in Nat
  BY TableFacts
<1>5. \A n : Runs(b, n) = SumTo(v, n)
  BY DEF Runs
<1> HIDE DEF v, r
<1>6. /\ SumTo(v, i - 1) < k /\ k <= SumTo(v, i)
      /\ SumTo(v, r - 1) < k /\ k <= SumTo(v, r)
  BY <1>2, <1>5
<1>7. i = r
  BY <1>1, <1>2, <1>4, <1>6, SumPlace
<1> QED BY <1>3, <1>7

(* The entries of stsc are in ascending order, however far apart.          *)
LEMMA Ascending ==
  ASSUME NEW b \in Boxes, Legal(b), NEW j \in 1..Len(b.stsc), NEW i \in 1..j
  PROVE  b.stsc[i].first <= b.stsc[j].first
<1>1. /\ Len(b.stsc) \in Nat /\ DOMAIN b.stsc = 1..Len(b.stsc)
      /\ \A n \in 1..Len(b.stsc) : b.stsc[n].first \in Nat
  BY TableFacts
<1> DEFINE T == {n \in i..Len(b.stsc) : ~(b.stsc[i].first <= b.stsc[n].first)}
<1>2. SUFFICES ASSUME T # {} PROVE FALSE
  <2>1. j \in i..Len(b.stsc)
    BY <1>1
  <2> QED BY <2>1
<1>3. PICK n \in T : \A m \in T : n <= m
  <2>1. T \in SUBSET Nat
    BY <1>1
  <2> QED BY <1>2, <2>1, Least
<1>4. n \in i..Len(b.stsc) /\ ~(b.stsc[i].first <= b.stsc[n].first)
  BY <1>3
<1>5. n # i
  BY <1>1, <1>4
<1>6. n - 1 \in i..Len(b.stsc) /\ ~(n <= n - 1) /\ n \in 1..Len(b.stsc) /\ n # 1
      /\ n - 1 \in 1..Len(b.stsc) /\ i \in 1..Len(b.stsc)
  BY <1>1, <1>4, <1>5
<1>7. n - 1 \notin T
  BY <1>3, <1>6
<1>8. b.stsc[i].first <= b.stsc[n - 1].first
  BY <1>6, <1>7
<1>9. b.stsc[n - 1].first < b.stsc[n].first
  BY <1>1, <1>6 DEF Legal
<1>10. /\ b.stsc[i].first \in Nat /\ b.stsc[n - 1].first \in Nat
       /\ b.stsc[n].first \in Nat
  BY <1>1, <1>6
<1> QED BY <1>4, <1>8, <1>9, <1>10

(* A chunk has what the last entry not behind it says.                     *)
LEMMA PerIs ==
  ASSUME NEW b \in Boxes, Legal(b), NEW c \in Nat, NEW i \in 1..Len(b.stsc),
         b.stsc[i].first <= c, i = Len(b.stsc) \/ c < b.stsc[i + 1].first
  PROVE  Per(b, c) = b.stsc[i].per
<1> DEFINE S == {j \in DOMAIN b.stsc : b.stsc[j].first <= c}
<1>1. /\ Len(b.stsc) \in Nat /\ DOMAIN b.stsc = 1..Len(b.stsc)
      /\ \A n \in 1..Len(b.stsc) : b.stsc[n].first \in Nat
  BY TableFacts
<1>2. i \in S /\ S \in SUBSET Nat /\ \A j \in S : j <= Len(b.stsc) /\ j \in 1..Len(b.stsc)
  BY <1>1
<1>3. Per(b, c) = b.stsc[Max(S)].per
  BY DEF Per
<1>4. \A j \in S : b.stsc[j].first <= c
  OBVIOUS
<1> HIDE DEF S
<1>5. PICK m \in 1..Len(b.stsc) : m = Max(S) /\ m \in S /\ i <= m
  <2>1. Max(S) \in S /\ i <= Max(S)
    BY <1>1, <1>2, MaxFacts
  <2> QED BY <1>2, <2>1
<1>6. ASSUME i < m PROVE FALSE
  <2>1. i + 1 \in 1..m /\ i + 1 \in 1..Len(b.stsc) /\ i # Len(b.stsc)
    BY <1>1, <1>6
  <2>2. b.stsc[i + 1].first <= b.stsc[m].first
    BY <2>1, Ascending
  <2>3. b.stsc[m].first <= c /\ c < b.stsc[i + 1].first
    BY <1>4, <1>5, <2>1
  <2>4. b.stsc[m].first \in Nat /\ b.stsc[i + 1].first \in Nat
    BY <1>1, <2>1
  <2> QED BY <2>2, <2>3, <2>4
<1>7. m = i
  BY <1>1, <1>5, <1>6
<1> QED BY <1>3, <1>5, <1>7

(* Every chunk of legal tables has samples, and a chunk begins behind      *)
(* those before it.                                                        *)
LEMMA PerFacts ==
  ASSUME NEW b \in Boxes, Legal(b), NEW c \in Nat \ {0}
  PROVE  Per(b, c) \in Nat \ {0}
<1> DEFINE S == {j \in DOMAIN b.stsc : b.stsc[j].first <= c}
<1>1. /\ Len(b.stsc) \in Nat /\ DOMAIN b.stsc = 1..Len(b.stsc)
      /\ \A n \in 1..Len(b.stsc) : b.stsc[n].first \in Nat /\ b.stsc[n].per \in Nat \ {0}
  <2>1. \A n \in 1..Len(b.stsc) : b.stsc[n].per > 0
    BY TableFacts DEF Legal
  <2> QED BY <2>1, TableFacts
<1>2. 1 \in 1..Len(b.stsc) /\ b.stsc[1].first = 1
  <2>1. Len(b.stsc) # 0
    BY BoxAssumption, EmptySeq DEF Legal, BoxType
  <2> QED BY <1>1, <2>1 DEF Legal
<1>3. 1 \in S /\ S \in SUBSET Nat /\ \A j \in S : j <= Len(b.stsc) /\ j \in 1..Len(b.stsc)
  BY <1>1, <1>2
<1>4. Per(b, c) = b.stsc[Max(S)].per
  BY DEF Per
<1> HIDE DEF S
<1>5. Max(S) \in S
  BY <1>1, <1>3, MaxFacts
<1> QED BY <1>1, <1>3, <1>4, <1>5

(* ... which is how Before adds up.                                        *)
LEMMA BeforeFacts ==
  ASSUME NEW b \in Boxes, Legal(b), NEW c \in 1..Len(b.stco)
  PROVE  /\ Before(b, 1) = 0 /\ Before(b, c + 1) = Before(b, c) + Per(b, c)
         /\ Before(b, c) \in Nat /\ Before(b, c + 1) \in Nat /\ Per(b, c) \in Nat \ {0}
<1> DEFINE v == [d \in Chunks(b) |-> Per(b, d)]
<1>1. Len(b.stco) \in Nat /\ Chunks(b) = 1..Len(b.stco)
  BY TableFacts DEF Chunks
<1>2. \A d \in 1..Len(b.stco) : v[d] = Per(b, d) /\ v[d] \in Nat \ {0}
  BY <1>1, PerFacts
<1>3. \A d : Before(b, d) = SumTo(v, d - 1)
  BY DEF Before
<1> HIDE DEF v
<1>4. c - 1 \in Nat /\ c - 1 + 1 = c /\ c + 1 - 1 = c /\ c \in 0..Len(b.stco)
      /\ c - 1 \in 0..c /\ 1 - 1 = 0
  BY <1>1
<1>5. SumTo(v, c) = SumTo(v, c - 1) + v[c]
  BY <1>4, SumNext
<1>6. SumTo(v, c) \in Nat /\ SumTo(v, c - 1) \in Nat
  BY <1>1, <1>2, <1>4, SumGrows
<1>7. Before(b, c + 1) = SumTo(v, c) /\ Before(b, c) = SumTo(v, c - 1) /\ Before(b, 1) = SumTo(v, 0)
  BY <1>3, <1>4
<1> QED BY <1>2, <1>5, <1>6, <1>7, SumZero

(* A sample is in one chunk.                                               *)
LEMMA ChunkIs ==
  ASSUME NEW b \in Boxes, Legal(b), NEW c \in 1..Len(b.stco), NEW k \in Nat,
         Before(b, c) < k, k <= Before(b, c + 1)
  PROVE  ChunkOf(b, k) = c
<1> DEFINE v == [d \in Chunks(b) |-> Per(b, d)]
           P(d) == Before(b, d) < k /\ k <= Before(b, d + 1)
           r == CHOOSE d \in Chunks(b) : P(d)
<1>1. Len(b.stco) \in Nat /\ Chunks(b) = 1..Len(b.stco)
  BY TableFacts DEF Chunks
<1>2. r \in 1..Len(b.stco) /\ P(r)
  BY <1>1
<1>3. ChunkOf(b, k) = r
  BY DEF ChunkOf
<1>4. \A d \in 1..Len(b.stco) : v[d] \in Nat
  BY <1>1, PerFacts
<1>5. \A d : Before(b, d) = SumTo(v, d - 1)
  BY DEF Before
<1> HIDE DEF v, r
<1>6. c + 1 - 1 = c /\ r + 1 - 1 = r
  BY <1>1, <1>2
<1>7. /\ SumTo(v, c - 1) < k /\ k <= SumTo(v, c)
      /\ SumTo(v, r - 1) < k /\ k <= SumTo(v, r)
  BY <1>2, <1>5, <1>6
<1>8. c = r
  BY <1>1, <1>2, <1>4, <1>7, SumPlace
<1> QED BY <1>3, <1>8

(* When a sample is due.                                                   *)
LEMMA DueFacts ==
  ASSUME NEW b \in Boxes, NEW k \in 1..Len(b.stsz)
  PROVE  Due(b, 1) = 0 /\ Due(b, k + 1) = Due(b, k) + Duration(b, k)
<1> DEFINE v == [j \in DOMAIN b.stsz |-> Duration(b, j)]
<1>1. v[k] = Duration(b, k)
  BY TableFacts
<1>2. \A j : Due(b, j) = SumTo(v, j - 1)
  BY DEF Due
<1> HIDE DEF v
<1>3. k - 1 \in Nat /\ k - 1 + 1 = k /\ k + 1 - 1 = k /\ 1 - 1 = 0
  BY TableFacts
<1>4. SumTo(v, k) = SumTo(v, k - 1) + v[k]
  BY <1>3, SumNext
<1>5. Due(b, k + 1) = SumTo(v, k) /\ Due(b, k) = SumTo(v, k - 1) /\ Due(b, 1) = SumTo(v, 0)
  BY <1>2, <1>3
<1> QED BY <1>1, <1>4, <1>5, SumZero

(* Where the sizes add up to.                                              *)
LEMMA SizeFacts ==
  ASSUME NEW b \in Boxes, NEW k \in 1..Len(b.stsz)
  PROVE  /\ SumTo(b.stsz, 0) = 0 /\ SumTo(b.stsz, k) = SumTo(b.stsz, k - 1) + b.stsz[k]
         /\ SumTo(b.stsz, k) \in Nat /\ \A m \in 0..k : SumTo(b.stsz, m) \in Nat
<1>1. /\ Len(b.stsz) \in Nat /\ \A i \in 1..Len(b.stsz) : b.stsz[i] \in Nat
      /\ k - 1 \in Nat /\ k - 1 + 1 = k /\ k \in 0..Len(b.stsz) /\ k \in 0..k
  BY TableFacts
<1>2. SumTo(b.stsz, k) = SumTo(b.stsz, k - 1) + b.stsz[k]
  BY <1>1, SumNext
<1>3. \A m \in 0..k : SumTo(b.stsz, m) \in Nat
  BY <1>1, SumGrows
<1> QED BY <1>1, <1>2, <1>3, SumZero

-----------------------------------------------------------------------------
(* Tables that fit together, step by step.                                 *)

(* The durations are those of the first i runs.                            *)
Expanded(b, d, i) == /\ i \in 0..Len(b.stts) /\ Len(d) = Runs(b, i)
                     /\ \A k \in 1..Len(d) : d[k] = Duration(b, k)

(* The capacities are those up to the chunk that entry i begins with.      *)
Filled(b, v, i) == /\ i \in 0..Len(b.stsc)
                   /\ i = 0 => v = << >>
                   /\ i > 0 => Len(v) = b.stsc[i].first
                   /\ \A c \in 1..Len(v) : v[c] = Per(b, c)

(* With n samples pushed, the next one is where ParseTrak's locals say.    *)
Place(b, n, c, ba, o, l) ==
   n < Len(b.stsz) =>
      /\ c \in 1..Len(b.stco) /\ ba = b.stco[c] /\ Before(b, c) <= n
      /\ l > 0 /\ l = Before(b, c + 1) - n
      /\ o = SumTo(b.stsz, n) - SumTo(b.stsz, Before(b, c))

Fits == Legal(box) =>
   /\ pc = "stts" => Expanded(box, dur, entry - 1) /\ cap = << >>
   /\ pc \in {"stsc", "start", "samples", "done"} => Expanded(box, dur, Len(box.stts))
   /\ pc = "stsc" => Filled(box, cap, entry - 1)
   /\ pc \in {"start", "samples", "done"} => Filled(box, cap, Len(box.stsc))
   /\ pc = "samples" => /\ ts = Due(box, Len(samples) + 1)
                        /\ Place(box, Len(samples), chunk, base, offset, left)
   /\ \A k \in 1..Len(samples) : k \in DOMAIN box.stsz /\ samples[k] = Meaning(box)[k]
   /\ pc = "done" => Len(samples) = Len(dur)

(* Copies of one value behind a vector.                                    *)
LEMMA CopiesFacts ==
  ASSUME NEW v \in Seq(Nat), NEW n \in Nat, NEW x \in Nat
  PROVE  \E w \in Seq(Nat) : /\ w = v \o [j \in 1..n |-> x]
                             /\ Len(w) = Len(v) + n
                             /\ \A i \in 1..Len(v) : w[i] = v[i]
                             /\ \A i \in Len(v) + 1..Len(v) + n : w[i] = x
<1>1. PICK u \in Seq(Nat) : u = [j \in 1..n |-> x] /\ Len(u) = n
  <2> DEFINE u == [j \in 1..n |-> x]
  <2>1. u \in Seq(Nat)
    OBVIOUS
  <2>2. Len(u) = n
    OBVIOUS
  <2> QED BY <2>1, <2>2, Zenon
<1>2. \A j \in 1..n : u[j] = x
  BY <1>1
<1>3. PICK w : w = v \o u
  OBVIOUS
<1>4. /\ w \in Seq(Nat) /\ Len(w) = Len(v) + Len(u)
      /\ \A i \in 1..Len(v) + Len(u) : w[i] = IF i <= Len(v) THEN v[i] ELSE u[i - Len(v)]
  BY <1>3, ConcatProperties
<1>5. Len(v) \in Nat
  OBVIOUS
<1>6. \A i \in 1..Len(v) : w[i] = v[i]
  BY <1>1, <1>4, <1>5
<1>7. ASSUME NEW i \in Len(v) + 1..Len(v) + n PROVE w[i] = x
  <2>1. i \in 1..Len(v) + Len(u) /\ ~(i <= Len(v)) /\ i - Len(v) \in 1..n
    BY <1>1, <1>5
  <2> QED BY <1>2, <1>4, <2>1
<1>8. w = v \o [j \in 1..n |-> x] /\ w \in Seq(Nat) /\ Len(w) = Len(v) + n
  <2>1. w = v \o [j \in 1..n |-> x]
    BY <1>1, <1>3, ZenonT(40)
  <2> QED BY <1>1, <1>4, <2>1
<1> QED BY <1>6, <1>7, <1>8, Zenon

(* One run more ...                                                        *)
LEMMA ExpandStep ==
  ASSUME NEW b \in Boxes, NEW d \in Seq(Nat), NEW i \in 1..Len(b.stts),
         Expanded(b, d, i - 1), NEW w,
         w = d \o [j \in 1..b.stts[i].n |-> b.stts[i].delta]
  PROVE  Expanded(b, w, i)
<1>1. PICK n \in Nat, x \in Nat : n = b.stts[i].n /\ x = b.stts[i].delta
  BY TableFacts
<1>2. w = d \o [j \in 1..n |-> x]
  BY <1>1
<1>3. /\ w \in Seq(Nat) /\ Len(w) = Len(d) + n
      /\ \A k \in 1..Len(d) : w[k] = d[k]
      /\ \A k \in Len(d) + 1..Len(d) + n : w[k] = x
  <2>1. PICK u \in Seq(Nat) : /\ u = d \o [j \in 1..n |-> x]
                              /\ Len(u) = Len(d) + n
                              /\ \A k \in 1..Len(d) : u[k] = d[k]
                              /\ \A k \in Len(d) + 1..Len(d) + n : u[k] = x
    BY CopiesFacts, Zenon
  <2>2. w = u
    BY <1>2, <2>1, Zenon
  <2> QED BY <2>1, <2>2, Zenon
<1>4. Len(d) \in Nat /\ Len(d) = Runs(b, i - 1) /\ \A k \in 1..Len(d) : d[k] = Duration(b, k)
  BY DEF Expanded
<1>5. Runs(b, i) = Runs(b, i - 1) + n /\ Runs(b, i) \in Nat
  BY <1>1, RunFacts
<1>6. ASSUME NEW k \in 1..Len(w) PROVE w[k] = Duration(b, k)
  <2>1. CASE k <= Len(d)
    <3>1. k \in 1..Len(d)
      BY <1>4, <2>1
    <3> QED BY <1>3, <1>4, <3>1
  <2>2. CASE ~(k <= Len(d))
    <3>1. PICK l \in Nat : l = Len(d) /\ Len(w) = l + n
      BY <1>3, <1>4
    <3>2. k \in l + 1..l + n /\ k \in Nat
      <4>1. k \in 1..l + n /\ ~(k <= l)
        BY <2>2, <3>1
      <4> HIDE <3>1
      <4> QED BY <4>1
    <3>3. Runs(b, i - 1) < k /\ k <= Runs(b, i)
      BY <1>4, <1>5, <3>1, <3>2
    <3>4. Duration(b, k) = x
      BY <1>1, <3>2, <3>3, DurationIs
    <3> QED BY <1>3, <3>1, <3>2, <3>4
  <2> QED BY <2>1, <2>2
<1>7. i \in 0..Len(b.stts)
  BY TableFacts
<1> QED BY <1>3, <1>4, <1>5, <1>6, <1>7 DEF Expanded

(* The first entry of stsc is for chunk 1, each one for a later chunk than *)
(* the one before it.                                                      *)
LEMMA EntryFacts ==
  ASSUME NEW b \in Boxes, Legal(b)
  PROVE  /\ Len(b.stsc) \in Nat /\ 1 \in 1..Len(b.stsc) /\ b.stsc[1].first = 1
         /\ \A i \in 1..Len(b.stsc) : i # Len(b.stsc) => b.stsc[i].first < b.stsc[i + 1].first
<1>1. /\ Len(b.stsc) \in Nat /\ DOMAIN b.stsc = 1..Len(b.stsc)
      /\ \A n \in 1..Len(b.stsc) : b.stsc[n].first \in Nat /\ b.stsc[n].per \in Nat
  BY TableFacts
<1>2. 1 \in 1..Len(b.stsc) /\ b.stsc[1].first = 1
  <2>1. Len(b.stsc) # 0
    BY BoxAssumption, EmptySeq DEF Legal, BoxType
  <2> QED BY <1>1, <2>1 DEF Legal
<1>3. \A j \in 1..Len(b.stsc) : j # 1 => b.stsc[j - 1].first < b.stsc[j].first
  BY <1>1, Zenon DEF Legal
<1>4. ASSUME NEW i \in 1..Len(b.stsc), i # Len(b.stsc)
      PROVE  b.stsc[i].first < b.stsc[i + 1].first
  <2>1. PICK j \in 1..Len(b.stsc) : j = i + 1 /\ j # 1 /\ j - 1 = i
    BY <1>1, <1>4
  <2> QED BY <1>3, <2>1
<1> QED BY <1>1, <1>2, <1>4

(* ... the first entry of stsc ...                                         *)
LEMMA FillFirst ==
  ASSUME NEW b \in Boxes, Legal(b)
  PROVE  Filled(b, <<b.stsc[1].per>>, 1)
<1>1. /\ Len(b.stsc) \in Nat
      /\ \A n \in 1..Len(b.stsc) : b.stsc[n].first \in Nat /\ b.stsc[n].per \in Nat
  BY TableFacts
<1>2. 1 \in 1..Len(b.stsc) /\ b.stsc[1].first = 1
  BY EntryFacts
<1>3. 1 = Len(b.stsc) \/ 1 < b.stsc[1 + 1].first
  BY <1>2, EntryFacts
<1>4. Per(b, 1) = b.stsc[1].per
  BY <1>2, <1>3, PerIs
<1>5. PICK p \in Nat : p = b.stsc[1].per
  BY <1>1, <1>2
<1>6. Len(<<p>>) = 1 /\ \A c \in 1..1 : <<p>>[c] = Per(b, c)
  <2>1. \A c \in 1..1 : c = 1
    OBVIOUS
  <2> QED BY <1>4, <1>5, <2>1
<1>7. 1 \in 0..Len(b.stsc) /\ 1 # 0
  BY <1>1, <1>2
<1> QED BY <1>2, <1>5, <1>6, <1>7 DEF Filled

(* ... and any later one, with the chunks before it.                       *)
LEMMA FillStep ==
  ASSUME NEW b \in Boxes, Legal(b), NEW v \in Seq(Nat), NEW i \in 2..Len(b.stsc),
         Filled(b, v, i - 1)
  PROVE  /\ v # << >> /\ b.stsc[i].first > 0
         /\ Filled(b, Append(v \o [j \in 1..b.stsc[i].first - 1 - Len(v) |-> Last(v)],
                             b.stsc[i].per), i)
<1>1. /\ Len(b.stsc) \in Nat /\ DOMAIN b.stsc = 1..Len(b.stsc)
      /\ \A n \in 1..Len(b.stsc) : b.stsc[n].first \in Nat /\ b.stsc[n].per \in Nat
  BY TableFacts
<1>2. i \in 1..Len(b.stsc) /\ i - 1 \in 1..Len(b.stsc) /\ i \in DOMAIN b.stsc \ {1}
      /\ i \in 0..Len(b.stsc) /\ i - 1 + 1 = i /\ i # 0
  BY <1>1
<1>3. PICK f \in Nat, g \in Nat, p \in Nat :
         f = b.stsc[i - 1].first /\ g = b.stsc[i].first /\ p = b.stsc[i].per
  BY <1>1, <1>2
<1>4. f < g
  <2>1. i - 1 # Len(b.stsc)
    BY <1>1, <1>2
  <2> QED BY <1>2, <1>3, <2>1, EntryFacts
<1>5. 1 <= f
  <2>1. 1 \in 1..i - 1 /\ b.stsc[1].first = 1
    BY <1>1, <1>2, EntryFacts
  <2> QED BY <1>2, <1>3, <2>1, Ascending
<1>6. Len(v) = f /\ \A c \in 1..f : v[c] = Per(b, c)
  <2>1. i - 1 > 0
    BY <1>2
  <2> QED BY <1>3, <2>1, Zenon DEF Filled
<1>7. v # << >> /\ Last(v) = v[f]
  <2>1. Len(v) # 0 /\ Len(<< >>) = 0
    BY <1>5, <1>6
  <2> QED BY <1>6, <2>1, Zenon DEF Last
<1>8. PICK x \in Nat : x = Last(v)
  BY <1>7, Entries
<1>9. ASSUME NEW c \in Nat, f <= c, c < g PROVE Per(b, c) = x
  <2>1. Per(b, c) = b.stsc[i - 1].per
    BY <1>2, <1>3, <1>9, PerIs
  <2>2. Per(b, f) = b.stsc[i - 1].per
    BY <1>2, <1>3, <1>4, PerIs
  <2>3. v[f] = Per(b, f)
    BY <1>5, <1>6
  <2> QED BY <1>7, <1>8, <2>1, <2>2, <2>3
<1>10. Per(b, g) = p
  <2>1. i = Len(b.stsc) \/ g < b.stsc[i + 1].first
    BY <1>2, <1>3, EntryFacts
  <2>2. b.stsc[i].first <= g
    BY <1>3
  <2> QED BY <1>2, <1>3, <2>1, <2>2, PerIs, SMTT(40)
<1>11. PICK m \in Nat : m = g - 1 - f /\ f + m = g - 1
  BY <1>4
<1>12. PICK w : w = v \o [j \in 1..m |-> x]
  OBVIOUS
<1>13. /\ w \in Seq(Nat) /\ Len(w) = g - 1
       /\ \A c \in 1..f : w[c] = v[c]
       /\ \A c \in f + 1..g - 1 : w[c] = x
  <2>1. /\ w \in Seq(Nat) /\ Len(w) = Len(v) + m
        /\ \A c \in 1..Len(v) : w[c] = v[c]
        /\ \A c \in Len(v) + 1..Len(v) + m : w[c] = x
    <3>1. PICK u \in Seq(Nat) : /\ u = v \o [j \in 1..m |-> x]
                                /\ Len(u) = Len(v) + m
                                /\ \A c \in 1..Len(v) : u[c] = v[c]
                                /\ \A c \in Len(v) + 1..Len(v) + m : u[c] = x
      BY CopiesFacts, Zenon
    <3>2. w = u
      BY <1>12, <3>1, Zenon
    <3> QED BY <3>1, <3>2, Zenon
  <2> QED BY <1>6, <1>11, <2>1
<1>14. PICK z : z = Append(w, p)
  OBVIOUS
<1>15. Len(z) = g /\ z[g] = p /\ \A c \in 1..g - 1 : z[c] = w[c]
  BY <1>4, <1>13, <1>14
<1>16. ASSUME NEW c \in 1..g PROVE z[c] = Per(b, c)
  <2>1. CASE c <= f
    <3>1. c \in 1..f /\ c \in 1..g - 1
      BY <1>4, <2>1
    <3> QED BY <1>6, <1>13, <1>15, <3>1
  <2>2. CASE f < c /\ c < g
    <3>1. c \in f + 1..g - 1 /\ c \in 1..g - 1 /\ f <= c /\ c \in Nat
      BY <2>2
    <3> QED BY <1>9, <1>13, <1>15, <2>2, <3>1
  <2>3. CASE c = g
    BY <1>10, <1>15, <2>3
  <2> QED BY <2>1, <2>2, <2>3
<1>17. Filled(b, z, i)
  BY <1>2, <1>3, <1>15, <1>16 DEF Filled
<1>18. z = Append(v \o [j \in 1..b.stsc[i].first - 1 - Len(v) |-> Last(v)], b.stsc[i].per)
  <2>1. m = b.stsc[i].first - 1 - Len(v)
    BY <1>3, <1>6, <1>11
  <2> QED BY <1>3, <1>8, <1>12, <1>14, <2>1, Zenon
<1>19. b.stsc[i].first > 0
  BY <1>3, <1>4
<1> QED BY <1>7, <1>17, <1>18, <1>19, Zenon

(* The capacity ParseTrak reads of a chunk, in the table or behind it.     *)
LEMMA CapacityIs ==
  ASSUME NEW b \in Boxes, Legal(b), NEW v \in Seq(Nat), Filled(b, v, Len(b.stsc)),
         NEW c \in Nat \ {0}
  PROVE  /\ v # << >> /\ 1 <= Len(v)
         /\ (IF c <= Len(v) THEN v[c] ELSE Last(v)) = Per(b, c)
<1>1. PICK l \in Nat : l = Len(b.stsc) /\ l \in 1..l /\ 1 \in 1..l
  BY EntryFacts
<1>2. PICK f \in Nat : f = b.stsc[l].first
  BY <1>1, TableFacts
<1>3. 1 <= f
  <2>1. b.stsc[1].first = 1
    BY EntryFacts
  <2> QED BY <1>1, <1>2, <2>1, Ascending
<1>4. Len(v) = f /\ \A d \in 1..f : v[d] = Per(b, d)
  BY <1>1, <1>2 DEF Filled
<1>5. v # << >> /\ Last(v) = v[f] /\ f \in 1..f
  BY <1>3, <1>4 DEF Last
<1>6. CASE c <= f
  BY <1>4, <1>5, <1>6
<1>7. CASE ~(c <= f)
  <2>1. Per(b, c) = b.stsc[l].per /\ Per(b, f) = b.stsc[l].per
    BY <1>1, <1>2, <1>7, PerIs
  <2> QED BY <1>3, <1>4, <1>5, <1>7, <2>1
<1> QED BY <1>3, <1>4, <1>5, <1>6, <1>7

(* What Meaning says of one sample.                                        *)
LEMMA MeaningIs ==
  ASSUME NEW b \in Boxes, Legal(b), NEW k \in 1..Len(b.stsz), NEW c \in 1..Len(b.stco),
         Before(b, c) < k, k <= Before(b, c + 1)
  PROVE  /\ k \in DOMAIN b.stsz
         /\ Meaning(b)[k] =
               [ts |-> Due(b, k), dur |-> Duration(b, k),
                off |-> b.stco[c] + SumTo(b.stsz, k - 1) - SumTo(b.stsz, Before(b, c)),
                len |-> b.stsz[k]]
<1>1. k \in DOMAIN b.stsz /\ k \in Nat
  BY TableFacts
<1>2. ChunkOf(b, k) = c
  BY <1>1, ChunkIs
<1>3. Meaning(b)[k] =
         LET d == ChunkOf(b, k)
         IN [ts |-> Due(b, k), dur |-> Duration(b, k),
             off |-> b.stco[d] + SumTo(b.stsz, k - 1) - SumTo(b.stsz, Before(b, d)),
             len |-> b.stsz[k]]
  BY <1>1, Zenon DEF Meaning
<1> QED BY <1>1, <1>2, <1>3, Zenon

(* As many samples as the sizes, and the runs, have.                       *)
LEMMA LegalFacts ==
  ASSUME NEW b \in Boxes, Legal(b)
  PROVE  /\ Runs(b, Len(b.stts)) = Len(b.stsz) /\ Len(b.stsz) \in Nat \ {0}
         /\ Len(b.stco) \in Nat \ {0} /\ b.stco # << >> /\ b.stsz # << >>
         /\ Before(b, Len(b.stco) + 1) >= Len(b.stsz)
<1>1. b.stsz \in Seq(Nat) /\ b.stco \in Seq(Nat)
  BY BoxAssumption DEF BoxType
<1>2. /\ b.stsz # << >> /\ b.stco # << >> /\ Runs(b, Len(b.stts)) = Len(b.stsz)
      /\ Before(b, Len(b.stco) + 1) >= Len(b.stsz)
  BY DEF Legal
<1> QED BY <1>1, <1>2, EmptySeq

(* Nothing is read at first.                                               *)
LEMMA InitFits == ASSUME Init PROVE Fits
<1> SUFFICES ASSUME Legal(box) PROVE Fits
  BY DEF Fits
<1>1. box \in Boxes /\ dur = << >> /\ cap = << >> /\ entry = 1 /\ pc = "stts" /\ samples = << >>
  BY DEF Init
<1>2. Expanded(box, << >>, 0)
  <2>1. 0 \in 0..Len(box.stts)
    BY <1>1, TableFacts
  <2>2. Runs(box, 0) = 0
    BY SumZero DEF Runs
  <2> QED BY <2>1, <2>2 DEF Expanded
<1>3. entry - 1 = 0
  BY <1>1
<1> QED BY <1>1, <1>2, <1>3 DEF Fits

(* The runs are read.                                                      *)
LEMMA SttsFits == ASSUME IInv, Fits, ParseStts PROVE Fits'
<1>1. /\ box \in Boxes /\ box' = box /\ cap' = cap /\ samples' = samples /\ pc = "stts"
      /\ dur \in Seq(Nat) /\ entry \in Nat \ {0} /\ samples = << >>
  BY DEF ParseStts, loop, IInv, TypeOK, Link
<1> SUFFICES ASSUME Legal(box) PROVE Fits'
  BY <1>1 DEF Fits
<1>2. Expanded(box, dur, entry - 1) /\ cap = << >> /\ Len(box.stts) \in Nat
  BY <1>1, TableFacts DEF Fits
<1>3. CASE entry <= Len(box.stts)
  <2>1. /\ dur' = dur \o [j \in 1..box.stts[entry].n |-> box.stts[entry].delta]
        /\ entry' = entry + 1 /\ pc' = "stts"
    BY <1>1, <1>3 DEF ParseStts
  <2>2. entry \in 1..Len(box.stts) /\ entry' - 1 = entry
    BY <1>1, <1>2, <1>3, <2>1
  <2>3. Expanded(box, dur', entry)
    BY <1>1, <1>2, <2>1, <2>2, ExpandStep, Zenon
  <2> QED BY <1>1, <1>2, <2>1, <2>2, <2>3 DEF Fits
<1>4. CASE ~(entry <= Len(box.stts))
  <2>1. dur' = dur /\ pc' = "stsc" /\ entry' = 1
    BY <1>1, <1>4 DEF ParseStts
  <2>2. entry - 1 = Len(box.stts)
    <3>1. entry - 1 \in 0..Len(box.stts) /\ Len(box.stts) \in Nat
      BY <1>2 DEF Expanded
    <3> QED BY <1>1, <1>4, <3>1
  <2>3. Filled(box, << >>, 0)
    <3>1. Len(box.stsc) \in Nat /\ Len(<< >>) = 0
      BY <1>1, TableFacts
    <3> QED BY <3>1 DEF Filled
  <2>4. entry' - 1 = 0
    BY <2>1
  <2> QED BY <1>1, <1>2, <2>1, <2>2, <2>3, <2>4 DEF Fits
<1> QED BY <1>3, <1>4

(* The capacities are read.                                                *)
LEMMA StscFits == ASSUME IInv, Fits, ParseStsc PROVE Fits'
<1>1. /\ box \in Boxes /\ box' = box /\ dur' = dur /\ samples' = samples /\ pc = "stsc"
      /\ cap \in Seq(Nat) /\ entry \in Nat \ {0} /\ samples = << >>
  BY DEF ParseStsc, loop, IInv, TypeOK, Link
<1> SUFFICES ASSUME Legal(box) PROVE Fits'
  BY <1>1 DEF Fits
<1>2. Expanded(box, dur, Len(box.stts)) /\ Filled(box, cap, entry - 1) /\ Len(box.stsc) \in Nat
  BY <1>1, TableFacts DEF Fits
<1>3. CASE entry > Len(box.stsc)
  <2>1. cap' = cap /\ pc' = "start"
    BY <1>1, <1>3 DEF ParseStsc
  <2>2. entry - 1 = Len(box.stsc)
    BY <1>1, <1>2, <1>3 DEF Filled
  <2> QED BY <1>1, <1>2, <2>1, <2>2 DEF Fits
<1>4. CASE entry = 1 /\ ~(entry > Len(box.stsc))
  <2>1. cap = << >>
    BY <1>2, <1>4 DEF Filled
  <2>2. cap' = <<box.stsc[1].per>> /\ entry' = entry + 1 /\ pc' = "stsc"
    BY <1>1, <1>4, <2>1 DEF ParseStsc
  <2>3. entry' - 1 = 1
    BY <1>4, <2>2
  <2>4. Filled(box, cap', 1)
    BY <1>1, <2>2, FillFirst, Zenon
  <2> QED BY <1>1, <1>2, <2>2, <2>3, <2>4 DEF Fits
<1>5. CASE entry # 1 /\ ~(entry > Len(box.stsc))
  <2>1. entry \in 2..Len(box.stsc)
    BY <1>1, <1>2, <1>5
  <2>2. /\ cap # << >> /\ box.stsc[entry].first > 0
        /\ Filled(box, Append(cap \o [j \in 1..box.stsc[entry].first - 1 - Len(cap) |-> Last(cap)],
                              box.stsc[entry].per), entry)
    BY <1>1, <1>2, <2>1, FillStep
  <2>3. box.stsc[entry].first # 0
    <3>1. box.stsc[entry].first \in Nat
      BY <1>1, <2>1, TableFacts
    <3> QED BY <2>2, <3>1
  <2>4. /\ cap' = Append(cap \o Padding(box.stsc[entry]), box.stsc[entry].per)
        /\ entry' = entry + 1 /\ pc' = "stsc"
    BY <1>1, <1>5, <2>2, <2>3 DEF ParseStsc
  <2>5. Filled(box, cap', entry)
    BY <2>2, <2>4, Zenon DEF Padding
  <2>6. entry' - 1 = entry
    BY <1>1, <2>4
  <2> QED BY <1>1, <1>2, <2>4, <2>5, <2>6 DEF Fits
<1> QED BY <1>3, <1>4, <1>5

(* ParseTrak stands before the first sample.                               *)
LEMMA StartFits == ASSUME IInv, Fits, Start PROVE Fits'
<1>1. /\ box \in Boxes /\ box' = box /\ dur' = dur /\ cap' = cap /\ samples' = samples
      /\ chunk' = chunk /\ offset' = offset /\ ts' = ts /\ pc = "start"
      /\ cap \in Seq(Nat) /\ samples = << >> /\ chunk = 1 /\ offset = 0 /\ ts = 0
  BY DEF Start, tables, IInv, TypeOK, Link
<1> SUFFICES ASSUME Legal(box) PROVE Fits'
  BY <1>1 DEF Fits
<1>2. Expanded(box, dur, Len(box.stts)) /\ Filled(box, cap, Len(box.stsc))
  BY <1>1 DEF Fits
<1>3. /\ cap # << >> /\ 1 <= Len(cap)
      /\ (IF 1 <= Len(cap) THEN cap[1] ELSE Last(cap)) = Per(box, 1)
  <2>1. 1 \in Nat \ {0}
    OBVIOUS
  <2> QED BY <1>1, <1>2, <2>1, CapacityIs
<1>4. box.stco # << >> /\ 1 \in 1..Len(box.stco) /\ 1 \in 1..Len(box.stsz)
  BY <1>1, LegalFacts
<1>5. pc' = "samples" /\ base' = box.stco[1] /\ left' = cap[1]
  BY <1>3, <1>4 DEF Start
<1>6. ts = Due(box, 0 + 1)
  BY <1>1, <1>4, DueFacts
<1>7. Place(box, 0, 1, base', 0, left')
  <2>1. /\ Before(box, 1) = 0 /\ Before(box, 1 + 1) = Before(box, 1) + Per(box, 1)
        /\ Per(box, 1) \in Nat \ {0}
    BY <1>1, <1>4, BeforeFacts
  <2>2. SumTo(box.stsz, 0) = 0
    BY SumZero
  <2>3. left' = Per(box, 1)
    BY <1>3, <1>5
  <2> QED BY <1>4, <1>5, <2>1, <2>2, <2>3 DEF Place
<1>8. Len(samples) = 0
  BY <1>1
<1> QED BY <1>1, <1>2, <1>5, <1>6, <1>7, <1>8 DEF Fits

(* With n samples pushed, what the next one's place is ...                 *)
LEMMA PlaceFacts ==
  ASSUME NEW b \in Boxes, Legal(b), NEW n \in Nat, n < Len(b.stsz),
         NEW c, NEW ba, NEW o, NEW l, Place(b, n, c, ba, o, l)
  PROVE  /\ c \in 1..Len(b.stco) /\ n + 1 \in 1..Len(b.stsz) /\ l \in Nat \ {0}
         /\ \E x \in Nat : /\ x = Before(b, c) /\ x <= n /\ Before(b, c + 1) = n + l
                           /\ o = SumTo(b.stsz, n) - SumTo(b.stsz, x)
                           /\ o \in Int /\ SumTo(b.stsz, x) \in Nat
                           /\ SumTo(b.stsz, n) \in Nat
<1>1. /\ c \in 1..Len(b.stco) /\ Before(b, c) <= n
      /\ l > 0 /\ l = Before(b, c + 1) - n
      /\ o = SumTo(b.stsz, n) - SumTo(b.stsz, Before(b, c))
  BY DEF Place
<1>2. n + 1 \in 1..Len(b.stsz)
  BY TableFacts
<1>3. Before(b, c) \in Nat /\ Before(b, c + 1) \in Nat
  BY <1>1, BeforeFacts
<1>4. PICK x \in Nat, y \in Nat : x = Before(b, c) /\ y = Before(b, c + 1)
  BY <1>3
<1>5. l \in Nat \ {0} /\ y = n + l /\ x <= n
  BY <1>1, <1>4
<1>6. x \in 0..n + 1 /\ n \in 0..n + 1
  BY <1>5
<1>7. SumTo(b.stsz, x) \in Nat /\ SumTo(b.stsz, n) \in Nat
  BY <1>2, <1>6, SizeFacts
<1>8. o = SumTo(b.stsz, n) - SumTo(b.stsz, x) /\ o \in Int
  BY <1>1, <1>4, <1>7
<1> QED BY <1>1, <1>2, <1>4, <1>5, <1>7, <1>8

(* ... which is where the format has it ...                                *)
LEMMA PlaceMeans ==
  ASSUME NEW b \in Boxes, Legal(b), NEW n \in Nat, n < Len(b.stsz),
         NEW c, NEW ba, NEW o, NEW l, Place(b, n, c, ba, o, l)
  PROVE  Meaning(b)[n + 1] = [ts |-> Due(b, n + 1), dur |-> Duration(b, n + 1),
                              off |-> ba + o, len |-> b.stsz[n + 1]]
<1>1. c \in 1..Len(b.stco) /\ n + 1 \in 1..Len(b.stsz) /\ l \in Nat \ {0}
  BY PlaceFacts
<1>2. PICK x \in Nat : /\ x = Before(b, c) /\ x <= n /\ Before(b, c + 1) = n + l
                       /\ o = SumTo(b.stsz, n) - SumTo(b.stsz, x)
                       /\ SumTo(b.stsz, x) \in Nat /\ SumTo(b.stsz, n) \in Nat
  BY PlaceFacts
<1>3. ba = b.stco[c] /\ b.stco[c] \in Nat
  BY <1>1, TableFacts DEF Place
<1>4. Before(b, c) < n + 1 /\ n + 1 <= Before(b, c + 1)
  BY <1>1, <1>2
<1>5. Meaning(b)[n + 1] =
         [ts |-> Due(b, n + 1), dur |-> Duration(b, n + 1),
          off |-> b.stco[c] + SumTo(b.stsz, n + 1 - 1) - SumTo(b.stsz, Before(b, c)),
          len |-> b.stsz[n + 1]]
  BY <1>1, <1>4, MeaningIs
<1>6. n + 1 - 1 = n
  OBVIOUS
<1>7. b.stco[c] + SumTo(b.stsz, n + 1 - 1) - SumTo(b.stsz, Before(b, c)) = ba + o
  BY <1>2, <1>3, <1>6
<1> QED BY <1>5, <1>7, Zenon

(* ... and the one after it is in the same chunk, or the first of the      *)
(* next.                                                                   *)
LEMMA PlaceStep ==
  ASSUME NEW b \in Boxes, Legal(b), NEW n \in Nat, n < Len(b.stsz),
         NEW c, NEW ba, NEW o, NEW l, Place(b, n, c, ba, o, l)
  PROVE  /\ l # 1 => Place(b, n + 1, c, ba, o + b.stsz[n + 1], l - 1)
         /\ l = 1 => Place(b, n + 1, c + 1, IF c + 1 <= Len(b.stco) THEN b.stco[c + 1] ELSE ba,
                           0, Per(b, c + 1))
<1>1. c \in 1..Len(b.stco) /\ n + 1 \in 1..Len(b.stsz) /\ l \in Nat \ {0}
  BY PlaceFacts
<1>2. PICK x \in Nat : /\ x = Before(b, c) /\ x <= n /\ Before(b, c + 1) = n + l
                       /\ o = SumTo(b.stsz, n) - SumTo(b.stsz, x)
                       /\ o \in Int /\ SumTo(b.stsz, x) \in Nat
  BY PlaceFacts
<1>3. n + 1 - 1 = n /\ n \in 0..n + 1 /\ n + 1 \in Nat
  OBVIOUS
<1>4. /\ SumTo(b.stsz, n + 1) = SumTo(b.stsz, n) + b.stsz[n + 1]
      /\ SumTo(b.stsz, n + 1) \in Nat /\ SumTo(b.stsz, n) \in Nat /\ b.stsz[n + 1] \in Nat
  BY <1>1, <1>3, SizeFacts, TableFacts
<1>5. CASE l # 1
  <2>1. ba = b.stco[c]
    BY DEF Place
  <2>2. l - 1 > 0 /\ l - 1 = Before(b, c + 1) - (n + 1) /\ Before(b, c) <= n + 1
    BY <1>1, <1>2, <1>5
  <2>3. o + b.stsz[n + 1] = SumTo(b.stsz, n + 1) - SumTo(b.stsz, Before(b, c))
    BY <1>2, <1>4
  <2> QED BY <1>1, <1>5, <2>1, <2>2, <2>3 DEF Place
<1>6. CASE l = 1
  <2> SUFFICES ASSUME n + 1 < Len(b.stsz)
               PROVE  Place(b, n + 1, c + 1, IF c + 1 <= Len(b.stco) THEN b.stco[c + 1] ELSE ba,
                            0, Per(b, c + 1))
    BY <1>6 DEF Place
  <2>1. Before(b, c + 1) = n + 1
    BY <1>2, <1>6
  <2>2. Len(b.stco) \in Nat /\ Len(b.stsz) \in Nat /\ Before(b, Len(b.stco) + 1) >= Len(b.stsz)
    BY LegalFacts
  <2>3. c # Len(b.stco)
    BY <2>1, <2>2
  <2>4. PICK d \in 1..Len(b.stco) : d = c + 1 /\ c + 1 <= Len(b.stco)
    BY <1>1, <2>2, <2>3
  <2>5. /\ Before(b, d + 1) = Before(b, d) + Per(b, d) /\ Per(b, d) \in Nat \ {0}
        /\ Before(b, d) = n + 1
    BY <2>1, <2>4, BeforeFacts
  <2>6. Per(b, d) > 0 /\ Per(b, d) = Before(b, d + 1) - (n + 1) /\ Before(b, d) <= n + 1
    BY <2>5
  <2>7. 0 = SumTo(b.stsz, n + 1) - SumTo(b.stsz, Before(b, d))
    BY <1>4, <2>5
  <2>8. Place(b, n + 1, d, b.stco[d], 0, Per(b, d))
    BY <2>4, <2>6, <2>7 DEF Place
  <2> QED BY <2>4, <2>8
<1> QED BY <1>5, <1>6

(* So the loop pushes the sample that is meant.                            *)
LEMMA NextSampleFits == ASSUME IInv, Fits, NextSample PROVE Fits'
<1>1. /\ box \in Boxes /\ box' = box /\ dur' = dur /\ cap' = cap /\ pc' = pc /\ pc = "samples"
      /\ Len(samples) < Len(dur) /\ cap \in Seq(Nat) /\ dur \in Seq(Nat)
      /\ samples \in Seq(Sample) /\ offset \in Nat /\ base \in Nat /\ chunk \in Nat \ {0}
  BY DEF NextSample, MoreSamples, tables, IInv, TypeOK
<1> SUFFICES ASSUME Legal(box) PROVE Fits'
  BY <1>1 DEF Fits
<1>2. PICK n \in Nat : n = Len(samples)
  BY <1>1
<1>3. /\ Expanded(box, dur, Len(box.stts)) /\ Filled(box, cap, Len(box.stsc))
      /\ ts = Due(box, n + 1) /\ Place(box, n, chunk, base, offset, left)
      /\ \A k \in 1..n : k \in DOMAIN box.stsz /\ samples[k] = Meaning(box)[k]
  BY <1>1, <1>2 DEF Fits
<1>4. /\ Len(dur) = Len(box.stsz) /\ n < Len(box.stsz)
      /\ \A k \in 1..Len(dur) : dur[k] = Duration(box, k)
  BY <1>1, <1>2, <1>3, LegalFacts DEF Expanded
<1>5. n + 1 \in 1..Len(box.stsz) /\ n + 1 \in DOMAIN box.stsz /\ n + 1 \in DOMAIN dur
  BY <1>1, <1>4, TableFacts
<1>6. PICK len \in ReadsPast(box.stsz, n + 1), d \in ReadsPast(dur, n + 1) :
         /\ samples' = Append(samples, [ts |-> ts, dur |-> d,
                                        off |-> base + offset, len |-> len])
         /\ ts' = ts + d
         /\ IF left = 1 THEN NextChunk ELSE SameChunk(len)
  BY <1>2 DEF NextSample
<1>7. len = box.stsz[n + 1] /\ d = Duration(box, n + 1)
  BY <1>4, <1>5, <1>6 DEF ReadsPast
<1>8. PICK s : s = [ts |-> ts, dur |-> d, off |-> base + offset, len |-> len]
  OBVIOUS
<1>9. s = Meaning(box)[n + 1]
  <2>1. /\ box \in Boxes /\ Legal(box) /\ n \in Nat /\ n < Len(box.stsz)
        /\ Place(box, n, chunk, base, offset, left)
    BY <1>1, <1>3, <1>4
  <2>2. Meaning(box)[n + 1] = [ts |-> Due(box, n + 1), dur |-> Duration(box, n + 1),
                               off |-> base + offset, len |-> box.stsz[n + 1]]
    BY ONLY <2>1, PlaceMeans
  <2> QED BY <1>3, <1>7, <1>8, <2>2
<1>10. /\ Len(samples') = n + 1 /\ samples'[n + 1] = s
       /\ \A k \in 1..n : samples'[k] = samples[k]
  <2>1. samples' = Append(samples, s)
    BY <1>6, <1>8, Zenon
  <2> QED BY <1>1, <1>2, <2>1
<1>11. \A k \in 1..n + 1 : k \in DOMAIN box.stsz /\ samples'[k] = Meaning(box)[k]
  <2> SUFFICES ASSUME NEW k \in 1..n + 1
               PROVE  k \in DOMAIN box.stsz /\ samples'[k] = Meaning(box)[k]
    OBVIOUS
  <2>1. CASE k = n + 1
    BY <1>5, <1>9, <1>10, <2>1
  <2>2. CASE k # n + 1
    <3>1. k \in 1..n
      BY <2>2
    <3> QED BY <1>3, <1>10, <3>1
  <2> QED BY <2>1, <2>2
<1>12. ts' = Due(box, n + 1 + 1)
  BY <1>1, <1>3, <1>5, <1>6, <1>7, DueFacts
<1>13. Place(box, n + 1, chunk', base', offset', left')
  <2>1. CASE left = 1
    <3>1. /\ chunk' = chunk + 1 /\ offset' = 0
          /\ base' = IF chunk + 1 <= Len(box.stco) THEN box.stco[chunk + 1] ELSE base
          /\ left' = IF chunk + 1 <= Len(cap) THEN cap[chunk + 1] ELSE Last(cap)
      BY <1>6, <2>1 DEF NextChunk
    <3>2. left' = Per(box, chunk + 1)
      <4>1. PICK c \in Nat \ {0} : c = chunk + 1
        BY <1>1
      <4>2. (IF c <= Len(cap) THEN cap[c] ELSE Last(cap)) = Per(box, c)
        BY <1>1, <1>3, CapacityIs
      <4> QED BY <3>1, <4>1, <4>2
    <3>3. Place(box, n + 1, chunk + 1,
                IF chunk + 1 <= Len(box.stco) THEN box.stco[chunk + 1] ELSE base,
                0, Per(box, chunk + 1))
      BY <1>1, <1>3, <1>4, <2>1, PlaceStep
    <3> QED BY <3>1, <3>2, <3>3
  <2>2. CASE left # 1
    <3>1. /\ chunk' = chunk /\ base' = base /\ offset' = offset + box.stsz[n + 1]
          /\ left' = left - 1
      BY <1>6, <1>7, <2>2 DEF SameChunk
    <3>2. Place(box, n + 1, chunk, base, offset + box.stsz[n + 1], left - 1)
      BY <1>1, <1>3, <1>4, <2>2, PlaceStep
    <3> QED BY <3>1, <3>2
  <2> QED BY <2>1, <2>2
<1> QED BY <1>1, <1>3, <1>10, <1>11, <1>12, <1>13 DEF Fits

(* Nothing else is read: the file ends, or the loop does.                  *)
LEMMA OtherFits ==
  ASSUME IInv, Fits, FileEnds \/ NoSize \/ Finish \/ UNCHANGED vars PROVE Fits'
<1>1. UNCHANGED <<box, dur, cap, entry, chunk, left, base, offset, ts, samples>>
  BY DEF FileEnds, NoSize, Finish, vars, tables, loop
<1>2. CASE FileEnds \/ NoSize
  <2>1. pc' \in {"refused", "crashed"}
    BY <1>2 DEF FileEnds, NoSize
  <2> QED BY <1>1, <2>1 DEF Fits
<1>3. CASE Finish
  <2>1. pc = "samples" /\ pc' = "done"
    BY <1>3 DEF Finish
  <2>2. Len(samples) = Len(dur)
    <3>1. Len(samples) \in Nat /\ Len(dur) \in Nat /\ Len(samples) <= Len(dur)
      BY DEF IInv, TypeOK
    <3> QED BY <1>3, <3>1 DEF Finish, MoreSamples
  <2> QED BY <1>1, <2>1, <2>2 DEF Fits
<1>4. CASE UNCHANGED vars
  <2>1. pc' = pc
    BY <1>4 DEF vars
  <2> QED BY <1>1, <2>1 DEF Fits
<1> QED BY <1>2, <1>3, <1>4

(* From tables that fit together the parser makes the samples the format   *)
(* means, however many there are.                                          *)
THEOREM MakesWhatIsMeant == Spec => []MatchesFormat
<1>1. Spec => []IInv
  BY InitIInv, NextIInv, PTL DEF Spec
<1>2. Init => Fits
  BY InitFits
<1>3. IInv /\ Fits /\ [Next]_vars => Fits'
  BY SttsFits, StscFits, StartFits, NextSampleFits, OtherFits DEF Next
<1>4. ASSUME IInv, Fits, pc = "done", Legal(box) PROVE samples = Meaning(box)
  <2>1. box \in Boxes /\ samples \in Seq(Sample) /\ dur \in Seq(Nat)
    BY <1>4 DEF IInv, TypeOK
  <2>2. Len(samples) = Len(box.stsz)
    BY <1>4, <2>1, LegalFacts DEF Fits, Expanded
  <2>3. DOMAIN samples = DOMAIN box.stsz
    BY <2>1, <2>2, TableFacts
  <2>4. \A k \in DOMAIN box.stsz : samples[k] = Meaning(box)[k]
    BY <1>4, <2>1, <2>3 DEF Fits
  <2>5. DOMAIN Meaning(box) = DOMAIN box.stsz
    BY Zenon DEF Meaning
  <2>6. samples = [k \in DOMAIN samples |-> samples[k]]
    BY <2>1
  <2>7. Meaning(box) = [k \in DOMAIN box.stsz |-> Meaning(box)[k]]
    BY Zenon DEF Meaning
  <2> QED BY <2>3, <2>4, <2>6, <2>7
<1>5. IInv /\ Fits => MatchesFormat
  BY <1>4 DEF IInv, MatchesFormat
<1> QED BY <1>1, <1>2, <1>3, <1>5, PTL DEF Spec
=============================================================================
