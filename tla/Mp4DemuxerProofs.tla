--------------------------- MODULE Mp4DemuxerProofs ---------------------------
(***************************************************************************)
(* Any files: the parser's own state stays in its types, whatever it       *)
(* reads.  Any legal movie among them: the walk keeps to its boxes, the    *)
(* tracks are those that were written, and the packets those that were     *)
(* meant.                                                                  *)
(***************************************************************************)
EXTENDS Mp4Demuxer, FiniteSetTheorems, SequenceTheorems, WellFoundedInduction,
        TLAPS

-----------------------------------------------------------------------------
(* Types, in any file.                                                     *)
Names == {MKTYPE[v] : v \in DOMAIN MKTYPE} \cup {"unknown"}

Frame == [offset : 0..Wrap - 1, size : 0..Wrap - 1, readed : 0..Wrap - 1,
          track : BOOLEAN]

Record(counts) ==
          [id : Nat, type : Names, scale : Nat, refer : Nat, sdp : Nat,
           keys : Seq(Int), durs : Seq(Nat), chunks : Seq(Nat),
           samples : Seq([ts : Nat, off : Nat]), readed : counts]

\* The calls of ParseDefault that are one of ParseTrak.
Marks(s) == {i \in DOMAIN s : s[i].track}

WalkType == /\ stack \in Seq(Frame) /\ cur \in Seq(Record({0}))
            /\ pc = "box" => /\ fd \in Files /\ stack # << >>
                             /\ Cardinality(Marks(stack)) = Len(cur)

TracksType == /\ DOMAIN tracks \subseteq Nat /\ DOMAIN from = DOMAIN tracks
              /\ \A id \in DOMAIN tracks :
                    /\ tracks[id] \in Record(Nat) /\ tracks[id].id = id
                    /\ tracks[id].readed <= Len(tracks[id].samples)
                    /\ from[id] \in Files

\* The sample that is read has a track, and a place in it.
ReadType == /\ rd \in [id : Nat, packets : Nat, entries : Nat,
                       packet : Seq(Nat), out : Seq(Seq(Nat))]
            /\ pc \in {"packet", "entry"} =>
                  /\ rd.id \in DOMAIN tracks
                  /\ tracks[rd.id].readed < Len(tracks[rd.id].samples)
            /\ pc = "entry" => rd.packets > 0
            /\ pc \in {"idle", "box"} => rd.id = 0
            /\ rd.id \in DOMAIN tracks \cup {0}

TypeInv == /\ fd \in Files \cup {Closed} /\ pos \in Nat /\ described \in BOOLEAN
           /\ pc \in {"idle", "box", "packet", "entry", "undefined"}
           /\ WalkType /\ TracksType /\ ReadType

-----------------------------------------------------------------------------
(* The walk through a legal file.                                          *)
\* The box that a call of ParseDefault is in; the first call is in none.
BoxOf(s, i) == s[i].offset - 8
Calls(s) == 2..Len(s)

Bottom(f, s) == /\ Len(s) > 0 /\ s[1].offset = 0 /\ s[1].size = FileEnd(f)
                /\ ~s[1].track

InBoxes(f, s) ==
   \A i \in Calls(s) : LET b == BoxOf(s, i)
                       IN /\ b \in f.boxes /\ TypeOf(f, b) \in Holders
                          /\ s[i].size = Cell(f, b) - 8
                          /\ s[i].track <=> TypeOf(f, b) = "trak"

\* A call is where the next one began, and each lies within those before.
Nested(s) ==
   /\ \A i \in 1..Len(s) - 1 : s[i].offset + s[i].readed = s[i + 1].offset
   /\ \A i, j \in 1..Len(s) : i < j =>
         /\ s[i].offset + 8 <= s[j].offset
         /\ s[j].offset + s[j].size <= s[i].offset + s[i].size

\* The boxes around a place are those of the calls, and so for their boxes.
OnStack(s, b) == \E i \in Calls(s) : BoxOf(s, i) = b

Around(f, s, p) == \A b \in f.boxes : b < p /\ p < End(f, b) => OnStack(s, b)

AroundCalls(f, s) ==
   \A i \in Calls(s) : \A b \in f.boxes :
      b < BoxOf(s, i) /\ BoxOf(s, i) < End(f, b) =>
         \E j \in Calls(s) : j < i /\ BoxOf(s, j) = b

\* The place is in the last of the calls, at a box or at the end.
Place(f, s, p) == LET t == s[Len(s)]
                  IN /\ p = t.offset + t.readed /\ t.readed <= t.size
                     /\ t.readed = t.size \/ p \in f.boxes

Layers(f, s, p) == /\ Bottom(f, s) /\ InBoxes(f, s) /\ Nested(s)
                   /\ Around(f, s, p) /\ AroundCalls(f, s) /\ Place(f, s, p)

\* A track of which the boxes of some types have been read: those before p.
Drafted(f, t, types) ==
   LET b(type) == The(f, t, type)
   IN [id |-> IF "tkhd" \in types THEN Dated(f, b("tkhd")) ELSE 0,
       type |-> IF "hdlr" \in types THEN Name(Cell(f, b("hdlr") + 16)) ELSE "unknown",
       scale |-> IF "mdhd" \in types THEN Dated(f, b("mdhd")) ELSE 0,
       refer |-> IF "hint" \in types THEN Cell(f, b("hint") + 8) ELSE 0,
       sdp |-> IF "sdp" \in types THEN Cell(f, b("sdp") + 8) ELSE 0,
       keys |-> IF "stss" \in types
                THEN [i \in 1..HowMany(f, b("stss")) |-> Listed(f, b("stss"), i) - 1]
                ELSE << >>,
       durs |-> IF "stts" \in types
                THEN [i \in 1..Cell(f, b("stts") + 16) |-> Cell(f, b("stts") + 20)]
                ELSE << >>,
       chunks |-> IF "stco" \in types
                  THEN [i \in 1..HowMany(f, b("stco")) |-> Listed(f, b("stco"), i)]
                  ELSE << >>,
       samples |-> << >>, readed |-> 0]

SeenTypes(f, t, p) == {type \in OfTrack : \E c \in Within(f, t, type) : c < p}

PartOf(f, t, p) == Drafted(f, t, SeenTypes(f, t, p))

Current(f, s, c, p) ==
   \A i \in Calls(s) : s[i].track => c = <<PartOf(f, BoxOf(s, i), p)>>

\* Tracks behind which the walk is have been found.
Passed(f, s, p, found) ==
   \A t \in Traks(f) : End(f, t) <= p =>
      OnStack(s, t) \/ TrackOf(f, t).id \in found

WalkInv ==
   pc = "box" /\ fd \in LegalFiles =>
      /\ Layers(fd, stack, pos)
      /\ Current(fd, stack, cur, pos) /\ Passed(fd, stack, pos, DOMAIN tracks)

-----------------------------------------------------------------------------
(* A sample of a legal movie in the making.                                *)
OneMovie == /\ fd \in LegalFiles /\ from[rd.id] = fd
            /\ tracks[rd.id].refer \in DOMAIN tracks => from[tracks[rd.id].refer] = fd

Assembled(t) ==
   LET i == tracks[rd.id].readed + 1
       off == TrackOf(fd, t).samples[i].off
       p == PacketAt(fd, off, Len(rd.out) + 1)
       n == Counted(fd, p) - rd.entries
   IN /\ t \in Traks(fd) /\ [tracks[rd.id] EXCEPT !.readed = 0] = TrackOf(fd, t)
      /\ TrackOf(fd, t).type = "hint"
      /\ rd.packets + Len(rd.out) = Cell(fd, off)
      /\ rd.out = [k \in 1..Len(rd.out) |-> RtpPacket(fd, t, i, PacketAt(fd, off, k))]
      /\ pc = "packet" => pos = p
      /\ pc = "entry" => /\ p \in Nat /\ Counted(fd, p) \in Nat
                         /\ n \in Nat /\ pos = p + 12 + 16 * n
                         /\ Gathered(fd, t, p, n) \in Seq(Nat)
                         /\ rd.packet = <<Cell(fd, p + 4), TrackOf(fd, t).samples[i].ts,
                                          TrackOf(fd, t).id>> \o Gathered(fd, t, p, n)

HintInv == pc \in {"packet", "entry"} /\ OneMovie => \E t \in Traks(fd) : Assembled(t)

-----------------------------------------------------------------------------
(* Reading any file.                                                       *)
\* Any file is a sequence of numbers.
AnyFile == Files \cup {Closed}

(* A file that may be open: its cells, its end.                            *)
LEMMA FileFacts ==
  ASSUME NEW f \in AnyFile
  PROVE  /\ f.cells \in Seq(Nat) /\ Len(f.cells) \in Nat
         /\ FileEnd(f) \in Nat /\ FileEnd(f) < Wrap /\ Wrap \in Nat \ {0}
<1>1. Wrap \in Nat \ {0}
  BY FileAssumption
<1>2. CASE f \in Files
  <2>1. f.cells \in Seq(Nat) /\ FileEnd(f) < Wrap \div 2
    BY <1>2, FileAssumption
  <2> QED BY <1>1, <2>1 DEF FileEnd
<1>3. CASE f = Closed
  <2>1. f.cells = << >>
    BY <1>3 DEF Closed
  <2> QED BY <1>1, <2>1 DEF FileEnd
<1> QED BY <1>2, <1>3 DEF AnyFile

(* A place of a sequence.                                                  *)
LEMMA Element ==
  ASSUME NEW S, NEW q \in Seq(S), NEW i \in 1..Len(q) PROVE q[i] \in S
OBVIOUS

(* A sequence from its places.                                             *)
LEMMA Listing ==
  ASSUME NEW S, NEW n \in Nat, NEW g, \A i \in 1..n : g[i] \in S
  PROVE  [i \in 1..n |-> g[i]] \in Seq(S)
OBVIOUS

(* A function on places is a sequence.                                     *)
LEMMA OnPlaces ==
  ASSUME NEW S, NEW n \in Nat, NEW h, h = [i \in 1..n |-> h[i]],
         \A i \in 1..n : h[i] \in S
  PROVE  h \in Seq(S) /\ Len(h) = n /\ DOMAIN h = 1..n
<1>1. [i \in 1..n |-> h[i]] \in Seq(S) /\ Len([i \in 1..n |-> h[i]]) = n
  BY Listing
<1> QED BY <1>1, Zenon

(* A sequence is the function of its places.                               *)
LEMMA Whole ==
  ASSUME NEW S, NEW q \in Seq(S), NEW n, n = Len(q)
  PROVE  q = [i \in 1..n |-> q[i]]
OBVIOUS

(* Numbers are read within a file.                                         *)
LEMMA CellNat ==
  ASSUME NEW f \in AnyFile, NEW p \in Nat, p + 4 <= FileEnd(f)
  PROVE  Cell(f, p) \in Nat
<1>1. f.cells \in Seq(Nat) /\ Len(f.cells) \in Nat
  BY FileFacts
<1>2. p \div 4 + 1 \in 1..Len(f.cells)
  BY <1>1 DEF FileEnd
<1> QED BY <1>1, <1>2, Element DEF Cell

(* And sequences of them.                                                  *)
LEMMA SpanType ==
  ASSUME NEW f \in AnyFile, NEW p \in Nat, NEW n \in Nat, p + 4 * n <= FileEnd(f)
  PROVE  Span(f, p, n) \in Seq(Nat)
<1>1. FileEnd(f) \in Nat
  BY FileFacts
<1>2. ASSUME NEW i \in 1..n PROVE Cell(f, p + 4 * (i - 1)) \in Nat
  <2>1. p + 4 * (i - 1) \in Nat /\ p + 4 * (i - 1) + 4 <= FileEnd(f)
    BY <1>1
  <2> QED BY <2>1, CellNat
<1> QED BY <1>2 DEF Span

(* A number has a name.                                                    *)
LEMMA NameType == ASSUME NEW v PROVE Name(v) \in Names
<1>1. CASE v \in DOMAIN MKTYPE
  BY <1>1, Zenon DEF Name, Names
<1>2. CASE v \notin DOMAIN MKTYPE
  BY <1>2, Zenon DEF Name, Names
<1> QED BY <1>1, <1>2

-----------------------------------------------------------------------------
(* The calls of ParseDefault; readed may pass what a size_t holds, before  *)
(* it is cut.                                                              *)
Wide == [offset : 0..Wrap - 1, size : 0..Wrap - 1, readed : Nat, track : BOOLEAN]

\* The last call has read x.
Moved(s, x) == [s EXCEPT ![Len(s)].readed = x]

(* Reading moves the last call.                                            *)
LEMMA MovedFacts ==
  ASSUME NEW s \in Seq(Wide), s # << >>, NEW x \in Nat
  PROVE  /\ Moved(s, x) \in Seq(Wide) /\ Len(Moved(s, x)) = Len(s)
         /\ Moved(s, x) # << >> /\ Len(s) \in Nat \ {0}
         /\ DOMAIN Moved(s, x) = 1..Len(s)
         /\ \A i \in 1..Len(s) - 1 : Moved(s, x)[i] = s[i]
         /\ LET t == s[Len(s)]
                r == Moved(s, x)[Len(s)]
            IN /\ r.offset = t.offset /\ r.size = t.size
               /\ r.track = t.track /\ r.readed = x
<1>1. PICK n \in Nat \ {0} : n = Len(s) /\ DOMAIN s = 1..n
  BY EmptySeq
<1>2. Moved(s, x) = [i \in 1..n |-> IF i = n THEN [s[i] EXCEPT !.readed = x] ELSE s[i]]
  BY <1>1 DEF Moved
<1>3. ASSUME NEW i \in 1..n PROVE s[i] \in Wide /\ [s[i] EXCEPT !.readed = x] \in Wide
  <2>1. s[i] \in Wide
    BY <1>1, Element
  <2> QED BY <2>1 DEF Wide
<1>4. Moved(s, x) \in Seq(Wide) /\ Len(Moved(s, x)) = n /\ DOMAIN Moved(s, x) = 1..n
  <2> DEFINE h == Moved(s, x)
  <2>1. h = [i \in 1..n |-> h[i]]
    BY <1>2, Zenon
  <2>2. \A i \in 1..n : h[i] \in Wide
    BY <1>2, <1>3
  <2> HIDE DEF h
  <2>3. h \in Seq(Wide) /\ Len(h) = n /\ DOMAIN h = 1..n
    BY <2>1, <2>2, OnPlaces
  <2> QED BY <2>3 DEF h
<1>5. Moved(s, x)[n] = [s[n] EXCEPT !.readed = x] /\ s[n] \in Wide
  BY <1>2, <1>3
<1>6. \A i \in 1..n - 1 : Moved(s, x)[i] = s[i]
  BY <1>2
<1>7. LET t == s[n]
          r == Moved(s, x)[n]
      IN /\ r.offset = t.offset /\ r.size = t.size
         /\ r.track = t.track /\ r.readed = x
  BY <1>5 DEF Wide
<1>8. Moved(s, x) # << >>
  BY <1>4
<1> QED BY <1>1, <1>4, <1>6, <1>7, <1>8

(* It makes none a ParseTrak.                                              *)
LEMMA MovedMarks ==
  ASSUME NEW s \in Seq(Wide), s # << >>, NEW x \in Nat
  PROVE  Marks(Moved(s, x)) = Marks(s)
<1>1. PICK n \in Nat \ {0} : n = Len(s) /\ DOMAIN s = 1..n
  BY EmptySeq
<1>2. DOMAIN Moved(s, x) = 1..n
  BY <1>1, MovedFacts
<1>3. ASSUME NEW i \in 1..n PROVE Moved(s, x)[i].track = s[i].track
  <2>1. CASE i = n
    BY <1>1, <2>1, MovedFacts
  <2>2. CASE i \in 1..n - 1
    BY <1>1, <2>2, MovedFacts
  <2> QED BY <2>1, <2>2
<1> QED BY <1>1, <1>2, <1>3 DEF Marks

(* There are finitely many calls.                                          *)
LEMMA MarksFinite ==
  ASSUME NEW s \in Seq(Wide)
  PROVE  IsFiniteSet(Marks(s)) /\ Cardinality(Marks(s)) \in Nat
         /\ Marks(s) \subseteq 1..Len(s)
<1>1. Marks(s) \subseteq 1..Len(s) /\ Len(s) \in Nat
  BY DEF Marks
<1>2. IsFiniteSet(1..Len(s))
  BY <1>1, FS_Interval
<1>3. IsFiniteSet(Marks(s))
  BY <1>1, <1>2, FS_Subset
<1> QED BY <1>1, <1>3, FS_CardinalityType

(* What is cut to a size_t, and what need not be cut.                      *)
LEMMA InRange ==
  ASSUME NEW w \in Nat \ {0}, NEW x \in Int
  PROVE  x % w \in 0..w - 1 /\ x % w \in Nat /\ (x \in 0..w - 1 => x % w = x)
OBVIOUS

(* A call begins.                                                          *)
LEMMA PushFacts ==
  ASSUME NEW s \in Seq(Wide), NEW t \in Wide
  PROVE  /\ Append(s, t) \in Seq(Wide) /\ Append(s, t) # << >>
         /\ Len(Append(s, t)) = Len(s) + 1 /\ Len(s) \in Nat
         /\ Append(s, t)[Len(s) + 1] = t
         /\ \A i \in 1..Len(s) : Append(s, t)[i] = s[i]
         /\ Cardinality(Marks(Append(s, t))) =
               Cardinality(Marks(s)) + IF t.track THEN 1 ELSE 0
<1>1. PICK n \in Nat : n = Len(s)
  OBVIOUS
<1>2. /\ Append(s, t) \in Seq(Wide) /\ Len(Append(s, t)) = n + 1
      /\ DOMAIN Append(s, t) = 1..n + 1 /\ DOMAIN s = 1..n
  BY <1>1
<1>3. Append(s, t)[n + 1] = t /\ \A i \in 1..n : Append(s, t)[i] = s[i]
  BY <1>1
<1>4. Marks(Append(s, t)) = Marks(s) \cup IF t.track THEN {n + 1} ELSE {}
  BY <1>2, <1>3 DEF Marks
<1>5. Marks(s) \subseteq 1..n /\ n + 1 \notin 1..n
  BY <1>1, MarksFinite
<1>6. Cardinality(Marks(Append(s, t))) =
         Cardinality(Marks(s)) + IF t.track THEN 1 ELSE 0
  <2>1. CASE t.track
    <3>1. Marks(Append(s, t)) = Marks(s) \cup {n + 1} /\ n + 1 \notin Marks(s)
      BY <1>4, <1>5, <2>1
    <3>2. Cardinality(Marks(s) \cup {n + 1}) = Cardinality(Marks(s)) + 1
      BY <3>1, MarksFinite, FS_AddElement
    <3> QED BY <2>1, <3>1, <3>2
  <2>2. CASE ~t.track
    BY <1>4, <2>2, MarksFinite
  <2> QED BY <2>1, <2>2
<1>7. Append(s, t) # << >>
  BY <1>2
<1> QED BY <1>1, <1>2, <1>3, <1>6, <1>7

(* A call returns.                                                         *)
LEMMA PopFacts ==
  ASSUME NEW s \in Seq(Wide), Len(s) > 1
  PROVE  /\ Front(s) \in Seq(Wide) /\ Front(s) # << >>
         /\ Len(Front(s)) = Len(s) - 1 /\ Len(s) \in Nat
         /\ \A i \in 1..Len(s) - 1 : Front(s)[i] = s[i]
         /\ Cardinality(Marks(Front(s))) =
               Cardinality(Marks(s)) - IF s[Len(s)].track THEN 1 ELSE 0
<1>1. PICK n \in Nat : n = Len(s) /\ n > 1
  OBVIOUS
<1>2. /\ Front(s) \in Seq(Wide) /\ Len(Front(s)) = n - 1
      /\ \A i \in 1..n - 1 : Front(s)[i] = s[i]
  BY <1>1 DEF Front
<1>3. DOMAIN Front(s) = 1..n - 1 /\ DOMAIN s = 1..n
  BY <1>1, <1>2
<1>4. Marks(Front(s)) = Marks(s) \ {n}
  BY <1>1, <1>2, <1>3 DEF Marks
<1>5. Cardinality(Marks(Front(s))) =
         Cardinality(Marks(s)) - IF s[n].track THEN 1 ELSE 0
  <2>1. CASE s[n].track
    <3>1. n \in Marks(s)
      BY <1>1, <1>3, <2>1 DEF Marks
    <3>2. Cardinality(Marks(s) \ {n}) = Cardinality(Marks(s)) - 1
      BY <3>1, MarksFinite, FS_RemoveElement
    <3> QED BY <1>4, <2>1, <3>2
  <2>2. CASE ~s[n].track
    <3>1. n \notin Marks(s)
      BY <2>2 DEF Marks
    <3>2. Marks(s) \ {n} = Marks(s)
      BY <3>1
    <3>3. Cardinality(Marks(s)) \in Nat
      BY MarksFinite
    <3>4. (IF s[n].track THEN 1 ELSE 0) = 0
      BY <2>2, Zenon
    <3>5. Cardinality(Marks(Front(s))) = Cardinality(Marks(s))
      BY <1>4, <3>2, Zenon
    <3> DEFINE m == IF s[n].track THEN 1 ELSE 0
               c == Cardinality(Marks(s))
    <3>6. c = c - m
      <4> HIDE DEF m, c
      <4> QED BY <3>3, <3>4 DEF m, c
    <3> QED BY <3>5, <3>6, Zenon
  <2> QED BY <2>1, <2>2
<1>6. Front(s) # << >>
  BY <1>1, <1>2
<1> QED BY <1>1, <1>2, <1>5, <1>6

(* Behind a box the walk goes on, or the seek has failed.                  *)
LEMMA SkipType ==
  ASSUME NEW calls \in Seq(Wide), calls # << >>, NEW more \in Nat,
         \A i \in 1..Len(calls) - 1 : calls[i] \in Frame,
         pc = "box", Skip(calls, more)
  PROVE  /\ stack' \in Seq(Frame) /\ pos' \in Nat
         /\ fd' = fd /\ described' = described /\ rd' = rd
         /\ \/ pc' = "idle"
            \/ /\ pc' = "box" /\ stack' # << >>
               /\ Marks(stack') = Marks(calls)
<1> DEFINE n == Len(calls)
           readed == (calls[n].readed + more) % Wrap
           to == (calls[n].offset + readed) % Wrap
<1>1. n \in Nat \ {0} /\ Wrap \in Nat \ {0}
  BY FileAssumption, EmptySeq
<1>2. calls[n] \in Wide
  BY <1>1, Element
<1>3. readed \in 0..Wrap - 1 /\ to \in 0..Wrap - 1 /\ readed \in Nat /\ to \in Nat
  <2>1. calls[n].readed \in Nat /\ calls[n].offset \in Nat
    BY <1>1, <1>2 DEF Wide
  <2>2. readed \in 0..Wrap - 1 /\ readed \in Nat
    <3>1. calls[n].readed + more \in Int
      BY <2>1
    <3> QED BY <1>1, <3>1, InRange
  <2> HIDE DEF readed
  <2>3. to \in 0..Wrap - 1 /\ to \in Nat
    <3>1. calls[n].offset + readed \in Int
      BY <2>1, <2>2
    <3> QED BY <1>1, <3>1, InRange DEF to
  <2> QED BY <2>2, <2>3
<1>4. fd' = fd /\ described' = described /\ rd' = rd
  BY DEF Skip
<1>5. CASE to < Wrap \div 2
  <2>1. stack' = Moved(calls, readed) /\ pos' = to /\ pc' = pc
    BY <1>5 DEF Skip, Moved
  <2> HIDE DEF readed, to, n
  <2>2. /\ stack' \in Seq(Wide) /\ stack' # << >> /\ Marks(stack') = Marks(calls)
        /\ Len(stack') = Len(calls)
    BY <1>3, <2>1, MovedFacts, MovedMarks
  <2>3. ASSUME NEW i \in 1..n PROVE stack'[i] \in Frame
    <3>1. CASE i = n
      <4>1. stack'[n] \in Wide
        BY <1>1, <2>2, Element DEF n
      <4>2. stack'[n].readed = readed
        BY <1>3, <2>1, MovedFacts DEF n
      <4> QED BY <1>3, <3>1, <4>1, <4>2 DEF Wide, Frame
    <3>2. CASE i \in 1..n - 1
      BY <1>3, <2>1, <3>2, MovedFacts DEF n
    <3> QED BY <1>1, <3>1, <3>2
  <2>4. stack' \in Seq(Frame)
    <3>1. stack' = [i \in 1..n |-> stack'[i]]
      BY <2>2 DEF n
    <3> QED BY <1>1, <2>3, <3>1, OnPlaces
  <2> QED BY <1>3, <1>4, <2>1, <2>2, <2>4
<1>6. CASE ~(to < Wrap \div 2)
  <2>1. stack' = << >> /\ Over
    BY <1>6 DEF Skip
  <2> QED BY <1>4, <2>1 DEF Over
<1> QED BY <1>5, <1>6

-----------------------------------------------------------------------------
(* The order of the naturals as a relation.                                *)
LEMMA LessThan == ASSUME NEW x \in Nat, NEW y \in Nat
  PROVE <<y, x>> \in OpToRel(<, Nat) <=> y < x
BY SMT DEF OpToRel

(* A set of numbers has a least one: what induction comes from here.       *)
LEMMA Least == ASSUME NEW T \in SUBSET Nat, T # {}
               PROVE  \E m \in T : \A k \in T : m <= k
<1>1. PICK m \in T : \A k \in T : ~(<<k, m>> \in OpToRel(<, Nat))
  BY NatLessThanWellFounded, WFMin, Zenon
<1>2. SUFFICES ASSUME NEW k \in T PROVE ~(k < m)
  BY SMT
<1>3. <<k, m>> \in OpToRel(<, Nat) <=> k < m
  BY LessThan
<1> QED BY <1>1, <1>3, Zenon

(* What the first k durations add up to, as a function.                    *)
FirstEnds(g, d, k) == g = [i \in 0..k |-> IF i = 0 THEN 0 ELSE g[i - 1] + d[i]]

(* A value of that.                                                        *)
LEMMA FirstEndsAt ==
  ASSUME NEW g, NEW d, NEW k, FirstEnds(g, d, k), NEW i \in 0..k
  PROVE  g[i] = IF i = 0 THEN 0 ELSE g[i - 1] + d[i]
BY Zenon DEF FirstEnds

(* For any number of durations there is one, of numbers.                   *)
LEMMA EndsExist ==
  ASSUME NEW d \in Seq(Nat), NEW n \in 0..Len(d)
  PROVE  \E g : FirstEnds(g, d, n) /\ \A i \in 0..n : g[i] \in Nat
<1> DEFINE T == {m \in 0..Len(d) :
                   ~ \E g : FirstEnds(g, d, m) /\ \A i \in 0..m : g[i] \in Nat}
<1>1. SUFFICES ASSUME T # {} PROVE FALSE
  OBVIOUS
<1>2. T \in SUBSET Nat
  OBVIOUS
<1>3. PICK m \in T : \A k \in T : m <= k
  BY <1>1, <1>2, Least
<1>4. CASE m = 0
  <2> DEFINE g == [i \in 0..0 |-> 0]
  <2>1. g = [i \in 0..0 |-> IF i = 0 THEN 0 ELSE g[i - 1] + d[i]]
    OBVIOUS
  <2>2. FirstEnds(g, d, 0) /\ \A i \in 0..0 : g[i] \in Nat
    BY <2>1 DEF FirstEnds
  <2> QED BY <2>2, <1>3, <1>4
<1>5. CASE m # 0
  <2>1. m \in 1..Len(d) /\ m - 1 \in 0..Len(d) /\ m - 1 \notin T /\ Len(d) \in Nat
    BY <1>3, <1>5
  <2>2. PICK f : FirstEnds(f, d, m - 1) /\ \A i \in 0..m - 1 : f[i] \in Nat
    BY <2>1
  <2>3. d[m] \in Nat
    BY <2>1, Element
  <2> DEFINE g == [i \in 0..m |-> IF i < m THEN f[i] ELSE f[i - 1] + d[i]]
             h == [i \in 0..m |-> IF i = 0 THEN 0 ELSE g[i - 1] + d[i]]
  <2>4. ASSUME NEW i \in 0..m PROVE g[i] = h[i] /\ g[i] \in Nat
    <3>1. CASE i < m
      <4>1. i \in 0..m - 1
        BY <2>1, <3>1
      <4>2. f[i] = IF i = 0 THEN 0 ELSE f[i - 1] + d[i]
        BY <2>2, <4>1, FirstEndsAt
      <4>3. g[i] = f[i] /\ (i # 0 => g[i - 1] = f[i - 1])
        BY <2>1, <3>1
      <4> QED BY <2>2, <4>1, <4>2, <4>3
    <3>2. CASE i = m
      <4>1. i # 0 /\ g[i] = f[i - 1] + d[i] /\ g[i - 1] = f[i - 1]
        BY <2>1, <3>2
      <4>2. i - 1 \in 0..m - 1
        BY <2>1, <3>2
      <4>3. f[i - 1] \in Nat /\ d[i] \in Nat
        BY <2>2, <2>3, <3>2, <4>2
      <4>4. h[i] = g[i - 1] + d[i]
        BY <4>1
      <4>5. g[i] \in Nat /\ g[i] = h[i]
        <5> HIDE DEF g, h
        <5> QED BY <4>1, <4>3, <4>4
      <4> QED BY <4>5
    <3> QED BY <2>1, <3>1, <3>2
  <2>5. g = h
    BY <2>4
  <2>6. FirstEnds(g, d, m)
    BY <2>5, Zenon DEF FirstEnds
  <2> QED BY <1>3, <2>4, <2>6
<1> QED BY <1>4, <1>5

(* And there is no other.                                                  *)
LEMMA EndsUnique ==
  ASSUME NEW d \in Seq(Nat), NEW f, NEW g, FirstEnds(f, d, Len(d)),
         FirstEnds(g, d, Len(d)), NEW i \in 0..Len(d)
  PROVE  f[i] = g[i]
<1> DEFINE T == {j \in 0..Len(d) : f[j] # g[j]}
<1>1. SUFFICES ASSUME T # {} PROVE FALSE
  OBVIOUS
<1>2. T \in SUBSET Nat
  OBVIOUS
<1>3. PICK m \in T : \A k \in T : m <= k
  BY <1>1, <1>2, Least
<1>4. f[m] = IF m = 0 THEN 0 ELSE f[m - 1] + d[m]
  BY <1>3, FirstEndsAt
<1>5. g[m] = IF m = 0 THEN 0 ELSE g[m - 1] + d[m]
  BY <1>3, FirstEndsAt
<1>6. f[m] # g[m]
  BY <1>3
<1>7. m # 0
  BY <1>4, <1>5, <1>6
<1>8. m - 1 \in 0..Len(d) /\ m - 1 \notin T
  BY <1>3, <1>7
<1>9. f[m - 1] = g[m - 1]
  BY <1>8
<1> QED BY <1>4, <1>5, <1>6, <1>7, <1>9

(* Ends is that function.                                                  *)
LEMMA EndsIs == ASSUME NEW d \in Seq(Nat) PROVE FirstEnds(Ends(d), d, Len(d))
<1>1. \E g : FirstEnds(g, d, Len(d))
  <2>1. Len(d) \in 0..Len(d)
    OBVIOUS
  <2> QED BY <2>1, EndsExist
<1>2. Ends(d) = CHOOSE g : FirstEnds(g, d, Len(d))
  BY Zenon DEF Ends, FirstEnds
<1> QED BY <1>1, <1>2, Zenon

(* Its values are numbers ...                                              *)
LEMMA EndsNat == ASSUME NEW d \in Seq(Nat), NEW i \in 0..Len(d) PROVE Ends(d)[i] \in Nat
<1>1. PICK g : FirstEnds(g, d, Len(d)) /\ \A j \in 0..Len(d) : g[j] \in Nat
  <2>1. Len(d) \in 0..Len(d)
    OBVIOUS
  <2> QED BY <2>1, EndsExist
<1>2. FirstEnds(Ends(d), d, Len(d))
  BY EndsIs
<1>3. Ends(d)[i] = g[i]
  BY <1>1, <1>2, EndsUnique
<1> QED BY <1>1, <1>3

(* ... and multiples of a duration that does not change.                   *)
LEMMA EndsSame ==
  ASSUME NEW d \in Seq(Nat), NEW x \in Nat, \A i \in 1..Len(d) : d[i] = x,
         NEW i \in 0..Len(d)
  PROVE  Ends(d)[i] = i * x
<1> DEFINE g == [j \in 0..Len(d) |-> j * x]
           h == [j \in 0..Len(d) |-> IF j = 0 THEN 0 ELSE g[j - 1] + d[j]]
<1>1. ASSUME NEW j \in 0..Len(d) PROVE g[j] = h[j]
  <2>1. CASE j = 0
    BY <2>1
  <2>2. CASE j # 0
    <3>1. j - 1 \in 0..Len(d) /\ j \in 1..Len(d) /\ j \in Nat
      BY <2>2
    <3>2. g[j - 1] = (j - 1) * x /\ d[j] = x /\ g[j] = j * x
      BY <3>1
    <3>3. (j - 1) * x + x = j * x
      BY <3>1
    <3>4. h[j] = g[j - 1] + d[j]
      BY <2>2
    <3> QED BY <3>2, <3>3, <3>4
  <2> QED BY <2>1, <2>2
<1>2. g = h
  BY <1>1
<1>3. FirstEnds(g, d, Len(d))
  BY <1>2, Zenon DEF FirstEnds
<1>4. FirstEnds(Ends(d), d, Len(d))
  BY EndsIs
<1>5. Ends(d)[i] = g[i]
  <2> HIDE DEF g
  <2> QED BY <1>3, <1>4, EndsUnique
<1> QED BY <1>5

-----------------------------------------------------------------------------
(* A sequence of numbers from a list of them.                              *)
LEMMA EntriesType ==
  ASSUME fd \in AnyFile, NEW p \in Nat, Has(p, 2), Has(p, 2 + At(p + 4))
  PROVE  At(p + 4) \in Nat /\ Entries(p) \in Seq(Nat) /\ Len(Entries(p)) = At(p + 4)
<1>1. FileEnd(fd) \in Nat
  BY FileFacts
<1>2. p + 4 \in Nat /\ p + 8 \in Nat /\ p + 4 + 4 <= FileEnd(fd)
  BY <1>1 DEF Has
<1>3. At(p + 4) \in Nat
  BY <1>2, CellNat DEF At
<1>4. p + 8 + 4 * At(p + 4) <= FileEnd(fd)
  <2>1. PICK n \in Nat : n = At(p + 4)
    BY <1>3
  <2>2. p + 4 * (2 + n) <= FileEnd(fd)
    BY <2>1 DEF Has
  <2> QED BY <1>1, <2>1, <2>2
<1>5. Entries(p) = Span(fd, p + 8, At(p + 4))
  BY DEF Entries, Cells
<1>6. Entries(p) \in Seq(Nat)
  BY <1>2, <1>3, <1>4, <1>5, SpanType
<1>7. Len(Entries(p)) = At(p + 4)
  BY <1>3, <1>5 DEF Span
<1> QED BY <1>3, <1>6, <1>7

(* Where the values of a header are, in either version.                    *)
LEMMA BehindTimesType ==
  ASSUME fd \in AnyFile, NEW p \in Nat, Has(p, IF Long(p) THEN 6 ELSE 4)
  PROVE  BehindTimes(p) \in Nat
<1>1. FileEnd(fd) \in Nat
  BY FileFacts
<1>2. CASE Long(p)
  <2>1. p + 20 \in Nat /\ p + 20 + 4 <= FileEnd(fd)
    BY <1>1, <1>2 DEF Has
  <2>2. BehindTimes(p) = Cell(fd, p + 20)
    BY <1>2 DEF BehindTimes, At
  <2> QED BY <2>1, <2>2, CellNat
<1>3. CASE ~Long(p)
  <2>1. p + 12 \in Nat /\ p + 12 + 4 <= FileEnd(fd)
    BY <1>1, <1>3 DEF Has
  <2>2. BehindTimes(p) = Cell(fd, p + 12)
    BY <1>3 DEF BehindTimes, At
  <2> QED BY <2>1, <2>2, CellNat
<1> QED BY <1>2, <1>3

(* What a box says of a track leaves it a track.                           *)
LEMMA ToldType ==
  ASSUME fd \in AnyFile, NEW p \in Nat, NEW type \in OfTrack,
         Has(p, Needs(type, p)), NEW t \in Record({0})
  PROVE  Told(type, p, t) \in Record({0})
<1>1. FileEnd(fd) \in Nat
  BY FileFacts
<1>2. CASE type = "tkhd"
  <2>1. Needs(type, p) = IF Long(p) THEN 6 ELSE 4
    BY <1>2 DEF Needs
  <2>2. BehindTimes(p) \in Nat
    BY <2>1, BehindTimesType
  <2>3. Told(type, p, t) = [t EXCEPT !.id = BehindTimes(p)]
    BY <1>2 DEF Told
  <2> QED BY <2>2, <2>3 DEF Record
<1>3. CASE type = "mdhd"
  <2>1. Needs(type, p) = IF Long(p) THEN 6 ELSE 4
    BY <1>3 DEF Needs
  <2>2. BehindTimes(p) \in Nat
    BY <2>1, BehindTimesType
  <2>3. Told(type, p, t) = [t EXCEPT !.scale = BehindTimes(p)]
    BY <1>3 DEF Told
  <2> QED BY <2>2, <2>3 DEF Record
<1>4. CASE type = "hdlr"
  <2>1. Told(type, p, t) = [t EXCEPT !.type = Name(At(p + 8))]
    BY <1>4 DEF Told
  <2>2. Name(At(p + 8)) \in Names
    BY NameType
  <2> QED BY <2>1, <2>2 DEF Record
<1>5. CASE type \in {"hint", "sdp"}
  <2>1. Needs(type, p) = 1
    BY <1>5 DEF Needs
  <2>2. p + 4 <= FileEnd(fd)
    BY <2>1 DEF Has
  <2>3. At(p) \in Nat
    BY <2>2, CellNat DEF At
  <2>4. \/ Told(type, p, t) = [t EXCEPT !.refer = At(p)]
        \/ Told(type, p, t) = [t EXCEPT !.sdp = At(p)]
    BY <1>5 DEF Told
  <2> QED BY <2>3, <2>4 DEF Record
<1>6. CASE type = "stts"
  <2>1. Needs(type, p) = 4
    BY <1>6 DEF Needs
  <2>2. p + 16 <= FileEnd(fd)
    BY <2>1 DEF Has
  <2>3. p + 8 \in Nat /\ p + 12 \in Nat /\ p + 8 + 4 <= FileEnd(fd)
        /\ p + 12 + 4 <= FileEnd(fd)
    BY <1>1, <2>2
  <2>4. At(p + 8) \in Nat /\ At(p + 12) \in Nat
    BY <2>3, CellNat DEF At
  <2>5. Told(type, p, t) = [t EXCEPT !.durs = @ \o [i \in 1..At(p + 8) |-> At(p + 12)]]
    BY <1>6 DEF Told
  <2>6. [i \in 1..At(p + 8) |-> At(p + 12)] \in Seq(Nat)
    BY <2>4
  <2>7. t.durs \o [i \in 1..At(p + 8) |-> At(p + 12)] \in Seq(Nat)
    <3>1. t.durs \in Seq(Nat)
      BY DEF Record
    <3> QED BY <2>6, <3>1
  <2> HIDE DEF Told
  <2> QED BY <2>5, <2>7 DEF Record
<1>7. CASE type \in {"stco", "stss"}
  <2>1. Needs(type, p) = IF Has(p, 2) THEN 2 + At(p + 4) ELSE 2
    BY <1>7 DEF Needs
  <2>2. Has(p, 2) /\ Has(p, 2 + At(p + 4))
    BY <2>1
  <2>3. Entries(p) \in Seq(Nat) /\ Len(Entries(p)) = At(p + 4) /\ At(p + 4) \in Nat
    BY <2>2, EntriesType
  <2>4. CASE type = "stco"
    <3>1. Told(type, p, t) = [t EXCEPT !.chunks = @ \o Entries(p)]
      BY <2>4 DEF Told
    <3>2. t.chunks \in Seq(Nat)
      BY DEF Record
    <3>3. t.chunks \o Entries(p) \in Seq(Nat)
      BY <2>3, <3>2
    <3> QED BY <3>1, <3>3 DEF Record
  <2>5. CASE type = "stss"
    <3> DEFINE keys == [i \in 1..At(p + 4) |-> Entries(p)[i] - 1]
    <3>1. Told(type, p, t) = [t EXCEPT !.keys = @ \o keys]
      BY <2>5 DEF Told
    <3>2. t.keys \in Seq(Int)
      BY DEF Record
    <3>3. ASSUME NEW i \in 1..At(p + 4) PROVE Entries(p)[i] - 1 \in Int
      BY <2>3, Element
    <3>4. keys \in Seq(Int)
      BY <2>3, <3>3
    <3> HIDE DEF keys
    <3>5. t.keys \o keys \in Seq(Int)
      BY <3>2, <3>4
    <3> QED BY <3>1, <3>5 DEF Record
  <2> QED BY <1>7, <2>4, <2>5
<1> QED BY <1>2, <1>3, <1>4, <1>5, <1>6, <1>7 DEF OfTrack, Needed

(* What ParseTrak makes of the tables is a track that has not been read.   *)
LEMMA SampledType ==
  ASSUME NEW t \in Record({0}), t.chunks # << >>
  PROVE  /\ Sampled(t) \in Record({0}) /\ Sampled(t).id = t.id
         /\ Sampled(t).readed = t.readed
<1>1. /\ t.durs \in Seq(Nat) /\ t.chunks \in Seq(Nat)
      /\ DOMAIN t.durs = 1..Len(t.durs) /\ Len(t.durs) \in Nat
  BY DEF Record
<1>2. Len(t.chunks) \in Nat \ {0}
  BY <1>1, EmptySeq
<1> DEFINE sample(i) == [ts |-> Ends(t.durs)[i - 1],
                         off |-> t.chunks[IF i <= Len(t.chunks) THEN i
                                          ELSE Len(t.chunks)]]
           samples == [i \in 1..Len(t.durs) |-> sample(i)]
<1>3. ASSUME NEW i \in 1..Len(t.durs) PROVE sample(i) \in [ts : Nat, off : Nat]
  <2>1. i - 1 \in 0..Len(t.durs)
    BY <1>1
  <2>2. Ends(t.durs)[i - 1] \in Nat
    BY <1>1, <2>1, EndsNat
  <2>3. (IF i <= Len(t.chunks) THEN i ELSE Len(t.chunks)) \in 1..Len(t.chunks)
    BY <1>1, <1>2
  <2>4. t.chunks[IF i <= Len(t.chunks) THEN i ELSE Len(t.chunks)] \in Nat
    BY <1>1, <2>3, Element
  <2> QED BY <2>2, <2>4
<1>4. samples \in Seq([ts : Nat, off : Nat])
  <2> HIDE DEF sample
  <2> QED BY <1>1, <1>3
<1>5. Sampled(t) = [t EXCEPT !.samples = samples, !.durs = << >>, !.chunks = << >>]
  BY <1>1, Zenon DEF Sampled
<1> HIDE DEF samples
<1> DEFINE e == << >>
<1>6. e \in Seq(Nat)
  OBVIOUS
<1> HIDE DEF e
<1>7. Sampled(t) = [[[t EXCEPT !.samples = samples] EXCEPT !.durs = e] EXCEPT !.chunks = e]
  BY <1>5 DEF e
<1> HIDE DEF Sampled
<1>8. Sampled(t) \in Record({0})
  BY <1>4, <1>6, <1>7 DEF Record
<1>9. Sampled(t).id = t.id /\ Sampled(t).readed = t.readed
  BY <1>7 DEF Record
<1> QED BY <1>8, <1>9

-----------------------------------------------------------------------------
(* The first state.                                                        *)
LEMMA InitType == Init => TypeInv
<1> SUFFICES ASSUME Init PROVE TypeInv
  OBVIOUS
<1> USE DEF Init
<1>1. WalkType
  BY DEF WalkType
<1>2. DOMAIN NoTracks = {}
  BY DEF NoTracks
<1>3. TracksType
  BY <1>2 DEF TracksType
<1>4. ReadType
  BY DEF ReadType, NoSample
<1> QED BY <1>1, <1>3, <1>4 DEF TypeInv

(* A read of a sample fails.                                               *)
LEMMA GivesUpType == TypeInv /\ GivesUp => TypeInv'
<1> SUFFICES ASSUME TypeInv, GivesUp PROVE TypeInv'
  OBVIOUS
<1> USE DEF TypeInv
<1>1. /\ rd' = NoSample /\ pc' = "idle" /\ pos' = 0
      /\ UNCHANGED <<fd, tracks, from, stack, cur, described>>
  BY DEF GivesUp, Over, Reading, walk
<1>2. WalkType' /\ TracksType'
  BY <1>1 DEF WalkType, TracksType
<1>3. ReadType'
  <2>1. << >> \in Seq(Nat) /\ << >> \in Seq(Seq(Nat))
    OBVIOUS
  <2> QED BY <1>1, <2>1 DEF ReadType, NoSample
<1> QED BY <1>1, <1>2, <1>3

(* A file is opened or not, or all is closed.                              *)
LEMMA CallType == TypeInv /\ Call => TypeInv'
<1> SUFFICES ASSUME TypeInv, Call PROVE TypeInv'
  OBVIOUS
<1> USE DEF TypeInv
<1>1. ASSUME NEW f \in Files, Parse(f) PROVE TypeInv'
  <2> DEFINE root == [offset |-> 0, size |-> FileEnd(f), readed |-> 0, track |-> FALSE]
  <2>1. /\ pc = "idle" /\ fd' = f /\ pos' = 0 /\ stack' = <<root>> /\ cur' = << >>
        /\ pc' = "box" /\ UNCHANGED <<tracks, from, described, rd>>
    BY <1>1 DEF Parse
  <2>2. root \in Frame
    BY FileFacts DEF AnyFile, Frame
  <2>3. root.track = FALSE
    OBVIOUS
  <2> HIDE DEF root
  <2>4. WalkType'
    <3>1. stack' \in Seq(Frame) /\ stack' # << >> /\ cur' \in Seq(Record({0}))
      BY <2>1, <2>2
    <3>2. DOMAIN stack' = {1} /\ stack'[1] = root
      BY <2>1
    <3>3. Marks(stack') = {}
      BY <2>3, <3>2 DEF Marks
    <3>4. Cardinality(Marks(stack')) = Len(cur')
      BY <2>1, <3>3, FS_EmptySet
    <3> QED BY <2>1, <3>1, <3>4 DEF WalkType
  <2>5. TracksType' /\ ReadType'
    BY <2>1 DEF TracksType, ReadType
  <2> QED BY <2>1, <2>4, <2>5
<1>2. CASE OpenFails
  <2>1. /\ pc = "idle" /\ fd' = Closed
        /\ UNCHANGED <<pos, tracks, from, stack, cur, described, rd, pc>>
    BY <1>2 DEF OpenFails, walk
  <2>2. WalkType' /\ TracksType' /\ ReadType'
    BY <2>1 DEF WalkType, TracksType, ReadType
  <2> QED BY <2>1, <2>2
<1>3. CASE Close
  <2>1. /\ pc = "idle" /\ fd' = Closed /\ tracks' = NoTracks /\ from' = NoTracks
        /\ UNCHANGED <<pos, stack, cur, described, rd, pc>>
    BY <1>3 DEF Close, walk
  <2>2. DOMAIN NoTracks = {}
    BY DEF NoTracks
  <2>3. WalkType' /\ TracksType' /\ ReadType'
    BY <2>1, <2>2 DEF WalkType, TracksType, ReadType
  <2> QED BY <2>1, <2>3
<1>4. ASSUME NEW id \in DOMAIN tracks, GetRtpSample(id) PROVE TypeInv'
  <2>1. /\ tracks[id].readed < Len(tracks[id].samples) /\ pc = "idle" /\ pc' = "packet"
        /\ rd' = [NoSample EXCEPT !.id = id, !.packets = At(SampleOf(id).off)]
        /\ pos' = SampleOf(id).off + 4 /\ Has(SampleOf(id).off, 1)
        /\ UNCHANGED <<fd, tracks, from, stack, cur, described>>
    BY <1>4 DEF GetRtpSample, Ready, Reading, walk
  <2>2. id \in Nat /\ SampleOf(id).off \in Nat
    <3>1. id \in Nat /\ tracks[id].samples \in Seq([ts : Nat, off : Nat])
          /\ tracks[id].readed \in Nat
      BY DEF TracksType, Record
    <3>2. tracks[id].readed + 1 \in 1..Len(tracks[id].samples)
      BY <2>1, <3>1
    <3>3. SampleOf(id) \in [ts : Nat, off : Nat]
      BY <3>1, <3>2, Element DEF SampleOf
    <3> QED BY <3>1, <3>3
  <2>3. At(SampleOf(id).off) \in Nat
    BY <2>1, <2>2, CellNat DEF At, Has, AnyFile
  <2>4. /\ rd'.id = id /\ rd' \in [id : Nat, packets : Nat, entries : Nat,
                                   packet : Seq(Nat), out : Seq(Seq(Nat))]
    <3>1. << >> \in Seq(Nat) /\ << >> \in Seq(Seq(Nat))
      OBVIOUS
    <3> QED BY <2>1, <2>2, <2>3, <3>1 DEF NoSample
  <2>5. WalkType' /\ TracksType' /\ ReadType'
    BY <2>1, <2>4 DEF WalkType, TracksType, ReadType
  <2> QED BY <2>1, <2>2, <2>5
<1>5. ASSUME NEW id \in DOMAIN tracks, NoTimescale(id) PROVE TypeInv'
  <2>1. pc' = "undefined" /\ UNCHANGED <<fd, pos, tracks, from, stack, cur, described, rd>>
    BY <1>5 DEF NoTimescale, Undefined, walk
  <2>2. WalkType' /\ TracksType' /\ ReadType'
    BY <2>1 DEF WalkType, TracksType, ReadType
  <2> QED BY <2>1, <2>2
<1>6. ASSUME NEW id \in DOMAIN tracks, NoCount(id) PROVE TypeInv'
  BY <1>6, GivesUpType DEF NoCount
<1> QED BY <1>1, <1>2, <1>3, <1>4, <1>5, <1>6 DEF Call

(* A track is inserted.                                                    *)
LEMMA InsertedFacts ==
  ASSUME NEW map, NEW key, NEW value
  PROVE  DOMAIN Inserted(map, key, value) = DOMAIN map \cup {key}
BY DEF Inserted

(* What is there afterwards.                                               *)
LEMMA InsertedAt ==
  ASSUME NEW map, NEW key, NEW value, NEW j \in DOMAIN map \cup {key}
  PROVE  Inserted(map, key, value)[j] = IF j \in DOMAIN map THEN map[j] ELSE value
BY DEF Inserted

(* The call at work.                                                       *)
LEMMA TopFacts ==
  ASSUME WalkType, pc = "box"
  PROVE  /\ stack \in Seq(Wide) /\ stack # << >> /\ Len(stack) \in Nat \ {0}
         /\ Top = stack[Len(stack)] /\ Top \in Frame
         /\ \A i \in 1..Len(stack) : stack[i] \in Frame
<1>1. stack \in Seq(Frame) /\ stack # << >>
  BY DEF WalkType
<1>2. Len(stack) \in Nat \ {0}
  BY <1>1, EmptySeq
<1>3. \A i \in 1..Len(stack) : stack[i] \in Frame
  BY <1>1, Element
<1>4. Frame \subseteq Wide
  BY FileAssumption DEF Frame, Wide
<1>5. stack \in Seq(Wide)
  BY <1>1, <1>4
<1>6. Top = stack[Len(stack)]
  BY DEF Top, Last
<1> QED BY <1>1, <1>2, <1>3, <1>5, <1>6

(* What is left of a box is a size_t.                                      *)
LEMMA RestType ==
  ASSUME fd \in AnyFile, pos \in Nat, Header
  PROVE  At(pos) \in Nat /\ Rest \in 0..Wrap - 1 /\ Rest \in Nat
<1>1. FileEnd(fd) \in Nat /\ Wrap \in Nat \ {0}
  BY FileFacts
<1>2. pos + 4 <= FileEnd(fd)
  BY <1>1 DEF Header, Sound, Has
<1>3. At(pos) \in Nat
  BY <1>2, CellNat DEF At
<1>4. At(pos) - 8 \in Int
  BY <1>3
<1>5. Rest \in 0..Wrap - 1 /\ Rest \in Nat
  BY <1>1, <1>4, InRange DEF Rest
<1> QED BY <1>3, <1>5

(* Behind a box that holds none.                                           *)
LEMMA BehindType ==
  ASSUME TypeInv, Leaf, Behind
  PROVE  /\ stack' \in Seq(Frame) /\ pos' \in Nat
         /\ fd' = fd /\ described' = described /\ rd' = rd
         /\ \/ pc' = "idle"
            \/ /\ pc' = "box" /\ stack' # << >>
               /\ Marks(stack') = Marks(stack)
<1>1. pc = "box" /\ Header /\ WalkType /\ fd \in AnyFile /\ pos \in Nat
  BY DEF Leaf, Header, Unread, TypeInv, AnyFile
<1>2. /\ stack \in Seq(Wide) /\ stack # << >> /\ Top.readed \in Nat
      /\ Top = stack[Len(stack)]
      /\ \A i \in 1..Len(stack) : stack[i] \in Frame
  BY <1>1, TopFacts, FileAssumption DEF Frame
<1>3. Rest \in Nat
  BY <1>1, RestType
<1> DEFINE calls == Moved(stack, Top.readed + 8)
<1>4. Skip(calls, Rest)
  BY <1>2 DEF Behind, Moved
<1>5. /\ calls \in Seq(Wide) /\ calls # << >> /\ Marks(calls) = Marks(stack)
      /\ Len(calls) = Len(stack)
      /\ \A i \in 1..Len(stack) - 1 : calls[i] = stack[i]
  <2>1. Top.readed + 8 \in Nat
    BY <1>2
  <2> QED BY <1>2, <2>1, MovedFacts, MovedMarks
<1>6. \A i \in 1..Len(calls) - 1 : calls[i] \in Frame
  <2>1. Len(stack) \in Nat
    BY <1>2
  <2> QED BY <1>2, <1>5, <2>1
<1> HIDE DEF calls
<1>7. /\ stack' \in Seq(Frame) /\ pos' \in Nat
      /\ fd' = fd /\ described' = described /\ rd' = rd
      /\ \/ pc' = "idle"
         \/ pc' = "box" /\ stack' # << >> /\ Marks(stack') = Marks(calls)
  BY <1>1, <1>3, <1>4, <1>5, <1>6, SkipType
<1> QED BY <1>5, <1>7

(* Behind a box that held others.                                          *)
LEMMA ReturnType ==
  ASSUME TypeInv, Read, Return
  PROVE  /\ stack' \in Seq(Frame) /\ pos' \in Nat
         /\ fd' = fd /\ described' = described /\ rd' = rd
         /\ \/ pc' = "idle"
            \/ /\ pc' = "box" /\ stack' # << >>
               /\ Cardinality(Marks(stack')) =
                     Cardinality(Marks(stack)) - IF Top.track THEN 1 ELSE 0
<1>1. pc = "box" /\ WalkType /\ Len(stack) > 1
  BY DEF Read, Return, TypeInv
<1>2. /\ stack \in Seq(Wide) /\ Top = stack[Len(stack)] /\ Top.size \in Nat
      /\ \A i \in 1..Len(stack) : stack[i] \in Frame
  BY <1>1, TopFacts, FileAssumption DEF Frame
<1>3. /\ Front(stack) \in Seq(Wide) /\ Front(stack) # << >>
      /\ Len(Front(stack)) = Len(stack) - 1 /\ Len(stack) \in Nat
      /\ \A i \in 1..Len(stack) - 1 : Front(stack)[i] = stack[i]
      /\ Cardinality(Marks(Front(stack))) =
            Cardinality(Marks(stack)) - IF Top.track THEN 1 ELSE 0
  BY <1>1, <1>2, PopFacts
<1>4. Skip(Front(stack), Top.size)
  BY DEF Return
<1>5. \A i \in 1..Len(Front(stack)) - 1 : Front(stack)[i] \in Frame
  BY <1>2, <1>3
<1>6. /\ stack' \in Seq(Frame) /\ pos' \in Nat
      /\ fd' = fd /\ described' = described /\ rd' = rd
      /\ \/ pc' = "idle"
         \/ pc' = "box" /\ stack' # << >> /\ Marks(stack') = Marks(Front(stack))
  BY <1>1, <1>2, <1>3, <1>4, <1>5, SkipType
<1> QED BY <1>3, <1>6

(* The walk keeps the types, whatever it reads.                            *)
LEMMA WalkStepType == TypeInv /\ (Walk \/ Fails) => TypeInv'
<1> SUFFICES ASSUME TypeInv, Walk \/ Fails PROVE TypeInv'
  OBVIOUS
<1>1. /\ fd \in AnyFile /\ pos \in Nat /\ described \in BOOLEAN
      /\ WalkType /\ TracksType /\ ReadType
      /\ stack \in Seq(Frame) /\ cur \in Seq(Record({0}))
  BY DEF TypeInv, WalkType, AnyFile
<1>2. ASSUME pc = "box", Refused PROVE TypeInv'
  <2>1. /\ stack' = << >> /\ cur' = << >> /\ pc' = "idle" /\ pos' = 0
        /\ UNCHANGED <<fd, tracks, from, described, rd>>
    BY <1>2 DEF Refused, Over
  <2>2. WalkType' /\ TracksType' /\ ReadType'
    BY <1>1, <1>2, <2>1 DEF WalkType, TracksType, ReadType
  <2> QED BY <1>1, <2>1, <2>2 DEF TypeInv, AnyFile
<1>3. ASSUME pc = "box", Undefined PROVE TypeInv'
  <2>1. pc' = "undefined" /\ UNCHANGED <<fd, pos, tracks, from, stack, cur, described, rd>>
    BY <1>3 DEF Undefined, walk
  <2>2. WalkType' /\ TracksType' /\ ReadType'
    BY <1>1, <2>1 DEF WalkType, TracksType, ReadType
  <2> QED BY <1>1, <2>1, <2>2 DEF TypeInv, AnyFile
<1>4. CASE Enter
  <2> DEFINE t == [offset |-> (Top.offset + Top.readed + 8) % Wrap,
                   size |-> Rest, readed |-> 0, track |-> Type = "trak"]
             s == Moved(stack, (Top.readed + 8) % Wrap)
  <2>1. pc = "box" /\ Header
    BY <1>4 DEF Enter, Header, Unread
  <2>2. /\ stack \in Seq(Wide) /\ stack # << >> /\ Len(stack) \in Nat \ {0}
        /\ Top = stack[Len(stack)] /\ Top \in Frame
        /\ \A i \in 1..Len(stack) : stack[i] \in Frame
    BY <1>1, <2>1, TopFacts
  <2>3. Top.offset \in Nat /\ Top.readed \in Nat /\ Wrap \in Nat \ {0}
    BY <2>2, FileAssumption DEF Frame
  <2>4. /\ stack' = Append(s, t) /\ pos' = Body /\ cur' = (IF Type = "trak" THEN Append(cur, NoTrack) ELSE cur)
        /\ UNCHANGED <<fd, tracks, from, described, rd, pc>>
    BY <1>4, <2>2 DEF Enter, Moved
  <2>5. t \in Frame /\ t \in Wide /\ t.track = (Type = "trak")
    <3>1. Top.offset + Top.readed + 8 \in Int
      BY <2>3
    <3>2. (Top.offset + Top.readed + 8) % Wrap \in 0..Wrap - 1
      BY <2>3, <3>1, InRange
    <3>3. Rest \in 0..Wrap - 1
      BY <1>1, <2>1, RestType
    <3>4. t \in Frame
      BY <2>3, <3>2, <3>3 DEF Frame
    <3>5. t \in Wide
      BY <2>3, <3>2, <3>3 DEF Wide
    <3> QED BY <3>4, <3>5
  <2>6. (Top.readed + 8) % Wrap \in 0..Wrap - 1 /\ (Top.readed + 8) % Wrap \in Nat
    <3>1. Top.readed + 8 \in Int
      BY <2>3
    <3> QED BY <2>3, <3>1, InRange
  <2>7. /\ s \in Seq(Wide) /\ s # << >> /\ Marks(s) = Marks(stack) /\ Len(s) = Len(stack)
        /\ \A i \in 1..Len(stack) - 1 : s[i] = stack[i]
        /\ s[Len(stack)].readed = (Top.readed + 8) % Wrap
    BY <2>2, <2>6, MovedFacts, MovedMarks
  <2> HIDE DEF s, t
  <2>8. /\ Append(s, t) \in Seq(Wide) /\ Append(s, t) # << >>
        /\ Len(Append(s, t)) = Len(stack) + 1
        /\ Append(s, t)[Len(stack) + 1] = t
        /\ \A i \in 1..Len(stack) : Append(s, t)[i] = s[i]
        /\ Cardinality(Marks(Append(s, t))) =
              Cardinality(Marks(s)) + IF t.track THEN 1 ELSE 0
    BY <2>5, <2>7, PushFacts
  <2>9. stack' \in Seq(Frame)
    <3>1. ASSUME NEW i \in 1..Len(stack) + 1 PROVE Append(s, t)[i] \in Frame
      <4>1. CASE i = Len(stack) + 1
        BY <2>5, <2>8, <4>1
      <4>2. CASE i = Len(stack)
        <5>1. s[Len(stack)] \in Wide
          BY <2>2, <2>7, Element
        <5>2. s[Len(stack)] \in Frame
          BY <2>6, <2>7, <5>1 DEF Wide, Frame
        <5> QED BY <2>2, <2>8, <4>2, <5>2
      <4>3. CASE i \in 1..Len(stack) - 1
        BY <2>2, <2>7, <2>8, <4>3
      <4>4. i = Len(stack) + 1 \/ i = Len(stack) \/ i \in 1..Len(stack) - 1
        <5>1. PICK n \in Nat \ {0} : n = Len(stack)
          BY <2>2
        <5>2. i \in 1..n + 1
          BY <5>1
        <5> QED BY <5>1, <5>2
      <4> QED BY <4>1, <4>2, <4>3, <4>4
    <3>2. Append(s, t) = [i \in 1..Len(stack) + 1 |-> Append(s, t)[i]]
      BY <2>8, Whole
    <3>3. Append(s, t) \in Seq(Frame)
      <4> DEFINE h == Append(s, t)
      <4>1. h = [i \in 1..Len(stack) + 1 |-> h[i]] /\ \A i \in 1..Len(stack) + 1 : h[i] \in Frame
            /\ Len(stack) + 1 \in Nat
        BY <2>2, <3>1, <3>2
      <4> HIDE DEF h
      <4>2. h \in Seq(Frame)
        BY <4>1, OnPlaces
      <4> QED BY <4>2 DEF h
    <3> QED BY <2>4, <3>3
  <2>10. cur' \in Seq(Record({0})) /\ Len(cur') = Len(cur) + IF Type = "trak" THEN 1 ELSE 0
    <3>1. NoTrack \in Record({0})
      <4>1. "unknown" \in Names
        BY DEF Names
      <4>2. << >> \in Seq(Int) /\ << >> \in Seq(Nat) /\ << >> \in Seq([ts : Nat, off : Nat])
        OBVIOUS
      <4> QED BY <4>1, <4>2 DEF NoTrack, Record
    <3>2. CASE Type = "trak"
      BY <1>1, <2>4, <3>1, <3>2
    <3>3. CASE Type # "trak"
      BY <1>1, <2>4, <3>3
    <3> QED BY <3>2, <3>3
  <2>11. WalkType'
    <3>1. fd \in Files /\ Cardinality(Marks(stack)) = Len(cur)
      BY <1>1, <2>1 DEF WalkType
    <3>2. Cardinality(Marks(stack')) = Len(cur')
      <4>1. CASE Type = "trak"
        BY <2>4, <2>5, <2>7, <2>8, <2>10, <3>1, <4>1
      <4>2. CASE Type # "trak"
        BY <2>4, <2>5, <2>7, <2>8, <2>10, <3>1, <4>2
      <4> QED BY <4>1, <4>2
    <3> QED BY <2>4, <2>8, <2>9, <2>10, <3>1, <3>2 DEF WalkType
  <2>12. TracksType' /\ ReadType'
    BY <1>1, <2>4 DEF TracksType, ReadType
  <2>13. Body \in Nat
    BY <1>1 DEF Body
  <2> QED BY <1>1, <2>1, <2>4, <2>11, <2>12, <2>13 DEF TypeInv, AnyFile
<1>5. ASSUME Leaf, Behind, cur' \in Seq(Record({0})), Len(cur') = Len(cur),
             UNCHANGED <<tracks, from>>
      PROVE  TypeInv'
  <2>1. /\ stack' \in Seq(Frame) /\ pos' \in Nat
        /\ fd' = fd /\ described' = described /\ rd' = rd
        /\ \/ pc' = "idle"
           \/ pc' = "box" /\ stack' # << >> /\ Marks(stack') = Marks(stack)
    BY <1>5, BehindType
  <2>2. pc = "box"
    BY <1>5 DEF Leaf, Header, Unread
  <2>3. WalkType'
    BY <1>1, <1>5, <2>1, <2>2 DEF WalkType
  <2>4. TracksType' /\ ReadType'
    BY <1>1, <1>5, <2>1, <2>2 DEF TracksType, ReadType
  <2> QED BY <1>1, <2>1, <2>3, <2>4 DEF TypeInv, AnyFile
<1>6. CASE OnTrack
  <2>1. /\ Leaf /\ Behind /\ cur # << >> /\ Type \in OfTrack /\ UNCHANGED <<tracks, from>>
        /\ Has(Body, Needs(Type, Body))
        /\ cur' = [cur EXCEPT ![Len(cur)] = Told(Type, Body, @)]
    BY <1>6 DEF OnTrack, Enough, Leaf
  <2>2. Len(cur) \in Nat \ {0} /\ cur[Len(cur)] \in Record({0})
    <3>1. Len(cur) \in Nat \ {0}
      BY <1>1, <2>1, EmptySeq
    <3> QED BY <1>1, <3>1, Element
  <2>3. Body \in Nat
    BY <1>1 DEF Body
  <2>4. Told(Type, Body, cur[Len(cur)]) \in Record({0})
    BY <1>1, <2>1, <2>2, <2>3, ToldType
  <2>5. cur' \in Seq(Record({0})) /\ Len(cur') = Len(cur)
    BY <1>1, <2>1, <2>2, <2>4
  <2> QED BY <1>5, <2>1, <2>5
<1>7. CASE PassOver
  <2>1. Leaf /\ Behind /\ UNCHANGED <<tracks, from, cur>>
    BY <1>7 DEF PassOver, Enough, Leaf
  <2> QED BY <1>1, <1>5, <2>1
<1>8. CASE LeaveContainer
  <2>1. pc = "box" /\ Read /\ ~Top.track /\ Return /\ UNCHANGED <<tracks, from, cur>>
    BY <1>8 DEF LeaveContainer, Read
  <2>2. /\ stack' \in Seq(Frame) /\ pos' \in Nat
        /\ fd' = fd /\ described' = described /\ rd' = rd
        /\ \/ pc' = "idle"
           \/ /\ pc' = "box" /\ stack' # << >>
              /\ Cardinality(Marks(stack')) =
                    Cardinality(Marks(stack)) - IF Top.track THEN 1 ELSE 0
    BY <2>1, ReturnType
  <2>3. pc' = "box" => Cardinality(Marks(stack')) = Len(cur')
    <3>1. Cardinality(Marks(stack)) = Len(cur) /\ Len(cur) \in Nat
      BY <1>1, <2>1 DEF WalkType
    <3>2. (IF Top.track THEN 1 ELSE 0) = 0
      BY <2>1, Zenon
    <3> QED BY <2>1, <2>2, <3>1, <3>2
  <2>4. WalkType'
    BY <1>1, <2>1, <2>2, <2>3 DEF WalkType
  <2>5. TracksType' /\ ReadType'
    BY <1>1, <2>1, <2>2 DEF TracksType, ReadType
  <2> QED BY <1>1, <2>2, <2>4, <2>5 DEF TypeInv, AnyFile
<1>9. CASE LeaveTrak
  <2> DEFINE t == Sampled(Last(cur))
  <2>1. /\ pc = "box" /\ Read /\ Top.track /\ Return /\ Last(cur).chunks # << >>
        /\ tracks' = Inserted(tracks, t.id, t) /\ from' = Inserted(from, t.id, fd)
        /\ cur' = Front(cur)
    BY <1>9 DEF LeaveTrak, Read, Insert
  <2>2. /\ stack' \in Seq(Frame) /\ pos' \in Nat
        /\ fd' = fd /\ described' = described /\ rd' = rd
        /\ \/ pc' = "idle"
           \/ /\ pc' = "box" /\ stack' # << >>
              /\ Cardinality(Marks(stack')) =
                    Cardinality(Marks(stack)) - IF Top.track THEN 1 ELSE 0
    BY <2>1, ReturnType
  <2>3. (IF Top.track THEN 1 ELSE 0) = 1
    BY <2>1, Zenon
  <2>4. Cardinality(Marks(stack)) = Len(cur) /\ fd \in Files
    BY <1>1, <2>1 DEF WalkType
  <2>5. Len(cur) \in Nat \ {0}
    <3>1. stack \in Seq(Wide) /\ Len(stack) \in Nat \ {0} /\ Top = stack[Len(stack)]
      BY <1>1, <2>1, TopFacts
    <3>2. Len(stack) \in Marks(stack)
      BY <2>1, <3>1 DEF Marks
    <3>3. IsFiniteSet(Marks(stack))
      BY <3>1, MarksFinite
    <3>4. Cardinality(Marks(stack)) # 0
      BY <3>2, <3>3, FS_EmptySet
    <3> QED BY <1>1, <2>4, <3>4
  <2>6. Last(cur) \in Record({0})
    BY <1>1, <2>5, Element DEF Last
  <2>7. Front(cur) \in Seq(Record({0})) /\ Len(Front(cur)) = Len(cur) - 1
    <3>1. Front(cur) = SubSeq(cur, 1, Len(cur) - 1)
      BY DEF Front
    <3>2. PICK n \in Nat \ {0} : n = Len(cur)
      BY <2>5
    <3> QED BY <1>1, <3>1, <3>2
  <2>8. t \in Record({0}) /\ t \in Record(Nat) /\ t.readed = 0 /\ t.id \in Nat /\ t.samples \in Seq([ts : Nat, off : Nat])
    <3>1. t \in Record({0})
      BY <2>1, <2>6, SampledType
    <3> HIDE DEF t
    <3> QED BY <3>1 DEF Record
  <2>9. WalkType'
    BY <1>1, <2>1, <2>2, <2>3, <2>4, <2>5, <2>7 DEF WalkType
  <2>10. TracksType'
    <3> DEFINE k == t.id
    <3>1. t.readed <= Len(t.samples)
      <4> HIDE DEF t
      <4>1. Len(t.samples) \in Nat /\ t.readed = 0
        BY <2>8
      <4> QED BY <4>1
    <3> HIDE DEF t
    <3>2. k = t.id /\ k \in Nat
      BY <2>8
    <3> HIDE DEF k
    <3>3. /\ DOMAIN tracks' = DOMAIN tracks \cup {k}
          /\ DOMAIN from' = DOMAIN from \cup {k}
          /\ \A id \in DOMAIN tracks' :
                /\ tracks'[id] = IF id \in DOMAIN tracks THEN tracks[id] ELSE t
                /\ from'[id] = IF id \in DOMAIN from THEN from[id] ELSE fd
      <4>1. tracks' = Inserted(tracks, k, t) /\ from' = Inserted(from, k, fd)
        BY <2>1, <3>2
      <4>2. /\ DOMAIN tracks' = DOMAIN tracks \cup {k}
            /\ DOMAIN from' = DOMAIN from \cup {k}
        BY <4>1, InsertedFacts
      <4>3. ASSUME NEW id \in DOMAIN tracks'
            PROVE  /\ tracks'[id] = IF id \in DOMAIN tracks THEN tracks[id] ELSE t
                   /\ from'[id] = IF id \in DOMAIN from THEN from[id] ELSE fd
        <5>1. id \in DOMAIN tracks \cup {k} /\ id \in DOMAIN from \cup {k}
          BY <1>1, <4>2 DEF TracksType
        <5>2. tracks'[id] = Inserted(tracks, k, t)[id]
              /\ from'[id] = Inserted(from, k, fd)[id]
          BY <4>1
        <5>3. Inserted(tracks, k, t)[id] = IF id \in DOMAIN tracks THEN tracks[id] ELSE t
          BY ONLY <5>1, InsertedAt
        <5>4. Inserted(from, k, fd)[id] = IF id \in DOMAIN from THEN from[id] ELSE fd
          BY ONLY <5>1, InsertedAt
        <5> QED BY <5>2, <5>3, <5>4
      <4> QED BY <4>2, <4>3
    <3> QED BY <1>1, <2>4, <2>8, <3>1, <3>2, <3>3 DEF TracksType
  <2>11. ReadType'
    BY <1>1, <2>1, <2>2 DEF ReadType
  <2> QED BY <1>1, <2>2, <2>9, <2>10, <2>11 DEF TypeInv, AnyFile
<1>10. CASE Parsed
  <2>1. /\ pc = "box" /\ stack' = << >> /\ pc' = "idle" /\ pos' = 0 /\ described' = TRUE
        /\ UNCHANGED <<fd, tracks, from, cur, rd>>
    BY <1>10 DEF Parsed, Read, Over
  <2>2. WalkType' /\ TracksType' /\ ReadType'
    BY <1>1, <2>1 DEF WalkType, TracksType, ReadType
  <2> QED BY <1>1, <2>1, <2>2 DEF TypeInv, AnyFile
<1>11. Refuses \/ Breaks => pc = "box"
  BY DEF Refuses, Breaks, NoHeader, TooShort, OtherBrand, NoTrackThere, NoDuration,
         NoChunk, Enough, Leaf, Header, Unread, Read
<1> QED BY <1>2, <1>3, <1>4, <1>6, <1>7, <1>8, <1>9, <1>10, <1>11 DEF Walk, Fails

(* A sample is put together, packet by packet, or cannot be.               *)
LEMMA AssembleType == TypeInv /\ (Assemble \/ ReadFails) => TypeInv'
<1> SUFFICES ASSUME TypeInv, Assemble \/ ReadFails PROVE TypeInv'
  OBVIOUS
<1>1. /\ fd \in AnyFile /\ pos \in Nat /\ described \in BOOLEAN
      /\ WalkType /\ TracksType /\ ReadType
      /\ rd.packets \in Nat /\ rd.entries \in Nat /\ rd.packet \in Seq(Nat)
      /\ rd \in [id : Nat, packets : Nat, entries : Nat,
                 packet : Seq(Nat), out : Seq(Seq(Nat))]
      /\ FileEnd(fd) \in Nat
  <2>1. fd \in AnyFile /\ ReadType
    BY DEF TypeInv, AnyFile
  <2> QED BY <2>1, FileFacts DEF TypeInv, AnyFile, ReadType
<1>2. ASSUME pc \in {"packet", "entry"}, pc' \in {"packet", "entry"}, pos' \in Nat, Reading' = Reading,
             rd' \in [id : Nat, packets : Nat, entries : Nat,
                      packet : Seq(Nat), out : Seq(Seq(Nat))],
             rd'.id = rd.id, pc' = "entry" => rd'.packets > 0
      PROVE  TypeInv'
  <2>1. UNCHANGED <<fd, tracks, from, stack, cur, described>>
    BY <1>2 DEF Reading, walk
  <2>2. WalkType' /\ TracksType'
    BY <1>1, <1>2, <2>1 DEF WalkType, TracksType
  <2>3. ReadType'
    BY <1>1, <1>2, <2>1 DEF ReadType
  <2> QED BY <1>1, <1>2, <2>1, <2>2, <2>3 DEF TypeInv, AnyFile
<1>3. CASE GivesUp
  BY <1>3, GivesUpType
<1>4. CASE NextPacket
  <2>1. /\ pc = "packet" /\ pc' = "entry" /\ rd.packets > 0 /\ Has(pos, 3)
        /\ Skips => Has(pos, 4)
        /\ rd' = [rd EXCEPT !.entries = Count(At(pos + 8)),
                            !.packet = <<At(pos + 4), SampleOf(rd.id).ts, rd.id>>]
        /\ pos' = pos + 12 + (IF Skips THEN At(pos + 12) ELSE 0) /\ Reading' = Reading
    BY <1>4 DEF NextPacket, Packet, Reading, walk
  <2>2. At(pos + 4) \in Nat /\ At(pos + 8) \in Nat
    <3>1. /\ pos + 4 \in Nat /\ pos + 4 + 4 <= FileEnd(fd)
          /\ pos + 8 \in Nat /\ pos + 8 + 4 <= FileEnd(fd)
      BY <1>1, <2>1, SMTT(40) DEF Has
    <3> QED BY <1>1, <3>1, CellNat DEF At
  <2>3. Count(At(pos + 8)) \in Nat
    BY <2>2 DEF Count
  <2>4. SampleOf(rd.id).ts \in Nat
    <3>1. /\ rd.id \in DOMAIN tracks /\ tracks[rd.id].samples \in Seq([ts : Nat, off : Nat])
          /\ tracks[rd.id].readed \in Nat
          /\ tracks[rd.id].readed < Len(tracks[rd.id].samples)
      <4>1. /\ rd.id \in DOMAIN tracks
            /\ tracks[rd.id].readed < Len(tracks[rd.id].samples)
        BY <1>1, <2>1 DEF ReadType
      <4>2. tracks[rd.id] \in Record(Nat)
        BY <1>1, <4>1 DEF TracksType
      <4> QED BY <4>1, <4>2 DEF Record
    <3>2. tracks[rd.id].readed + 1 \in 1..Len(tracks[rd.id].samples)
      BY <3>1
    <3>3. SampleOf(rd.id) \in [ts : Nat, off : Nat]
      BY <3>1, <3>2, Element DEF SampleOf
    <3> QED BY <3>3
  <2>5. pos' \in Nat
    <3>1. CASE Skips
      <4>1. At(pos + 12) \in Nat
        <5>1. pos + 12 \in Nat /\ pos + 12 + 4 <= FileEnd(fd)
          BY <1>1, <2>1, <3>1 DEF Has
        <5> QED BY <1>1, <5>1, CellNat DEF At
      <4> QED BY <1>1, <2>1, <3>1, <4>1
    <3>2. CASE ~Skips
      BY <1>1, <2>1, <3>2
    <3> QED BY <3>1, <3>2
  <2>6. rd' \in [id : Nat, packets : Nat, entries : Nat,
                 packet : Seq(Nat), out : Seq(Seq(Nat))] /\ rd'.id = rd.id
        /\ rd'.packets > 0
    <3>1. <<At(pos + 4), SampleOf(rd.id).ts, rd.id>> \in Seq(Nat)
      BY <1>1, <2>2, <2>4
    <3> QED BY <1>1, <2>1, <2>3, <3>1
  <2> QED BY <1>2, <2>1, <2>5, <2>6
<1>5. ASSUME NEW data \in Seq(Nat), Entry, Copy(data) PROVE TypeInv'
  <2>1. /\ pc = "entry" /\ pc' = pc /\ pos' = pos + 16 /\ Reading' = Reading
        /\ rd.entries > 0
        /\ rd' = [rd EXCEPT !.packet = @ \o data, !.entries = @ - 1]
    BY <1>5 DEF Entry, Copy
  <2>2. rd.packet \o data \in Seq(Nat) /\ rd.entries - 1 \in Nat
    BY <1>1, <1>5, <2>1
  <2>3. rd' \in [id : Nat, packets : Nat, entries : Nat,
                 packet : Seq(Nat), out : Seq(Seq(Nat))]
        /\ rd'.id = rd.id /\ rd'.packets = rd.packets
    BY <1>1, <2>1, <2>2
  <2>4. rd.packets > 0
    BY <1>1, <2>1 DEF ReadType
  <2> QED BY <1>1, <1>2, <2>1, <2>3, <2>4
<1>6. CASE Immediate
  <2>1. Entry /\ Has(pos, 4) /\ Arg <= 3 /\ Copy(Cells(pos + 4, Arg))
    BY <1>6 DEF Immediate, Entry
  <2>2. At(pos) \in Nat
    BY <1>1, <2>1, CellNat DEF Has, At
  <2>3. Arg \in Nat
    BY <2>2 DEF Arg
  <2>4. pos + 4 \in Nat /\ pos + 4 + 4 * Arg <= FileEnd(fd)
    BY <1>1, <2>1, <2>3 DEF Has
  <2>5. Cells(pos + 4, Arg) \in Seq(Nat)
    BY <1>1, <2>3, <2>4, SpanType DEF Cells
  <2> QED BY <1>5, <2>1, <2>5
<1>7. CASE Piece
  <2>1. /\ Entry /\ Has(pos, 4) /\ PiecesTrack \in DOMAIN tracks
        /\ Number \in DOMAIN tracks[PiecesTrack].samples
        /\ Has(From, Length) /\ Copy(Cells(From, Length))
    BY <1>7 DEF Piece, Known, Entry
  <2>2. At(pos) \in Nat /\ At(pos + 8) \in Nat
    BY <1>1, <2>1, CellNat DEF Has, At
  <2>3. Length \in Nat
    BY <2>2 DEF Length
  <2>4. From \in Nat
    <3>1. tracks[PiecesTrack].samples \in Seq([ts : Nat, off : Nat])
      <4>1. tracks[PiecesTrack] \in Record(Nat)
        BY <1>1, <2>1 DEF TracksType
      <4> QED BY <4>1 DEF Record
    <3>2. Number \in 1..Len(tracks[PiecesTrack].samples)
      BY <2>1, <3>1
    <3>3. tracks[PiecesTrack].samples[Number] \in [ts : Nat, off : Nat]
      BY <3>1, <3>2, Element
    <3> QED BY <2>2, <3>3 DEF From
  <2>5. Cells(From, Length) \in Seq(Nat)
    BY <1>1, <2>1, <2>3, <2>4, SpanType DEF Has, Cells
  <2> QED BY <1>5, <2>1, <2>5
<1>8. CASE BadEntry
  <2>1. pc = "entry" /\ pc' = "undefined"
        /\ UNCHANGED <<fd, pos, tracks, from, stack, cur, described, rd>>
    BY <1>8 DEF BadEntry, Entry, Undefined, walk
  <2>2. WalkType' /\ TracksType' /\ ReadType'
    BY <1>1, <2>1 DEF WalkType, TracksType, ReadType
  <2> QED BY <1>1, <2>1, <2>2 DEF TypeInv, AnyFile
<1>9. CASE PacketMade
  <2>1. /\ pc = "entry" /\ pc' = "packet" /\ pos' = pos /\ Reading' = Reading
        /\ rd' = [rd EXCEPT !.out = Append(@, rd.packet), !.packets = @ - 1]
    BY <1>9 DEF PacketMade
  <2>2. rd.packets - 1 \in Nat /\ Append(rd.out, rd.packet) \in Seq(Seq(Nat))
    <3>1. rd.packets > 0
      BY <1>1, <2>1 DEF ReadType
    <3> QED BY <1>1, <3>1
  <2>3. rd' \in [id : Nat, packets : Nat, entries : Nat,
                 packet : Seq(Nat), out : Seq(Seq(Nat))]
        /\ rd'.id = rd.id
    BY <1>1, <2>1, <2>2
  <2> QED BY <1>1, <1>2, <2>1, <2>3
<1>10. CASE SampleMade
  <2>1. /\ pc = "packet" /\ pc' = "idle" /\ pos' = 0 /\ rd' = NoSample
        /\ tracks' = [tracks EXCEPT ![rd.id].readed = @ + 1]
        /\ UNCHANGED <<fd, from, stack, cur, described>>
    BY <1>10 DEF SampleMade, Over, walk
  <2>2. WalkType'
    BY <1>1, <2>1 DEF WalkType
  <2>3. ReadType'
    <3>1. << >> \in Seq(Nat) /\ << >> \in Seq(Seq(Nat))
      OBVIOUS
    <3> QED BY <2>1, <3>1 DEF ReadType, NoSample
  <2>4. DOMAIN tracks' = DOMAIN tracks
    BY <2>1
  <2>5. ASSUME NEW id \in DOMAIN tracks
        PROVE  tracks'[id] \in Record(Nat) /\ tracks'[id].id = id
               /\ tracks'[id].readed <= Len(tracks'[id].samples)
    <3>1. tracks[id] \in Record(Nat) /\ tracks[id].id = id
          /\ tracks[id].readed <= Len(tracks[id].samples)
      BY <1>1 DEF TracksType
    <3>2. CASE id = rd.id
      <4>1. tracks'[id] = [tracks[id] EXCEPT !.readed = @ + 1]
        BY <2>1, <3>2
      <4>2. tracks[id].readed < Len(tracks[id].samples)
        BY <1>1, <2>1, <3>2 DEF ReadType
      <4>3. tracks[id].readed \in Nat /\ tracks[id].samples \in Seq([ts : Nat, off : Nat])
        BY <3>1 DEF Record
      <4>4. tracks'[id] \in Record(Nat) /\ tracks'[id].id = id
            /\ tracks'[id].readed = tracks[id].readed + 1
            /\ tracks'[id].samples = tracks[id].samples
        <5>1. PICK n \in Nat : n = tracks[id].readed + 1
          BY <4>3
        <5>2. tracks'[id] = [tracks[id] EXCEPT !.readed = n]
          BY <4>1, <5>1
        <5>3. tracks'[id] \in Record(Nat)
          BY <3>1, <5>2 DEF Record
        <5>4. tracks'[id].id = tracks[id].id /\ tracks'[id].readed = n
              /\ tracks'[id].samples = tracks[id].samples
          BY <3>1, <5>2 DEF Record
        <5> QED BY <3>1, <5>1, <5>3, <5>4
      <4>5. Len(tracks[id].samples) \in Nat
        BY <4>3
      <4> QED BY <4>2, <4>3, <4>4, <4>5
    <3>3. CASE id # rd.id
      <4>1. tracks'[id] = tracks[id]
        BY <2>1, <3>3
      <4> QED BY <3>1, <4>1
    <3> QED BY <3>2, <3>3
  <2>6. TracksType'
    BY <1>1, <2>1, <2>4, <2>5 DEF TracksType
  <2> QED BY <1>1, <2>1, <2>2, <2>3, <2>6 DEF TypeInv, AnyFile
<1> QED BY <1>3, <1>4, <1>6, <1>7, <1>8, <1>9, <1>10 DEF Assemble, ReadFails,
           NoPacket, NoExtra, NoEntry, NoPiece, NoSuchTrack

(* Every step keeps the types.                                             *)
LEMMA NextType == TypeInv /\ [Next]_vars => TypeInv'
<1>1. TypeInv /\ UNCHANGED vars => TypeInv'
  BY DEF TypeInv, WalkType, TracksType, ReadType, Marks, vars, walk
<1> QED BY <1>1, CallType, WalkStepType, AssembleType DEF Next

(* And they are those the module promises.                                 *)
LEMMA TypeGives == TypeInv => TypeOK
<1> SUFFICES ASSUME TypeInv PROVE TypeOK
  OBVIOUS
<1>1. \A i \in DOMAIN stack : stack[i].size \in 0..Wrap - 1 /\ stack[i].readed \in 0..Wrap - 1
  <2>1. stack \in Seq(Frame)
    BY DEF TypeInv, WalkType
  <2>2. \A i \in DOMAIN stack : stack[i] \in Frame
    BY <2>1, Element
  <2> QED BY <2>2 DEF Frame
<1>2. ASSUME NEW id \in DOMAIN tracks
      PROVE  /\ tracks[id].id = id /\ from[id] \in Files
             /\ tracks[id].readed \in 0..Len(tracks[id].samples)
  <2>1. /\ tracks[id] \in Record(Nat) /\ tracks[id].id = id
        /\ tracks[id].readed <= Len(tracks[id].samples)
        /\ from[id] \in Files
    BY DEF TypeInv, TracksType
  <2>2. tracks[id].readed \in Nat /\ Len(tracks[id].samples) \in Nat
    BY <2>1 DEF Record
  <2> QED BY <2>1, <2>2
<1> QED BY <1>1, <1>2 DEF TypeInv, TypeOK, TracksType, ReadType

-----------------------------------------------------------------------------
(* A legal file: its end, ...                                              *)
LEMMA LegalFacts ==
  ASSUME NEW f \in LegalFiles
  PROVE  /\ f \in Files /\ f \in AnyFile /\ Legal(f) /\ f.boxes \subseteq Nat
         /\ FileEnd(f) \in Nat /\ FileEnd(f) < Wrap \div 2 /\ FileEnd(f) < Wrap
         /\ Wrap \in Nat \ {0}
<1>1. f \in Files /\ Legal(f)
  BY DEF LegalFiles
<1>2. f \in AnyFile
  BY <1>1 DEF AnyFile
<1> QED BY <1>1, <1>2, FileFacts, FileAssumption

(* ... its boxes, ...                                                      *)
LEMMA BoxFacts ==
  ASSUME NEW f \in LegalFiles, NEW b \in f.boxes
  PROVE  /\ b \in Nat /\ Cell(f, b) \in Nat /\ Cell(f, b) >= 8
         /\ End(f, b) \in Nat /\ End(f, b) = b + Cell(f, b)
         /\ b + 8 <= End(f, b) /\ End(f, b) <= FileEnd(f)
<1>1. /\ f \in AnyFile /\ Layout(f) /\ b \in Nat /\ FileEnd(f) \in Nat
      /\ \A c \in f.boxes : Cell(f, c) >= 8 /\ End(f, c) <= FileEnd(f)
      /\ f.cells \in Seq(Nat) /\ Len(f.cells) \in Nat
  BY LegalFacts, FileFacts DEF Legal, Layout
<1>2. b + 8 <= FileEnd(f) /\ Cell(f, b) >= 8 /\ b + Cell(f, b) <= FileEnd(f)
  BY <1>1 DEF Layout, End
<1>3. b + 4 <= FileEnd(f)
  BY <1>1, <1>2
<1>4. Cell(f, b) \in Nat
  BY <1>1, <1>3, CellNat
<1> QED BY <1>1, <1>2, <1>4 DEF End

(* ... of which two lie behind each other or one in the other, ...         *)
LEMMA Nesting ==
  ASSUME NEW f \in LegalFiles, NEW b \in f.boxes, NEW c \in f.boxes, b < c,
         c < End(f, b)
  PROVE  TypeOf(f, b) \in Holders /\ b + 8 <= c /\ End(f, c) <= End(f, b)
<1>1. Layout(f)
  BY LegalFacts DEF Legal
<1>2. End(f, b) <= c \/ (TypeOf(f, b) \in Holders /\ b + 8 <= c /\ End(f, c) <= End(f, b))
  BY <1>1 DEF Layout
<1>3. ~(End(f, b) <= c)
  BY BoxFacts
<1> QED BY <1>2, <1>3

(* ... and what follows a box.                                             *)
LEMMA Following ==
  ASSUME NEW f \in LegalFiles, NEW b \in f.boxes
  PROVE  \/ End(f, b) \in f.boxes \/ End(f, b) = FileEnd(f)
         \/ \E a \in f.boxes : a < b /\ b < End(f, a) /\ End(f, a) = End(f, b)
<1>1. Layout(f)
  BY LegalFacts DEF Legal
<1>2. End(f, b) \in f.boxes \cup {FileEnd(f)}
               \cup {End(f, a) : a \in {a \in f.boxes : a < b /\ b < End(f, a)}}
  BY <1>1 DEF Layout
<1> QED BY <1>2

(* What a box that holds others begins with.                               *)
LEMMA FirstInside ==
  ASSUME NEW f \in LegalFiles, NEW b \in f.boxes, TypeOf(f, b) \in Holders,
         b + 8 < End(f, b)
  PROVE  b + 8 \in f.boxes
<1>1. Layout(f)
  BY LegalFacts DEF Legal
<1> QED BY <1>1 DEF Layout

-----------------------------------------------------------------------------
(* Three ways to move on keep the calls one in the other.                  *)
\* The numbers in the first n calls, and calls that differ in readed only.
Typed(s, n) == \A i \in 1..n : /\ s[i].offset \in Nat /\ s[i].size \in Nat
                               /\ s[i].readed \in Nat

Alike(s, r, n) == \A i \in 1..n : /\ r[i].offset = s[i].offset /\ r[i].size = s[i].size
                                  /\ r[i].track <=> s[i].track

(* The box of a call, and where it ends.                                   *)
LEMMA CallFacts ==
  ASSUME NEW f \in LegalFiles, NEW s, NEW n \in Nat \ {0}, Len(s) = n, Typed(s, n),
         NEW p, Layers(f, s, p), NEW i \in 2..n
  PROVE  /\ BoxOf(s, i) \in f.boxes /\ TypeOf(f, BoxOf(s, i)) \in Holders
         /\ s[i].offset = BoxOf(s, i) + 8
         /\ End(f, BoxOf(s, i)) = s[i].offset + s[i].size
         /\ s[i].track <=> TypeOf(f, BoxOf(s, i)) = "trak"
<1>1. /\ BoxOf(s, i) \in f.boxes /\ TypeOf(f, BoxOf(s, i)) \in Holders
      /\ s[i].size = Cell(f, BoxOf(s, i)) - 8
      /\ s[i].track <=> TypeOf(f, BoxOf(s, i)) = "trak"
  BY Zenon DEF Layers, InBoxes, Calls
<1>2. s[i].offset \in Nat /\ s[i].size \in Nat
  BY DEF Typed
<1>3. s[i].offset = BoxOf(s, i) + 8
  BY <1>2 DEF BoxOf
<1>4. Cell(f, BoxOf(s, i)) \in Nat /\ End(f, BoxOf(s, i)) = BoxOf(s, i) + Cell(f, BoxOf(s, i))
      /\ BoxOf(s, i) \in Nat
  BY <1>1, BoxFacts
<1>5. End(f, BoxOf(s, i)) = s[i].offset + s[i].size
  BY <1>1, <1>3, <1>4
<1> QED BY <1>1, <1>3, <1>5

(* A box at the place ends where the call at work does, or before.         *)
LEMMA HereEnds ==
  ASSUME NEW f \in LegalFiles, NEW s, NEW n \in Nat \ {0}, Len(s) = n, Typed(s, n),
         NEW p \in f.boxes, Layers(f, s, p), s[n].readed < s[n].size
  PROVE  /\ p = s[n].offset + s[n].readed
         /\ End(f, p) <= s[n].offset + s[n].size
<1>1. p = s[n].offset + s[n].readed
  BY DEF Layers, Place
<1>2. s[n].offset \in Nat /\ s[n].size \in Nat /\ s[n].readed \in Nat
  BY DEF Typed
<1>3. CASE n = 1
  <2>1. s[n].offset = 0 /\ s[n].size = FileEnd(f)
    BY <1>3 DEF Layers, Bottom
  <2>2. End(f, p) <= FileEnd(f) /\ FileEnd(f) \in Nat
    BY BoxFacts, LegalFacts
  <2> QED BY <1>1, <2>1, <2>2
<1>4. CASE n # 1
  <2> DEFINE b == BoxOf(s, n)
  <2>1. /\ b \in f.boxes /\ s[n].offset = b + 8 /\ End(f, b) = s[n].offset + s[n].size
    <3>1. n \in 2..n
      BY <1>4
    <3> QED BY <3>1, CallFacts
  <2> HIDE DEF b
  <2>2. b \in Nat
    BY <2>1, BoxFacts
  <2>3. b < p /\ p < End(f, b)
    BY <1>1, <1>2, <2>1, <2>2
  <2>4. End(f, p) <= End(f, b)
    BY <2>1, <2>3, Nesting
  <2> QED BY <1>1, <2>1, <2>4
<1> QED BY <1>3, <1>4

(* A box is entered.                                                       *)
LEMMA PushLayers ==
  ASSUME NEW f \in LegalFiles, NEW n \in Nat \ {0}, NEW s, NEW r,
         Len(s) = n, Len(r) = n + 1, Typed(s, n), Typed(r, n + 1), Alike(s, r, n),
         \A i \in 1..n - 1 : r[i].readed = s[i].readed,
         s[n].readed < s[n].size, r[n].readed = s[n].readed + 8,
         NEW p \in f.boxes, TypeOf(f, p) \in Holders, Layers(f, s, p),
         r[n + 1].offset = p + 8, r[n + 1].size = Cell(f, p) - 8, r[n + 1].readed = 0,
         r[n + 1].track <=> TypeOf(f, p) = "trak"
  PROVE  Layers(f, r, p + 8)
<1>1. /\ p \in Nat /\ Cell(f, p) \in Nat /\ Cell(f, p) >= 8 /\ End(f, p) = p + Cell(f, p)
      /\ End(f, p) \in Nat
  BY BoxFacts
<1>2. p = s[n].offset + s[n].readed /\ End(f, p) <= s[n].offset + s[n].size
  BY HereEnds
<1>3. /\ \A i \in 1..n : /\ s[i].offset \in Nat /\ s[i].size \in Nat /\ s[i].readed \in Nat
                         /\ r[i].offset = s[i].offset /\ r[i].size = s[i].size
                         /\ r[i].track <=> s[i].track
  BY DEF Typed, Alike
<1>4. BoxOf(r, n + 1) = p /\ \A i \in 1..n : BoxOf(r, i) = BoxOf(s, i)
  <2>1. BoxOf(r, n + 1) = p
    BY <1>1 DEF BoxOf
  <2>2. \A i \in 1..n : BoxOf(r, i) = BoxOf(s, i)
    BY <1>3 DEF BoxOf
  <2> QED BY <2>1, <2>2
<1>5. Calls(s) = 2..n /\ Calls(r) = 2..n + 1
  BY DEF Calls
<1>6. Bottom(f, r)
  <2>1. Bottom(f, s)
    BY DEF Layers
  <2>2. 1 \in 1..n
    OBVIOUS
  <2> QED BY <1>3, <2>1, <2>2 DEF Bottom
<1>7. InBoxes(f, r)
  <2>1. InBoxes(f, s)
    BY DEF Layers
  <2>2. ASSUME NEW i \in 2..n + 1
        PROVE  /\ BoxOf(r, i) \in f.boxes /\ TypeOf(f, BoxOf(r, i)) \in Holders
               /\ r[i].size = Cell(f, BoxOf(r, i)) - 8
               /\ r[i].track <=> TypeOf(f, BoxOf(r, i)) = "trak"
    <3>1. CASE i = n + 1
      BY <1>4, <3>1
    <3>2. CASE i \in 2..n
      <4>1. i \in 1..n
        BY <3>2
      <4> QED BY <1>3, <1>4, <1>5, <2>1, <3>2, <4>1 DEF InBoxes
    <3> QED BY <3>1, <3>2
  <2> QED BY <1>5, <2>2 DEF InBoxes
<1>8. Nested(r)
  <2>1. Nested(s)
    BY DEF Layers
  <2>2. ASSUME NEW i \in 1..n PROVE r[i].offset + r[i].readed = r[i + 1].offset
    <3>1. CASE i = n
      <4>1. /\ s[n].offset \in Nat /\ s[n].readed \in Nat /\ r[n].offset = s[n].offset
            /\ r[n].readed = s[n].readed + 8 /\ r[n + 1].offset = p + 8
        BY <1>3
      <4> QED BY <1>2, <3>1, <4>1
    <3>2. CASE i \in 1..n - 1
      <4>1. s[i].offset + s[i].readed = s[i + 1].offset
        BY <2>1, <3>2 DEF Nested
      <4>2. i + 1 \in 1..n
        BY <3>2
      <4> QED BY <1>3, <3>2, <4>1, <4>2
    <3> QED BY <3>1, <3>2
  <2>3. ASSUME NEW i \in 1..n + 1, NEW j \in 1..n + 1, i < j
        PROVE  /\ r[i].offset + 8 <= r[j].offset
               /\ r[j].offset + r[j].size <= r[i].offset + r[i].size
    <3>1. i \in 1..n
      BY <2>3
    <3>2. CASE j \in 1..n
      <4>1. /\ s[i].offset + 8 <= s[j].offset
            /\ s[j].offset + s[j].size <= s[i].offset + s[i].size
        BY <2>1, <2>3, <3>1, <3>2 DEF Nested
      <4> QED BY <1>3, <3>1, <3>2, <4>1
    <3>3. CASE j = n + 1
      <4>1. /\ s[i].offset <= s[n].offset
            /\ s[n].offset + s[n].size <= s[i].offset + s[i].size
        <5>1. CASE i = n
          BY <1>3, <5>1
        <5>2. CASE i # n
          <6>1. i < n /\ n \in 1..n
            BY <3>1, <5>2
          <6>2. /\ s[i].offset + 8 <= s[n].offset
                /\ s[n].offset + s[n].size <= s[i].offset + s[i].size
            BY <2>1, <3>1, <6>1 DEF Nested
          <6> QED BY <1>3, <3>1, <6>1, <6>2
        <5> QED BY <5>1, <5>2
      <4>2. r[j].offset = p + 8 /\ r[j].offset + r[j].size = End(f, p)
        BY <1>1, <3>3
      <4>3. /\ s[i].offset \in Nat /\ s[i].size \in Nat
            /\ r[i].offset = s[i].offset /\ r[i].size = s[i].size
        BY <1>3, <3>1
      <4>4. s[n].offset \in Nat /\ s[n].size \in Nat /\ s[n].readed \in Nat
        BY <1>3
      <4>5. s[i].offset <= p
        BY <1>2, <4>1, <4>3, <4>4, SMTT(40)
      <4>6. End(f, p) <= s[i].offset + s[i].size
        <5>1. PICK a \in Nat : a = s[n].offset + s[n].size
          BY <4>4
        <5>2. PICK e \in Nat : e = s[i].offset + s[i].size
          BY <4>3
        <5>3. End(f, p) <= a /\ a <= e
          BY <1>2, <4>1, <5>1, <5>2
        <5> QED BY <1>1, <5>2, <5>3
      <4>7. r[i].offset + 8 <= r[j].offset
        BY <1>1, <4>2, <4>3, <4>5
      <4>8. r[j].offset + r[j].size <= r[i].offset + r[i].size
        BY <4>2, <4>3, <4>6
      <4> QED BY <4>7, <4>8
    <3> QED BY <3>2, <3>3
  <2> QED BY <2>2, <2>3 DEF Nested
<1>9. Around(f, r, p + 8)
  <2>1. ASSUME NEW b \in f.boxes, b < p + 8, p + 8 < End(f, b)
        PROVE  \E i \in 2..n + 1 : BoxOf(r, i) = b
    <3>1. b \in Nat /\ End(f, b) \in Nat
      BY BoxFacts
    <3>2. CASE b = p
      BY <1>4, <3>2
    <3>3. CASE b < p
      <4>1. p < End(f, b)
        BY <1>1, <2>1, <3>1
      <4>2. OnStack(s, b)
        BY <3>3, <4>1 DEF Layers, Around
      <4>3. PICK i \in 2..n : BoxOf(s, i) = b
        BY <1>5, <4>2 DEF OnStack
      <4>4. i \in 1..n /\ i \in 2..n + 1
        OBVIOUS
      <4> QED BY <1>4, <4>3, <4>4
    <3>4. CASE p < b
      <4>1. b < End(f, p) => p + 8 <= b
        BY <3>4, Nesting
      <4> QED BY <1>1, <2>1, <3>1, <4>1
    <3> QED BY <1>1, <3>1, <3>2, <3>3, <3>4
  <2> QED BY <1>5, <2>1 DEF Around, OnStack
<1>10. AroundCalls(f, r)
  <2>1. ASSUME NEW i \in 2..n + 1, NEW b \in f.boxes, b < BoxOf(r, i), BoxOf(r, i) < End(f, b)
        PROVE  \E j \in 2..n + 1 : j < i /\ BoxOf(r, j) = b
    <3>1. CASE i = n + 1
      <4>1. OnStack(s, b)
        BY <1>4, <2>1, <3>1 DEF Layers, Around
      <4>2. PICK j \in 2..n : BoxOf(s, j) = b
        BY <1>5, <4>1 DEF OnStack
      <4>3. j \in 1..n /\ j \in 2..n + 1 /\ j < i
        BY <3>1
      <4> QED BY <1>4, <4>2, <4>3
    <3>2. CASE i \in 2..n
      <4>1. i \in 1..n
        BY <3>2
      <4>2. b < BoxOf(s, i) /\ BoxOf(s, i) < End(f, b)
        BY <1>4, <2>1, <4>1
      <4>3. \E j \in 2..n : j < i /\ BoxOf(s, j) = b
        BY <1>5, <3>2, <4>2 DEF Layers, AroundCalls
      <4>4. PICK j \in 2..n : j < i /\ BoxOf(s, j) = b
        BY <4>3
      <4>5. j \in 1..n /\ j \in 2..n + 1
        OBVIOUS
      <4> QED BY <1>4, <4>4, <4>5
    <3> QED BY <3>1, <3>2
  <2> QED BY <1>5, <2>1 DEF AroundCalls
<1>11. Place(f, r, p + 8)
  <2>1. r[n + 1].size \in Nat
    BY <1>1
  <2>2. r[n + 1].readed = r[n + 1].size \/ p + 8 \in f.boxes
    <3>1. CASE Cell(f, p) = 8
      BY <3>1
    <3>2. CASE Cell(f, p) # 8
      <4>1. p + 8 < End(f, p)
        BY <1>1, <3>2
      <4> QED BY <4>1, FirstInside
    <3> QED BY <3>1, <3>2
  <2>3. p + 8 = r[n + 1].offset + r[n + 1].readed /\ r[n + 1].readed <= r[n + 1].size
    BY <1>1, <2>1
  <2> QED BY <2>2, <2>3 DEF Place
<1> QED BY <1>6, <1>7, <1>8, <1>9, <1>10, <1>11 DEF Layers

(* A box that holds none is left behind.                                   *)
LEMMA SkipLayers ==
  ASSUME NEW f \in LegalFiles, NEW n \in Nat \ {0}, NEW s, NEW r,
         Len(s) = n, Len(r) = n, Typed(s, n), Typed(r, n), Alike(s, r, n),
         \A i \in 1..n - 1 : r[i].readed = s[i].readed,
         s[n].readed < s[n].size,
         NEW p \in f.boxes, TypeOf(f, p) \notin Holders, Layers(f, s, p),
         r[n].readed = s[n].readed + Cell(f, p)
  PROVE  Layers(f, r, End(f, p))
<1>1. /\ p \in Nat /\ Cell(f, p) \in Nat /\ Cell(f, p) >= 8 /\ End(f, p) = p + Cell(f, p)
      /\ End(f, p) \in Nat /\ End(f, p) <= FileEnd(f) /\ FileEnd(f) \in Nat
  BY BoxFacts, LegalFacts
<1>2. p = s[n].offset + s[n].readed /\ End(f, p) <= s[n].offset + s[n].size
  BY HereEnds
<1>3. /\ \A i \in 1..n : /\ s[i].offset \in Nat /\ s[i].size \in Nat /\ s[i].readed \in Nat
                         /\ r[i].offset = s[i].offset /\ r[i].size = s[i].size
                         /\ r[i].track <=> s[i].track
  BY DEF Typed, Alike
<1>4. \A i \in 1..n : BoxOf(r, i) = BoxOf(s, i)
  BY <1>3 DEF BoxOf
<1>5. Calls(s) = 2..n /\ Calls(r) = 2..n /\ 2..n \subseteq 1..n
  BY DEF Calls
<1>6. Bottom(f, r)
  <2>1. Bottom(f, s)
    BY DEF Layers
  <2>2. 1 \in 1..n
    OBVIOUS
  <2> QED BY <1>3, <2>1, <2>2 DEF Bottom
<1>7. InBoxes(f, r)
  <2>1. InBoxes(f, s)
    BY DEF Layers
  <2>2. ASSUME NEW i \in 2..n
        PROVE  /\ BoxOf(r, i) \in f.boxes /\ TypeOf(f, BoxOf(r, i)) \in Holders
               /\ r[i].size = Cell(f, BoxOf(r, i)) - 8
               /\ r[i].track <=> TypeOf(f, BoxOf(r, i)) = "trak"
    <3>1. i \in 1..n
      OBVIOUS
    <3> QED BY <1>3, <1>4, <1>5, <2>1, <3>1 DEF InBoxes
  <2> QED BY <1>5, <2>2 DEF InBoxes
<1>8. Nested(r)
  <2>1. Nested(s)
    BY DEF Layers
  <2>2. ASSUME NEW i \in 1..n - 1 PROVE r[i].offset + r[i].readed = r[i + 1].offset
    <3>1. s[i].offset + s[i].readed = s[i + 1].offset
      BY <2>1 DEF Nested
    <3>2. i \in 1..n /\ i + 1 \in 1..n
      OBVIOUS
    <3> QED BY <1>3, <3>1, <3>2
  <2>3. ASSUME NEW i \in 1..n, NEW j \in 1..n, i < j
        PROVE  /\ r[i].offset + 8 <= r[j].offset
               /\ r[j].offset + r[j].size <= r[i].offset + r[i].size
    <3>1. /\ s[i].offset + 8 <= s[j].offset
          /\ s[j].offset + s[j].size <= s[i].offset + s[i].size
      BY <2>1, <2>3 DEF Nested
    <3> QED BY <1>3, <3>1
  <2> QED BY <2>2, <2>3 DEF Nested
<1>9. ASSUME NEW b \in f.boxes, b < End(f, p), End(f, p) < End(f, b)
      PROVE  \E i \in 2..n : BoxOf(s, i) = b
  <2>1. b \in Nat /\ End(f, b) \in Nat
    BY BoxFacts
  <2>2. b < p
    <3>1. CASE b = p
      BY <1>9, <2>1, <3>1
    <3>2. CASE p < b
      BY <1>9, <3>2, Nesting
    <3> QED BY <1>1, <2>1, <3>1, <3>2
  <2>3. p < End(f, b)
    BY <1>1, <1>9, <2>1
  <2>4. OnStack(s, b)
    BY <2>2, <2>3 DEF Layers, Around
  <2> QED BY <1>5, <2>4 DEF OnStack
<1>10. Around(f, r, End(f, p))
  BY <1>4, <1>5, <1>9 DEF Around, OnStack
<1>11. AroundCalls(f, r)
  <2>1. ASSUME NEW i \in 2..n, NEW b \in f.boxes, b < BoxOf(r, i), BoxOf(r, i) < End(f, b)
        PROVE  \E j \in 2..n : j < i /\ BoxOf(r, j) = b
    <3>1. i \in 1..n
      BY <1>5
    <3>2. b < BoxOf(s, i) /\ BoxOf(s, i) < End(f, b)
      BY <1>4, <2>1, <3>1
    <3>3. \E j \in 2..n : j < i /\ BoxOf(s, j) = b
      BY <1>5, <3>2 DEF Layers, AroundCalls
    <3> QED BY <1>4, <1>5, <3>3
  <2> QED BY <1>5, <2>1 DEF AroundCalls
<1>12. Place(f, r, End(f, p))
  <2>1. /\ s[n].offset \in Nat /\ s[n].size \in Nat /\ s[n].readed \in Nat
        /\ r[n].offset = s[n].offset /\ r[n].size = s[n].size /\ r[n].readed \in Nat
        /\ r[n].readed = s[n].readed + Cell(f, p)
    BY <1>3 DEF Typed
  <2>2. End(f, p) = r[n].offset + r[n].readed /\ r[n].readed <= r[n].size
        <3>1. /\ s[n].offset + s[n].readed = p /\ s[n].size >= s[n].readed + Cell(f, p)
          /\ End(f, p) = p + Cell(f, p) /\ Cell(f, p) \in Nat
      BY <1>1, <1>2, <2>1, SMTT(40)
    <3> QED BY <2>1, <3>1
  <2>3. r[n].readed = r[n].size \/ End(f, p) \in f.boxes
    <3>1. CASE End(f, p) = FileEnd(f)
      <4>1. s[n].offset + s[n].size <= FileEnd(f)
        <5>1. CASE n = 1
          BY <1>1, <5>1 DEF Layers, Bottom
        <5>2. CASE n # 1
          <6>1. n \in 2..n
            BY <5>2
          <6>2. BoxOf(s, n) \in f.boxes /\ End(f, BoxOf(s, n)) = s[n].offset + s[n].size
            BY <6>1, CallFacts
          <6> QED BY <6>2, BoxFacts
        <5> QED BY <5>1, <5>2
      <4> QED BY ONLY <2>1, <2>2, <3>1, <4>1
    <3>2. ASSUME NEW a \in f.boxes, a < p, p < End(f, a), End(f, a) = End(f, p)
          PROVE  r[n].readed = r[n].size
      <4>1. OnStack(s, a)
        BY <3>2 DEF Layers, Around
      <4>2. PICK i \in 2..n : BoxOf(s, i) = a
        BY <1>5, <4>1 DEF OnStack
      <4>3. End(f, a) = s[i].offset + s[i].size
        BY <4>2, CallFacts
      <4>4. s[n].offset + s[n].size <= s[i].offset + s[i].size
        <5>1. CASE i = n
          BY <2>1, <5>1
        <5>2. CASE i # n
          <6>1. i \in 1..n /\ n \in 1..n /\ i < n
            BY <5>2
          <6> QED BY <6>1 DEF Layers, Nested
        <5> QED BY <5>1, <5>2
      <4>5. s[n].offset + s[n].size <= End(f, p)
        BY <3>2, <4>3, <4>4
      <4> QED BY ONLY <2>1, <2>2, <4>5
    <3> QED BY <3>1, <3>2, Following
  <2> QED BY <2>2, <2>3 DEF Place
<1> QED BY <1>6, <1>7, <1>8, <1>10, <1>11, <1>12 DEF Layers

(* A box that held others is left, at its end.                             *)
LEMMA PopLayers ==
  ASSUME NEW f \in LegalFiles, NEW n \in Nat \ {0, 1}, NEW s, NEW r,
         Len(s) = n, Len(r) = n - 1, Typed(s, n), Typed(r, n - 1), Alike(s, r, n - 1),
         \A i \in 1..n - 2 : r[i].readed = s[i].readed,
         s[n].readed = s[n].size, r[n - 1].readed = s[n - 1].readed + s[n].size,
         NEW p \in Nat, Layers(f, s, p)
  PROVE  Layers(f, r, p)
<1> DEFINE b == BoxOf(s, n)
<1>1. /\ \A i \in 1..n : s[i].offset \in Nat /\ s[i].size \in Nat /\ s[i].readed \in Nat
      /\ \A i \in 1..n - 1 : /\ r[i].offset = s[i].offset /\ r[i].size = s[i].size
                             /\ r[i].track <=> s[i].track
  BY DEF Typed, Alike
<1>2. /\ b \in f.boxes /\ s[n].offset = b + 8 /\ End(f, b) = s[n].offset + s[n].size
      /\ b \in Nat /\ End(f, b) \in Nat /\ p = End(f, b)
  <2>1. n \in 2..n /\ n \in Nat \ {0}
    OBVIOUS
  <2>2. b \in f.boxes /\ s[n].offset = b + 8 /\ End(f, b) = s[n].offset + s[n].size
    BY <2>1, CallFacts
  <2>3. b \in Nat /\ End(f, b) \in Nat
    BY <2>2, BoxFacts
  <2>4. p = s[n].offset + s[n].readed
    BY DEF Layers, Place
  <2> QED BY <2>2, <2>3, <2>4
<1>3. \A i \in 1..n - 1 : BoxOf(r, i) = BoxOf(s, i)
  BY <1>1 DEF BoxOf
<1>4. /\ Calls(s) = 2..n /\ Calls(r) = 2..n - 1 /\ 2..n - 1 \subseteq 1..n - 1
      /\ 2..n - 1 \subseteq 2..n
  BY DEF Calls
<1> HIDE DEF b
<1>5. Bottom(f, r)
  <2>1. Bottom(f, s)
    BY DEF Layers
  <2>2. 1 \in 1..n - 1 /\ n - 1 > 0
    OBVIOUS
  <2> QED BY <1>1, <2>1, <2>2 DEF Bottom
<1>6. InBoxes(f, r)
  <2>1. InBoxes(f, s)
    BY DEF Layers
  <2>2. ASSUME NEW i \in 2..n - 1
        PROVE  /\ BoxOf(r, i) \in f.boxes /\ TypeOf(f, BoxOf(r, i)) \in Holders
               /\ r[i].size = Cell(f, BoxOf(r, i)) - 8
               /\ r[i].track <=> TypeOf(f, BoxOf(r, i)) = "trak"
    <3>1. i \in 1..n - 1 /\ i \in 2..n
      OBVIOUS
    <3> QED BY <1>1, <1>3, <1>4, <2>1, <3>1 DEF InBoxes
  <2> QED BY <1>4, <2>2 DEF InBoxes
<1>7. Nested(r)
  <2>1. Nested(s)
    BY DEF Layers
  <2>2. ASSUME NEW i \in 1..n - 2 PROVE r[i].offset + r[i].readed = r[i + 1].offset
    <3>1. i \in 1..n - 1 /\ i + 1 \in 1..n - 1
      OBVIOUS
    <3>2. s[i].offset + s[i].readed = s[i + 1].offset
      BY <2>1, <3>1 DEF Nested
    <3> QED BY <1>1, <3>1, <3>2
  <2>3. ASSUME NEW i \in 1..n - 1, NEW j \in 1..n - 1, i < j
        PROVE  /\ r[i].offset + 8 <= r[j].offset
               /\ r[j].offset + r[j].size <= r[i].offset + r[i].size
    <3>1. i \in 1..n /\ j \in 1..n
      OBVIOUS
    <3>2. /\ s[i].offset + 8 <= s[j].offset
          /\ s[j].offset + s[j].size <= s[i].offset + s[i].size
      BY <2>1, <2>3, <3>1 DEF Nested
    <3> QED BY <1>1, <3>2
  <2>4. n - 1 - 1 = n - 2
    OBVIOUS
  <2> QED BY <2>2, <2>3, <2>4 DEF Nested
<1>8. Around(f, r, p)
  <2>1. ASSUME NEW c \in f.boxes, c < p, p < End(f, c)
        PROVE  \E i \in 2..n - 1 : BoxOf(r, i) = c
    <3>1. OnStack(s, c)
      BY <2>1 DEF Layers, Around
    <3>2. PICK i \in 2..n : BoxOf(s, i) = c
      BY <1>4, <3>1 DEF OnStack
    <3>3. i # n
      <4>1. CASE i = n
        <5>1. c = b
          BY <3>2, <4>1 DEF b
        <5> QED BY <1>2, <2>1, <5>1
      <4> QED BY <4>1
    <3>4. i \in 2..n - 1 /\ i \in 1..n - 1
      BY <3>3
    <3> QED BY <1>3, <3>2, <3>4
  <2> QED BY <1>4, <2>1 DEF Around, OnStack
<1>9. AroundCalls(f, r)
  <2>1. ASSUME NEW i \in 2..n - 1, NEW c \in f.boxes, c < BoxOf(r, i), BoxOf(r, i) < End(f, c)
        PROVE  \E j \in 2..n - 1 : j < i /\ BoxOf(r, j) = c
    <3>1. i \in 1..n - 1 /\ i \in 2..n
      OBVIOUS
    <3>2. c < BoxOf(s, i) /\ BoxOf(s, i) < End(f, c)
      BY <1>3, <2>1, <3>1
    <3>3. \E j \in 2..n : j < i /\ BoxOf(s, j) = c
      BY <1>4, <3>1, <3>2 DEF Layers, AroundCalls
    <3>4. PICK j \in 2..n : j < i /\ BoxOf(s, j) = c
      BY <3>3
    <3>5. j \in 2..n - 1 /\ j \in 1..n - 1
      BY <3>4
    <3> QED BY <1>3, <3>4, <3>5
  <2> QED BY <1>4, <2>1 DEF AroundCalls
<1>10. Place(f, r, p)
  <2>1. /\ n - 1 \in 1..n - 1 /\ n - 1 \in 1..n /\ n \in 1..n /\ n - 1 < n /\ n - 1 + 1 = n
    OBVIOUS
  <2>2. /\ s[n - 1].offset \in Nat /\ s[n - 1].size \in Nat /\ s[n - 1].readed \in Nat
        /\ r[n - 1].offset = s[n - 1].offset /\ r[n - 1].size = s[n - 1].size
        /\ s[n].offset \in Nat /\ s[n].size \in Nat /\ r[n - 1].readed \in Nat
        /\ r[n - 1].readed = s[n - 1].readed + s[n].size
    BY <1>1, <2>1 DEF Typed
  <2>3. /\ s[n - 1].offset + s[n - 1].readed = s[n].offset
        /\ s[n].offset + s[n].size <= s[n - 1].offset + s[n - 1].size
    <3>1. Nested(s)
      BY DEF Layers
    <3> QED BY <2>1, <3>1 DEF Nested
  <2>4. p = r[n - 1].offset + r[n - 1].readed /\ r[n - 1].readed <= r[n - 1].size
    <3>1. p = s[n].offset + s[n].size
      BY <1>2
    <3> QED BY ONLY <2>2, <2>3, <3>1
  <2>5. r[n - 1].readed = r[n - 1].size \/ p \in f.boxes
    <3>1. CASE p = FileEnd(f)
      <4>1. s[n - 1].offset + s[n - 1].size <= FileEnd(f)
        <5>1. CASE n - 1 = 1
          <6>1. s[1].offset = 0 /\ s[1].size = FileEnd(f) /\ FileEnd(f) \in Nat
            BY LegalFacts DEF Layers, Bottom
          <6> QED BY <5>1, <6>1
        <5>2. CASE n - 1 # 1
          <6>1. n - 1 \in 2..n /\ n \in Nat \ {0}
            BY <5>2
          <6>2. /\ BoxOf(s, n - 1) \in f.boxes
                /\ End(f, BoxOf(s, n - 1)) = s[n - 1].offset + s[n - 1].size
            BY <6>1, CallFacts
          <6> QED BY <6>2, BoxFacts
        <5> QED BY <5>1, <5>2
      <4> QED BY ONLY <2>2, <2>4, <3>1, <4>1
    <3>2. ASSUME NEW a \in f.boxes, a < b, b < End(f, a), End(f, a) = End(f, b)
          PROVE  r[n - 1].readed = r[n - 1].size
      <4>1. \E j \in 2..n : j < n /\ BoxOf(s, j) = a
        <5>1. n \in 2..n
          OBVIOUS
        <5> QED BY <1>4, <3>2, <5>1 DEF Layers, AroundCalls, b
      <4>2. PICK i \in 2..n : i < n /\ BoxOf(s, i) = a
        BY <4>1
      <4>3. End(f, a) = s[i].offset + s[i].size
        <5>1. n \in Nat \ {0}
          OBVIOUS
        <5> QED BY <4>2, <5>1, CallFacts
      <4>4. s[n - 1].offset + s[n - 1].size <= s[i].offset + s[i].size
        <5>1. CASE i = n - 1
          BY <2>2, <5>1
        <5>2. CASE i # n - 1
          <6>1. i \in 1..n /\ i < n - 1
            BY <4>2, <5>2
          <6>2. Nested(s)
            BY DEF Layers
          <6> QED BY <2>1, <6>1, <6>2 DEF Nested
        <5> QED BY <5>1, <5>2
      <4>5. s[n - 1].offset + s[n - 1].size <= p
        BY <1>2, <3>2, <4>3, <4>4
      <4> QED BY ONLY <2>2, <2>4, <4>5
    <3> QED BY <1>2, <3>1, <3>2, Following
  <2> QED BY <2>4, <2>5 DEF Place
<1> QED BY <1>5, <1>6, <1>7, <1>8, <1>9, <1>10 DEF Layers

-----------------------------------------------------------------------------
(* The boxes of a track that have been read.                               *)
(* A track lies in the file as its boxes do, and has one of each type.     *)
LEMMA TrakFacts ==
  ASSUME NEW f \in LegalFiles, NEW t \in Traks(f)
  PROVE  /\ t \in f.boxes /\ TypeOf(f, t) = "trak" /\ Within(f, t, "trak") = {}
         /\ \A type \in Needed : Within(f, t, type) # {}
         /\ \A type \in OfTrack : \A b, c \in Within(f, t, type) : b = c
         /\ HowMany(f, The(f, t, "stco")) = Cell(f, The(f, t, "stts") + 16)
         /\ HowMany(f, The(f, t, "stco")) > 0
BY LegalFacts DEF Legal, Described, Traks

(* The box of a type is the one there is.                                  *)
LEMMA TheOne ==
  ASSUME NEW f \in LegalFiles, NEW t \in Traks(f), NEW type \in OfTrack,
         NEW b \in Within(f, t, type)
  PROVE  The(f, t, type) = b
<1>1. \A c \in Within(f, t, type) : c = b
  BY TrakFacts
<1>2. The(f, t, type) \in Within(f, t, type)
  BY DEF The
<1> QED BY <1>1, <1>2

(* No type of a track's boxes is that of one that holds boxes.             *)
LEMMA HoldersNot == OfTrack \cap Holders = {}
BY DEF OfTrack, Needed, Holders, Containers

(* Nothing is read of a track where it begins ...                          *)
LEMMA SeenFirst ==
  ASSUME NEW f \in LegalFiles, NEW t \in Traks(f)
  PROVE  SeenTypes(f, t, t + 8) = {}
<1> SUFFICES ASSUME NEW type \in OfTrack, NEW c \in Within(f, t, type), c < t + 8
             PROVE  FALSE
  BY DEF SeenTypes
<1>1. t \in f.boxes /\ c \in f.boxes /\ t < c /\ c < End(f, t)
  BY TrakFacts DEF Within
<1>2. t + 8 <= c
  BY <1>1, Nesting
<1> QED BY <1>1, <1>2, BoxFacts

(* ... and all where it ends.                                              *)
LEMMA SeenLast ==
  ASSUME NEW f \in LegalFiles, NEW t \in Traks(f)
  PROVE  SeenTypes(f, t, End(f, t)) = {type \in OfTrack : Within(f, t, type) # {}}
<1>1. \A type \in OfTrack : \A c \in Within(f, t, type) : c < End(f, t)
  BY DEF Within
<1> QED BY <1>1 DEF SeenTypes

(* To enter a box is to read nothing of a track.                           *)
LEMMA SeenEnter ==
  ASSUME NEW f \in LegalFiles, NEW t \in Traks(f), NEW b \in f.boxes,
         TypeOf(f, b) \in Holders
  PROVE  SeenTypes(f, t, b + 8) = SeenTypes(f, t, b)
<1>1. ASSUME NEW type \in OfTrack, NEW c \in Within(f, t, type)
      PROVE  c < b + 8 <=> c < b
  <2>1. c \in f.boxes /\ TypeOf(f, c) = type /\ c \in Nat /\ b \in Nat
    BY BoxFacts DEF Within
  <2>2. c # b
    BY <2>1, HoldersNot
  <2>3. CASE b < c
    <3>1. b + 8 <= c
      <4>1. CASE c < End(f, b)
        BY <2>1, <2>3, <4>1, Nesting
      <4>2. CASE ~(c < End(f, b))
        BY <2>1, <4>2, BoxFacts
      <4> QED BY <4>1, <4>2
    <3> QED BY <2>1, <2>3, <3>1
  <2> QED BY <2>1, <2>2, <2>3
<1> QED BY <1>1 DEF SeenTypes

(* Behind a box that holds none, that box has been read.                   *)
LEMMA SeenLeaf ==
  ASSUME NEW f \in LegalFiles, NEW t \in Traks(f), NEW b \in f.boxes,
         TypeOf(f, b) \notin Holders, NEW type \in OfTrack
  PROVE  /\ type \in SeenTypes(f, t, End(f, b)) <=>
               type \in SeenTypes(f, t, b) \/ b \in Within(f, t, type)
         /\ b \in Within(f, t, type) => type \notin SeenTypes(f, t, b)
<1>1. b \in Nat /\ End(f, b) \in Nat /\ b + 8 <= End(f, b)
  BY BoxFacts
<1>2. ASSUME NEW c \in Within(f, t, type)
      PROVE  c < End(f, b) <=> c < b \/ c = b
  <2>1. c \in f.boxes /\ c \in Nat
    BY BoxFacts DEF Within
  <2>2. CASE b < c
    <3>1. ~(c < End(f, b))
      BY <2>1, <2>2, Nesting
    <3> QED BY <1>1, <2>1, <2>2, <3>1
  <2>3. CASE ~(b < c)
    BY <1>1, <2>1, <2>3
  <2> QED BY <2>2, <2>3
<1>3. type \in SeenTypes(f, t, End(f, b)) <=>
         type \in SeenTypes(f, t, b) \/ b \in Within(f, t, type)
  BY <1>2 DEF SeenTypes
<1>4. ASSUME b \in Within(f, t, type), type \in SeenTypes(f, t, b) PROVE FALSE
  <2>1. PICK c \in Within(f, t, type) : c < b
    BY <1>4 DEF SeenTypes
  <2>2. c = b
    BY <1>4, TrakFacts
  <2> QED BY <1>1, <2>1, <2>2
<1> QED BY <1>3, <1>4

(* A box of a legal file has the cells that its parser reads.              *)
LEMMA EnoughCells ==
  ASSUME fd \in LegalFiles, NEW b \in fd.boxes
  PROVE  /\ Has(b + 8, Needs(TypeOf(fd, b), b + 8))
         /\ TypeOf(fd, b) \in {"tkhd", "mdhd"} => BehindTimes(b + 8) = Dated(fd, b)
         /\ TypeOf(fd, b) = "stts" => Cell(fd, b + 16) \in Nat /\ Cell(fd, b + 20) \in Nat
         /\ TypeOf(fd, b) \in {"stco", "stss"} => HowMany(fd, b) \in Nat
<1>1. /\ b \in Nat /\ End(fd, b) \in Nat /\ End(fd, b) <= FileEnd(fd) /\ b + 8 <= End(fd, b)
      /\ FileEnd(fd) \in Nat /\ fd \in AnyFile
  BY BoxFacts, LegalFacts
<1>2. /\ TypeOf(fd, b) \in {"stco", "stss"} => b + 16 <= End(fd, b)
      /\ b + 8 + 4 * MinCells(fd, b) <= End(fd, b)
  BY LegalFacts DEF Legal, Complete
<1>3. CASE TypeOf(fd, b) \in {"tkhd", "mdhd"}
  <2>1. MinCells(fd, b) = IF Cell(fd, b + 8) = 1 THEN 6 ELSE 4
    BY <1>3 DEF MinCells
  <2>2. Needs(TypeOf(fd, b), b + 8) = IF Long(b + 8) THEN 6 ELSE 4
    BY <1>3 DEF Needs
  <2>3. Has(b + 8, 1)
    <3>1. MinCells(fd, b) \in {4, 6}
      BY <2>1
    <3> QED BY <1>1, <1>2, <3>1 DEF Has
  <2>4. Long(b + 8) <=> Cell(fd, b + 8) = 1
    BY <2>3 DEF Long, At
  <2>5. Has(b + 8, Needs(TypeOf(fd, b), b + 8))
    <3>1. Needs(TypeOf(fd, b), b + 8) = MinCells(fd, b) /\ MinCells(fd, b) \in {4, 6}
      BY <2>1, <2>2, <2>4
    <3> QED BY <1>1, <1>2, <3>1 DEF Has
  <2>6. BehindTimes(b + 8) = Dated(fd, b)
    <3>1. b + 8 + 20 = b + 28 /\ b + 8 + 12 = b + 20
      BY <1>1
    <3>2. CASE Long(b + 8)
      BY <2>4, <3>1, <3>2 DEF BehindTimes, Dated, At
    <3>3. CASE ~Long(b + 8)
      BY <2>4, <3>1, <3>3 DEF BehindTimes, Dated, At
    <3> QED BY <3>2, <3>3
  <2> QED BY <1>3, <2>5, <2>6
<1>4. CASE TypeOf(fd, b) \in {"stco", "stss"}
  <2>1. HowMany(fd, b) \in Nat
    <3>1. b + 12 \in Nat /\ b + 12 + 4 <= FileEnd(fd)
      BY <1>1, <1>2, <1>4
    <3> QED BY <1>1, <3>1, CellNat DEF HowMany
  <2>2. MinCells(fd, b) = 2 + HowMany(fd, b)
    BY <1>4 DEF MinCells
  <2>3. Has(b + 8, 2)
    BY <1>1, <1>2, <1>4 DEF Has
  <2>4. At(b + 8 + 4) = HowMany(fd, b)
    <3>1. b + 8 + 4 = b + 12
      BY <1>1
    <3> QED BY <3>1 DEF At, HowMany
  <2>5. Needs(TypeOf(fd, b), b + 8) = 2 + HowMany(fd, b)
    BY <1>4, <2>3, <2>4 DEF Needs
  <2>6. Has(b + 8, Needs(TypeOf(fd, b), b + 8))
    <3>1. PICK n \in Nat : n = HowMany(fd, b)
      BY <2>1
    <3>2. b + 8 + 4 * (2 + n) <= FileEnd(fd)
      BY <1>1, <1>2, <2>2, <3>1
    <3> QED BY <2>5, <3>1, <3>2 DEF Has
  <2> QED BY <1>4, <2>1, <2>6
<1>5. CASE TypeOf(fd, b) = "stts"
  <2>1. MinCells(fd, b) = 4 /\ Needs(TypeOf(fd, b), b + 8) = 4
    BY <1>5 DEF MinCells, Needs
  <2>2. b + 24 <= FileEnd(fd)
    BY <1>1, <1>2, <2>1
  <2>3. Cell(fd, b + 16) \in Nat /\ Cell(fd, b + 20) \in Nat
    <3>1. /\ b + 16 \in Nat /\ b + 16 + 4 <= FileEnd(fd)
          /\ b + 20 \in Nat /\ b + 20 + 4 <= FileEnd(fd)
      BY <1>1, <2>2
    <3> QED BY <1>1, <3>1, CellNat
  <2> QED BY <1>1, <1>5, <2>1, <2>2, <2>3 DEF Has
<1>6. CASE TypeOf(fd, b) \notin {"tkhd", "mdhd", "stco", "stss", "stts"}
  <2>1. /\ MinCells(fd, b) = Needs(TypeOf(fd, b), b + 8)
        /\ MinCells(fd, b) \in Nat
    <3> DEFINE type == TypeOf(fd, b)
    <3>1. CASE type \in {"ftyp", "hint", "sdp"}
      BY <3>1 DEF MinCells, Needs
    <3>2. CASE type = "hdlr"
      BY <3>2 DEF MinCells, Needs
    <3>3. CASE type = "mvhd"
      BY <3>3 DEF MinCells, Needs
    <3>4. CASE type \notin {"ftyp", "hint", "sdp", "hdlr", "mvhd"}
      <4> HIDE DEF type
      <4>1. MinCells(fd, b) = 0
        BY <1>6, <3>4 DEF MinCells, type
      <4>2. Needs(type, b + 8) = 0
        BY <1>6, <3>4 DEF Needs, type
      <4> QED BY <4>1, <4>2 DEF type
    <3> QED BY <3>1, <3>2, <3>3, <3>4
  <2> QED BY <1>1, <1>2, <1>6, <2>1 DEF Has
<1> QED BY <1>3, <1>4, <1>5, <1>6

(* A list of numbers in a file.                                            *)
LEMMA EntriesListed ==
  ASSUME NEW b \in Nat, HowMany(fd, b) \in Nat
  PROVE  Entries(b + 8) = [i \in 1..HowMany(fd, b) |-> Listed(fd, b, i)]
<1>1. b + 8 + 4 = b + 12 /\ b + 8 + 8 = b + 16
  OBVIOUS
<1>2. Entries(b + 8) = [i \in 1..HowMany(fd, b) |-> Cell(fd, b + 16 + 4 * (i - 1))]
  BY <1>1 DEF Entries, Cells, Span, At, HowMany
<1>3. ASSUME NEW i \in 1..HowMany(fd, b)
      PROVE  Cell(fd, b + 16 + 4 * (i - 1)) = Listed(fd, b, i)
  <2>1. b + 16 + 4 * (i - 1) = b + 12 + 4 * i
    OBVIOUS
  <2> QED BY <2>1 DEF Listed
<1> QED BY <1>2, <1>3

\* The record with one more type in it, the box of which is b.
Tells(f, b, type, d, e) ==
   /\ type = "tkhd" => e = [d EXCEPT !.id = Dated(f, b)]
   /\ type = "mdhd" => e = [d EXCEPT !.scale = Dated(f, b)]
   /\ type = "hdlr" => e = [d EXCEPT !.type = Name(Cell(f, b + 16))]
   /\ type = "hint" => e = [d EXCEPT !.refer = Cell(f, b + 8)]
   /\ type = "sdp" => e = [d EXCEPT !.sdp = Cell(f, b + 8)]
   /\ type = "stts" =>
         /\ e = [d EXCEPT !.durs = [i \in 1..Cell(f, b + 16) |-> Cell(f, b + 20)]]
         /\ d.durs = << >>
   /\ type = "stco" =>
         /\ e = [d EXCEPT !.chunks = [i \in 1..HowMany(f, b) |-> Listed(f, b, i)]]
         /\ d.chunks = << >>
   /\ type = "stss" =>
         /\ e = [d EXCEPT !.keys = [i \in 1..HowMany(f, b) |-> Listed(f, b, i) - 1]]
         /\ d.keys = << >>

(* One more type is one more value of the record.                          *)
LEMMA DraftedMore ==
  ASSUME NEW f, NEW t, NEW type \in OfTrack, NEW b, The(f, t, type) = b,
         NEW types, type \notin types
  PROVE  Tells(f, b, type, Drafted(f, t, types), Drafted(f, t, types \cup {type}))
<1> DEFINE iof == Dated(f, The(f, t, "tkhd"))
           tof == Name(Cell(f, The(f, t, "hdlr") + 16))
           mof == Dated(f, The(f, t, "mdhd"))
           rof == Cell(f, The(f, t, "hint") + 8)
           pof == Cell(f, The(f, t, "sdp") + 8)
           kof == [i \in 1..HowMany(f, The(f, t, "stss")) |-> Listed(f, The(f, t, "stss"), i) - 1]
           dof == [i \in 1..Cell(f, The(f, t, "stts") + 16) |-> Cell(f, The(f, t, "stts") + 20)]
           cof == [i \in 1..HowMany(f, The(f, t, "stco")) |-> Listed(f, The(f, t, "stco"), i)]
           made(S) == [id |-> IF "tkhd" \in S THEN iof ELSE 0,
                       type |-> IF "hdlr" \in S THEN tof ELSE "unknown",
                       scale |-> IF "mdhd" \in S THEN mof ELSE 0,
                       refer |-> IF "hint" \in S THEN rof ELSE 0,
                       sdp |-> IF "sdp" \in S THEN pof ELSE 0,
                       keys |-> IF "stss" \in S THEN kof ELSE << >>,
                       durs |-> IF "stts" \in S THEN dof ELSE << >>,
                       chunks |-> IF "stco" \in S THEN cof ELSE << >>,
                       samples |-> << >>, readed |-> 0]
           d == made(types)
           e == made(types \cup {type})
<1>1. /\ Drafted(f, t, types) = made(types)
      /\ Drafted(f, t, types \cup {type}) = made(types \cup {type})
  BY Zenon DEF Drafted
<1>2. /\ type = "tkhd" => Dated(f, b) = iof
      /\ type = "mdhd" => Dated(f, b) = mof
      /\ type = "hdlr" => Name(Cell(f, b + 16)) = tof
      /\ type = "hint" => Cell(f, b + 8) = rof
      /\ type = "sdp" => Cell(f, b + 8) = pof
      /\ type = "stts" => [i \in 1..Cell(f, b + 16) |-> Cell(f, b + 20)] = dof
      /\ type = "stco" => [i \in 1..HowMany(f, b) |-> Listed(f, b, i)] = cof
      /\ type = "stss" => [i \in 1..HowMany(f, b) |-> Listed(f, b, i) - 1] = kof
  BY Zenon
<1> HIDE DEF iof, tof, mof, rof, pof, kof, dof, cof
<1>3. type = "tkhd" => e = [d EXCEPT !.id = iof]
  OBVIOUS
<1>4. type = "mdhd" => e = [d EXCEPT !.scale = mof]
  OBVIOUS
<1>5. type = "hdlr" => e = [d EXCEPT !.type = tof]
  OBVIOUS
<1>6. type = "hint" => e = [d EXCEPT !.refer = rof]
  OBVIOUS
<1>7. type = "sdp" => e = [d EXCEPT !.sdp = pof]
  OBVIOUS
<1>8. type = "stts" => e = [d EXCEPT !.durs = dof] /\ d.durs = << >>
  OBVIOUS
<1>9. type = "stco" => e = [d EXCEPT !.chunks = cof] /\ d.chunks = << >>
  OBVIOUS
<1>10. type = "stss" => e = [d EXCEPT !.keys = kof] /\ d.keys = << >>
  OBVIOUS
<1> HIDE DEF made
<1> QED BY <1>1, <1>2, <1>3, <1>4, <1>5, <1>6, <1>7, <1>8, <1>9, <1>10, Zenon DEF Tells

(* What the parser of a box tells of a track is what it says there.        *)
LEMMA ToldDrafted ==
  ASSUME fd \in LegalFiles, NEW t \in Traks(fd), NEW type \in OfTrack,
         NEW b \in Within(fd, t, type), NEW types, type \notin types
  PROVE  Told(type, b + 8, Drafted(fd, t, types)) = Drafted(fd, t, types \cup {type})
<1>1. /\ b \in fd.boxes /\ TypeOf(fd, b) = type /\ The(fd, t, type) = b /\ b \in Nat
  BY TheOne, BoxFacts DEF Within
<1>2. /\ b + 8 + 8 = b + 16 /\ b + 8 + 12 = b + 20 /\ b + 8 + 4 = b + 12
  BY <1>1
<1> DEFINE d == Drafted(fd, t, types)
           e == Drafted(fd, t, types \cup {type})
<1>11. Tells(fd, b, type, d, e)
  BY <1>1, DraftedMore
<1> SUFFICES Told(type, b + 8, d) = e
  OBVIOUS
<1> HIDE DEF d, e
<1>3. CASE type = "tkhd"
  <2>1. BehindTimes(b + 8) = Dated(fd, b)
    BY <1>1, <1>3, EnoughCells
  <2>2. e = [d EXCEPT !.id = Dated(fd, b)]
    BY <1>3, <1>11 DEF Tells
  <2> QED BY <1>3, <2>1, <2>2 DEF Told
<1>4. CASE type = "mdhd"
  <2>1. BehindTimes(b + 8) = Dated(fd, b)
    BY <1>1, <1>4, EnoughCells
  <2>2. e = [d EXCEPT !.scale = Dated(fd, b)]
    BY <1>4, <1>11 DEF Tells
  <2> QED BY <1>4, <2>1, <2>2 DEF Told
<1>5. CASE type = "hdlr"
  <2>1. e = [d EXCEPT !.type = Name(Cell(fd, b + 16))]
    BY <1>5, <1>11 DEF Tells
  <2> QED BY <1>2, <1>5, <2>1 DEF Told, At
<1>6. CASE type = "hint"
  <2>1. e = [d EXCEPT !.refer = Cell(fd, b + 8)]
    BY <1>6, <1>11 DEF Tells
  <2> QED BY <1>6, <2>1 DEF Told, At
<1>7. CASE type = "sdp"
  <2>1. e = [d EXCEPT !.sdp = Cell(fd, b + 8)]
    BY <1>7, <1>11 DEF Tells
  <2> QED BY <1>7, <2>1 DEF Told, At
<1>8. CASE type = "stts"
  <2> DEFINE run == [i \in 1..Cell(fd, b + 16) |-> Cell(fd, b + 20)]
  <2>1. e = [d EXCEPT !.durs = run] /\ d.durs = << >>
    BY <1>8, <1>11 DEF Tells
  <2>2. run \in Seq(Nat)
    BY <1>1, <1>8, EnoughCells
  <2>3. Told(type, b + 8, d) = [d EXCEPT !.durs = @ \o run]
    BY <1>2, <1>8 DEF Told, At
  <2> HIDE DEF run
  <2>4. << >> \o run = run
    BY <2>2
  <2> QED BY <2>1, <2>3, <2>4
<1>9. CASE type = "stco"
  <2> DEFINE run == [i \in 1..HowMany(fd, b) |-> Listed(fd, b, i)]
  <2>1. e = [d EXCEPT !.chunks = run] /\ d.chunks = << >>
    BY <1>9, <1>11 DEF Tells
  <2>2. Entries(b + 8) = run /\ HowMany(fd, b) \in Nat
    <3>1. HowMany(fd, b) \in Nat
      BY <1>1, <1>9, EnoughCells
    <3> QED BY <1>1, <3>1, EntriesListed
  <2>3. Told(type, b + 8, d) = [d EXCEPT !.chunks = @ \o run]
    BY <1>9, <2>2 DEF Told
  <2>4. << >> \o run = run
    BY <2>2
  <2> HIDE DEF run
  <2> QED BY <2>1, <2>3, <2>4
<1>10. CASE type = "stss"
  <2> DEFINE run == [i \in 1..HowMany(fd, b) |-> Listed(fd, b, i) - 1]
             told == [i \in 1..At(b + 12) |-> Entries(b + 8)[i] - 1]
  <2>1. e = [d EXCEPT !.keys = run] /\ d.keys = << >>
    BY <1>10, <1>11 DEF Tells
  <2>2. told = run /\ HowMany(fd, b) \in Nat
    <3>1. HowMany(fd, b) \in Nat
      BY <1>1, <1>10, EnoughCells
    <3>2. Entries(b + 8) = [i \in 1..HowMany(fd, b) |-> Listed(fd, b, i)]
      BY <1>1, <3>1, EntriesListed
    <3>3. At(b + 12) = HowMany(fd, b)
      BY DEF At, HowMany
    <3>4. \A i \in 1..HowMany(fd, b) : Entries(b + 8)[i] = Listed(fd, b, i)
      BY <3>2
    <3> QED BY <3>1, <3>3, <3>4
  <2>3. Told(type, b + 8, d) = [d EXCEPT !.keys = @ \o told]
    BY <1>2, <1>10 DEF Told
  <2>4. << >> \o run = run
    BY <2>2
  <2> HIDE DEF run, told
  <2> QED BY <2>1, <2>2, <2>3, <2>4
<1> QED BY <1>3, <1>4, <1>5, <1>6, <1>7, <1>8, <1>9, <1>10 DEF OfTrack, Needed

(* A box that tells of a track is read.                                    *)
LEMMA PartTold ==
  ASSUME fd \in LegalFiles, NEW t \in Traks(fd), NEW type \in OfTrack,
         NEW b \in Within(fd, t, type)
  PROVE  Told(type, b + 8, PartOf(fd, t, b)) = PartOf(fd, t, End(fd, b))
<1>1. b \in fd.boxes /\ TypeOf(fd, b) = type /\ TypeOf(fd, b) \notin Holders
  BY HoldersNot DEF Within
<1>2. type \notin SeenTypes(fd, t, b)
  BY <1>1, SeenLeaf
<1>3. SeenTypes(fd, t, End(fd, b)) = SeenTypes(fd, t, b) \cup {type}
  <2>1. ASSUME NEW x \in OfTrack
        PROVE  x \in SeenTypes(fd, t, End(fd, b)) <=> x \in SeenTypes(fd, t, b) \/ x = type
    <3>1. b \in Within(fd, t, x) <=> x = type
      BY <1>1 DEF Within
    <3> QED BY <1>1, <3>1, SeenLeaf
  <2>2. SeenTypes(fd, t, End(fd, b)) \subseteq OfTrack /\ SeenTypes(fd, t, b) \subseteq OfTrack
    BY DEF SeenTypes
  <2> QED BY <2>1, <2>2
<1> QED BY <1>2, <1>3, ToldDrafted DEF PartOf

(* Any other leaf tells nothing of it.                                     *)
LEMMA PartOther ==
  ASSUME NEW f \in LegalFiles, NEW t \in Traks(f), NEW b \in f.boxes,
         TypeOf(f, b) \notin Holders, TypeOf(f, b) \notin OfTrack
  PROVE  PartOf(f, t, End(f, b)) = PartOf(f, t, b)
<1>1. ASSUME NEW x \in OfTrack
      PROVE  x \in SeenTypes(f, t, End(f, b)) <=> x \in SeenTypes(f, t, b)
  <2>1. b \notin Within(f, t, x)
    BY DEF Within
  <2> QED BY <2>1, SeenLeaf
<1>2. SeenTypes(f, t, End(f, b)) \subseteq OfTrack /\ SeenTypes(f, t, b) \subseteq OfTrack
  BY DEF SeenTypes
<1>3. SeenTypes(f, t, End(f, b)) = SeenTypes(f, t, b)
  BY <1>1, <1>2
<1> QED BY <1>3 DEF PartOf

(* Nor does a box that holds others.                                       *)
LEMMA PartEnter ==
  ASSUME NEW f \in LegalFiles, NEW t \in Traks(f), NEW b \in f.boxes,
         TypeOf(f, b) \in Holders
  PROVE  PartOf(f, t, b + 8) = PartOf(f, t, b)
BY SeenEnter DEF PartOf

(* A track begins with nothing.                                            *)
LEMMA PartFirst ==
  ASSUME NEW f \in LegalFiles, NEW t \in Traks(f)
  PROVE  PartOf(f, t, t + 8) = NoTrack
<1>1. PartOf(f, t, t + 8) = Drafted(f, t, {})
  BY SeenFirst DEF PartOf
<1>2. Drafted(f, t, {}) = NoTrack
  BY Zenon DEF Drafted, NoTrack
<1> QED BY <1>1, <1>2

(* And ends as the one that is written.                                    *)
LEMMA PartLast ==
  ASSUME fd \in LegalFiles, NEW t \in Traks(fd)
  PROVE  /\ Sampled(PartOf(fd, t, End(fd, t))) = TrackOf(fd, t)
         /\ PartOf(fd, t, End(fd, t)).chunks # << >>
<1> DEFINE all == {type \in OfTrack : Within(fd, t, type) # {}}
           tts == The(fd, t, "stts")
           tco == The(fd, t, "stco")
           x == Cell(fd, tts + 20)
           n == HowMany(fd, tco)
           durs == [i \in 1..n |-> x]
           chunks == [i \in 1..n |-> Listed(fd, tco, i)]
<1>1. SeenTypes(fd, t, End(fd, t)) = all
  BY SeenLast
<1>2. "tkhd" \in all /\ "mdhd" \in all /\ "hdlr" \in all /\ "stts" \in all /\ "stco" \in all
  BY TrakFacts DEF Needed, OfTrack
<1>3. /\ "hint" \in all <=> Within(fd, t, "hint") # {}
      /\ "sdp" \in all <=> Within(fd, t, "sdp") # {}
      /\ "stss" \in all <=> Within(fd, t, "stss") # {}
  BY DEF Needed, OfTrack
<1>4. n = Cell(fd, tts + 16) /\ n > 0
  BY TrakFacts
<1>5. /\ tts \in fd.boxes /\ TypeOf(fd, tts) = "stts"
      /\ tco \in fd.boxes /\ TypeOf(fd, tco) = "stco"
  <2>1. tts \in Within(fd, t, "stts") /\ tco \in Within(fd, t, "stco")
    BY <1>2, Zenon DEF The
  <2> QED BY <2>1 DEF Within
<1>6. n \in Nat \ {0} /\ x \in Nat
  BY <1>4, <1>5, EnoughCells
<1> DEFINE d == PartOf(fd, t, End(fd, t))
<1>7. d.durs = durs /\ d.chunks = chunks
  <2>1. d = Drafted(fd, t, all)
    BY <1>1 DEF PartOf
  <2> HIDE DEF d, all
  <2>2. d.durs = [i \in 1..Cell(fd, tts + 16) |-> x] /\ d.chunks = chunks
    BY <1>2, <2>1, Zenon DEF Drafted
  <2> QED BY <1>4, <2>2
<1>8. Len(chunks) = n /\ DOMAIN durs = 1..n /\ chunks # << >>
  BY <1>6
<1>9. durs \in Seq(Nat) /\ Len(durs) = n /\ \A i \in 1..Len(durs) : durs[i] = x
  BY <1>6
<1>10. ASSUME NEW i \in 1..n
       PROVE  /\ Ends(durs)[i - 1] = (i - 1) * x
              /\ chunks[IF i <= Len(chunks) THEN i ELSE Len(chunks)] = Listed(fd, tco, i)
  <2>1. i - 1 \in 0..n
    BY <1>6
  <2>2. Ends(durs)[i - 1] = (i - 1) * x
    <3> HIDE DEF durs, n, x
    <3> QED BY <1>6, <1>9, <2>1, EndsSame
  <2>3. i <= Len(chunks)
    BY <1>6, <1>8
  <2> QED BY <2>2, <2>3
<1>11. Sampled(d) =
         [d EXCEPT !.samples = [i \in 1..n |-> [ts |-> (i - 1) * x,
                                                off |-> Listed(fd, tco, i)]],
                   !.durs = << >>, !.chunks = << >>]
  <2> DEFINE made == [i \in DOMAIN d.durs |->
                        [ts |-> Ends(d.durs)[i - 1],
                         off |-> d.chunks[IF i <= Len(d.chunks) THEN i ELSE Len(d.chunks)]]]
             said == [i \in 1..n |-> [ts |-> (i - 1) * x, off |-> Listed(fd, tco, i)]]
  <2>1. made = said
    <3> HIDE DEF d, durs, chunks, n, x
    <3>1. DOMAIN d.durs = 1..n
      BY <1>7, <1>8
    <3> QED BY <1>7, <1>10, <3>1
  <2>2. Sampled(d) = [d EXCEPT !.samples = made, !.durs = << >>, !.chunks = << >>]
    BY Zenon DEF Sampled
  <2> HIDE DEF made, said, d
  <2>3. Sampled(d) = [d EXCEPT !.samples = said, !.durs = << >>, !.chunks = << >>]
    BY <2>1, <2>2
  <2> QED BY <2>3 DEF said
<1>12. Sampled(d) = TrackOf(fd, t)
  <2> DEFINE iof == Dated(fd, The(fd, t, "tkhd"))
             tof == Name(Cell(fd, The(fd, t, "hdlr") + 16))
             mof == Dated(fd, The(fd, t, "mdhd"))
             rof == IF Within(fd, t, "hint") # {} THEN Cell(fd, The(fd, t, "hint") + 8) ELSE 0
             pof == IF Within(fd, t, "sdp") # {} THEN Cell(fd, The(fd, t, "sdp") + 8) ELSE 0
             kof == IF Within(fd, t, "stss") # {}
                    THEN [i \in 1..HowMany(fd, The(fd, t, "stss")) |->
                            Listed(fd, The(fd, t, "stss"), i) - 1]
                    ELSE << >>
             said == [i \in 1..n |-> [ts |-> (i - 1) * x, off |-> Listed(fd, tco, i)]]
             most == [id |-> iof, type |-> tof, scale |-> mof, refer |-> rof, sdp |-> pof,
                      keys |-> kof, durs |-> d.durs, chunks |-> d.chunks,
                      samples |-> << >>, readed |-> 0]
             done == [id |-> iof, type |-> tof, scale |-> mof, refer |-> rof, sdp |-> pof,
                      keys |-> kof, durs |-> << >>, chunks |-> << >>,
                      samples |-> said, readed |-> 0]
  <2>1. d = most
    <3>1. d = Drafted(fd, t, all)
      BY <1>1 DEF PartOf
    <3> DEFINE drs == [i \in 1..Cell(fd, tts + 16) |-> x]
    <3>2. d.durs = drs /\ d.chunks = chunks
      BY <1>4, <1>7
    <3>3. Drafted(fd, t, all) =
            [id |-> iof, type |-> tof, scale |-> mof, refer |-> rof, sdp |-> pof,
             keys |-> kof, durs |-> drs, chunks |-> chunks,
             samples |-> << >>, readed |-> 0]
      <4> HIDE DEF all, d
      <4> QED BY <1>2, <1>3, Zenon DEF Drafted
    <3> HIDE DEF d, all, drs, chunks, iof, tof, mof, rof, pof, kof
    <3> QED BY <3>1, <3>2, <3>3
  <2>2. TrackOf(fd, t) = done
    BY Zenon DEF TrackOf
  <2>3. Sampled(d) = [d EXCEPT !.samples = said, !.durs = << >>, !.chunks = << >>]
    BY <1>11
  <2> DEFINE dd == d.durs
             dc == d.chunks
  <2>4. most = [id |-> iof, type |-> tof, scale |-> mof, refer |-> rof, sdp |-> pof,
                keys |-> kof, durs |-> dd, chunks |-> dc, samples |-> << >>, readed |-> 0]
    OBVIOUS
  <2> HIDE DEF d, dd, dc, said, iof, tof, mof, rof, pof, kof
  <2>5. [d EXCEPT !.samples = said, !.durs = << >>, !.chunks = << >>] = done
    <3> DEFINE rec(ss, ds, cs) ==
                 [id |-> iof, type |-> tof, scale |-> mof, refer |-> rof, sdp |-> pof,
                  keys |-> kof, durs |-> ds, chunks |-> cs, samples |-> ss, readed |-> 0]
    <3>1. d = rec(<< >>, dd, dc) /\ done = rec(said, << >>, << >>)
      BY <2>1, <2>4
    <3>2. [rec(<< >>, dd, dc) EXCEPT !.samples = said] = rec(said, dd, dc)
      OBVIOUS
    <3>3. [rec(said, dd, dc) EXCEPT !.durs = << >>] = rec(said, << >>, dc)
      OBVIOUS
    <3>4. [rec(said, << >>, dc) EXCEPT !.chunks = << >>] = rec(said, << >>, << >>)
      OBVIOUS
    <3> HIDE DEF rec
    <3> QED BY <3>1, <3>2, <3>3, <3>4
  <2> QED BY <2>2, <2>3, <2>5
<1>13. d.chunks # << >>
  BY <1>7, <1>8
<1> QED BY <1>12, <1>13

-----------------------------------------------------------------------------
(* The walk through a legal movie, step by step.                           *)
\* A legal movie is open and its boxes are read.
Walking == TypeInv /\ WalkInv /\ pc = "box" /\ fd \in LegalFiles

(* What is known then.                                                     *)
LEMMA WalkFacts ==
  ASSUME Walking, NEW n, n = Len(stack)
  PROVE  /\ n \in Nat \ {0} /\ stack \in Seq(Wide) /\ stack # << >>
         /\ Top = stack[n] /\ Typed(stack, n) /\ pos \in Nat
         /\ Layers(fd, stack, pos) /\ Current(fd, stack, cur, pos)
         /\ Passed(fd, stack, pos, DOMAIN tracks)
         /\ fd \in LegalFiles /\ fd \in Files /\ fd \in AnyFile
<1>1. WalkType /\ pc = "box" /\ pos \in Nat
  BY DEF Walking, TypeInv
<1>2. /\ stack \in Seq(Wide) /\ stack # << >> /\ n \in Nat \ {0} /\ Top = stack[n]
      /\ \A i \in 1..n : stack[i] \in Frame
  BY <1>1, TopFacts
<1>3. Typed(stack, n)
  BY <1>2, FileAssumption DEF Typed, Frame
<1>4. fd \in LegalFiles /\ fd \in Files /\ fd \in AnyFile
  BY LegalFacts DEF Walking
<1>5. /\ Layers(fd, stack, pos) /\ Current(fd, stack, cur, pos)
      /\ Passed(fd, stack, pos, DOMAIN tracks)
  BY DEF Walking, WalkInv
<1> QED BY <1>1, <1>2, <1>3, <1>4, <1>5

(* The place is within all of the calls, and in the file.                  *)
LEMMA WithinCalls ==
  ASSUME NEW f \in LegalFiles, NEW s, NEW n \in Nat \ {0}, Len(s) = n, Typed(s, n),
         NEW p, Layers(f, s, p), NEW i \in 1..n
  PROVE  /\ s[i].offset <= p /\ p <= s[i].offset + s[i].size
         /\ s[n].readed < s[n].size => p < s[i].offset + s[i].size
         /\ s[i].offset + s[i].size <= FileEnd(f)
<1>1. /\ p = s[n].offset + s[n].readed /\ s[n].readed <= s[n].size
      /\ s[1].offset = 0 /\ s[1].size = FileEnd(f)
  BY DEF Layers, Place, Bottom
<1>2. /\ s[i].offset \in Nat /\ s[i].size \in Nat /\ s[n].offset \in Nat
      /\ s[n].size \in Nat /\ s[n].readed \in Nat /\ s[1].offset \in Nat /\ s[1].size \in Nat
  BY DEF Typed
<1>3. ASSUME NEW j \in 1..n, NEW k \in 1..n, j < k
      PROVE  /\ s[j].offset + 8 <= s[k].offset
             /\ s[k].offset + s[k].size <= s[j].offset + s[j].size
  BY <1>3 DEF Layers, Nested
<1>4. /\ s[i].offset <= p /\ p <= s[i].offset + s[i].size
      /\ s[n].readed < s[n].size => p < s[i].offset + s[i].size
  <2>1. CASE i = n
    BY <1>1, <1>2, <2>1
  <2>2. CASE i < n
    <3>1. n \in 1..n
      OBVIOUS
    <3>2. /\ s[i].offset + 8 <= s[n].offset
          /\ s[n].offset + s[n].size <= s[i].offset + s[i].size
      BY <1>3, <2>2, <3>1
    <3>3. PICK a \in Nat, b \in Nat, c \in Nat, d \in Nat, e \in Nat :
             /\ a = s[i].offset /\ b = s[i].size /\ c = s[n].offset
             /\ d = s[n].size /\ e = s[n].readed
      BY <1>2
    <3>4. p = c + e /\ e <= d /\ a + 8 <= c /\ c + d <= a + b
      BY <1>1, <3>2, <3>3
    <3>5. a <= p /\ p <= a + b /\ (e < d => p < a + b)
      BY <3>4
    <3> QED BY <3>3, <3>5
  <2> QED BY <2>1, <2>2
<1>5. s[i].offset + s[i].size <= FileEnd(f)
  <2>1. CASE i = 1
    BY <1>1, <1>2, <2>1
  <2>2. CASE i > 1
    BY <1>1, <1>2, <1>3, <2>2
  <2> QED BY <2>1, <2>2
<1> QED BY <1>4, <1>5

(* The walk is inside the boxes of its calls.                              *)
LEMMA InsideCalls ==
  ASSUME NEW f \in LegalFiles, NEW s, NEW n \in Nat \ {0}, Len(s) = n, Typed(s, n),
         NEW p, Layers(f, s, p), NEW i \in 2..n
  PROVE  /\ BoxOf(s, i) \in f.boxes /\ BoxOf(s, i) < p /\ p <= End(f, BoxOf(s, i))
         /\ s[n].readed < s[n].size => p < End(f, BoxOf(s, i))
         /\ s[i].track <=> BoxOf(s, i) \in Traks(f)
<1>1. /\ BoxOf(s, i) \in f.boxes /\ s[i].offset = BoxOf(s, i) + 8
      /\ End(f, BoxOf(s, i)) = s[i].offset + s[i].size
      /\ s[i].track <=> TypeOf(f, BoxOf(s, i)) = "trak"
  BY CallFacts
<1>2. /\ s[i].offset <= p /\ p <= s[i].offset + s[i].size
      /\ s[n].readed < s[n].size => p < s[i].offset + s[i].size
  BY WithinCalls
<1>3. BoxOf(s, i) \in Nat /\ s[i].offset \in Nat /\ s[n].offset \in Nat /\ s[n].readed \in Nat
  BY <1>1, BoxFacts DEF Typed
<1>4. p \in Nat
  BY <1>3 DEF Layers, Place
<1>5. BoxOf(s, i) < p
  BY <1>1, <1>2, <1>3, <1>4
<1>6. s[i].track <=> BoxOf(s, i) \in Traks(f)
  BY <1>1 DEF Traks
<1> QED BY <1>1, <1>2, <1>5, <1>6

(* Tracks do not nest: at most one call is one of ParseTrak.               *)
LEMMA TraksApart ==
  ASSUME NEW f \in LegalFiles, NEW t \in Traks(f), NEW u \in Traks(f), t < u
  PROVE  End(f, t) <= u
<1>1. Within(f, t, "trak") = {} /\ t \in f.boxes /\ u \in f.boxes /\ TypeOf(f, u) = "trak"
  BY TrakFacts
<1>2. End(f, t) \in Nat /\ u \in Nat
  BY <1>1, BoxFacts
<1>3. ~(u < End(f, t))
  BY <1>1 DEF Within
<1> QED BY <1>2, <1>3

(* No track is open when one begins.                                       *)
LEMMA NoneOpen ==
  ASSUME Walking, pos \in Traks(fd), Top.readed < Top.size
  PROVE  cur = << >> /\ \A i \in Calls(stack) : ~stack[i].track
<1>1. PICK n : n = Len(stack)
  OBVIOUS
<1>2. /\ n \in Nat \ {0} /\ stack \in Seq(Wide) /\ Top = stack[n] /\ Typed(stack, n)
      /\ Layers(fd, stack, pos) /\ fd \in LegalFiles /\ pos \in Nat
  BY <1>1, WalkFacts
<1>3. ASSUME NEW i \in 2..n, stack[i].track PROVE FALSE
  <2> DEFINE u == BoxOf(stack, i)
  <2>1. u \in Traks(fd) /\ u < pos /\ pos < End(fd, u)
    BY <1>1, <1>2, <1>3, InsideCalls
  <2>2. End(fd, u) <= pos
    BY <1>2, <2>1, TraksApart
  <2>3. End(fd, u) \in Nat
    BY <1>2, <2>1, BoxFacts DEF Traks
  <2> QED BY <1>2, <2>1, <2>2, <2>3
<1>4. ~stack[1].track
  BY <1>2 DEF Layers, Bottom
<1>5. Marks(stack) = {}
  <2>1. DOMAIN stack = 1..n
    BY <1>1, <1>2
  <2>2. ASSUME NEW i \in 1..n PROVE ~stack[i].track
    <3>1. CASE i = 1
      BY <1>4, <3>1
    <3>2. CASE i # 1
      <4>1. i \in 2..n
        BY <3>2
      <4> QED BY <1>3, <4>1
    <3> QED BY <3>1, <3>2
  <2> QED BY <2>1, <2>2 DEF Marks
<1>6. Cardinality(Marks(stack)) = Len(cur) /\ cur \in Seq(Record({0}))
  BY DEF Walking, TypeInv, WalkType
<1>7. cur = << >>
  BY <1>5, <1>6, FS_EmptySet, EmptySeq
<1> QED BY <1>1, <1>3, <1>7 DEF Calls

(* At the header of a box.                                                 *)
LEMMA HeaderFacts ==
  ASSUME Walking, Header, NEW n, n = Len(stack)
  PROVE  /\ pos \in fd.boxes /\ Type = TypeOf(fd, pos) /\ Body = pos + 8
         /\ Top.readed < Top.size /\ Cell(fd, pos) \in Nat /\ Cell(fd, pos) >= 8
         /\ Rest = Cell(fd, pos) - 8 /\ Rest \in Nat
         /\ pos = Top.offset + Top.readed /\ End(fd, pos) = pos + Cell(fd, pos)
         /\ End(fd, pos) <= FileEnd(fd) /\ End(fd, pos) \in Nat
<1>1. /\ n \in Nat \ {0} /\ Top = stack[n] /\ Typed(stack, n)
      /\ Layers(fd, stack, pos) /\ fd \in LegalFiles /\ pos \in Nat
  BY WalkFacts
<1>2. Top.readed < Top.size
  BY DEF Header, Unread
<1>3. stack[n].readed \in Nat /\ stack[n].size \in Nat
  BY <1>1 DEF Typed
<1>4. pos \in fd.boxes /\ pos = Top.offset + Top.readed
  BY <1>1, <1>2, <1>3 DEF Layers, Place
<1>5. /\ Cell(fd, pos) \in Nat /\ Cell(fd, pos) >= 8 /\ End(fd, pos) = pos + Cell(fd, pos)
      /\ End(fd, pos) <= FileEnd(fd) /\ End(fd, pos) \in Nat
  BY <1>1, <1>4, BoxFacts
<1>6. FileEnd(fd) \in Nat /\ FileEnd(fd) < Wrap /\ Wrap \in Nat \ {0}
  BY <1>1, LegalFacts
<1>7. Cell(fd, pos) - 8 \in 0..Wrap - 1
  BY <1>1, <1>5, <1>6
<1>8. Rest = Cell(fd, pos) - 8
  <2>1. (Cell(fd, pos) - 8) % Wrap = Cell(fd, pos) - 8
    <3>1. PICK x \in Int : x = Cell(fd, pos) - 8
      BY <1>5
    <3>2. x % Wrap = x
      BY <1>6, <1>7, <3>1, InRange
    <3> QED BY <3>1, <3>2
  <2> QED BY <2>1 DEF Rest, At
<1>9. Type = TypeOf(fd, pos)
  BY DEF Type, TypeOf, At
<1> QED BY <1>2, <1>4, <1>5, <1>7, <1>8, <1>9 DEF Body

(* A number that is small enough is not cut.                               *)
LEMMA Uncut == ASSUME NEW w \in Nat \ {0}, NEW x \in Nat, x < w PROVE x % w = x
OBVIOUS

(* A box that holds others is entered.                                     *)
LEMMA EnterWalk == Walking /\ Enter => WalkInv'
<1> SUFFICES ASSUME Walking, Enter PROVE WalkInv'
  OBVIOUS
<1>1. PICK n : n = Len(stack)
  OBVIOUS
<1>2. /\ n \in Nat \ {0} /\ stack \in Seq(Wide) /\ stack # << >>
      /\ Top = stack[n] /\ Typed(stack, n) /\ pos \in Nat
      /\ Layers(fd, stack, pos) /\ Current(fd, stack, cur, pos)
      /\ Passed(fd, stack, pos, DOMAIN tracks)
      /\ fd \in LegalFiles
  BY <1>1, WalkFacts
<1>3. Header
  BY DEF Enter
<1>4. /\ pos \in fd.boxes /\ Type = TypeOf(fd, pos) /\ Body = pos + 8
      /\ Top.readed < Top.size /\ Cell(fd, pos) \in Nat /\ Cell(fd, pos) >= 8
      /\ Rest = Cell(fd, pos) - 8 /\ Rest \in Nat
      /\ pos = Top.offset + Top.readed /\ End(fd, pos) = pos + Cell(fd, pos)
      /\ End(fd, pos) <= FileEnd(fd) /\ End(fd, pos) \in Nat
  BY <1>1, <1>3, HeaderFacts
<1>5. TypeOf(fd, pos) \in Holders
  BY <1>4 DEF Enter, Holders
<1>6. FileEnd(fd) \in Nat /\ FileEnd(fd) < Wrap /\ Wrap \in Nat \ {0}
  BY <1>2, LegalFacts
<1>23. pos + 8 < Wrap /\ Rest < Wrap /\ pos + 8 \in Nat
  <2>1. PICK c \in Nat, e \in Nat, w \in Nat :
           c = Cell(fd, pos) /\ e = FileEnd(fd) /\ w = Wrap
    BY <1>4, <1>6
  <2>2. pos + c <= e /\ c >= 8 /\ e < w /\ Rest = c - 8
    BY <1>4, <1>6, <2>1
  <2>3. pos + 8 < w /\ Rest < w /\ pos + 8 \in Nat
    BY <1>2, <2>2
  <2> QED BY <2>1, <2>3
<1>7. Top.offset \in Nat /\ Top.readed \in Nat
  BY <1>2 DEF Typed
<1>8. /\ (Top.readed + 8) % Wrap = Top.readed + 8
      /\ (Top.offset + Top.readed + 8) % Wrap = pos + 8
  <2>1. PICK a \in Nat, b \in Nat : a = Top.offset /\ b = Top.readed
    BY <1>7
  <2>2. a + b + 8 = pos + 8 /\ pos + 8 \in 0..Wrap - 1 /\ b + 8 \in 0..Wrap - 1
    <3>1. pos = a + b
      BY <1>4, <2>1
    <3>2. pos + 8 < Wrap
      BY <1>23
    <3> QED BY <1>6, <3>1, <3>2
  <2>3. (b + 8) % Wrap = b + 8
    <3>1. b + 8 \in Nat /\ b + 8 < Wrap
      BY <1>6, <2>1, <2>2
    <3> QED BY <1>6, <3>1, Uncut
  <2>4. (pos + 8) % Wrap = pos + 8
    BY <1>6, <1>23, Uncut
  <2> QED BY <2>1, <2>2, <2>3, <2>4
<1> DEFINE t == [offset |-> pos + 8, size |-> Rest, readed |-> 0, track |-> Type = "trak"]
           s == Moved(stack, Top.readed + 8)
<1>9. /\ stack' = Append(s, t) /\ pos' = pos + 8
      /\ cur' = (IF Type = "trak" THEN Append(cur, NoTrack) ELSE cur)
      /\ UNCHANGED <<fd, tracks>>
  BY <1>1, <1>2, <1>4, <1>8 DEF Enter, Moved
<1>10. t \in Wide /\ t.offset = pos + 8 /\ t.size = Rest /\ t.readed = 0
       /\ (t.track <=> Type = "trak")
  <2>1. pos + 8 \in 0..Wrap - 1 /\ Rest \in 0..Wrap - 1
    BY <1>2, <1>4, <1>6, <1>23, SMTT(40)
  <2> QED BY <2>1 DEF Wide
<1>11. /\ s \in Seq(Wide) /\ s # << >> /\ Len(s) = n
       /\ \A i \in 1..n - 1 : s[i] = stack[i]
       /\ s[n].offset = Top.offset /\ s[n].size = Top.size
       /\ s[n].track = Top.track /\ s[n].readed = Top.readed + 8
  <2>1. Top.readed + 8 \in Nat
    BY <1>7
  <2> QED BY <1>1, <1>2, <2>1, MovedFacts, ZenonT(40)
<1> HIDE DEF s, t
<1>12. /\ Len(stack') = n + 1 /\ stack'[n + 1] = t
       /\ \A i \in 1..n : stack'[i] = s[i]
  BY <1>9, <1>10, <1>11, PushFacts
<1>13. \A i \in 1..n - 1 : stack'[i] = stack[i]
  <2>1. \A i \in 1..n - 1 : i \in 1..n
    BY <1>2
  <2> QED BY <1>11, <1>12, <2>1
<1>14. /\ stack'[n].offset = stack[n].offset /\ stack'[n].size = stack[n].size
       /\ stack'[n].track = stack[n].track /\ stack'[n].readed = stack[n].readed + 8
  <2>1. n \in 1..n
    BY <1>2
  <2> QED BY <1>2, <1>11, <1>12, <2>1
<1>15. Alike(stack, stack', n)
  <2>1. ASSUME NEW i \in 1..n
        PROVE  /\ stack'[i].offset = stack[i].offset /\ stack'[i].size = stack[i].size
               /\ stack'[i].track <=> stack[i].track
    <3>1. CASE i = n
      BY <1>14, <3>1
    <3>2. CASE i # n
      <4>1. i \in 1..n - 1
        BY <1>2, <3>2
      <4> QED BY <1>13, <4>1
    <3> QED BY <3>1, <3>2
  <2> QED BY <2>1 DEF Alike
<1>16. Typed(stack', n + 1)
  <2>1. ASSUME NEW i \in 1..n + 1
        PROVE  stack'[i].offset \in Nat /\ stack'[i].size \in Nat /\ stack'[i].readed \in Nat
    <3>1. CASE i = n + 1
      <4>1. pos + 8 \in Nat /\ 0 \in Nat
        BY <1>2
      <4> QED BY <1>4, <1>10, <1>12, <3>1, <4>1
    <3>2. CASE i = n
      <4>1. stack[n].readed + 8 \in Nat
        BY <1>2, <1>7
      <4> QED BY <1>2, <1>14, <3>2, <4>1 DEF Typed
    <3>3. CASE i \in 1..n - 1
      BY <1>2, <1>13, <3>3 DEF Typed
    <3> QED BY <1>2, <3>1, <3>2, <3>3
  <2> QED BY <2>1 DEF Typed
<1>17. Layers(fd, stack', pos + 8)
  <2>1. \A i \in 1..n - 1 : stack'[i].readed = stack[i].readed
    BY <1>13
  <2>2. stack[n].readed < stack[n].size /\ stack'[n].readed = stack[n].readed + 8
    BY <1>2, <1>4, <1>14
  <2>3. /\ stack'[n + 1].offset = pos + 8 /\ stack'[n + 1].size = Cell(fd, pos) - 8
        /\ stack'[n + 1].readed = 0
        /\ stack'[n + 1].track <=> TypeOf(fd, pos) = "trak"
    BY <1>4, <1>10, <1>12
  <2> DEFINE r == stack'
  <2>4. Len(r) = n + 1 /\ Typed(r, n + 1) /\ Alike(stack, r, n)
    BY <1>12, <1>15, <1>16
  <2>5. (\A i \in 1..n - 1 : r[i].readed = stack[i].readed) /\ r[n].readed = stack[n].readed + 8
    BY <2>1, <2>2
  <2>6. /\ r[n + 1].offset = pos + 8 /\ r[n + 1].size = Cell(fd, pos) - 8
        /\ r[n + 1].readed = 0 /\ (r[n + 1].track <=> TypeOf(fd, pos) = "trak")
    BY <2>3
  <2> HIDE DEF r
  <2>7. Layers(fd, r, pos + 8)
    BY <1>1, <1>2, <1>4, <1>5, <2>2, <2>4, <2>5, <2>6, PushLayers
  <2> QED BY <2>7 DEF r
<1>18. ASSUME NEW i \in 2..n
       PROVE  /\ BoxOf(stack', i) = BoxOf(stack, i)
              /\ stack'[i].track <=> stack[i].track
  BY <1>15, <1>18 DEF Alike, BoxOf
<1>19. BoxOf(stack', n + 1) = pos
  BY <1>2, <1>10, <1>12 DEF BoxOf
<1>20. Current(fd, stack', cur', pos + 8)
  <2>1. ASSUME NEW i \in 2..n + 1, stack'[i].track
        PROVE  cur' = <<PartOf(fd, BoxOf(stack', i), pos + 8)>>
    <3>1. CASE Type = "trak"
      <4>1. pos \in Traks(fd)
        BY <1>4, <3>1 DEF Traks
      <4>2. cur = << >> /\ \A j \in 2..n : ~stack[j].track
        BY <1>1, <1>4, <4>1, NoneOpen DEF Calls
      <4>3. i = n + 1
        BY <1>2, <1>18, <2>1, <4>2
      <4>4. cur' = <<NoTrack>>
        BY <1>9, <3>1, <4>2
      <4> QED BY <1>2, <1>19, <4>1, <4>3, <4>4, PartFirst
    <3>2. CASE Type # "trak"
      <4>1. ~stack'[n + 1].track
        BY <1>10, <1>12, <3>2
      <4>2. i \in 2..n
        BY <1>2, <2>1, <4>1
      <4>3. stack[i].track /\ BoxOf(stack', i) = BoxOf(stack, i)
        BY <1>18, <2>1, <4>2
      <4>4. cur = <<PartOf(fd, BoxOf(stack, i), pos)>>
        BY <1>1, <1>2, <4>2, <4>3 DEF Current, Calls
      <4>5. BoxOf(stack, i) \in Traks(fd)
        BY <1>1, <1>2, <4>2, <4>3, InsideCalls
      <4>6. PartOf(fd, BoxOf(stack, i), pos + 8) = PartOf(fd, BoxOf(stack, i), pos)
        BY <1>2, <1>4, <1>5, <4>5, PartEnter
      <4> QED BY <1>9, <3>2, <4>3, <4>4, <4>6
    <3> QED BY <3>1, <3>2
  <2> QED BY <1>12, <2>1 DEF Current, Calls
<1>21. Passed(fd, stack', pos + 8, DOMAIN tracks)
  <2>1. ASSUME NEW t1 \in Traks(fd), OnStack(stack, t1) PROVE OnStack(stack', t1)
    <3>1. PICK i \in 2..n : BoxOf(stack, i) = t1
      BY <1>1, <2>1 DEF OnStack, Calls
    <3>2. BoxOf(stack', i) = t1 /\ i \in 2..n + 1
      BY <1>2, <1>18, <3>1
    <3> QED BY <1>12, <3>2 DEF OnStack, Calls
  <2>2. OnStack(stack', pos)
    <3>1. n + 1 \in 2..n + 1
      BY <1>2
    <3> QED BY <1>12, <1>19, <3>1 DEF OnStack, Calls
  <2>3. ASSUME NEW t1 \in Traks(fd), End(fd, t1) <= pos + 8
        PROVE  OnStack(stack', t1) \/ TrackOf(fd, t1).id \in DOMAIN tracks
    <3>1. t1 \in fd.boxes /\ t1 \in Nat /\ End(fd, t1) \in Nat /\ t1 + 8 <= End(fd, t1)
      BY <1>2, BoxFacts DEF Traks
    <3>2. CASE End(fd, t1) <= pos
      BY <1>2, <2>1, <3>2 DEF Passed
    <3>3. CASE pos < End(fd, t1) /\ t1 < pos
      BY <1>2, <2>1, <3>1, <3>3 DEF Layers, Around
    <3>4. CASE t1 = pos
      BY <2>2, <3>4
    <3> QED BY <1>2, <2>3, <3>1, <3>2, <3>3, <3>4
  <2> QED BY <2>3 DEF Passed
<1> QED BY <1>9, <1>17, <1>20, <1>21 DEF WalkInv

(* Behind a box of a legal movie the file can be sought.                   *)
LEMMA SkipTo ==
  ASSUME fd \in LegalFiles, NEW calls, NEW more \in Nat, Skip(calls, more),
         NEW n, n = Len(calls), calls[n].offset \in Nat, calls[n].readed \in Nat,
         calls[n].offset + calls[n].readed + more <= FileEnd(fd)
  PROVE  /\ stack' = Moved(calls, calls[n].readed + more)
         /\ pos' = calls[n].offset + calls[n].readed + more
         /\ pc' = pc /\ fd' = fd
<1>1. /\ FileEnd(fd) \in Nat /\ FileEnd(fd) < Wrap \div 2 /\ FileEnd(fd) < Wrap
      /\ Wrap \in Nat \ {0}
  BY LegalFacts
<1>2. PICK a \in Nat, b \in Nat : a = calls[n].offset /\ b = calls[n].readed
  OBVIOUS
<1>3. /\ b + more \in Nat /\ b + more < Wrap /\ a + (b + more) \in Nat
      /\ a + (b + more) < Wrap /\ a + (b + more) < Wrap \div 2
      /\ a + b + more = a + (b + more)
  <2>1. PICK e \in Nat, w \in Nat, h \in Int : e = FileEnd(fd) /\ w = Wrap /\ h = Wrap \div 2
    BY <1>1
  <2>2. a + b + more <= e /\ e < w /\ e < h
    BY <1>1, <1>2, <2>1
  <2>3. /\ b + more \in Nat /\ b + more < w /\ a + (b + more) \in Nat
        /\ a + (b + more) < w /\ a + (b + more) < h
        /\ a + b + more = a + (b + more)
    BY <2>2
  <2> QED BY <2>1, <2>3
<1>4. (b + more) % Wrap = b + more
  BY <1>1, <1>3, Uncut
<1>5. (a + (b + more)) % Wrap = a + (b + more)
  BY <1>1, <1>3, Uncut
<1>6. /\ stack' = [calls EXCEPT ![n].readed = b + more]
      /\ pos' = a + (b + more) /\ pc' = pc /\ fd' = fd
  BY <1>2, <1>3, <1>4, <1>5 DEF Skip
<1> QED BY <1>2, <1>3, <1>6 DEF Moved

(* A box that holds none is read, and what it says of a track.             *)
LEMMA LeafWalk ==
  ASSUME Walking, Leaf, Behind, UNCHANGED tracks,
         cur' = IF Type \in OfTrack /\ cur # << >>
                THEN [cur EXCEPT ![Len(cur)] = Told(Type, Body, @)] ELSE cur
  PROVE  WalkInv'
<1>1. PICK n : n = Len(stack)
  OBVIOUS
<1>2. /\ n \in Nat \ {0} /\ stack \in Seq(Wide) /\ stack # << >>
      /\ Top = stack[n] /\ Typed(stack, n) /\ pos \in Nat
      /\ Layers(fd, stack, pos) /\ Current(fd, stack, cur, pos)
      /\ Passed(fd, stack, pos, DOMAIN tracks)
      /\ fd \in LegalFiles
  BY <1>1, WalkFacts
<1>3. Header
  BY DEF Leaf
<1>4. /\ pos \in fd.boxes /\ Type = TypeOf(fd, pos) /\ Body = pos + 8
      /\ Top.readed < Top.size /\ Cell(fd, pos) \in Nat /\ Cell(fd, pos) >= 8
      /\ Rest = Cell(fd, pos) - 8 /\ Rest \in Nat
      /\ pos = Top.offset + Top.readed /\ End(fd, pos) = pos + Cell(fd, pos)
      /\ End(fd, pos) <= FileEnd(fd) /\ End(fd, pos) \in Nat
  BY <1>1, <1>3, HeaderFacts
<1>5. TypeOf(fd, pos) \notin Holders
  BY <1>4 DEF Leaf, Holders
<1>6. Top.offset \in Nat /\ Top.readed \in Nat
  BY <1>2 DEF Typed
<1> DEFINE s == Moved(stack, Top.readed + 8)
<1>7. /\ s \in Seq(Wide) /\ s # << >> /\ Len(s) = n
      /\ \A i \in 1..n - 1 : s[i] = stack[i]
      /\ s[n].offset = Top.offset /\ s[n].size = Top.size
      /\ s[n].track = Top.track /\ s[n].readed = Top.readed + 8
  <2>1. Top.readed + 8 \in Nat
    BY <1>6
  <2> QED BY <1>1, <1>2, <2>1, MovedFacts
<1>8. Skip(s, Rest)
  BY <1>1, <1>2 DEF Behind, Moved
<1> HIDE DEF s
<1> DEFINE to == Top.readed + Cell(fd, pos)
           r == Moved(s, to)
<1>9. stack' = r /\ pos' = End(fd, pos) /\ pc' = pc /\ fd' = fd
  <2>1. PICK a \in Nat, b \in Nat, c \in Nat :
           a = Top.offset /\ b = Top.readed /\ c = Cell(fd, pos)
    BY <1>4, <1>6
  <2>2. s[n].offset \in Nat /\ s[n].readed \in Nat
    BY <1>6, <1>7
  <2>3. /\ s[n].offset + s[n].readed + Rest = End(fd, pos)
        /\ s[n].readed + Rest = to
    <3>1. s[n].offset = a /\ s[n].readed = b + 8 /\ Rest = c - 8 /\ End(fd, pos) = a + b + c
      BY <1>4, <1>7, <2>1
    <3>2. a + (b + 8) + (c - 8) = a + b + c /\ b + 8 + (c - 8) = b + c
      OBVIOUS
    <3> QED BY <2>1, <3>1, <3>2
  <2>4. s[n].offset + s[n].readed + Rest <= FileEnd(fd)
    BY <1>4, <2>3
  <2>5. /\ stack' = Moved(s, s[n].readed + Rest)
        /\ pos' = s[n].offset + s[n].readed + Rest /\ pc' = pc /\ fd' = fd
    <3>4. PICK calls : calls = s
      OBVIOUS
    <3>5. PICK m \in Nat : m = Rest
      BY <1>4
    <3>1. calls = s /\ m = Rest
      BY <3>4, <3>5
    <3>2. /\ Skip(calls, m) /\ n = Len(calls) /\ calls[n].offset \in Nat
          /\ calls[n].readed \in Nat
          /\ calls[n].offset + calls[n].readed + m <= FileEnd(fd)
      BY <1>7, <1>8, <2>2, <2>4, <3>1
    <3>3. /\ stack' = Moved(calls, calls[n].readed + m)
          /\ pos' = calls[n].offset + calls[n].readed + m /\ pc' = pc /\ fd' = fd
      BY ONLY <1>2, <3>1, <3>2, SkipTo
    <3> QED BY <3>1, <3>3
  <2> QED BY <2>3, <2>5
<1>10. /\ Len(r) = n /\ \A i \in 1..n - 1 : r[i] = stack[i]
       /\ r[n].offset = stack[n].offset /\ r[n].size = stack[n].size
       /\ r[n].track = stack[n].track /\ r[n].readed = stack[n].readed + Cell(fd, pos)
  <2>1. to \in Nat
    BY <1>4, <1>6
  <2>2. /\ Len(r) = n /\ \A i \in 1..n - 1 : r[i] = s[i]
        /\ r[n].offset = s[n].offset /\ r[n].size = s[n].size
        /\ r[n].track = s[n].track /\ r[n].readed = to
    <3> HIDE DEF to
    <3> QED BY <1>7, <2>1, MovedFacts
  <2> QED BY <1>2, <1>7, <2>2
<1> HIDE DEF r, to
<1>11. Alike(stack, r, n)
  <2>1. ASSUME NEW i \in 1..n
        PROVE  /\ r[i].offset = stack[i].offset /\ r[i].size = stack[i].size
               /\ r[i].track <=> stack[i].track
    <3>1. CASE i = n
      BY <1>10, <3>1
    <3>2. CASE i # n
      <4>1. i \in 1..n - 1
        BY <1>2, <3>2
      <4> QED BY <1>10, <4>1
    <3> QED BY <3>1, <3>2
  <2> QED BY <2>1 DEF Alike
<1>12. Typed(r, n)
  <2>1. ASSUME NEW i \in 1..n
        PROVE  r[i].offset \in Nat /\ r[i].size \in Nat /\ r[i].readed \in Nat
    <3>1. CASE i = n
      <4>1. stack[n].readed + Cell(fd, pos) \in Nat
        BY <1>2, <1>4, <1>6, SMTT(40)
      <4> QED BY <1>2, <1>10, <3>1, <4>1 DEF Typed
    <3>2. CASE i # n
      <4>1. i \in 1..n - 1
        BY <1>2, <3>2
      <4> QED BY <1>2, <1>10, <4>1 DEF Typed
    <3> QED BY <3>1, <3>2
  <2> QED BY <2>1 DEF Typed
<1>13. Layers(fd, r, End(fd, pos))
  <2>1. stack[n].readed < stack[n].size
    BY <1>2, <1>4
  <2>2. \A i \in 1..n - 1 : r[i].readed = stack[i].readed
    BY <1>10
  <2> QED BY <1>1, <1>2, <1>4, <1>5, <1>10, <1>11, <1>12, <2>1, <2>2, SkipLayers
<1>14. ASSUME NEW i \in 2..n
       PROVE  /\ BoxOf(r, i) = BoxOf(stack, i)
              /\ r[i].track <=> stack[i].track
  BY <1>11, <1>14 DEF Alike, BoxOf
<1>15. Current(fd, r, cur', End(fd, pos))
  <2>1. ASSUME NEW i \in 2..n, r[i].track
        PROVE  cur' = <<PartOf(fd, BoxOf(r, i), End(fd, pos))>>
    <3> DEFINE u == BoxOf(stack, i)
    <3>1. u = BoxOf(r, i) /\ stack[i].track
      BY <1>14, <2>1
    <3>2. cur = <<PartOf(fd, u, pos)>>
      BY <1>1, <1>2, <3>1 DEF Current, Calls
    <3>3. u \in Traks(fd) /\ u < pos /\ pos < End(fd, u)
      BY <1>1, <1>2, <1>4, <3>1, InsideCalls
    <3> HIDE DEF u
    <3>4. CASE Type \in OfTrack
      <4>1. pos \in Within(fd, u, Type)
        BY <1>4, <3>3 DEF Within
      <4>2. Told(Type, pos + 8, PartOf(fd, u, pos)) = PartOf(fd, u, End(fd, pos))
        BY <1>2, <3>3, <3>4, <4>1, PartTold
      <4>3. cur' = [cur EXCEPT ![Len(cur)] = Told(Type, pos + 8, @)]
        BY <1>4, <3>2, <3>4
      <4>4. cur' = <<Told(Type, pos + 8, PartOf(fd, u, pos))>>
        <5> DEFINE part == PartOf(fd, u, pos)
        <5>1. Len(cur) = 1 /\ cur[1] = part /\ cur = <<part>>
          BY <3>2
        <5> HIDE DEF part
        <5> DEFINE told == Told(Type, pos + 8, part)
        <5>2. cur' = [cur EXCEPT ![1] = told]
          BY <4>3, <5>1
        <5> HIDE DEF told
        <5>3. cur' = <<told>>
          BY <5>1, <5>2
        <5> QED BY <5>3 DEF told, part
      <4> QED BY <3>1, <4>2, <4>4
    <3>5. CASE Type \notin OfTrack
      <4>1. PartOf(fd, u, End(fd, pos)) = PartOf(fd, u, pos)
        BY <1>2, <1>4, <1>5, <3>3, <3>5, PartOther
      <4> QED BY <3>1, <3>2, <3>5, <4>1
    <3> QED BY <3>4, <3>5
  <2> QED BY <1>10, <2>1 DEF Current, Calls
<1>16. Passed(fd, r, End(fd, pos), DOMAIN tracks)
  <2>1. ASSUME NEW t1 \in Traks(fd), OnStack(stack, t1) PROVE OnStack(r, t1)
    <3>1. PICK i \in 2..n : BoxOf(stack, i) = t1
      BY <1>1, <2>1 DEF OnStack, Calls
    <3>2. BoxOf(r, i) = t1
      BY <1>14, <3>1
    <3> QED BY <1>10, <3>2 DEF OnStack, Calls
  <2>2. ASSUME NEW t1 \in Traks(fd), End(fd, t1) <= End(fd, pos)
        PROVE  OnStack(r, t1) \/ TrackOf(fd, t1).id \in DOMAIN tracks
    <3>1. t1 \in fd.boxes /\ t1 \in Nat /\ End(fd, t1) \in Nat /\ t1 + 8 <= End(fd, t1)
          /\ TypeOf(fd, t1) \in Holders
      BY <1>2, BoxFacts DEF Traks, Holders
    <3>2. CASE End(fd, t1) <= pos
      BY <1>2, <2>1, <3>2 DEF Passed
    <3>3. CASE pos < End(fd, t1) /\ t1 < pos
      BY <1>2, <2>1, <3>1, <3>3 DEF Layers, Around
    <3>4. t1 # pos
      BY <1>5, <3>1
    <3>5. ~(pos < t1)
      <4>1. SUFFICES ASSUME pos < t1 PROVE FALSE
        OBVIOUS
      <4>2. t1 < End(fd, pos)
        BY <1>4, <2>2, <3>1
      <4>3. TypeOf(fd, pos) \in Holders
        BY <1>2, <1>4, <3>1, <4>1, <4>2, Nesting
      <4> QED BY <1>5, <4>3
    <3> QED BY <1>2, <3>1, <3>2, <3>3, <3>4, <3>5
  <2> QED BY <2>2 DEF Passed
<1> QED BY <1>9, <1>13, <1>15, <1>16 DEF WalkInv

(* A call that has read its box is at its end.                             *)
LEMMA CallEnds ==
  ASSUME Walking, Read, NEW n, n = Len(stack), n # 1
  PROVE  n \in 2..n /\ n \in Nat /\ End(fd, BoxOf(stack, n)) = pos
<1>1. /\ n \in Nat \ {0} /\ Top = stack[n] /\ Typed(stack, n)
      /\ Layers(fd, stack, pos) /\ fd \in LegalFiles
  BY WalkFacts
<1>2. n \in 2..n
  BY <1>1
<1>3. stack[n].size \in Nat /\ stack[n].readed \in Nat
  BY <1>1 DEF Typed
<1>4. stack[n].readed = stack[n].size /\ pos = stack[n].offset + stack[n].readed
  BY <1>1, <1>3 DEF Layers, Place, Read
<1>5. End(fd, BoxOf(stack, n)) = stack[n].offset + stack[n].size
  BY <1>1, <1>2, CallFacts
<1> QED BY <1>1, <1>2, <1>4, <1>5

(* It returns into the one before.                                         *)
LEMMA ReturnWalk ==
  ASSUME Walking, Read, Return, NEW n, n = Len(stack)
  PROVE  /\ n \in Nat \ {0, 1} /\ pos' = pos /\ fd' = fd /\ pc' = pc
         /\ Len(stack') = n - 1 /\ Alike(stack, stack', n - 1)
         /\ Layers(fd, stack', pos)
         /\ End(fd, BoxOf(stack, n)) = pos
<1>1. /\ n \in Nat \ {0} /\ stack \in Seq(Wide) /\ Top = stack[n] /\ Typed(stack, n)
      /\ pos \in Nat /\ Layers(fd, stack, pos) /\ fd \in LegalFiles
  BY WalkFacts
<1>2. Len(stack) > 1 /\ Skip(Front(stack), Top.size) /\ Top.readed >= Top.size
  BY DEF Return, Read
<1>3. n \in Nat \ {0, 1} /\ n - 1 \in 1..n - 1 /\ n - 1 \in Nat \ {0}
  BY <1>1, <1>2
<1> DEFINE s == Front(stack)
<1>4. /\ s \in Seq(Wide) /\ s # << >> /\ Len(s) = n - 1
      /\ \A i \in 1..n - 1 : s[i] = stack[i]
  BY <1>1, <1>2, PopFacts
<1>5. /\ stack[n].offset \in Nat /\ stack[n].size \in Nat /\ stack[n].readed \in Nat
      /\ stack[n - 1].offset \in Nat /\ stack[n - 1].readed \in Nat
  BY <1>1, <1>3 DEF Typed
<1>6. stack[n].readed = stack[n].size /\ pos = stack[n].offset + stack[n].readed
  BY <1>1, <1>2, <1>5 DEF Layers, Place
<1>7. stack[n - 1].offset + stack[n - 1].readed = stack[n].offset
  <2>1. (n - 1) + 1 = n
    BY <1>1
  <2>2. \A i \in 1..n - 1 : stack[i].offset + stack[i].readed = stack[i + 1].offset
    BY <1>1 DEF Layers, Nested
  <2> QED BY <1>3, <2>1, <2>2
<1>8. Skip(s, Top.size)
  BY <1>2
<1> HIDE DEF s
<1> DEFINE to == stack[n - 1].readed + stack[n].size
           r == Moved(s, to)
<1>9. stack' = r /\ pos' = pos /\ pc' = pc /\ fd' = fd
  <2>1. s[n - 1] = stack[n - 1]
    BY <1>3, <1>4
  <2>2. stack[n - 1].offset + stack[n - 1].readed + stack[n].size = pos
    BY <1>6, <1>7
  <2>3. pos <= FileEnd(fd)
    <3>1. n \in 1..n /\ FileEnd(fd) \in Nat
      BY <1>1, LegalFacts
    <3>2. pos <= stack[n].offset + stack[n].size /\ stack[n].offset + stack[n].size <= FileEnd(fd)
      BY <1>1, <3>1, WithinCalls
    <3> QED BY <1>1, <1>5, <3>1, <3>2
  <2>4. PICK calls : calls = s
    OBVIOUS
  <2>5. PICK m \in Nat : m = Top.size
    BY <1>1, <1>5
  <2>6. PICK k : k = n - 1
    OBVIOUS
  <2>7. /\ Skip(calls, m) /\ k = Len(calls) /\ calls[k].offset \in Nat
        /\ calls[k].readed \in Nat
        /\ calls[k].offset + calls[k].readed + m <= FileEnd(fd)
    BY <1>1, <1>4, <1>5, <1>8, <2>1, <2>2, <2>3, <2>4, <2>5, <2>6
  <2>8. /\ stack' = Moved(calls, calls[k].readed + m)
        /\ pos' = calls[k].offset + calls[k].readed + m /\ pc' = pc /\ fd' = fd
    BY ONLY <1>1, <2>5, <2>7, SkipTo
  <2> QED BY <1>1, <2>1, <2>2, <2>4, <2>5, <2>6, <2>8
<1>10. /\ Len(r) = n - 1 /\ \A i \in 1..n - 2 : r[i] = stack[i]
       /\ r[n - 1].offset = stack[n - 1].offset /\ r[n - 1].size = stack[n - 1].size
       /\ r[n - 1].track = stack[n - 1].track
       /\ r[n - 1].readed = stack[n - 1].readed + stack[n].size
  <2>1. to \in Nat
    BY <1>5
  <2>2. /\ Len(r) = Len(s) /\ \A i \in 1..Len(s) - 1 : r[i] = s[i]
        /\ r[Len(s)].offset = s[Len(s)].offset /\ r[Len(s)].size = s[Len(s)].size
        /\ r[Len(s)].track = s[Len(s)].track /\ r[Len(s)].readed = to
    <3> HIDE DEF to
    <3> QED BY <1>4, <2>1, MovedFacts
  <2>3. Len(s) - 1 = n - 2 /\ \A i \in 1..n - 2 : i \in 1..n - 1
    BY <1>1, <1>4
  <2>4. \A i \in 1..n - 2 : r[i] = stack[i]
    <3> HIDE DEF r
    <3> QED BY <1>4, <2>2, <2>3
  <2>5. s[n - 1] = stack[n - 1]
    BY <1>3, <1>4
  <2> QED BY <1>4, <2>2, <2>4, <2>5
<1> HIDE DEF r, to
<1>11. Alike(stack, r, n - 1)
  <2>1. ASSUME NEW i \in 1..n - 1
        PROVE  /\ r[i].offset = stack[i].offset /\ r[i].size = stack[i].size
               /\ r[i].track <=> stack[i].track
    <3>1. CASE i = n - 1
      BY <1>10, <3>1
    <3>2. CASE i # n - 1
      <4>1. i \in 1..n - 2
        BY <1>1, <3>2
      <4> QED BY <1>10, <4>1
    <3> QED BY <3>1, <3>2
  <2> QED BY <2>1 DEF Alike
<1>12. Typed(r, n - 1)
  <2>1. ASSUME NEW i \in 1..n - 1
        PROVE  r[i].offset \in Nat /\ r[i].size \in Nat /\ r[i].readed \in Nat
    <3>1. stack[i].offset \in Nat /\ stack[i].size \in Nat /\ stack[i].readed \in Nat
      BY <1>1 DEF Typed
    <3>2. CASE i = n - 1
      <4>1. stack[n - 1].readed + stack[n].size \in Nat
        BY <1>5
      <4> QED BY <1>10, <3>1, <3>2, <4>1
    <3>3. CASE i # n - 1
      <4>1. i \in 1..n - 2
        BY <1>1, <3>3
      <4> QED BY <1>10, <3>1, <4>1
    <3> QED BY <3>2, <3>3
  <2> QED BY <2>1 DEF Typed
<1>13. Layers(fd, r, pos)
  <2>1. \A i \in 1..n - 2 : r[i].readed = stack[i].readed
    BY <1>10
  <2> QED BY <1>1, <1>3, <1>6, <1>10, <1>11, <1>12, <2>1, PopLayers
<1>14. End(fd, BoxOf(stack, n)) = pos
  BY <1>3, CallEnds
<1> QED BY <1>3, <1>9, <1>10, <1>11, <1>13, <1>14

(* A call that is over leaves those around its box.                        *)
LEMMA StillOnStack ==
  ASSUME NEW s, NEW r, NEW n \in Nat \ {0, 1}, Len(s) = n, Len(r) = n - 1,
         Alike(s, r, n - 1), NEW b, OnStack(s, b), b # BoxOf(s, n)
  PROVE  OnStack(r, b)
<1>1. PICK i \in 2..n : BoxOf(s, i) = b
  BY DEF OnStack, Calls
<1>2. i \in 2..n - 1 /\ i \in 1..n - 1
  BY <1>1
<1>3. BoxOf(r, i) = b
  BY <1>1, <1>2 DEF Alike, BoxOf
<1> QED BY <1>2, <1>3 DEF OnStack, Calls

(* A box that held others has been read.                                   *)
LEMMA ContainerWalk == Walking /\ LeaveContainer => WalkInv'
<1> SUFFICES ASSUME Walking, LeaveContainer PROVE WalkInv'
  OBVIOUS
<1>1. PICK n : n = Len(stack)
  OBVIOUS
<1>2. /\ Read /\ Return /\ ~Top.track /\ UNCHANGED <<tracks, cur>>
  BY DEF LeaveContainer
<1>3. /\ n \in Nat \ {0, 1} /\ pos' = pos /\ fd' = fd
      /\ Len(stack') = n - 1 /\ Alike(stack, stack', n - 1)
      /\ Layers(fd, stack', pos)
  BY <1>1, <1>2, ReturnWalk
<1>4. /\ Top = stack[n] /\ Typed(stack, n) /\ Layers(fd, stack, pos)
      /\ Current(fd, stack, cur, pos) /\ Passed(fd, stack, pos, DOMAIN tracks)
      /\ fd \in LegalFiles
  BY <1>1, WalkFacts
<1>5. Current(fd, stack', cur, pos)
  <2>1. ASSUME NEW i \in 2..n - 1, stack'[i].track
        PROVE  cur = <<PartOf(fd, BoxOf(stack', i), pos)>>
    <3>1. stack[i].track /\ BoxOf(stack', i) = BoxOf(stack, i)
      BY <1>3, <2>1 DEF Alike, BoxOf
    <3>2. i \in 2..n
      BY <1>3
    <3> QED BY <1>1, <1>4, <3>1, <3>2 DEF Current, Calls
  <2> QED BY <1>3, <2>1 DEF Current, Calls
<1>6. Passed(fd, stack', pos, DOMAIN tracks)
  <2>1. ASSUME NEW t \in Traks(fd), End(fd, t) <= pos, OnStack(stack, t)
        PROVE  OnStack(stack', t)
    <3>1. n \in 2..n
      BY <1>3
    <3>2. BoxOf(stack, n) \notin Traks(fd)
      BY <1>1, <1>2, <1>3, <1>4, <3>1, InsideCalls
    <3> DEFINE r == stack'
    <3>3. Len(r) = n - 1 /\ Alike(stack, r, n - 1)
      BY <1>3
    <3> HIDE DEF r
    <3>4. OnStack(r, t)
      BY <1>1, <1>3, <2>1, <3>2, <3>3, StillOnStack
    <3> QED BY <3>4 DEF r
  <2> QED BY <1>4, <2>1 DEF Passed
<1> QED BY <1>2, <1>3, <1>5, <1>6 DEF WalkInv

(* At the end of a track, it is the one that is written.                   *)
LEMMA TrakEnds ==
  ASSUME Walking, Read, Top.track, NEW n, n = Len(stack), NEW u, u = BoxOf(stack, n)
  PROVE  /\ u \in Traks(fd) /\ cur = <<PartOf(fd, u, End(fd, u))>>
         /\ Sampled(Last(cur)) = TrackOf(fd, u) /\ Last(cur).chunks # << >>
<1>2. /\ Top = stack[n] /\ Typed(stack, n) /\ Layers(fd, stack, pos)
      /\ Current(fd, stack, cur, pos) /\ fd \in LegalFiles /\ n \in Nat \ {0}
  BY WalkFacts
<1>3. n # 1
  BY <1>2 DEF Layers, Bottom
<1>1. n \in 2..n /\ End(fd, u) = pos
  BY <1>3, CallEnds
<1>4. u \in Traks(fd)
  BY <1>1, <1>2, InsideCalls
<1>5. cur = <<PartOf(fd, u, pos)>>
  BY <1>1, <1>2 DEF Current, Calls
<1> DEFINE part == PartOf(fd, u, End(fd, u))
<1>6. Sampled(part) = TrackOf(fd, u) /\ part.chunks # << >>
  BY <1>2, <1>4, PartLast
<1>7. cur = <<part>>
  BY <1>1, <1>5
<1> HIDE DEF part
<1>8. Last(cur) = part
  BY <1>7 DEF Last
<1> QED BY <1>4, <1>6, <1>7, <1>8 DEF part

(* And none is open any more.                                              *)
LEMMA TrakWalk == Walking /\ LeaveTrak => WalkInv'
<1> SUFFICES ASSUME Walking, LeaveTrak PROVE WalkInv'
  OBVIOUS
<1>1. PICK n : n = Len(stack)
  OBVIOUS
<1>2. /\ Read /\ Return /\ Top.track /\ cur' = Front(cur)
      /\ tracks' = Inserted(tracks, Sampled(Last(cur)).id, Sampled(Last(cur)))
  BY DEF LeaveTrak, Insert
<1>3. /\ n \in Nat \ {0, 1} /\ pos' = pos /\ fd' = fd
      /\ Len(stack') = n - 1 /\ Alike(stack, stack', n - 1)
      /\ Layers(fd, stack', pos) /\ End(fd, BoxOf(stack, n)) = pos
  BY <1>1, <1>2, ReturnWalk
<1>4. /\ Top = stack[n] /\ Typed(stack, n) /\ Layers(fd, stack, pos) /\ pos \in Nat
      /\ Passed(fd, stack, pos, DOMAIN tracks) /\ fd \in LegalFiles
  BY <1>1, WalkFacts
<1>5. PICK u : u = BoxOf(stack, n)
  OBVIOUS
<1>6. u \in Traks(fd) /\ Sampled(Last(cur)) = TrackOf(fd, u)
  BY <1>1, <1>2, <1>5, TrakEnds
<1>7. DOMAIN tracks' = DOMAIN tracks \cup {TrackOf(fd, u).id}
  BY <1>2, <1>6, InsertedFacts
<1>8. Current(fd, stack', cur', pos)
  <2>1. ASSUME NEW i \in 2..n - 1, stack'[i].track PROVE FALSE
    <3> DEFINE v == BoxOf(stack, i)
    <3>1. stack[i].track /\ i \in 2..n /\ n \in 2..n /\ i < n
      BY <1>3, <2>1 DEF Alike
    <3>2. v \in Traks(fd) /\ v \in Nat /\ v < pos /\ v + 8 = stack[i].offset
          /\ End(fd, v) = stack[i].offset + stack[i].size
      <4>1. v \in Traks(fd) /\ v < pos /\ v \in fd.boxes
        BY <1>1, <1>3, <1>4, <3>1, InsideCalls
      <4>2. stack[i].offset = v + 8 /\ End(fd, v) = stack[i].offset + stack[i].size
        BY <1>1, <1>3, <1>4, <3>1, CallFacts
      <4>3. v \in Nat
        BY <1>4, <4>1, BoxFacts
      <4> QED BY <4>1, <4>2, <4>3
    <3>3. u \in fd.boxes /\ u + 8 = stack[n].offset /\ u \in Nat
          /\ End(fd, u) = stack[n].offset + stack[n].size
      <4>1. u \in fd.boxes /\ stack[n].offset = u + 8
            /\ End(fd, u) = stack[n].offset + stack[n].size
        BY <1>1, <1>3, <1>4, <1>5, <3>1, CallFacts
      <4> QED BY <1>4, <4>1, BoxFacts
    <3>4. v < u
      <4>1. i \in 1..n /\ n \in 1..n
        BY <1>3, <3>1
      <4>2. stack[i].offset + 8 <= stack[n].offset
        BY <1>1, <1>4, <3>1, <4>1 DEF Layers, Nested
      <4> QED BY <3>2, <3>3, <4>2
    <3>5. End(fd, v) <= u
      BY <1>4, <1>6, <3>2, <3>4, TraksApart
    <3>6. pos <= End(fd, v) /\ u + 8 <= pos /\ End(fd, v) \in Nat
      <4>1. pos <= End(fd, v)
        BY <1>1, <1>3, <1>4, <3>1, InsideCalls
      <4>2. u + 8 <= End(fd, u) /\ End(fd, u) = pos
        BY <1>3, <1>4, <1>5, <3>3, BoxFacts
      <4>3. End(fd, v) \in Nat
        BY <1>4, <3>2, BoxFacts DEF Traks
      <4> QED BY <4>1, <4>2, <4>3
    <3> QED BY <1>4, <3>3, <3>5, <3>6
  <2> QED BY <1>3, <2>1 DEF Current, Calls
<1>9. Passed(fd, stack', pos, DOMAIN tracks')
  <2>1. ASSUME NEW t \in Traks(fd), End(fd, t) <= pos, OnStack(stack, t), t # u
        PROVE  OnStack(stack', t)
    <3> DEFINE r == stack'
    <3>1. Len(r) = n - 1 /\ Alike(stack, r, n - 1)
      BY <1>3
    <3> HIDE DEF r
    <3>2. OnStack(r, t)
      BY <1>1, <1>3, <1>5, <2>1, <3>1, StillOnStack
    <3> QED BY <3>2 DEF r
  <2> QED BY <1>4, <1>7, <2>1 DEF Passed
<1> QED BY <1>3, <1>8, <1>9 DEF WalkInv

(* The walk begins at the first box, with the whole file ahead.            *)
LEMMA ParseWalk == ASSUME NEW f \in Files, Parse(f) PROVE WalkInv'
<1> SUFFICES ASSUME f \in LegalFiles PROVE WalkInv'
  BY DEF Parse, WalkInv
<1> DEFINE t == [offset |-> 0, size |-> FileEnd(f), readed |-> 0, track |-> FALSE]
<1>1. stack' = <<t>> /\ pos' = 0 /\ fd' = f /\ pc' = "box"
  BY DEF Parse
<1> DEFINE r == stack'
<1>2. Len(r) = 1 /\ r[1] = t /\ Calls(r) = {}
  BY <1>1 DEF Calls
<1>3. t.offset = 0 /\ t.size = FileEnd(f) /\ t.readed = 0 /\ ~t.track
  OBVIOUS
<1> HIDE DEF r, t
<1>4. 0 \in f.boxes /\ FileEnd(f) \in Nat
  BY LegalFacts DEF Legal, Layout
<1>5. Bottom(f, r) /\ InBoxes(f, r) /\ AroundCalls(f, r)
  BY <1>2, <1>3 DEF Bottom, InBoxes, AroundCalls
<1>6. Nested(r)
  BY <1>2 DEF Nested
<1>7. Around(f, r, 0)
  <2>1. ASSUME NEW b \in f.boxes, b < 0 PROVE FALSE
    BY <2>1, BoxFacts
  <2> QED BY <2>1 DEF Around
<1>8. Place(f, r, 0)
  BY <1>2, <1>3, <1>4 DEF Place
<1>9. Current(f, r, cur', 0)
  BY <1>2 DEF Current
<1>10. Passed(f, r, 0, DOMAIN tracks')
  <2>1. ASSUME NEW u \in Traks(f), End(f, u) <= 0 PROVE FALSE
    <3>1. u \in Nat /\ u + 8 <= End(f, u) /\ End(f, u) \in Nat
      BY BoxFacts DEF Traks
    <3> QED BY <2>1, <3>1
  <2> QED BY <2>1 DEF Passed
<1>11. Layers(f, r, 0)
  BY <1>5, <1>6, <1>7, <1>8 DEF Layers
<1> QED BY <1>1, <1>9, <1>10, <1>11 DEF WalkInv, r

(* The walk keeps to the boxes of a legal movie, whatever is done.         *)
LEMMA NextWalk == TypeInv /\ WalkInv /\ [Next]_vars => WalkInv'
<1> SUFFICES ASSUME TypeInv, WalkInv, [Next]_vars, pc' = "box", fd' \in LegalFiles
             PROVE  WalkInv'
  BY DEF WalkInv
<1>1. CASE Call
  <2>1. CASE \E f \in Files : Parse(f)
    BY <2>1, ParseWalk
  <2>2. CASE OpenFails \/ Close
    BY <2>2 DEF OpenFails, Close
  <2>3. CASE \E id \in DOMAIN tracks : GetRtpSample(id) \/ NoTimescale(id) \/ NoCount(id)
    BY <2>3 DEF GetRtpSample, NoTimescale, NoCount, Undefined, GivesUp, Over
  <2> QED BY <1>1, <2>1, <2>2, <2>3 DEF Call
<1>2. CASE Walk
  <2>1. pc = "box"
    BY <1>2 DEF Walk, Refuses, Breaks, NoHeader, TooShort, OtherBrand, NoTrackThere,
                NoDuration, NoChunk, Enter, OnTrack, PassOver, LeaveContainer, LeaveTrak,
                Parsed, Enough, Leaf, Header, Unread, Read
  <2>2. CASE Enter
    <3>1. Walking
      BY <2>1, <2>2 DEF Walking, Enter
    <3> QED BY <2>2, <3>1, EnterWalk
  <2>3. CASE OnTrack
    <3>1. Leaf /\ Behind /\ UNCHANGED <<tracks, from>> /\ Type \in OfTrack /\ cur # << >>
          /\ cur' = [cur EXCEPT ![Len(cur)] = Told(Type, Body, @)]
      BY <2>3 DEF OnTrack, Enough, Leaf
    <3>2. fd' = fd
      BY <3>1 DEF Behind, Skip
    <3>3. Walking
      BY <2>1, <3>2 DEF Walking
    <3> QED BY <3>1, <3>3, LeafWalk
  <2>4. CASE PassOver
    <3>1. Leaf /\ Behind /\ UNCHANGED <<tracks, from, cur>> /\ Type \notin OfTrack
      BY <2>4 DEF PassOver, Enough, Leaf
    <3>2. fd' = fd
      BY <3>1 DEF Behind, Skip
    <3>3. Walking
      BY <2>1, <3>2 DEF Walking
    <3> QED BY <3>1, <3>3, LeafWalk
  <2>5. CASE LeaveContainer
    <3>1. Walking
      BY <2>1, <2>5 DEF Walking, LeaveContainer, Return, Skip
    <3> QED BY <2>5, <3>1, ContainerWalk
  <2>6. CASE LeaveTrak
    <3>1. Walking
      BY <2>1, <2>6 DEF Walking, LeaveTrak, Return, Skip
    <3> QED BY <2>6, <3>1, TrakWalk
  <2>7. CASE (Refuses /\ Refused) \/ (Breaks /\ Undefined) \/ Parsed
    BY <2>7 DEF Refused, Undefined, Parsed, Over
  <2> QED BY <1>2, <2>2, <2>3, <2>4, <2>5, <2>6, <2>7 DEF Walk
<1>3. CASE Assemble
  <2>1. pc' # "box"
    BY <1>3 DEF Assemble, NoPacket, NextPacket, NoExtra, NoEntry, Immediate, Piece,
                NoPiece, NoSuchTrack, BadEntry, PacketMade, SampleMade, GivesUp, Over,
                Undefined, Copy, Entry, Known
  <2> QED BY <2>1
<1>4. CASE Fails \/ ReadFails
  BY <1>4 DEF Fails, ReadFails, Refused, GivesUp, Over
<1>5. CASE UNCHANGED vars
  <2>1. UNCHANGED <<fd, pos, tracks, from, stack, cur, pc>>
    BY <1>5 DEF vars, walk
  <2> QED BY <2>1 DEF WalkInv, Layers, Bottom, InBoxes, Nested, Around, AroundCalls, Place,
                      Current, Passed, OnStack, BoxOf, Calls
<1> QED BY <1>1, <1>2, <1>3, <1>4, <1>5 DEF Next

-----------------------------------------------------------------------------
(* What is promised of the walk.                                           *)
(* What is ahead in a legal movie is a box.                                *)
LEMMA BoxAhead == Walking /\ Unread => Header
<1> SUFFICES ASSUME Walking, Unread PROVE Header
  OBVIOUS
<1>1. PICK n : n = Len(stack)
  OBVIOUS
<1>2. /\ n \in Nat \ {0} /\ Top = stack[n] /\ Typed(stack, n)
      /\ Layers(fd, stack, pos) /\ fd \in LegalFiles /\ pos \in Nat
  BY <1>1, WalkFacts
<1>3. stack[n].readed \in Nat /\ stack[n].size \in Nat /\ Top.readed < Top.size
  BY <1>2 DEF Typed, Unread
<1>4. pos \in fd.boxes
  BY <1>1, <1>2, <1>3 DEF Layers, Place
<1>5. /\ Cell(fd, pos) >= 8 /\ Cell(fd, pos) \in Nat /\ pos + 8 <= End(fd, pos)
      /\ End(fd, pos) <= FileEnd(fd) /\ End(fd, pos) \in Nat /\ FileEnd(fd) \in Nat
  BY <1>2, <1>4, BoxFacts, LegalFacts
<1>6. Has(pos, 2)
  BY <1>2, <1>5 DEF Has
<1>7. At(pos) # 1
  BY <1>5 DEF At
<1> QED BY <1>6, <1>7 DEF Header, Sound

(* A box that tells of a track is in one that is open.                     *)
LEMMA InTrack == Walking /\ Header /\ Type \in OfTrack => cur # << >>
<1> SUFFICES ASSUME Walking, Header, Type \in OfTrack PROVE cur # << >>
  OBVIOUS
<1>1. PICK n : n = Len(stack)
  OBVIOUS
<1>2. /\ n \in Nat \ {0} /\ Layers(fd, stack, pos) /\ Current(fd, stack, cur, pos)
      /\ Typed(stack, n) /\ fd \in LegalFiles
  BY <1>1, WalkFacts
<1>3. pos \in fd.boxes /\ Type = TypeOf(fd, pos)
  BY <1>1, HeaderFacts
<1>4. PICK t \in Traks(fd) : pos \in Within(fd, t, Type)
  BY <1>2, <1>3, LegalFacts DEF Legal, Described
<1>5. t \in fd.boxes /\ t < pos /\ pos < End(fd, t)
  BY <1>4 DEF Within, Traks
<1>6. PICK i \in Calls(stack) : BoxOf(stack, i) = t
  BY <1>2, <1>5 DEF Layers, Around, OnStack
<1>7. stack[i].track
  BY <1>1, <1>2, <1>4, <1>6, InsideCalls DEF Calls
<1>8. cur = <<PartOf(fd, t, pos)>>
  BY <1>2, <1>6, <1>7 DEF Current
<1> DEFINE part == PartOf(fd, t, pos)
<1>9. cur = <<part>>
  BY <1>8
<1> HIDE DEF part
<1> QED BY <1>9

(* A legal movie is not refused, nor does it end the process.              *)
LEMMA LegalGives == TypeInv /\ WalkInv => LegalParses
<1> SUFFICES ASSUME TypeInv, WalkInv, pc = "box", fd \in LegalFiles
             PROVE  ~Refuses /\ ~Breaks
  BY DEF LegalParses
<1>1. Walking
  BY DEF Walking
<1>2. PICK n : n = Len(stack)
  OBVIOUS
<1>3. Complete(fd)
  BY LegalFacts DEF Legal
<1>4. ASSUME Header
      PROVE  /\ pos \in fd.boxes /\ Type = TypeOf(fd, pos) /\ Body = pos + 8
             /\ Has(Body, Needs(Type, Body)) /\ pos \in Nat
  <2>1. pos \in fd.boxes /\ Type = TypeOf(fd, pos) /\ Body = pos + 8
    BY <1>1, <1>2, <1>4, HeaderFacts
  <2>2. Has(pos + 8, Needs(TypeOf(fd, pos), pos + 8))
    BY <2>1, EnoughCells
  <2> QED BY <2>1, <2>2, BoxFacts
<1>5. ~NoHeader
  BY <1>1, BoxAhead DEF NoHeader, Header
<1>6. ~TooShort
  BY <1>4 DEF TooShort, Leaf
<1>7. ~OtherBrand
  <2> SUFFICES ASSUME Header, Type = "ftyp" PROVE Name(At(Body)) = "mp42"
    BY DEF OtherBrand, Enough, Leaf
  <2> QED BY <1>3, <1>4 DEF Complete, At
<1>8. ~NoTrackThere
  BY <1>1, InTrack DEF NoTrackThere, Enough, Leaf
<1>9. ~NoDuration
  <2> SUFFICES ASSUME Header, Type = "mvhd" PROVE At(Body) = 0 /\ At(Body + 12) # 0
    BY DEF NoDuration, Enough, Leaf
  <2>1. Cell(fd, pos + 8) = 0 /\ Cell(fd, pos + 20) # 0
    BY <1>3, <1>4 DEF Complete
  <2>2. Body = pos + 8 /\ Body + 12 = pos + 20
    BY <1>4
  <2> QED BY <2>1, <2>2 DEF At
<1>10. ~NoChunk
  <2> SUFFICES ASSUME Read, Top.track PROVE Last(cur).chunks # << >>
    BY DEF NoChunk
  <2>1. PICK u : u = BoxOf(stack, n)
    OBVIOUS
  <2> QED BY <1>1, <1>2, <2>1, TrakEnds
<1> QED BY <1>5, <1>6, <1>7, <1>8, <1>9, <1>10 DEF Refuses, Breaks

(* At the end of a legal movie, all its tracks have been found.            *)
LEMMA AllFound ==
  ASSUME TypeInv, WalkInv, Parsed, fd \in LegalFiles, NEW track \in Movie(fd)
  PROVE  track.id \in DOMAIN tracks
<1>1. Walking /\ Read /\ Len(stack) = 1
  BY DEF Walking, Parsed, Read
<1>2. /\ Top = stack[1] /\ Typed(stack, 1) /\ Layers(fd, stack, pos)
      /\ Passed(fd, stack, pos, DOMAIN tracks)
  BY <1>1, WalkFacts
<1>3. /\ stack[1].offset = 0 /\ stack[1].size = FileEnd(fd)
      /\ pos = stack[1].offset + stack[1].readed /\ stack[1].readed <= stack[1].size
  BY <1>1, <1>2 DEF Layers, Bottom, Place
<1>4. stack[1].readed >= stack[1].size /\ stack[1].readed \in Nat /\ stack[1].size \in Nat
  BY <1>1, <1>2 DEF Read, Typed
<1>5. pos = FileEnd(fd)
  BY <1>3, <1>4
<1>6. PICK t \in Traks(fd) : track = TrackOf(fd, t)
  BY DEF Movie
<1>7. End(fd, t) <= pos
  BY <1>5, BoxFacts DEF Traks
<1>8. ~OnStack(stack, t)
  BY <1>1 DEF OnStack, Calls
<1> QED BY <1>2, <1>6, <1>7, <1>8 DEF Passed

\* A track of a legal movie is as it was written, but for what was read of it.
Written == \A id \in DOMAIN tracks :
   from[id] \in LegalFiles => [tracks[id] EXCEPT !.readed = 0] \in Movie(from[id])

(* How much was read of it is not what was written.                        *)
LEMMA ReadedApart ==
  ASSUME NEW N, NEW t \in Record(N), NEW x
  PROVE  /\ [[t EXCEPT !.readed = x] EXCEPT !.readed = 0] = [t EXCEPT !.readed = 0]
         /\ t.readed = 0 => [t EXCEPT !.readed = 0] = t
BY DEF Record

(* Tracks come from boxes and stay what they were.                         *)
LEMMA NextWritten == TypeInv /\ WalkInv /\ Written /\ [Next]_vars => Written'
<1> SUFFICES ASSUME TypeInv, WalkInv, Written, [Next]_vars PROVE Written'
  OBVIOUS
<1>1. TracksType /\ ReadType
  BY DEF TypeInv
<1>2. CASE UNCHANGED <<tracks, from>>
  BY <1>2 DEF Written
<1>3. CASE Close
  BY <1>3 DEF Close, Written, NoTracks
<1>4. CASE LeaveTrak
  <2> DEFINE t == Sampled(Last(cur))
             k == t.id
  <2>1. /\ pc = "box" /\ Read /\ Top.track /\ Last(cur).chunks # << >>
        /\ tracks' = Inserted(tracks, k, t) /\ from' = Inserted(from, k, fd)
    BY <1>4 DEF LeaveTrak, Read, Insert
  <2>2. ASSUME fd \in LegalFiles PROVE [t EXCEPT !.readed = 0] \in Movie(fd)
    <3>1. Walking
      BY <2>1, <2>2 DEF Walking
    <3>2. PICK n : n = Len(stack)
      OBVIOUS
    <3>3. PICK u : u = BoxOf(stack, n)
      OBVIOUS
    <3>4. u \in Traks(fd) /\ t = TrackOf(fd, u)
      BY <2>1, <3>1, <3>2, <3>3, TrakEnds
    <3>5. t \in Movie(fd)
      BY <3>4 DEF Movie
    <3>6. t = [t EXCEPT !.readed = 0]
      <4>1. cur \in Seq(Record({0})) /\ cur # << >>
        <5>1. cur = <<PartOf(fd, u, End(fd, u))>>
          BY <2>1, <3>1, <3>2, <3>3, TrakEnds
        <5> QED BY <5>1 DEF TypeInv, WalkType
      <4>2. Len(cur) \in 1..Len(cur)
        BY <4>1, EmptySeq
      <4>3. Last(cur) \in Record({0})
        BY <4>1, <4>2, Element DEF Last
      <4>4. t \in Record({0})
        BY <2>1, <4>3, SampledType
      <4> HIDE DEF t
      <4>5. t.readed = 0
        BY <4>4 DEF Record
      <4> QED BY <4>4, <4>5, ReadedApart
    <3> HIDE DEF t
    <3> QED BY <3>5, <3>6
  <2> HIDE DEF t, k
  <2>3. /\ DOMAIN tracks' = DOMAIN tracks \cup {k} /\ DOMAIN from = DOMAIN tracks
        /\ DOMAIN from' = DOMAIN from \cup {k}
    BY <1>1, <2>1, InsertedFacts DEF TracksType
  <2>4. ASSUME NEW id \in DOMAIN tracks', from'[id] \in LegalFiles
        PROVE  [tracks'[id] EXCEPT !.readed = 0] \in Movie(from'[id])
    <3>1. /\ Inserted(tracks, k, t)[id] = IF id \in DOMAIN tracks THEN tracks[id] ELSE t
          /\ Inserted(from, k, fd)[id] = IF id \in DOMAIN from THEN from[id] ELSE fd
      BY ONLY <2>3, <2>4, InsertedAt
    <3>2. CASE id \in DOMAIN tracks
      <4>1. tracks'[id] = tracks[id] /\ from'[id] = from[id]
        BY <2>1, <2>3, <3>1, <3>2
      <4> QED BY <2>4, <3>2, <4>1 DEF Written
    <3>3. CASE id \notin DOMAIN tracks
      <4>1. tracks'[id] = t /\ from'[id] = fd
        BY <2>1, <2>3, <3>1, <3>3
      <4> QED BY <2>2, <2>4, <4>1
    <3> QED BY <3>2, <3>3
  <2> QED BY <2>4 DEF Written
<1>5. CASE SampleMade
  <2>1. /\ tracks' = [tracks EXCEPT ![rd.id].readed = @ + 1] /\ from' = from
        /\ rd.id \in DOMAIN tracks
    BY <1>1, <1>5 DEF SampleMade, ReadType
  <2>2. DOMAIN tracks' = DOMAIN tracks
    BY <2>1
  <2>3. ASSUME NEW id \in DOMAIN tracks
        PROVE  [tracks'[id] EXCEPT !.readed = 0] = [tracks[id] EXCEPT !.readed = 0]
    <3>1. CASE id = rd.id
      <4>1. PICK t \in Record(Nat) : t = tracks[id]
        BY <1>1 DEF TracksType
      <4>2. tracks'[id] = [t EXCEPT !.readed = t.readed + 1]
        BY <2>1, <3>1, <4>1
      <4>3. [[t EXCEPT !.readed = t.readed + 1] EXCEPT !.readed = 0]
               = [t EXCEPT !.readed = 0]
        BY ReadedApart
      <4> QED BY <4>1, <4>2, <4>3
    <3>2. CASE id # rd.id
      BY <2>1, <3>2
    <3> QED BY <3>1, <3>2
  <2> QED BY <2>1, <2>2, <2>3 DEF Written
<1>6. CASE Call /\ ~Close
  BY <1>2, <1>6 DEF Call, Parse, OpenFails, GetRtpSample, NoTimescale, NoCount, GivesUp,
                    Reading, Undefined
<1>7. CASE Walk /\ ~LeaveTrak
  BY <1>2, <1>7 DEF Walk, Refused, Undefined, Enter, OnTrack, PassOver, LeaveContainer, Parsed
<1>8. CASE Assemble /\ ~SampleMade
  BY <1>2, <1>8 DEF Assemble, NoPacket, NextPacket, NoExtra, NoEntry, Immediate, Piece,
                    NoPiece, NoSuchTrack, BadEntry, PacketMade, GivesUp, Reading, Undefined,
                    Copy
<1>9. CASE Fails \/ ReadFails \/ UNCHANGED vars
  BY <1>2, <1>9 DEF Fails, ReadFails, Refused, GivesUp, Reading, vars
<1> QED BY <1>3, <1>4, <1>5, <1>6, <1>7, <1>8, <1>9 DEF Next

-----------------------------------------------------------------------------
(* The packets of a sample, one after the other.                           *)
\* Behind a packet and its entries.
Later(f, p) == p + 12 + 16 * Counted(f, p)

FirstPackets(g, f, off, k) ==
   g = [n \in 1..k |-> IF n = 1 THEN off + 4 ELSE Later(f, g[n - 1])]

(* A place of that.                                                        *)
LEMMA FirstPacketsAt ==
  ASSUME NEW g, NEW f, NEW off, NEW k, FirstPackets(g, f, off, k), NEW n \in 1..k
  PROVE  g[n] = IF n = 1 THEN off + 4 ELSE Later(f, g[n - 1])
BY Zenon DEF FirstPackets

(* For any number of packets there is one.                                 *)
LEMMA PacketsExist ==
  ASSUME NEW f, NEW off, NEW k \in Nat PROVE \E g : FirstPackets(g, f, off, k)
<1> DEFINE T == {m \in Nat : ~ \E g : FirstPackets(g, f, off, m)}
<1>1. SUFFICES ASSUME T # {} PROVE FALSE
  OBVIOUS
<1>2. T \in SUBSET Nat
  OBVIOUS
<1>3. PICK m \in T : \A j \in T : m <= j
  BY <1>1, <1>2, Least
<1>4. CASE m = 0
  <2> DEFINE g == [n \in 1..0 |-> 0]
  <2>1. g = [n \in 1..0 |-> IF n = 1 THEN off + 4 ELSE Later(f, g[n - 1])]
    OBVIOUS
  <2>2. FirstPackets(g, f, off, 0)
    BY <2>1 DEF FirstPackets
  <2> QED BY <2>2, <1>3, <1>4
<1>5. CASE m # 0
  <2>1. m \in Nat /\ m - 1 \in Nat /\ m - 1 \notin T /\ m >= 1
    BY <1>3, <1>5
  <2>2. PICK b : FirstPackets(b, f, off, m - 1)
    BY <2>1
  <2> DEFINE g == [n \in 1..m |-> IF n < m THEN b[n]
                                  ELSE IF n = 1 THEN off + 4 ELSE Later(f, b[n - 1])]
             h == [n \in 1..m |-> IF n = 1 THEN off + 4 ELSE Later(f, g[n - 1])]
  <2>3. ASSUME NEW n \in 1..m PROVE g[n] = h[n]
    <3>1. n # 1 => g[n - 1] = b[n - 1]
      <4> SUFFICES ASSUME n # 1 PROVE g[n - 1] = b[n - 1]
        OBVIOUS
      <4>1. n - 1 \in 1..m /\ n - 1 < m
        BY <2>1
      <4> QED BY <4>1
    <3>2. CASE n < m
      <4>1. n \in 1..m - 1
        BY <2>1, <3>2
      <4>2. b[n] = IF n = 1 THEN off + 4 ELSE Later(f, b[n - 1])
        BY <2>2, <4>1, FirstPacketsAt
      <4>3. g[n] = b[n] /\ h[n] = IF n = 1 THEN off + 4 ELSE Later(f, g[n - 1])
        BY <3>2
      <4> QED BY <3>1, <4>2, <4>3
    <3>3. CASE n = m
      <4>1. g[n] = IF n = 1 THEN off + 4 ELSE Later(f, b[n - 1])
        BY <2>1, <3>3
      <4>2. h[n] = IF n = 1 THEN off + 4 ELSE Later(f, g[n - 1])
        OBVIOUS
      <4> QED BY <3>1, <4>1, <4>2
    <3> QED BY <2>1, <3>2, <3>3
  <2>4. g = h
    BY <2>3
  <2>5. FirstPackets(g, f, off, m)
    BY <2>4, Zenon DEF FirstPackets
  <2> QED BY <1>3, <2>5
<1> QED BY <1>4, <1>5

(* Two agree as far as both go.                                            *)
LEMMA PacketsAgree ==
  ASSUME NEW f, NEW off, NEW k \in Nat, NEW l \in Nat, k <= l, NEW a, NEW b,
         FirstPackets(a, f, off, k), FirstPackets(b, f, off, l), NEW n \in 1..k
  PROVE  a[n] = b[n]
<1> DEFINE T == {j \in 1..k : a[j] # b[j]}
<1>1. SUFFICES ASSUME T # {} PROVE FALSE
  OBVIOUS
<1>2. T \in SUBSET Nat
  OBVIOUS
<1>3. PICK m \in T : \A j \in T : m <= j
  BY <1>1, <1>2, Least
<1>4. m \in 1..k /\ m \in 1..l /\ a[m] # b[m]
  BY <1>3
<1>5. a[m] = IF m = 1 THEN off + 4 ELSE Later(f, a[m - 1])
  BY <1>4, FirstPacketsAt
<1>6. b[m] = IF m = 1 THEN off + 4 ELSE Later(f, b[m - 1])
  BY <1>4, FirstPacketsAt
<1>7. m # 1
  BY <1>4, <1>5, <1>6
<1>8. m - 1 \in 1..k /\ m - 1 \notin T
  BY <1>3, <1>4, <1>7
<1>9. a[m - 1] = b[m - 1]
  BY <1>8
<1> QED BY <1>4, <1>5, <1>6, <1>7, <1>9

(* PacketAt is of that kind.                                               *)
LEMMA PacketsAre ==
  ASSUME NEW f, NEW off, NEW k \in Nat
  PROVE  \E g : FirstPackets(g, f, off, k) /\ PacketAt(f, off, k) = g[k]
<1> DEFINE at == CHOOSE g : FirstPackets(g, f, off, k)
<1>1. FirstPackets(at, f, off, k)
  BY PacketsExist, Zenon
<1>2. PacketAt(f, off, k) = at[k]
  BY Zenon DEF PacketAt, FirstPackets, Later
<1> QED BY <1>1, <1>2

(* The first packet follows their number.                                  *)
LEMMA PacketFirst == ASSUME NEW f, NEW off PROVE PacketAt(f, off, 1) = off + 4
<1>1. PICK g : FirstPackets(g, f, off, 1) /\ PacketAt(f, off, 1) = g[1]
  BY PacketsAre
<1>2. 1 \in 1..1
  OBVIOUS
<1>3. g[1] = off + 4
  BY ONLY <1>1, <1>2, FirstPacketsAt
<1> QED BY <1>1, <1>3

(* The next one follows the entries of the one before.                     *)
LEMMA PacketNext ==
  ASSUME NEW f, NEW off, NEW k \in Nat \ {0}
  PROVE  PacketAt(f, off, k + 1) = Later(f, PacketAt(f, off, k))
<1>1. PICK a : FirstPackets(a, f, off, k) /\ PacketAt(f, off, k) = a[k]
  BY PacketsAre
<1>2. PICK b : FirstPackets(b, f, off, k + 1) /\ PacketAt(f, off, k + 1) = b[k + 1]
  BY PacketsAre
<1>3. k \in 1..k /\ k + 1 \in 1..k + 1 /\ k + 1 # 1 /\ k + 1 - 1 = k /\ k + 1 \in Nat /\ k <= k + 1
      /\ k \in Nat
  OBVIOUS
<1>4. a[k] = b[k]
  BY ONLY <1>1, <1>2, <1>3, PacketsAgree
<1>5. b[k + 1] = IF k + 1 = 1 THEN off + 4 ELSE Later(f, b[k + 1 - 1])
  BY ONLY <1>2, <1>3, FirstPacketsAt
<1> QED BY <1>1, <1>2, <1>3, <1>4, <1>5

(* The data of a packet, entry by entry.                                   *)
FirstData(g, f, t, p, k) ==
   g = [i \in 0..k |-> IF i = 0 THEN << >>
                       ELSE g[i - 1] \o EntryData(f, t, p + 12 + 16 * (i - 1))]

(* What the first entries give.                                            *)
LEMMA FirstDataAt ==
  ASSUME NEW g, NEW f, NEW t, NEW p, NEW k, FirstData(g, f, t, p, k), NEW i \in 0..k
  PROVE  g[i] = IF i = 0 THEN << >>
                ELSE g[i - 1] \o EntryData(f, t, p + 12 + 16 * (i - 1))
BY Zenon DEF FirstData

(* For any number of entries there is one.                                 *)
LEMMA DataExist ==
  ASSUME NEW f, NEW t, NEW p, NEW k \in Nat PROVE \E g : FirstData(g, f, t, p, k)
<1> DEFINE T == {m \in Nat : ~ \E g : FirstData(g, f, t, p, m)}
           entry(i) == EntryData(f, t, p + 12 + 16 * (i - 1))
<1>1. SUFFICES ASSUME T # {} PROVE FALSE
  OBVIOUS
<1>2. T \in SUBSET Nat
  OBVIOUS
<1>3. PICK m \in T : \A j \in T : m <= j
  BY <1>1, <1>2, Least
<1>4. CASE m = 0
  <2> DEFINE g == [i \in 0..0 |-> << >>]
  <2>1. g = [i \in 0..0 |-> IF i = 0 THEN << >> ELSE g[i - 1] \o entry(i)]
    OBVIOUS
  <2>2. FirstData(g, f, t, p, 0)
    BY <2>1 DEF FirstData
  <2> QED BY <2>2, <1>3, <1>4
<1>5. CASE m # 0
  <2>1. m \in Nat /\ m - 1 \in Nat /\ m - 1 \notin T /\ m >= 1
    BY <1>3, <1>5
  <2>2. PICK b : FirstData(b, f, t, p, m - 1)
    BY <2>1
  <2> DEFINE g == [i \in 0..m |-> IF i < m THEN b[i] ELSE b[i - 1] \o entry(i)]
             h == [i \in 0..m |-> IF i = 0 THEN << >> ELSE g[i - 1] \o entry(i)]
  <2>3. ASSUME NEW i \in 0..m PROVE g[i] = h[i]
    <3>1. i # 0 => g[i - 1] = b[i - 1]
      <4> SUFFICES ASSUME i # 0 PROVE g[i - 1] = b[i - 1]
        OBVIOUS
      <4>1. i - 1 \in 0..m /\ i - 1 < m
        BY <2>1
      <4> QED BY <4>1
    <3>2. CASE i < m
      <4>1. i \in 0..m - 1
        BY <2>1, <3>2
      <4>2. b[i] = IF i = 0 THEN << >> ELSE b[i - 1] \o entry(i)
        BY <2>2, <4>1, FirstDataAt
      <4>3. g[i] = b[i] /\ h[i] = IF i = 0 THEN << >> ELSE g[i - 1] \o entry(i)
        BY <3>2
      <4> HIDE DEF entry
      <4> QED BY <3>1, <4>2, <4>3
    <3>3. CASE i = m
      <4> HIDE DEF entry
      <4>1. g[i] = b[i - 1] \o entry(i) /\ i # 0
        BY <2>1, <3>3
      <4>2. h[i] = IF i = 0 THEN << >> ELSE g[i - 1] \o entry(i)
        OBVIOUS
      <4> QED BY <3>1, <4>1, <4>2
    <3> QED BY <2>1, <3>2, <3>3
  <2>4. g = h
    BY <2>3
  <2>5. FirstData(g, f, t, p, m)
    BY <2>4, Zenon DEF FirstData
  <2> QED BY <1>3, <2>5
<1> QED BY <1>4, <1>5

(* Two agree as far as both go.                                            *)
LEMMA DataAgree ==
  ASSUME NEW f, NEW t, NEW p, NEW k \in Nat, NEW l \in Nat, k <= l, NEW a, NEW b,
         FirstData(a, f, t, p, k), FirstData(b, f, t, p, l), NEW i \in 0..k
  PROVE  a[i] = b[i]
<1> DEFINE T == {j \in 0..k : a[j] # b[j]}
<1>1. SUFFICES ASSUME T # {} PROVE FALSE
  OBVIOUS
<1>2. T \in SUBSET Nat
  OBVIOUS
<1>3. PICK m \in T : \A j \in T : m <= j
  BY <1>1, <1>2, Least
<1>4. m \in 0..k /\ m \in 0..l /\ a[m] # b[m]
  BY <1>3
<1> DEFINE entry == EntryData(f, t, p + 12 + 16 * (m - 1))
<1>5. a[m] = IF m = 0 THEN << >> ELSE a[m - 1] \o entry
  BY <1>4, FirstDataAt
<1>6. b[m] = IF m = 0 THEN << >> ELSE b[m - 1] \o entry
  BY <1>4, FirstDataAt
<1> HIDE DEF entry
<1>7. m # 0
  BY <1>4, <1>5, <1>6
<1>8. m - 1 \in 0..k /\ m - 1 \notin T
  BY <1>3, <1>4, <1>7
<1>9. a[m - 1] = b[m - 1]
  BY <1>8
<1> QED BY <1>4, <1>5, <1>6, <1>7, <1>9

(* Gathered is of that kind.                                               *)
LEMMA DataAre ==
  ASSUME NEW f, NEW t, NEW p, NEW k \in Nat
  PROVE  \E g : FirstData(g, f, t, p, k) /\ Gathered(f, t, p, k) = g[k]
<1> DEFINE data == CHOOSE g : FirstData(g, f, t, p, k)
<1>1. FirstData(data, f, t, p, k)
  BY DataExist, Zenon
<1>2. Gathered(f, t, p, k) = data[k]
  BY Zenon DEF Gathered, FirstData
<1> QED BY <1>1, <1>2

(* No entry gives no data.                                                 *)
LEMMA GatheredNone == ASSUME NEW f, NEW t, NEW p PROVE Gathered(f, t, p, 0) = << >>
<1>1. PICK g : FirstData(g, f, t, p, 0) /\ Gathered(f, t, p, 0) = g[0]
  BY DataAre
<1>2. 0 \in 0..0
  OBVIOUS
<1>3. g[0] = << >>
  BY ONLY <1>1, <1>2, FirstDataAt
<1> QED BY <1>1, <1>3

(* The next entry adds its own.                                            *)
LEMMA GatheredNext ==
  ASSUME NEW f, NEW t, NEW p, NEW k \in Nat
  PROVE  Gathered(f, t, p, k + 1) =
            Gathered(f, t, p, k) \o EntryData(f, t, p + 12 + 16 * k)
<1>1. PICK a : FirstData(a, f, t, p, k) /\ Gathered(f, t, p, k) = a[k]
  BY DataAre
<1>2. PICK b : FirstData(b, f, t, p, k + 1) /\ Gathered(f, t, p, k + 1) = b[k + 1]
  BY DataAre
<1>3. k \in 0..k /\ k + 1 \in 0..k + 1 /\ k + 1 # 0 /\ k + 1 - 1 = k /\ k + 1 \in Nat /\ k <= k + 1
  OBVIOUS
<1>4. a[k] = b[k]
  BY ONLY <1>1, <1>2, <1>3, DataAgree
<1>5. b[k + 1] = b[k] \o EntryData(f, t, p + 12 + 16 * k)
  <2>1. PICK j : j = k + 1
    OBVIOUS
  <2>2. FirstData(b, f, t, p, j) /\ j \in 0..j /\ j # 0 /\ j - 1 = k
    BY <1>2, <1>3, <2>1
  <2>3. b[j] = IF j = 0 THEN << >> ELSE b[j - 1] \o EntryData(f, t, p + 12 + 16 * (j - 1))
    BY <2>2, Zenon DEF FirstData
  <2>4. b[j] = b[k] \o EntryData(f, t, p + 12 + 16 * k)
    BY <2>2, <2>3
  <2> QED BY <2>1, <2>4
<1> QED BY <1>1, <1>2, <1>4, <1>5

-----------------------------------------------------------------------------
(* A sample of a legal movie is put together.                              *)
(* A track that was written is so in all but what was read.                *)
LEMMA TrackIs ==
  ASSUME TypeInv, NEW id \in DOMAIN tracks, NEW w, [tracks[id] EXCEPT !.readed = 0] = w
  PROVE  /\ w.id = id /\ w.type = tracks[id].type /\ w.refer = tracks[id].refer
         /\ w.samples = tracks[id].samples /\ id \in Nat
         /\ tracks[id].samples \in Seq([ts : Nat, off : Nat])
         /\ tracks[id].readed \in Nat
<1>1. /\ tracks[id] \in Record(Nat) /\ tracks[id].id = id /\ id \in Nat
  BY DEF TypeInv, TracksType
<1>2. PICK r \in Record(Nat) : r = tracks[id]
  BY <1>1
<1>3. w = [r EXCEPT !.readed = 0] /\ r.id = id
  BY <1>1, <1>2
<1>4. /\ w.id = r.id /\ w.type = r.type /\ w.refer = r.refer /\ w.samples = r.samples
      /\ r.samples \in Seq([ts : Nat, off : Nat]) /\ r.readed \in Nat
  BY <1>3 DEF Record
<1> QED BY <1>1, <1>2, <1>3, <1>4

(* The track that is hinted at is the one of the movie.                    *)
LEMMA SourceIs ==
  ASSUME TypeInv, Written, fd \in LegalFiles, NEW id \in DOMAIN tracks, from[id] = fd
  PROVE  (CHOOSE track \in Movie(fd) : track.id = id).samples = tracks[id].samples
<1> DEFINE w == [tracks[id] EXCEPT !.readed = 0]
           c == CHOOSE track \in Movie(fd) : track.id = id
<1>1. w \in Movie(fd)
  BY DEF Written
<1>2. w.id = id /\ w.samples = tracks[id].samples
  BY TrackIs
<1> HIDE DEF w
<1>3. c \in Movie(fd) /\ c.id = id
  BY <1>1, <1>2
<1> HIDE DEF c
<1>4. PICK t \in Traks(fd), u \in Traks(fd) : w = TrackOf(fd, t) /\ c = TrackOf(fd, u)
  BY <1>1, <1>3 DEF Movie
<1>5. t = u
  BY <1>2, <1>3, <1>4, LegalFacts DEF Legal, Described
<1> QED BY <1>2, <1>4, <1>5 DEF c

(* A sample begins with the number of its packets.                         *)
LEMMA BeginHint ==
  ASSUME TypeInv, Written, NEW id \in DOMAIN tracks, GetRtpSample(id)
  PROVE  HintInv'
<1> SUFFICES ASSUME OneMovie' PROVE \E t \in Traks(fd) : Assembled(t)'
  BY DEF HintInv, GetRtpSample, Reading
<1>1. /\ UNCHANGED <<fd, tracks, from>> /\ pc' = "packet" /\ pos' = SampleOf(id).off + 4
      /\ rd'.id = id /\ rd'.packets = At(SampleOf(id).off) /\ rd'.out = << >>
      /\ Has(SampleOf(id).off, 1) /\ tracks[id].type = "hint"
      /\ tracks[id].readed < Len(tracks[id].samples)
  BY DEF GetRtpSample, Reading, NoSample, Ready, Hinted
<1>2. fd \in LegalFiles /\ from[id] = fd
  BY <1>1 DEF OneMovie
<1>3. PICK t \in Traks(fd) : [tracks[id] EXCEPT !.readed = 0] = TrackOf(fd, t)
  BY <1>2 DEF Written, Movie
<1>4. /\ TrackOf(fd, t).type = "hint" /\ TrackOf(fd, t).samples = tracks[id].samples
      /\ tracks[id].samples \in Seq([ts : Nat, off : Nat]) /\ tracks[id].readed \in Nat
  BY <1>1, <1>3, TrackIs
<1>5. PICK i : i = tracks[id].readed + 1
  OBVIOUS
<1>6. PICK off : off = TrackOf(fd, t).samples[i].off
  OBVIOUS
<1>7. off = SampleOf(id).off
  BY <1>4, <1>5, <1>6 DEF SampleOf
<1>8. off \in Nat
  <2>1. i \in 1..Len(tracks[id].samples)
    BY <1>1, <1>4, <1>5, SMTT(40)
  <2>2. tracks[id].samples[i] \in [ts : Nat, off : Nat]
    BY <1>4, <2>1, Element
  <2> QED BY <1>4, <1>6, <2>2
<1>9. Cell(fd, off) \in Nat
  <2>1. off + 4 <= FileEnd(fd) /\ fd \in AnyFile
    BY <1>1, <1>2, <1>7, <1>8, LegalFacts DEF Has
  <2> QED BY <1>8, <2>1, CellNat
<1>10. Len(rd'.out) = 0 /\ rd'.packets + Len(rd'.out) = Cell(fd, off)
  BY <1>1, <1>7, <1>9 DEF At
<1>11. rd'.out = [k \in 1..Len(rd'.out) |-> RtpPacket(fd, t, i, PacketAt(fd, off, k))]
  BY <1>1, <1>10
<1>12. PacketAt(fd, off, Len(rd'.out) + 1) = off + 4
  <2>1. Len(rd'.out) + 1 = 1
    BY <1>10
  <2> QED BY <2>1, PacketFirst
<1>13. /\ i = tracks'[rd'.id].readed + 1 /\ fd' = fd
       /\ off = TrackOf(fd', t).samples[tracks'[rd'.id].readed + 1].off
       /\ [tracks'[rd'.id] EXCEPT !.readed = 0] = TrackOf(fd', t)
  BY <1>1, <1>3, <1>5, <1>6
<1>14. Assembled(t)'
  BY <1>1, <1>4, <1>7, <1>10, <1>11, <1>12, <1>13 DEF Assembled
<1> QED BY <1>14

\* What has been assembled, with names for its parts.
Making(t, i, off, m, p) ==
   /\ t \in Traks(fd) /\ [tracks[rd.id] EXCEPT !.readed = 0] = TrackOf(fd, t)
   /\ TrackOf(fd, t).type = "hint"
   /\ i = tracks[rd.id].readed + 1 /\ off = TrackOf(fd, t).samples[i].off
   /\ m = Len(rd.out) /\ p = PacketAt(fd, off, m + 1)
   /\ rd.packets + m = Cell(fd, off)
   /\ rd.out = [k \in 1..m |-> RtpPacket(fd, t, i, PacketAt(fd, off, k))]
   /\ pc = "packet" => pos = p
   /\ pc = "entry" =>
         LET n == Counted(fd, p) - rd.entries
         IN /\ p \in Nat /\ Counted(fd, p) \in Nat
            /\ n \in Nat /\ pos = p + 12 + 16 * n
            /\ Gathered(fd, t, p, n) \in Seq(Nat)
            /\ rd.packet = <<Cell(fd, p + 4), TrackOf(fd, t).samples[i].ts,
                             TrackOf(fd, t).id>> \o Gathered(fd, t, p, n)

(* There are such parts ...                                                *)
LEMMA MakingFrom ==
  ASSUME HintInv, OneMovie, pc \in {"packet", "entry"}
  PROVE  \E t \in Traks(fd) : \E i, off, m, p : Making(t, i, off, m, p)
<1>1. PICK t \in Traks(fd) : Assembled(t)
  BY DEF HintInv
<1>2. PICK i : i = tracks[rd.id].readed + 1
  OBVIOUS
<1>3. PICK off : off = TrackOf(fd, t).samples[i].off
  OBVIOUS
<1>4. PICK m : m = Len(rd.out)
  BY ZenonT(40)
<1>5. PICK p : p = PacketAt(fd, off, m + 1)
  OBVIOUS
<1>6. Making(t, i, off, m, p)
  BY <1>1, <1>2, <1>3, <1>4, <1>5, ZenonT(40) DEF Assembled, Making
<1> QED BY <1>6

(* ... and nothing more is asked for, before a step and behind it.         *)
LEMMA MakingTo ==
  ASSUME NEW t, NEW i, NEW off, NEW m, NEW p, Making(t, i, off, m, p)'
  PROVE  HintInv'
<1>1. Assembled(t)'
  BY ZenonT(40) DEF Assembled, Making
<1> QED BY <1>1, ZenonT(40) DEF HintInv, Making

(* The header of the next packet is where the one before has ended.        *)
LEMMA PacketHint ==
  ASSUME TypeInv, HintInv, NextPacket PROVE HintInv'
<1> SUFFICES ASSUME OneMovie' PROVE HintInv'
  BY DEF HintInv
<1>1. /\ UNCHANGED <<fd, tracks, from>> /\ pc = "packet" /\ pc' = "entry"
      /\ rd.packets > 0 /\ Has(pos, 3) /\ pos \in Nat /\ rd.id \in DOMAIN tracks
      /\ rd' = [rd EXCEPT !.entries = Count(At(pos + 8)),
                          !.packet = <<At(pos + 4), SampleOf(rd.id).ts, rd.id>>]
      /\ pos' = pos + 12 + IF Skips THEN At(pos + 12) ELSE 0
  BY DEF NextPacket, Packet, Reading, TypeInv, ReadType
<1>2. /\ rd \in [id : Nat, packets : Nat, entries : Nat, packet : Seq(Nat), out : Seq(Seq(Nat))]
  BY DEF TypeInv, ReadType
<1>3. /\ rd'.id = rd.id /\ rd'.packets = rd.packets /\ rd'.out = rd.out
      /\ rd'.entries = Count(At(pos + 8))
      /\ rd'.packet = <<At(pos + 4), SampleOf(rd.id).ts, rd.id>>
  <2> DEFINE x == Count(At(pos + 8))
             y == <<At(pos + 4), SampleOf(rd.id).ts, rd.id>>
  <2>1. rd' = [rd EXCEPT !.entries = x, !.packet = y]
    BY <1>1
  <2> HIDE DEF x, y
  <2>2. /\ rd'.id = rd.id /\ rd'.packets = rd.packets /\ rd'.out = rd.out
        /\ rd'.entries = x /\ rd'.packet = y
    BY <1>2, <2>1
  <2> QED BY <2>2 DEF x, y
<1>4. OneMovie /\ fd \in LegalFiles /\ fd \in AnyFile
  BY <1>1, <1>3, LegalFacts DEF OneMovie
<1>5. PICK t \in Traks(fd) : \E i, off, m, p : Making(t, i, off, m, p)
  BY <1>1, <1>4, MakingFrom
<1>6. PICK i, off, m, p : Making(t, i, off, m, p)
  BY <1>5, SMTT(40)
<1> DEFINE w == TrackOf(fd, t)
<1>7. [tracks[rd.id] EXCEPT !.readed = 0] = w
  BY <1>6, ZenonT(40) DEF Making
<1>17. w.type = "hint" /\ i = tracks[rd.id].readed + 1 /\ off = w.samples[i].off
  BY <1>6, ZenonT(40) DEF Making
<1>18. m = Len(rd.out) /\ pos = p /\ rd.packets + m = Cell(fd, off)
  BY <1>1, <1>6, ZenonT(40) DEF Making
<1>19. p = PacketAt(fd, off, m + 1)
  BY <1>6, ZenonT(40) DEF Making
<1>20. rd.out = [k \in 1..m |-> RtpPacket(fd, t, i, PacketAt(fd, off, k))]
  BY <1>6, ZenonT(40) DEF Making
<1>8. /\ w.id = rd.id /\ w.samples = tracks[rd.id].samples
      /\ tracks[rd.id].readed \in Nat
      /\ w.samples \in Seq([ts : Nat, off : Nat])
  <2> HIDE DEF w
  <2>1. rd.id \in DOMAIN tracks
    BY <1>1
  <2>2. /\ w.id = rd.id /\ w.samples = tracks[rd.id].samples
        /\ tracks[rd.id].samples \in Seq([ts : Nat, off : Nat])
        /\ tracks[rd.id].readed \in Nat
    BY ONLY TypeInv, <1>7, <2>1, TrackIs
  <2> QED BY <2>2
<1>9. i \in DOMAIN w.samples
  <2>1. tracks[rd.id].readed < Len(tracks[rd.id].samples)
    BY <1>1 DEF TypeInv, ReadType
  <2> HIDE DEF w
  <2> QED BY <1>8, <1>17, <2>1
<1>10. Cell(fd, pos + 8) < 16 /\ Cell(fd, pos + 8) \in Nat
  <2>1. m \in Nat /\ rd.packets \in Nat
    <3>1. rd.out \in Seq(Seq(Nat))
      BY <1>2
    <3> QED BY <1>2, <1>18, <3>1
  <2>2. m + 1 \in 1..Cell(fd, off)
    <3>1. PICK a \in Nat : a = rd.packets
      BY <2>1
    <3>2. a > 0 /\ a + m = Cell(fd, off)
      BY <1>1, <1>18, <3>1
    <3> QED BY <2>1, <3>2
  <2>3. Cell(fd, PacketAt(fd, off, m + 1) + 8) < 16
    <3>1. Unflagged(fd)
      BY <1>4, LegalFacts DEF Legal
    <3> QED BY <1>5, <1>9, <1>17, <2>2, <3>1 DEF Unflagged
  <2>4. pos + 8 \in Nat /\ pos + 8 + 4 <= FileEnd(fd)
    <3>1. FileEnd(fd) \in Nat /\ pos + 4 * 3 <= FileEnd(fd)
      BY <1>1, <1>4, FileFacts DEF Has
    <3> QED BY <1>1, <3>1
  <2> QED BY <1>4, <1>18, <1>19, <2>3, <2>4, CellNat
<1>11. ~Skips
  <2>1. PICK c \in Nat : c = Cell(fd, pos + 8) /\ c < 16
    BY <1>10
  <2>2. c \div 256 # 4
    BY <2>1
  <2> QED BY <2>1, <2>2 DEF Skips, Flags, At
<1>12. Counted(fd, p) - rd'.entries = 0 /\ Counted(fd, p) \in Nat /\ p \in Nat
  <2>1. PICK c \in Nat : c = Cell(fd, pos + 8)
    BY <1>10
  <2>2. Counted(fd, p) = c % 16 /\ rd'.entries = c % 16
    BY <1>3, <1>18, <2>1 DEF Counted, Count, At
  <2>3. c % 16 \in Nat
    BY <2>1
  <2> QED BY <1>1, <1>18, <2>2, <2>3
<1>13. pos' = p + 12 + 16 * 0
  <2>1. pos' = pos + 12 + 0
    BY <1>1, <1>11
  <2> QED BY <1>1, <1>18, <2>1
<1>14. Gathered(fd, t, p, 0) = << >> /\ Gathered(fd, t, p, 0) \in Seq(Nat)
  <2>1. Gathered(fd, t, p, 0) = << >>
    BY GatheredNone
  <2>2. << >> \in Seq(Nat)
    OBVIOUS
  <2> QED BY <2>1, <2>2
<1>15. rd'.packet = <<Cell(fd, p + 4), TrackOf(fd, t).samples[i].ts, TrackOf(fd, t).id>>
                    \o Gathered(fd, t, p, 0)
  <2> DEFINE x == Cell(fd, p + 4)
             y == TrackOf(fd, t).samples[i].ts
             z == TrackOf(fd, t).id
  <2>1. rd'.packet = <<x, y, z>>
    BY <1>3, <1>8, <1>17, <1>18 DEF At, SampleOf
  <2> HIDE DEF x, y, z
  <2>2. <<x, y, z>> \o << >> = <<x, y, z>>
    OBVIOUS
  <2>3. rd'.packet = <<x, y, z>> \o Gathered(fd, t, p, 0)
    BY <1>14, <2>1, <2>2, SMTT(40)
  <2> QED BY <2>3 DEF x, y, z
<1>16. Making(t, i, off, m, p)'
  <2>1. LET n == Counted(fd', p) - rd'.entries
        IN /\ p \in Nat /\ Counted(fd', p) \in Nat
           /\ n \in Nat /\ pos' = p + 12 + 16 * n
           /\ Gathered(fd', t, p, n) \in Seq(Nat)
           /\ rd'.packet = <<Cell(fd', p + 4), TrackOf(fd', t).samples[i].ts,
                             TrackOf(fd', t).id>> \o Gathered(fd', t, p, n)
    BY <1>1, <1>12, <1>13, <1>14, <1>15, SMTT(40)
  <2>2. /\ t \in Traks(fd') /\ [tracks'[rd'.id] EXCEPT !.readed = 0] = TrackOf(fd', t)
        /\ TrackOf(fd', t).type = "hint"
        /\ i = tracks'[rd'.id].readed + 1 /\ off = TrackOf(fd', t).samples[i].off
        /\ m = Len(rd'.out) /\ p = PacketAt(fd', off, m + 1)
        /\ rd'.packets + m = Cell(fd', off)
    BY <1>1, <1>3, <1>5, <1>7, <1>17, <1>18, <1>19, ZenonT(40)
  <2>3. rd'.out = [k \in 1..m |-> RtpPacket(fd', t, i, PacketAt(fd', off, k))]
    BY <1>1, <1>3, <1>20
  <2>4. pc' # "packet"
    BY <1>1
  <2> QED BY ONLY <2>1, <2>2, <2>3, <2>4, ZenonT(40) DEF Making
<1> QED BY <1>16, MakingTo

(* The parts of a packet, put together in any order.                       *)
LEMMA Three ==
  ASSUME NEW a, NEW b, NEW c, NEW g \in Seq(Nat), NEW d \in Seq(Nat)
  PROVE  (<<a, b, c>> \o g) \o d = <<a, b, c>> \o (g \o d) /\ g \o d \in Seq(Nat)
<1> DEFINE S == Nat \cup {a, b, c}
           h == <<a, b, c>>
<1>1. h \in Seq(S) /\ g \in Seq(S) /\ d \in Seq(S) /\ g \o d \in Seq(Nat)
  <2>1. h \in Seq(S)
    OBVIOUS
  <2>2. \A w \in Seq(Nat) : w \in Seq(S)
    <3>1. Nat \subseteq S
      OBVIOUS
    <3> HIDE DEF S
    <3>2. SUFFICES ASSUME NEW w \in Seq(Nat) PROVE w \in Seq(S)
      OBVIOUS
    <3>3. \A k \in 1..Len(w) : w[k] \in S
      BY <3>1, ElementOfSeq
    <3> QED BY <3>3
  <2>3. g \o d \in Seq(Nat)
    BY ConcatProperties
  <2> QED BY <2>1, <2>2, <2>3
<1> HIDE DEF S, h
<1>2. (h \o g) \o d = h \o (g \o d)
  BY <1>1, ConcatAssociative, SMTT(40)
<1> QED BY <1>1, <1>2 DEF h

(* An entry adds its data, whatever it is.                                 *)
LEMMA EntryHint ==
  ASSUME TypeInv, HintInv, OneMovie, Entry, NEW data \in Seq(Nat), Copy(data),
         \A t \in Traks(fd) :
            [tracks[rd.id] EXCEPT !.readed = 0] = TrackOf(fd, t) =>
               data = EntryData(fd, t, pos)
  PROVE  HintInv'
<1>1. /\ UNCHANGED <<fd, tracks, from, pc>> /\ pc = "entry" /\ rd.entries > 0
      /\ rd' = [rd EXCEPT !.packet = @ \o data, !.entries = @ - 1]
      /\ pos' = pos + 16 /\ pos \in Nat
  BY DEF Copy, Reading, Entry, TypeInv
<1>2. rd \in [id : Nat, packets : Nat, entries : Nat, packet : Seq(Nat), out : Seq(Seq(Nat))]
  BY DEF TypeInv, ReadType
<1>3. /\ rd'.id = rd.id /\ rd'.packets = rd.packets /\ rd'.out = rd.out
      /\ rd'.entries = rd.entries - 1 /\ rd'.packet = rd.packet \o data
  <2> DEFINE x == rd.entries - 1
             y == rd.packet \o data
  <2>1. rd' = [rd EXCEPT !.packet = y, !.entries = x]
    BY <1>1
  <2> HIDE DEF x, y
  <2>2. /\ rd'.id = rd.id /\ rd'.packets = rd.packets /\ rd'.out = rd.out
        /\ rd'.entries = x /\ rd'.packet = y
    BY <1>2, <2>1
  <2> QED BY <2>2 DEF x, y
<1>4. PICK t \in Traks(fd) : \E i, off, m, p : Making(t, i, off, m, p)
  BY <1>1, MakingFrom
<1>5. PICK i, off, m, p : Making(t, i, off, m, p)
  BY <1>4, SMTT(40)
<1> DEFINE w == TrackOf(fd, t)
<1>6. [tracks[rd.id] EXCEPT !.readed = 0] = w
  BY <1>5, ZenonT(40) DEF Making
<1>7. w.type = "hint" /\ i = tracks[rd.id].readed + 1 /\ off = w.samples[i].off
  BY <1>5, ZenonT(40) DEF Making
<1>8. m = Len(rd.out) /\ rd.packets + m = Cell(fd, off)
  BY <1>5, ZenonT(40) DEF Making
<1>9. p = PacketAt(fd, off, m + 1)
  BY <1>5, ZenonT(40) DEF Making
<1>10. rd.out = [k \in 1..m |-> RtpPacket(fd, t, i, PacketAt(fd, off, k))]
  BY <1>5, ZenonT(40) DEF Making
<1>11. PICK n : n = Counted(fd, p) - rd.entries
  BY SMTT(40)
<1>12. /\ n \in Nat /\ pos = p + 12 + 16 * n
       /\ p \in Nat /\ Counted(fd, p) \in Nat
  BY <1>1, <1>5, <1>11, ZenonT(40) DEF Making
<1>13. /\ Gathered(fd, t, p, n) \in Seq(Nat)
       /\ rd.packet = <<Cell(fd, p + 4), w.samples[i].ts, w.id>> \o Gathered(fd, t, p, n)
  BY <1>1, <1>5, <1>11, ZenonT(40) DEF Making
<1>14. data = EntryData(fd, t, p + 12 + 16 * n)
  BY <1>4, <1>6, <1>12
<1>15. Gathered(fd, t, p, n + 1) = Gathered(fd, t, p, n) \o data
  BY <1>12, <1>14, GatheredNext
<1>16. /\ rd'.packet = <<Cell(fd, p + 4), w.samples[i].ts, w.id>> \o Gathered(fd, t, p, n + 1)
       /\ Gathered(fd, t, p, n + 1) \in Seq(Nat)
  <2> DEFINE x == Cell(fd, p + 4)
             y == w.samples[i].ts
             z == w.id
             g == Gathered(fd, t, p, n)
  <2>1. rd.packet = <<x, y, z>> \o g /\ g \in Seq(Nat)
    BY <1>13
  <2> HIDE DEF x, y, z, g
  <2>2. (<<x, y, z>> \o g) \o data = <<x, y, z>> \o (g \o data) /\ g \o data \in Seq(Nat)
    BY ONLY <2>1, data \in Seq(Nat), Three
  <2>3. rd'.packet = <<x, y, z>> \o (g \o data)
    BY <1>3, <2>1, <2>2
  <2>4. Gathered(fd, t, p, n + 1) = g \o data
    BY <1>15 DEF g
  <2>5. rd'.packet = <<x, y, z>> \o Gathered(fd, t, p, n + 1)
    BY <2>3, <2>4
  <2> QED BY <2>2, <2>4, <2>5 DEF x, y, z
<1>17. Counted(fd, p) - rd'.entries = n + 1 /\ n + 1 \in Nat /\ pos' = p + 12 + 16 * (n + 1)
  <2>1. rd.entries \in Nat
    BY <1>2
  <2>2. Counted(fd, p) \in Int /\ p \in Int
    BY <1>12
  <2>3. PICK a \in Int, b \in Nat, q \in Int : a = Counted(fd, p) /\ b = rd.entries /\ q = p
    BY <2>1, <2>2
  <2>4. a - (b - 1) = n + 1
    BY <1>11, <1>12, <2>3
  <2>5. q + 12 + 16 * n + 16 = q + 12 + 16 * (n + 1)
    BY <1>12
  <2> QED BY <1>1, <1>3, <1>12, <2>3, <2>4, <2>5, SMTT(40)
<1>18. Making(t, i, off, m, p)'
  <2>1. LET k == Counted(fd', p) - rd'.entries
        IN /\ p \in Nat /\ Counted(fd', p) \in Nat
           /\ k \in Nat /\ pos' = p + 12 + 16 * k
           /\ Gathered(fd', t, p, k) \in Seq(Nat)
           /\ rd'.packet = <<Cell(fd', p + 4), TrackOf(fd', t).samples[i].ts,
                             TrackOf(fd', t).id>> \o Gathered(fd', t, p, k)
    BY <1>1, <1>12, <1>16, <1>17
  <2>2. /\ t \in Traks(fd') /\ [tracks'[rd'.id] EXCEPT !.readed = 0] = TrackOf(fd', t)
        /\ TrackOf(fd', t).type = "hint"
        /\ i = tracks'[rd'.id].readed + 1 /\ off = TrackOf(fd', t).samples[i].off
        /\ m = Len(rd'.out) /\ p = PacketAt(fd', off, m + 1)
        /\ rd'.packets + m = Cell(fd', off)
    BY <1>1, <1>3, <1>4, <1>6, <1>7, <1>8, <1>9
  <2>3. rd'.out = [k \in 1..m |-> RtpPacket(fd', t, i, PacketAt(fd', off, k))]
    BY <1>1, <1>3, <1>10
  <2>4. pc' # "packet"
    BY <1>1
  <2> QED BY ONLY <2>1, <2>2, <2>3, <2>4, ZenonT(40) DEF Making
<1> QED BY <1>18, MakingTo

(* Bytes of its own.                                                       *)
LEMMA ImmediateHint == TypeInv /\ HintInv /\ Immediate => HintInv'
<1> SUFFICES ASSUME TypeInv, HintInv, Immediate, OneMovie' PROVE HintInv'
  BY DEF HintInv
<1> DEFINE data == Cells(pos + 4, Arg)
<1>1. Entry /\ Copy(data) /\ Kind = 1 /\ Arg <= 3
  BY DEF Immediate
<1>2. UNCHANGED <<fd, tracks, from>> /\ rd'.id = rd.id /\ Has(pos, 4) /\ pos \in Nat
  <2>1. rd \in [id : Nat, packets : Nat, entries : Nat, packet : Seq(Nat), out : Seq(Seq(Nat))]
    BY DEF TypeInv, ReadType
  <2> HIDE DEF data
  <2> QED BY <1>1, <2>1 DEF Copy, Reading, Entry, TypeInv
<1>3. OneMovie /\ fd \in AnyFile
  BY <1>2, LegalFacts DEF OneMovie
<1>4. FileEnd(fd) \in Nat /\ pos + 4 * 4 <= FileEnd(fd)
  BY <1>2, <1>3, FileFacts DEF Has
<1>5. Arg \in Nat
  <2>1. Cell(fd, pos) \in Nat
    BY <1>2, <1>3, <1>4, CellNat
  <2>2. PICK c \in Nat : c = At(pos)
    BY <2>1 DEF At
  <2>3. (c \div 16) % 16 \in Nat
    BY <2>2
  <2> QED BY <2>2, <2>3 DEF Arg
<1>6. data \in Seq(Nat)
  <2>1. PICK a \in Nat : a = Arg
    BY <1>5
  <2>2. pos + 4 \in Nat /\ pos + 4 + 4 * a <= FileEnd(fd)
    BY <1>1, <1>2, <1>4, <2>1
  <2>3. Span(fd, pos + 4, a) \in Seq(Nat)
    BY <1>3, <2>2, SpanType
  <2> QED BY <2>1, <2>3 DEF Cells
<1>7. \A t \in Traks(fd) : data = EntryData(fd, t, pos)
  BY <1>1 DEF EntryData, EntryKind, EntryArg, Kind, Arg, Cells, At
<1> HIDE DEF data
<1> QED BY <1>1, <1>3, <1>6, <1>7, EntryHint

(* A piece of a sample.                                                    *)
LEMMA PieceHint == TypeInv /\ HintInv /\ Written /\ Piece => HintInv'
<1> SUFFICES ASSUME TypeInv, HintInv, Written, Piece, OneMovie' PROVE HintInv'
  BY DEF HintInv
<1> DEFINE data == Cells(From, Length)
           id == PiecesTrack
<1>1. /\ Entry /\ Copy(data) /\ Kind = 2 /\ Has(From, Length)
      /\ id \in DOMAIN tracks /\ Number \in DOMAIN tracks[id].samples
  BY DEF Piece, Known
<1>2. UNCHANGED <<fd, tracks, from>> /\ rd'.id = rd.id /\ Has(pos, 4) /\ pos \in Nat
      /\ rd.id \in DOMAIN tracks
  <2>1. rd \in [id : Nat, packets : Nat, entries : Nat, packet : Seq(Nat), out : Seq(Seq(Nat))]
    BY DEF TypeInv, ReadType
  <2> HIDE DEF data
  <2> QED BY <1>1, <2>1 DEF Copy, Reading, Entry, TypeInv, ReadType
<1>3. OneMovie /\ fd \in AnyFile /\ fd \in LegalFiles
  BY <1>2, LegalFacts DEF OneMovie
<1>4. FileEnd(fd) \in Nat /\ pos + 4 * 4 <= FileEnd(fd)
  BY <1>2, <1>3, FileFacts DEF Has
<1>5. Length \in Nat /\ At(pos + 8) \in Nat
  <2>1. Cell(fd, pos) \in Nat
    BY <1>2, <1>3, <1>4, CellNat
  <2>2. Cell(fd, pos + 8) \in Nat
    <3>1. pos + 8 \in Nat /\ pos + 8 + 4 <= FileEnd(fd)
      BY <1>2, <1>4
    <3> QED BY <1>3, <3>1, CellNat
  <2>3. PICK c \in Nat : c = At(pos)
    BY <2>1 DEF At
  <2>4. c % 16 \in Nat
    BY <2>3
  <2> QED BY <2>2, <2>3, <2>4 DEF Length, At
<1> DEFINE off == tracks[id].samples[Number].off
<1>6. off \in Nat /\ From = off + At(pos + 8)
  <2>1. tracks[id].samples \in Seq([ts : Nat, off : Nat])
    BY <1>1 DEF TypeInv, TracksType, Record
  <2>2. Number \in 1..Len(tracks[id].samples)
    BY <1>1, <2>1
  <2>3. tracks[id].samples[Number] \in [ts : Nat, off : Nat]
    BY <2>1, <2>2, Element
  <2> QED BY <2>3 DEF From
<1>7. data \in Seq(Nat)
  <2>1. PICK x \in Nat, n \in Nat : x = From /\ n = Length
    <3>1. off + At(pos + 8) \in Nat
      BY <1>5, <1>6
    <3>2. From \in Nat
      BY <1>6, <3>1
    <3> QED BY <1>5, <3>2
  <2>2. x + 4 * n <= FileEnd(fd)
    BY <1>1, <2>1 DEF Has
  <2>3. Span(fd, x, n) \in Seq(Nat)
    BY <1>3, <2>2, SpanType
  <2> QED BY <2>1, <2>3 DEF Cells
<1>8. ASSUME NEW t \in Traks(fd), [tracks[rd.id] EXCEPT !.readed = 0] = TrackOf(fd, t)
      PROVE  data = EntryData(fd, t, pos)
  <2>1. /\ TrackOf(fd, t).refer = tracks[rd.id].refer
        /\ TrackOf(fd, t).samples = tracks[rd.id].samples
    BY <1>2, <1>8, TrackIs
  <2>2. Source(fd, t, pos).samples = tracks[id].samples
    <3>1. CASE Arg = 0
      <4>1. id = tracks[rd.id].refer /\ EntryArg(fd, pos) = 0
        BY <3>1 DEF PiecesTrack, Arg, EntryArg, At
      <4>2. from[id] = fd
        BY <1>1, <1>3, <4>1 DEF OneMovie
      <4>3. (CHOOSE track \in Movie(fd) : track.id = id).samples = tracks[id].samples
        BY <1>1, <1>3, <4>2, SourceIs
      <4>4. Source(fd, t, pos) = CHOOSE track \in Movie(fd) : track.id = id
        BY <2>1, <4>1 DEF Source
      <4> QED BY <4>3, <4>4
    <3>2. CASE Arg # 0
      <4>1. id = rd.id /\ EntryArg(fd, pos) # 0
        BY <3>2 DEF PiecesTrack, Arg, EntryArg, At
      <4> QED BY <2>1, <4>1 DEF Source
    <3> QED BY <3>1, <3>2
  <2>3. EntryKind(fd, pos) # 1 /\ EntryLength(fd, pos) = Length
    BY <1>1 DEF EntryKind, Kind, EntryLength, Length, At
  <2>4. EntryData(fd, t, pos) =
           Span(fd, Source(fd, t, pos).samples[Cell(fd, pos + 4)].off + Cell(fd, pos + 8),
                EntryLength(fd, pos))
    BY <2>3 DEF EntryData
  <2>5. Cell(fd, pos + 4) = Number /\ Cell(fd, pos + 8) = At(pos + 8)
    BY DEF Number, At
  <2> QED BY <1>6, <2>2, <2>3, <2>4, <2>5 DEF Cells
<1> HIDE DEF data
<1> QED BY <1>1, <1>3, <1>7, <1>8, EntryHint

(* A packet has been made, the next one begins behind its entries.         *)
LEMMA MadeHint == TypeInv /\ HintInv /\ PacketMade => HintInv'
<1> SUFFICES ASSUME TypeInv, HintInv, PacketMade, OneMovie' PROVE HintInv'
  BY DEF HintInv
<1>1. /\ UNCHANGED <<fd, tracks, from, pos>> /\ pc = "entry" /\ pc' = "packet"
      /\ rd.entries = 0
      /\ rd' = [rd EXCEPT !.out = Append(@, rd.packet), !.packets = @ - 1]
  BY DEF PacketMade, Reading
<1>2. rd \in [id : Nat, packets : Nat, entries : Nat, packet : Seq(Nat), out : Seq(Seq(Nat))]
  BY DEF TypeInv, ReadType
<1>3. /\ rd'.id = rd.id /\ rd'.packets = rd.packets - 1
      /\ rd'.out = Append(rd.out, rd.packet)
  <2> DEFINE x == Append(rd.out, rd.packet)
             y == rd.packets - 1
  <2>1. rd' = [rd EXCEPT !.out = x, !.packets = y]
    BY <1>1
  <2> HIDE DEF x, y
  <2>2. rd'.id = rd.id /\ rd'.packets = y /\ rd'.out = x
    BY <1>2, <2>1
  <2> QED BY <2>2 DEF x, y
<1>4. OneMovie
  BY <1>1, <1>3 DEF OneMovie
<1>5. PICK t \in Traks(fd) : \E i, off, m, p : Making(t, i, off, m, p)
  BY <1>1, <1>4, MakingFrom
<1>6. PICK i, off, m, p : Making(t, i, off, m, p)
  BY <1>5, SMTT(40)
<1> DEFINE w == TrackOf(fd, t)
<1>7. [tracks[rd.id] EXCEPT !.readed = 0] = w
  BY <1>6, ZenonT(40) DEF Making
<1>8. w.type = "hint" /\ i = tracks[rd.id].readed + 1 /\ off = w.samples[i].off
  BY <1>6, ZenonT(40) DEF Making
<1>9. m = Len(rd.out) /\ rd.packets + m = Cell(fd, off)
  BY <1>6, ZenonT(40) DEF Making
<1>10. p = PacketAt(fd, off, m + 1)
  BY <1>6, ZenonT(40) DEF Making
<1>11. rd.out = [k \in 1..m |-> RtpPacket(fd, t, i, PacketAt(fd, off, k))]
  BY <1>6, ZenonT(40) DEF Making
<1>12. PICK n : n = Counted(fd, p)
  OBVIOUS
<1>13. n \in Nat /\ n - rd.entries = n
  <2>1. n \in Nat
    BY <1>1, <1>6, <1>12, ZenonT(40) DEF Making
  <2> QED BY <1>1, <2>1, SMTT(40)
<1>14. /\ pos = p + 12 + 16 * n
       /\ rd.packet = <<Cell(fd, p + 4), w.samples[i].ts, w.id>> \o Gathered(fd, t, p, n)
  <2>1. LET k == Counted(fd, p) - rd.entries
        IN /\ pos = p + 12 + 16 * k
           /\ rd.packet = <<Cell(fd, p + 4), w.samples[i].ts, w.id>> \o Gathered(fd, t, p, k)
    BY <1>1, <1>6, ZenonT(40) DEF Making
  <2> QED BY <1>12, <1>13, <2>1, SMTT(40)
<1>15. rd.packet = RtpPacket(fd, t, i, p)
  BY <1>12, <1>14 DEF RtpPacket
<1>16. m \in Nat /\ Len(rd'.out) = m + 1 /\ rd'.packets + (m + 1) = Cell(fd, off)
  <2>1. m \in Nat /\ Len(rd'.out) = m + 1
    <3>1. PICK q \in Seq(Seq(Nat)), x \in Seq(Nat) : q = rd.out /\ x = rd.packet
      BY <1>2
    <3>2. rd'.out = Append(q, x) /\ m = Len(q)
      BY <1>3, <1>9, <3>1
    <3> QED BY <3>2
  <2>2. PICK a \in Nat : a = rd.packets
    BY <1>2
  <2>3. a - 1 + (m + 1) = a + m
    BY <2>1
  <2> QED BY <1>3, <1>9, <2>1, <2>2, <2>3
<1>17. rd'.out = [k \in 1..m + 1 |-> RtpPacket(fd, t, i, PacketAt(fd, off, k))]
  <2> DEFINE made(k) == RtpPacket(fd, t, i, PacketAt(fd, off, k))
  <2>1. rd.packet = made(m + 1)
    BY <1>10, <1>15
  <2>2. rd.out = [k \in 1..m |-> made(k)]
    BY <1>11
  <2> HIDE DEF made
  <2>3. PICK q \in Seq(Seq(Nat)), x \in Seq(Nat) : q = rd.out /\ x = rd.packet
    BY <1>2
  <2>4. rd'.out = Append(q, x) /\ m = Len(q) /\ q = [k \in 1..m |-> made(k)] /\ x = made(m + 1)
    BY <1>3, <1>9, <2>1, <2>2, <2>3
  <2>5. Append(q, x) = [k \in 1..m + 1 |-> made(k)]
    <3>1. /\ Append(q, x) = [k \in 1..m + 1 |-> Append(q, x)[k]]
          /\ \A k \in 1..m : Append(q, x)[k] = q[k]
          /\ Append(q, x)[m + 1] = x
      <4>1. Append(q, x) \in Seq(Seq(Nat)) /\ m + 1 = Len(Append(q, x))
        BY <2>4
      <4>2. Append(q, x) = [k \in 1..m + 1 |-> Append(q, x)[k]]
        BY ONLY <4>1, Whole
      <4> QED BY <2>4, <4>2
    <3>2. ASSUME NEW k \in 1..m + 1 PROVE Append(q, x)[k] = made(k)
      <4>1. CASE k = m + 1
        BY <2>4, <3>1, <4>1
      <4>2. CASE k \in 1..m
        <5>1. q[k] = made(k)
          BY <2>4, <4>2
        <5> QED BY <3>1, <4>2, <5>1
      <4>3. m \in Nat
        BY <1>16
      <4>4. k = m + 1 \/ k \in 1..m
        BY ONLY <4>3, k \in 1..m + 1
      <4> QED BY <4>1, <4>2, <4>4
    <3> QED BY <3>1, <3>2
  <2>6. rd'.out = [k \in 1..m + 1 |-> made(k)]
    BY <2>4, <2>5
  <2> QED BY <2>6 DEF made
<1>18. PICK q : q = PacketAt(fd, off, m + 1 + 1)
  OBVIOUS
<1>19. pos' = q
  <2>1. m + 1 \in Nat \ {0}
    BY <1>16
  <2>2. q = Later(fd, p)
    BY <1>10, <1>18, <2>1, PacketNext, SMTT(40)
  <2> QED BY <1>1, <1>12, <1>14, <2>2 DEF Later
<1>20. Making(t, i, off, m + 1, q)'
  <2>1. /\ t \in Traks(fd') /\ [tracks'[rd'.id] EXCEPT !.readed = 0] = TrackOf(fd', t)
        /\ TrackOf(fd', t).type = "hint"
        /\ i = tracks'[rd'.id].readed + 1 /\ off = TrackOf(fd', t).samples[i].off
        /\ m + 1 = Len(rd'.out) /\ q = PacketAt(fd', off, m + 1 + 1)
        /\ rd'.packets + (m + 1) = Cell(fd', off)
    BY <1>1, <1>3, <1>5, <1>7, <1>8, <1>16, <1>18
  <2>2. rd'.out = [k \in 1..m + 1 |-> RtpPacket(fd', t, i, PacketAt(fd', off, k))]
    BY <1>1, <1>17
  <2>3. pc' # "entry" /\ pos' = q
    BY <1>1, <1>19
  <2> QED BY ONLY <2>1, <2>2, <2>3, ZenonT(40) DEF Making
<1> QED BY <1>20, MakingTo

(* The packets in the making are those that are meant, whatever is done.   *)
LEMMA NextHint == TypeInv /\ HintInv /\ Written /\ [Next]_vars => HintInv'
<1> SUFFICES ASSUME TypeInv, HintInv, Written, [Next]_vars,
                    pc' \in {"packet", "entry"}
             PROVE  HintInv'
  BY DEF HintInv
<1>1. CASE Call
  <2>1. CASE \E f \in Files : Parse(f)
    BY <2>1 DEF Parse
  <2>2. ASSUME OpenFails \/ Close PROVE FALSE
    BY <2>2 DEF OpenFails, Close
  <2>3. ASSUME NEW id \in DOMAIN tracks, GetRtpSample(id) \/ NoTimescale(id) \/ NoCount(id)
        PROVE  HintInv'
    <3>1. CASE GetRtpSample(id)
      BY <3>1, BeginHint
    <3>2. CASE NoTimescale(id) \/ NoCount(id)
      BY <3>2 DEF NoTimescale, NoCount, Undefined, GivesUp, Over
    <3> QED BY <2>3, <3>1, <3>2
  <2> QED BY <1>1, <2>1, <2>2, <2>3 DEF Call
<1>2. CASE Walk
  <2>1. pc = "box"
    BY <1>2 DEF Walk, Refuses, Breaks, NoHeader, TooShort, OtherBrand, NoTrackThere,
                NoDuration, NoChunk, Enter, OnTrack, PassOver, LeaveContainer, LeaveTrak,
                Parsed, Enough, Leaf, Header, Unread, Read
  <2>2. pc' \in {"idle", "undefined", pc}
    BY <1>2 DEF Walk, Refused, Undefined, Enter, OnTrack, PassOver, LeaveContainer,
                LeaveTrak, Parsed, Behind, Return, Skip, Over
  <2> QED BY <2>1, <2>2
<1>3. CASE Assemble
  <2>1. CASE NextPacket
    BY <2>1, PacketHint
  <2>2. CASE Immediate
    BY <2>2, ImmediateHint
  <2>3. CASE Piece
    BY <2>3, PieceHint
  <2>4. CASE PacketMade
    BY <2>4, MadeHint
  <2>5. CASE \/ NoPacket \/ NoExtra \/ NoEntry \/ NoPiece \/ NoSuchTrack
             \/ BadEntry \/ SampleMade
    BY <2>5 DEF NoPacket, NoExtra, NoEntry, NoPiece, NoSuchTrack, BadEntry, SampleMade,
                GivesUp, Over, Undefined
  <2> QED BY <1>3, <2>1, <2>2, <2>3, <2>4, <2>5 DEF Assemble
<1>4. CASE Fails \/ ReadFails
  BY <1>4 DEF Fails, ReadFails, Refused, GivesUp, Over
<1>5. CASE UNCHANGED vars
  <2>1. UNCHANGED <<fd, pos, tracks, from, rd, pc>>
    BY <1>5 DEF vars
  <2>2. CASE OneMovie'
    <3>1. OneMovie /\ pc \in {"packet", "entry"}
      BY <2>1, <2>2 DEF OneMovie
    <3>2. PICK t \in Traks(fd) : \E i, off, m, p : Making(t, i, off, m, p)
      BY <3>1, MakingFrom
    <3>3. PICK i, off, m, p : Making(t, i, off, m, p)
      BY <3>2, SMTT(40)
    <3>4. Making(t, i, off, m, p)'
      BY <2>1, <3>3, ZenonT(40) DEF Making
    <3> QED BY <3>4, MakingTo
  <2>3. CASE ~OneMovie'
    BY <2>3 DEF HintInv
  <2> QED BY <2>2, <2>3
<1> QED BY <1>1, <1>2, <1>3, <1>4, <1>5 DEF Next

(* A sample that is complete.                                              *)
LEMMA SampleGives ==
  ASSUME TypeInv, HintInv, SampleMade, OneMovie
  PROVE  \E t \in Traks(fd) :
            /\ TrackOf(fd, t).id = rd.id
            /\ rd.out = PacketsOf(fd, t, tracks[rd.id].readed + 1)
<1>1. pc = "packet" /\ rd.packets = 0 /\ rd.id \in DOMAIN tracks
  BY DEF SampleMade, TypeInv, ReadType
<1>2. PICK t \in Traks(fd) : \E i, off, m, p : Making(t, i, off, m, p)
  BY <1>1, MakingFrom
<1>3. PICK i, off, m, p : Making(t, i, off, m, p)
  BY <1>2
<1>4. [tracks[rd.id] EXCEPT !.readed = 0] = TrackOf(fd, t)
  BY <1>3, ZenonT(40) DEF Making
<1>5. i = tracks[rd.id].readed + 1 /\ off = TrackOf(fd, t).samples[i].off
  BY <1>3, ZenonT(40) DEF Making
<1>6. m = Len(rd.out) /\ rd.packets + m = Cell(fd, off)
  BY <1>3, ZenonT(40) DEF Making
<1>7. rd.out = [k \in 1..m |-> RtpPacket(fd, t, i, PacketAt(fd, off, k))]
  BY <1>3, ZenonT(40) DEF Making
<1>8. m = Cell(fd, off)
  <2>1. rd.out \in Seq(Seq(Nat))
    BY DEF TypeInv, ReadType
  <2>2. m \in Nat
    BY <1>6, <2>1
  <2> QED BY <1>1, <1>6, <2>2
<1>9. rd.out = PacketsOf(fd, t, i)
  BY <1>5, <1>7, <1>8, Zenon DEF PacketsOf
<1>10. TrackOf(fd, t).id = rd.id
  BY <1>1, <1>4, TrackIs
<1> QED BY <1>5, <1>9, <1>10

-----------------------------------------------------------------------------
(* All of that together.                                                   *)
Inv == TypeInv /\ WalkInv /\ Written /\ HintInv

(* It holds at first, and every step keeps it.                             *)
LEMMA AllInv == Spec => []Inv
<1>1. Init => Inv
  <2> SUFFICES ASSUME Init PROVE Inv
    OBVIOUS
  <2>1. pc = "idle" /\ DOMAIN tracks = {}
    BY DEF Init, NoTracks
  <2> QED BY <2>1, InitType DEF Inv, WalkInv, Written, HintInv
<1>2. Inv /\ [Next]_vars => Inv'
  BY NextType, NextWalk, NextWritten, NextHint DEF Inv
<1> QED BY <1>1, <1>2, PTL DEF Spec

(* Whatever is in the files, the parser's numbers stay in a size_t, a      *)
(* track has its own ID, and no more samples of it are read than it has.   *)
THEOREM DemuxerTypes == Spec => []TypeOK
<1>1. Inv => TypeOK
  BY TypeGives DEF Inv
<1> QED BY <1>1, AllInv, PTL

(* Whatever files are parsed, in whatever order, and wherever a parse has  *)
(* stopped: a track found in a legal movie is one its author described     *)
(* (ParseTrak, Mp4.cpp).                                                   *)
THEOREM DemuxerTracks == Spec => []TracksAsWritten
<1>1. Inv => TracksAsWritten
  BY TypeGives DEF Inv, Written, TracksAsWritten
<1> QED BY <1>1, AllInv, PTL

(* A legal movie of any nesting is not refused but by a read that fails,   *)
(* and meets no assert, no null track and no end of an array (ParseAtom).  *)
THEOREM DemuxerParses == Spec => []LegalParses
<1>1. Inv => LegalParses
  BY LegalGives DEF Inv
<1> QED BY <1>1, AllInv, PTL

(* When Parse returns true for a legal movie, it has all its tracks.       *)
THEOREM DemuxerAllTracks == Spec => AllTracks
<1>1. Inv /\ [Next]_vars =>
         [Parsed /\ fd \in LegalFiles =>
            \A track \in Movie(fd) : track.id \in DOMAIN tracks]_vars
  BY AllFound DEF Inv
<1> QED BY <1>1, AllInv, PTL DEF Spec, AllTracks

(* The packets of a sample of any legal movie are those that its hint      *)
(* track means, wherever its pieces are (GetRtpSample).                    *)
THEOREM DemuxerPackets == Spec => PacketsAsHinted
<1>1. Inv /\ [Next]_vars =>
         [SampleMade /\ fd \in LegalFiles /\ from[rd.id] = fd
            /\ (tracks[rd.id].refer \in DOMAIN tracks => from[tracks[rd.id].refer] = fd) =>
             \E t \in Traks(fd) :
                /\ TrackOf(fd, t).id = rd.id
                /\ rd.out = PacketsOf(fd, t, tracks[rd.id].readed + 1)]_vars
  BY SampleGives DEF Inv, OneMovie
<1> QED BY <1>1, AllInv, PTL DEF Spec, PacketsAsHinted
=============================================================================
