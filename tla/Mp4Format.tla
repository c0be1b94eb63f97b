------------------------------ MODULE Mp4Format ------------------------------
(***************************************************************************)
(* What the file format says of a movie with hint tracks, as far as        *)
(* CMp4Demuxer (src/src/Mp4.cpp) reads it: where its boxes are, which      *)
(* tracks they describe, and which packets a sample of a hint track is     *)
(* made of.  Nothing here parses: a file comes with the places where its   *)
(* author put the boxes, and Legal says whether they are a layout.         *)
(*                                                                         *)
(* A file is a sequence of cells of four bytes, f.cells; positions are in  *)
(* bytes and multiples of four.  A chunk holds one sample, stts has one    *)
(* entry, and the data of an entry of a packet has 12 bytes, not 14.       *)
(***************************************************************************)
EXTENDS Integers, Sequences

\* The types the parser knows, of boxes, tracks and brands; in a file each
\* is a number, here its place in this list.
MKTYPE == <<"ftyp", "mvhd", "trak", "tkhd", "mdhd", "hdlr", "stts", "stco",
            "stss", "hint", "sdp", "moov", "mdia", "minf", "dinf", "stbl",
            "edts", "tref", "udta", "hnti", "mp42">>

Name(v) == IF v \in DOMAIN MKTYPE THEN MKTYPE[v] ELSE "unknown"

\* Boxes that hold boxes, and those that say something of a track.
Containers == {"moov", "mdia", "minf", "dinf", "stbl", "edts", "tref",
               "udta", "hnti"}
Holders == Containers \cup {"trak"}
Needed == {"tkhd", "mdhd", "hdlr", "stts", "stco"}
OfTrack == Needed \cup {"hint", "sdp", "stss"}

-----------------------------------------------------------------------------
Cell(f, p) == f.cells[p \div 4 + 1]
Span(f, p, n) == [i \in 1..n |-> Cell(f, p + 4 * (i - 1))]
FileEnd(f) == 4 * Len(f.cells)

(* A box: its size with the header of 8 bytes, its type, what it holds.    *)
End(f, b) == b + Cell(f, b)
TypeOf(f, b) == Name(Cell(f, b + 4))

(* Boxes nest, and they leave no gaps: behind a box comes another one, or  *)
(* the end of one around it or of the file.                                *)
Layout(f) ==
   /\ 0 \in f.boxes
   /\ \A b \in f.boxes : /\ b % 4 = 0 /\ b + 8 <= FileEnd(f)
                         /\ Cell(f, b) >= 8 /\ End(f, b) <= FileEnd(f)
   /\ \A b, c \in f.boxes : b < c =>
         \/ End(f, b) <= c
         \/ /\ TypeOf(f, b) \in Holders
            /\ b + 8 <= c /\ End(f, c) <= End(f, b)
   /\ \A b \in f.boxes :
         /\ End(f, b) \in f.boxes \cup {FileEnd(f)}
               \cup {End(f, a) : a \in {a \in f.boxes : a < b /\ b < End(f, a)}}
         /\ TypeOf(f, b) \in Holders /\ b + 8 < End(f, b) => b + 8 \in f.boxes

-----------------------------------------------------------------------------
(* The boxes of a type inside a box; of a track there is one.              *)
Within(f, t, type) ==
   {b \in f.boxes : t < b /\ b < End(f, t) /\ TypeOf(f, b) = type}

The(f, t, type) == CHOOSE b \in Within(f, t, type) : TRUE

Traks(f) == {b \in f.boxes : TypeOf(f, b) = "trak"}

(* The value behind two times, of 32 bits or, in version 1, of 64.         *)
Dated(f, b) == IF Cell(f, b + 8) = 1 THEN Cell(f, b + 28) ELSE Cell(f, b + 20)

(* An entry of a table of numbers; how many there are is said before.      *)
Listed(f, b, i) == Cell(f, b + 12 + 4 * i)
HowMany(f, b) == Cell(f, b + 12)

(* A track: sample i begins after i - 1 of the same duration.              *)
TrackOf(f, t) ==
   LET b(type) == The(f, t, type)
       has(type) == Within(f, t, type) # {}
   IN [id |-> Dated(f, b("tkhd")),
       type |-> Name(Cell(f, b("hdlr") + 16)),
       scale |-> Dated(f, b("mdhd")),
       refer |-> IF has("hint") THEN Cell(f, b("hint") + 8) ELSE 0,
       sdp |-> IF has("sdp") THEN Cell(f, b("sdp") + 8) ELSE 0,
       keys |-> IF has("stss")
                THEN [i \in 1..HowMany(f, b("stss")) |-> Listed(f, b("stss"), i) - 1]
                ELSE << >>,
       durs |-> << >>, chunks |-> << >>,
       samples |-> [i \in 1..HowMany(f, b("stco")) |->
                      [ts |-> (i - 1) * Cell(f, b("stts") + 20),
                       off |-> Listed(f, b("stco"), i)]],
       readed |-> 0]

Movie(f) == {TrackOf(f, t) : t \in Traks(f)}

(* Every track has what it needs, once, and a number of its own; what is   *)
(* said of a track is said inside one.                                     *)
Described(f) ==
   /\ \A t \in Traks(f) :
         /\ Within(f, t, "trak") = {}
         /\ \A type \in Needed : Within(f, t, type) # {}
         /\ \A type \in OfTrack :
               \A b, c \in Within(f, t, type) : b = c
         /\ HowMany(f, The(f, t, "stco")) = Cell(f, The(f, t, "stts") + 16)
         /\ HowMany(f, The(f, t, "stco")) > 0
   /\ \A t, u \in Traks(f) : TrackOf(f, t).id = TrackOf(f, u).id => t = u
   /\ \A b \in f.boxes : TypeOf(f, b) \in OfTrack =>
         \E t \in Traks(f) : b \in Within(f, t, TypeOf(f, b))

(* How many cells a box has at least, and what the parser asks of a file:  *)
(* the brand, a header of version 0 with a timescale.                      *)
MinCells(f, b) == LET type == TypeOf(f, b)
               IN CASE type \in {"ftyp", "hint", "sdp"} -> 1
                    [] type = "hdlr" -> 3
                    [] type = "stts" -> 4
                    [] type = "mvhd" -> 5
                    [] type \in {"tkhd", "mdhd"} -> IF Cell(f, b + 8) = 1 THEN 6 ELSE 4
                    [] type \in {"stco", "stss"} -> 2 + HowMany(f, b)
                    [] OTHER -> 0

Complete(f) ==
   \A b \in f.boxes :
      /\ TypeOf(f, b) \in {"stco", "stss"} => b + 16 <= End(f, b)
      /\ b + 8 + 4 * MinCells(f, b) <= End(f, b)
      /\ TypeOf(f, b) = "ftyp" => Name(Cell(f, b + 8)) = "mp42"
      /\ TypeOf(f, b) = "mvhd" => Cell(f, b + 8) = 0 /\ Cell(f, b + 20) # 0

-----------------------------------------------------------------------------
(* The sample of a hint track begins with the number of its packets.  Each *)
(* has a time, the header to be sent, flags with a count, and as many      *)
(* entries of 16 bytes.                                                    *)
Counted(f, p) == Cell(f, p + 8) % 16

PacketAt(f, off, k) ==
   LET at[n \in 1..k] == IF n = 1 THEN off + 4
                         ELSE LET p == at[n - 1]
                              IN p + 12 + 16 * Counted(f, p)
   IN at[k]

(* An entry is bytes of its own (1), or bytes of a sample (2) of the track *)
(* that is hinted at or of the hint track itself.                          *)
EntryKind(f, p) == Cell(f, p) \div 256
EntryArg(f, p) == (Cell(f, p) \div 16) % 16
EntryLength(f, p) == Cell(f, p) % 16

Source(f, t, p) ==
   IF EntryArg(f, p) = 0
   THEN CHOOSE track \in Movie(f) : track.id = TrackOf(f, t).refer
   ELSE TrackOf(f, t)

EntryData(f, t, p) ==
   IF EntryKind(f, p) = 1
   THEN Span(f, p + 4, EntryArg(f, p))
   ELSE Span(f, Source(f, t, p).samples[Cell(f, p + 4)].off + Cell(f, p + 8),
                EntryLength(f, p))

(* The data of the first n entries of the packet at p.                     *)
Gathered(f, t, p, n) ==
   LET data[i \in 0..n] == IF i = 0 THEN << >>
                           ELSE data[i - 1] \o EntryData(f, t, p + 12 + 16 * (i - 1))
   IN data[n]

RtpPacket(f, t, i, p) ==
   <<Cell(f, p + 4), TrackOf(f, t).samples[i].ts, TrackOf(f, t).id>>
   \o Gathered(f, t, p, Counted(f, p))

PacketsOf(f, t, i) ==
   LET off == TrackOf(f, t).samples[i].off
   IN [k \in 1..Cell(f, off) |-> RtpPacket(f, t, i, PacketAt(f, off, k))]

(* A hint track has packets without flags.                                 *)
Unflagged(f) ==
   \A t \in Traks(f) : TrackOf(f, t).type = "hint" =>
      \A i \in DOMAIN TrackOf(f, t).samples :
         LET off == TrackOf(f, t).samples[i].off
         IN \A k \in 1..Cell(f, off) : Cell(f, PacketAt(f, off, k) + 8) < 16

Legal(f) == Layout(f) /\ Complete(f) /\ Described(f) /\ Unflagged(f)
=============================================================================
