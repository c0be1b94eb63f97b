----------------------------- MODULE Mp4Demuxer -----------------------------
(***************************************************************************)
(* CMp4Demuxer (src/src/Mp4.cpp): the walk through the boxes of a file,    *)
(* Parse, ParseDefault, ParseAtom and the parsers of single boxes; and     *)
(* GetRtpSample, which makes the packets of a sample as a hint track of    *)
(* the file tells.  Both move the one position of m_Fd.                    *)
(*                                                                         *)
(* Files and what they mean are Mp4Format's; any file may be opened.  The  *)
(* size 1 of a box announces a 64-bit size.  What ParseTrak makes of the   *)
(* tables is SampleTable's; here a chunk holds one sample, so that stco    *)
(* tells where each is.                                                    *)
(*                                                                         *)
(* pc is "idle" between two calls, "box" in ParseDefault, "packet" and     *)
(* "entry" in the loops of GetRtpSample; "undefined" when an assert fails, *)
(* a null pointer or the end of an array is passed: whatever comes next.   *)
(***************************************************************************)
EXTENDS Mp4Format, SequencesExt, FiniteSetsExt

CONSTANTS Files,   \* the movies clients ask for
          Wrap,    \* 2^64, the range of size_t
          Mtu      \* RTP_MTU, in cells

ASSUME FileAssumption ==
   /\ Mtu \in Nat /\ Wrap \in Nat \ {0}
   /\ \A f \in Files : /\ f.cells \in Seq(Nat) /\ f.boxes \subseteq Nat
                      /\ FileEnd(f) < Wrap \div 2

VARIABLES fd,        \* m_Fd: the file that is open, or Closed
          pos,       \* its position
          tracks,    \* m_Tracks: the tracks by their IDs
          from,      \* history: the file each track was found in
          stack,     \* the calls of ParseDefault, the last is the one at work
          cur,       \* the tracks of the calls of ParseTrak, likewise
          described, \* the session has made this player its own (m_Player)
          rd,        \* the locals of GetRtpSample
          pc

walk == <<stack, cur>>
vars == <<fd, pos, tracks, from, walk, described, rd, pc>>

Closed == [cells |-> << >>, boxes |-> {}]

NoTrack == [id |-> 0, type |-> "unknown", scale |-> 0, refer |-> 0, sdp |-> 0,
            keys |-> << >>, durs |-> << >>, chunks |-> << >>,
            samples |-> << >>, readed |-> 0]

NoSample == [id |-> 0, packets |-> 0, entries |-> 0, packet |-> << >>,
             out |-> << >>]

NoTracks == [id \in {} |-> NoTrack]

Init == /\ fd = Closed /\ pos = 0
        /\ tracks = NoTracks /\ from = NoTracks
        /\ stack = << >> /\ cur = << >>
        /\ described = FALSE /\ rd = NoSample
        /\ pc = "idle"

-----------------------------------------------------------------------------
(* Reading the file.                                                       *)
Has(p, n) == p + 4 * n <= FileEnd(fd)

At(p) == Cell(fd, p)

Cells(p, n) == Span(fd, p, n)

-----------------------------------------------------------------------------
(* Parse: a file that was open stays open and its tracks stay.             *)
Parse(f) == /\ pc = "idle"
            /\ fd' = f /\ pos' = 0
            /\ stack' = <<[offset |-> 0, size |-> FileEnd(f),
                           readed |-> 0, track |-> FALSE]>>
            /\ cur' = << >>
            /\ pc' = "box"
            /\ UNCHANGED <<tracks, from, described, rd>>

OpenFails == /\ pc = "idle"
             /\ fd' = Closed
             /\ UNCHANGED <<pos, tracks, from, walk, described, rd, pc>>

(* TEARDOWN, the end of the movie, or a sample that could not be read.     *)
Close == /\ pc = "idle"
         /\ fd' = Closed
         /\ tracks' = NoTracks /\ from' = NoTracks
         /\ UNCHANGED <<pos, walk, described, rd, pc>>

-----------------------------------------------------------------------------
(* ParseDefault.                                                           *)

Top == Last(stack)

Unread == pc = "box" /\ Top.readed < Top.size

(* A call is over.  Where it left the position does not matter, the next   *)
(* one begins with a seek.                                                 *)
Over == pc' = "idle" /\ pos' = 0

Refused == /\ stack' = << >> /\ cur' = << >> /\ Over
           /\ UNCHANGED <<fd, tracks, from, described, rd>>

Undefined == /\ pc' = "undefined"
             /\ UNCHANGED <<fd, pos, tracks, from, walk, described, rd>>

(* The file ends, cannot be read, or has a 64-bit size: false is returned  *)
(* through all the calls.                                                  *)
Sound == Has(pos, 2) /\ At(pos) # 1

NoHeader == Unread /\ ~Sound

Fails == pc = "box" /\ Refused

Header == Unread /\ Sound

Type == Name(At(pos + 4))
Body == pos + 8

(* Variant: the size is taken with the header.                             *)
RestWhole == At(pos)

(* The size without the header; a size below 8 wraps.                      *)
Rest == (At(pos) - 8) % Wrap

(* A box that holds boxes: ParseDefault calls itself, ParseTrak with a     *)
(* track of its own.                                                       *)
Enter == /\ Header /\ Type \in Containers \cup {"trak"}
         /\ stack' = Append([stack EXCEPT ![Len(stack)].readed = (@ + 8) % Wrap],
                            [offset |-> (Top.offset + Top.readed + 8) % Wrap,
                             size |-> Rest, readed |-> 0,
                             track |-> Type = "trak"])
         /\ cur' = IF Type = "trak" THEN Append(cur, NoTrack) ELSE cur
         /\ pos' = Body
         /\ UNCHANGED <<fd, tracks, from, described, rd, pc>>

(* Variant: readed is not moved on, not even by the header.                *)
SkipNothing(calls, more) ==
   LET n == Len(calls)
   IN /\ stack' = [calls EXCEPT ![n].readed = @ - 8]
      /\ pos' = calls[n].offset + calls[n].readed - 8
      /\ UNCHANGED <<pc, fd, described, rd>>

(* Behind a box: readed is moved on and the file is sought there, which    *)
(* fails for a negative position.                                          *)
Skip(calls, more) ==
   LET n == Len(calls)
       readed == (calls[n].readed + more) % Wrap
       to == (calls[n].offset + readed) % Wrap
   IN /\ IF to < Wrap \div 2
         THEN /\ stack' = [calls EXCEPT ![n].readed = readed]
              /\ pos' = to /\ UNCHANGED pc
         ELSE stack' = << >> /\ Over
      /\ UNCHANGED <<fd, described, rd>>

-----------------------------------------------------------------------------
(* The parsers of the single boxes.                                        *)

Long(p) == Has(p, 1) /\ At(p) = 1

(* How many cells a parser must read.  tkhd and mdhd have two times of 32  *)
(* or 64 bits before the value; stco and stss count their entries.         *)
Needs(type, p) ==
   CASE type \in {"ftyp", "hint", "sdp"} -> 1
     [] type = "hdlr" -> 3
     [] type = "stts" -> 4
     [] type = "mvhd" -> 5
     [] type \in {"tkhd", "mdhd"} -> IF Long(p) THEN 6 ELSE 4
     [] type \in {"stco", "stss"} -> IF Has(p, 2) THEN 2 + At(p + 4) ELSE 2
     [] OTHER -> 0

(* Variant: the times of a header have 32 bits, whatever its version.      *)
BehindTimesShort(p) == At(p + 12)

BehindTimes(p) == At(p + IF Long(p) THEN 20 ELSE 12)

Entries(p) == Cells(p + 8, At(p + 4))

(* What they write to the track.  stts is here one run of samples.         *)
Told(type, p, t) ==
   CASE type = "tkhd" -> [t EXCEPT !.id = BehindTimes(p)]
     [] type = "mdhd" -> [t EXCEPT !.scale = BehindTimes(p)]
     [] type = "hdlr" -> [t EXCEPT !.type = Name(At(p + 8))]
     [] type = "hint" -> [t EXCEPT !.refer = At(p)]
     [] type = "sdp"  -> [t EXCEPT !.sdp = At(p)]
     [] type = "stts" -> [t EXCEPT !.durs = @ \o [i \in 1..At(p + 8) |-> At(p + 12)]]
     [] type = "stco" -> [t EXCEPT !.chunks = @ \o Entries(p)]
     [] type = "stss" -> [t EXCEPT !.keys = @ \o [i \in 1..At(p + 4) |-> Entries(p)[i] - 1]]

Leaf == Header /\ Type \notin Containers \cup {"trak"}

Behind == Skip([stack EXCEPT ![Len(stack)].readed = @ + 8], Rest)

TooShort == Leaf /\ ~Has(Body, Needs(Type, Body))

Enough == Leaf /\ Has(Body, Needs(Type, Body))

(* A box of a track: outside of any the pointer is null.                   *)
OnTrack == /\ Enough /\ Type \in OfTrack /\ cur # << >>
           /\ cur' = [cur EXCEPT ![Len(cur)] = Told(Type, Body, @)]
           /\ Behind
           /\ UNCHANGED <<tracks, from>>

NoTrackThere == Enough /\ Type \in OfTrack /\ cur = << >>

(* ParseFtyp, ParseMvhd: one brand is known; version 1 fails an assert,    *)
(* and the duration is divided by the timescale.                           *)
OtherBrand == Enough /\ Type = "ftyp" /\ Name(At(Body)) # "mp42"

NoDuration == /\ Enough /\ Type = "mvhd"
              /\ At(Body) = 1 \/ (At(Body) = 0 /\ At(Body + 12) = 0)

(* These when all is well, and the boxes that nothing is read of.          *)
PassOver == /\ Enough /\ Type \notin OfTrack
            /\ Type = "ftyp" => Name(At(Body)) = "mp42"
            /\ Type = "mvhd" => \/ At(Body) = 0 /\ At(Body + 12) # 0
                              \/ At(Body) > 1
            /\ Behind
            /\ UNCHANGED <<tracks, from, cur>>

-----------------------------------------------------------------------------
(* The end of a call of ParseDefault.                                      *)

Read == pc = "box" /\ Top.readed >= Top.size

(* ParseTrak, its tables: behind the last chunk the samples stay in it.    *)
Ends(durs) == LET ts[i \in 0..Len(durs)] == IF i = 0 THEN 0 ELSE ts[i - 1] + durs[i]
              IN ts

Sampled(t) ==
   [t EXCEPT !.samples =
      [i \in DOMAIN t.durs |->
         [ts |-> Ends(t.durs)[i - 1],
          off |-> t.chunks[IF i <= Len(t.chunks) THEN i ELSE Len(t.chunks)]]],
      !.durs = << >>, !.chunks = << >>]

(* m_Tracks.insert: a track with the ID of another is forgotten.           *)
Inserted(map, id, value) ==
   [i \in DOMAIN map \cup {id} |-> IF i \in DOMAIN map THEN map[i] ELSE value]

Insert(t) == /\ tracks' = Inserted(tracks, t.id, t)
             /\ from' = Inserted(from, t.id, fd)

Return == Len(stack) > 1 /\ Skip(Front(stack), Top.size)

(* Variant: an empty box ends the one it is in.                            *)
LeaveContainerEnds ==
   /\ Read /\ ~Top.track /\ Len(stack) > 1
   /\ LET in == stack[Len(stack) - 1]
      IN Skip(Front(stack), IF Top.size = 0 THEN in.size - in.readed ELSE Top.size)
   /\ UNCHANGED <<tracks, from, cur>>

LeaveContainer == /\ Read /\ ~Top.track /\ Return
                  /\ UNCHANGED <<tracks, from, cur>>

LeaveTrak == /\ Read /\ Top.track /\ Last(cur).chunks # << >>
             /\ Insert(Sampled(Last(cur)))
             /\ cur' = Front(cur)
             /\ Return

(* m_ChunkOffset[0] of an empty vector.                                    *)
NoChunk == Read /\ Top.track /\ Last(cur).chunks = << >>

(* Parse returns true, and the session plays this player.                  *)
Parsed == /\ Read /\ Len(stack) = 1
          /\ stack' = << >> /\ Over
          /\ described' = TRUE
          /\ UNCHANGED <<fd, tracks, from, cur, rd>>

-----------------------------------------------------------------------------
(* GetRtpSample.  A sample of a hint track is a count of packets; a packet *)
(* its time, the header to be sent, flags and a count of entries; an entry *)
(* either bytes of its own (1) or a piece of a sample of some track (2).   *)

Hinted(id) == id \in DOMAIN tracks /\ tracks[id].type = "hint"

Ready(id) == /\ pc = "idle" /\ described /\ Hinted(id)
             /\ tracks[id].readed < Len(tracks[id].samples)

SampleOf(id) == tracks[id].samples[tracks[id].readed + 1]

Reading == <<fd, tracks, from, walk, described>>

GetRtpSample(id) == /\ Ready(id)
                    /\ tracks[id].scale # 0 /\ Has(SampleOf(id).off, 1)
                    /\ rd' = [NoSample EXCEPT !.id = id,
                                              !.packets = At(SampleOf(id).off)]
                    /\ pos' = SampleOf(id).off + 4
                    /\ pc' = "packet"
                    /\ UNCHANGED Reading

(* The time stamp is divided by the timescale.                             *)
NoTimescale(id) == Ready(id) /\ tracks[id].scale = 0 /\ Undefined

(* A read fails: false is returned.                                        *)
GivesUp == /\ rd' = NoSample /\ Over
           /\ UNCHANGED Reading

NoCount(id) == Ready(id) /\ ~Has(SampleOf(id).off, 1) /\ GivesUp

ReadFails == pc \in {"packet", "entry"} /\ GivesUp

Packet == pc = "packet" /\ rd.packets > 0 /\ Has(pos, 3)

NoPacket == pc = "packet" /\ rd.packets > 0 /\ ~Has(pos, 3) /\ GivesUp

\* The two bytes of the flags and the count share a cell.
Flags(c) == <<c \div 256, (c \div 16) % 16>>
Count(c) == c % 16

(* The flags are tested as they are in the file, the count is not: extra   *)
(* data is skipped when the first byte says so, the format says it in the  *)
(* second.                                                                 *)
Skips == Flags(At(pos + 8))[1] = 4

NextPacket ==
   /\ Packet /\ (Skips => Has(pos, 4))
   /\ rd' = [rd EXCEPT !.entries = Count(At(pos + 8)),
                       !.packet = <<At(pos + 4), SampleOf(rd.id).ts, rd.id>>]
   /\ pos' = pos + 12 + IF Skips THEN At(pos + 12) ELSE 0
   /\ pc' = "entry"
   /\ UNCHANGED Reading

NoExtra == Packet /\ Skips /\ ~Has(pos, 4) /\ GivesUp

Entry == pc = "entry" /\ rd.entries > 0 /\ Has(pos, 4)

NoEntry == pc = "entry" /\ rd.entries > 0 /\ ~Has(pos, 4) /\ GivesUp

\* Its type, the length or the index of the track, the length of the piece.
Kind == At(pos) \div 256
Arg == (At(pos) \div 16) % 16
Length == At(pos) % 16

Fits(data) == Len(rd.packet) + Len(data) <= Mtu

Copy(data) == /\ Fits(data)
              /\ rd' = [rd EXCEPT !.packet = @ \o data, !.entries = @ - 1]
              /\ pos' = pos + 16
              /\ UNCHANGED <<Reading, pc>>

(* Bytes of its own.                                                       *)
Immediate == Entry /\ Kind = 1 /\ Arg <= 3 /\ Copy(Cells(pos + 4, Arg))

(* Variant: every piece is of the track itself.                            *)
PiecesTrackOwn == rd.id

(* The index 0 is the track that is referred to, any other the own one.    *)
PiecesTrack == IF Arg = 0 THEN tracks[rd.id].refer ELSE rd.id

Number == At(pos + 4)

Known == /\ Entry /\ Kind = 2
         /\ PiecesTrack \in DOMAIN tracks
         /\ Number \in DOMAIN tracks[PiecesTrack].samples

From == tracks[PiecesTrack].samples[Number].off + At(pos + 8)

Piece == Known /\ Has(From, Length) /\ Copy(Cells(From, Length))

NoPiece == Known /\ ~Has(From, Length) /\ GivesUp

NoSuchTrack == /\ Entry /\ Kind = 2 /\ PiecesTrack \notin DOMAIN tracks
               /\ GivesUp

(* An assert; a number behind m_Samples; more than m_Packet holds.         *)
BadEntry == /\ Entry
            /\ \/ Kind \notin {1, 2} \/ (Kind = 1 /\ Arg > 3)
               \/ /\ Kind = 2 /\ PiecesTrack \in DOMAIN tracks
                  /\ Number \notin DOMAIN tracks[PiecesTrack].samples
               \/ /\ Kind = 1 /\ Arg <= 3 /\ ~Fits(Cells(pos + 4, Arg))
               \/ /\ Known /\ Has(From, Length)
                  /\ ~Fits(Cells(From, Length))
            /\ Undefined

PacketMade == /\ pc = "entry" /\ rd.entries = 0
              /\ rd' = [rd EXCEPT !.out = Append(@, rd.packet),
                                  !.packets = @ - 1]
              /\ pc' = "packet"
              /\ UNCHANGED <<Reading, pos>>

SampleMade == /\ pc = "packet" /\ rd.packets = 0
              /\ tracks' = [tracks EXCEPT ![rd.id].readed = @ + 1]
              /\ rd' = NoSample /\ Over
              /\ UNCHANGED <<fd, from, walk, described>>

-----------------------------------------------------------------------------
Refuses == NoHeader \/ TooShort \/ OtherBrand

Breaks == NoTrackThere \/ NoDuration \/ NoChunk

Walk == \/ (Refuses /\ Refused) \/ (Breaks /\ Undefined)
        \/ Enter \/ OnTrack \/ PassOver
        \/ LeaveContainer \/ LeaveTrak \/ Parsed

Assemble == \/ NoPacket \/ NextPacket \/ NoExtra
            \/ NoEntry \/ Immediate \/ Piece \/ NoPiece \/ NoSuchTrack
            \/ BadEntry \/ PacketMade \/ SampleMade

Call == \/ \E f \in Files : Parse(f)
        \/ OpenFails \/ Close
        \/ \E id \in DOMAIN tracks :
              GetRtpSample(id) \/ NoTimescale(id) \/ NoCount(id)

Next == Call \/ Walk \/ Assemble \/ Fails \/ ReadFails

Spec == Init /\ [][Next]_vars

(* A call that has begun goes on.                                          *)
FairSpec == Spec /\ WF_vars(Walk \/ Assemble)

-----------------------------------------------------------------------------
TypeOK == /\ fd \in Files \cup {Closed} /\ pos \in Nat
          /\ DOMAIN from = DOMAIN tracks
          /\ \A id \in DOMAIN tracks :
                /\ tracks[id].id = id /\ from[id] \in Files
                /\ tracks[id].readed \in 0..Len(tracks[id].samples)
          /\ \A i \in DOMAIN stack : /\ stack[i].size \in 0..Wrap - 1
                                     /\ stack[i].readed \in 0..Wrap - 1
          /\ described \in BOOLEAN
          /\ rd.id \in DOMAIN tracks \cup {0}
          /\ pc \in {"idle", "box", "packet", "entry", "undefined"}

LegalFiles == {f \in Files : Legal(f)}

(* However the boxes of a legal movie nest, whatever the walk did before   *)
(* with this file or with others, and wherever it stopped: a track that    *)
(* was found in it is one its author described, with the type, the         *)
(* reference and the samples of the boxes inside its own.                  *)
TracksAsWritten ==
   TypeOK /\ \A id \in DOMAIN tracks :
      from[id] \in LegalFiles => [tracks[id] EXCEPT !.readed = 0] \in Movie(from[id])

(* The walk through a legal movie stays at its boxes: nothing but a read   *)
(* that fails makes the parser refuse it, nor does it end the process.     *)
LegalParses == pc = "box" /\ fd \in LegalFiles => ~Refuses /\ ~Breaks

(* The parser accepts a legal movie only with every track of it.           *)
AllTracks ==
   [][Parsed /\ fd \in LegalFiles => \A track \in Movie(fd) : track.id \in DOMAIN tracks]_vars

(* A sample of a track of the movie that is open becomes the packets its   *)
(* author meant, although single reads fail, other tracks are read in      *)
(* between and pieces come from anywhere in the file -- if the track       *)
(* hinted at is not one that another movie has left.                       *)
PacketsAsHinted ==
   [][SampleMade /\ fd \in LegalFiles /\ from[rd.id] = fd
        /\ (tracks[rd.id].refer \in DOMAIN tracks => from[tracks[rd.id].refer] = fd) =>
         \E t \in Traks(fd) : /\ TrackOf(fd, t).id = rd.id
                              /\ rd.out = PacketsOf(fd, t, tracks[rd.id].readed + 1)]_vars

(* Every call returns, whatever is in the file, unless there is an empty   *)
(* box of size 0, which leads back to itself.                              *)
EmptyBox == Leaf /\ At(pos) = 0

Returns == <>EmptyBox \/ [](pc # "idle" => <>(pc \in {"idle", "undefined"}))
=============================================================================
