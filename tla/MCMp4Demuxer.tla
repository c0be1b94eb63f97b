---------------------------- MODULE MCMp4Demuxer ----------------------------
(***************************************************************************)
(* Movies for Mp4Demuxer: three legal ones, of which the assumptions say   *)
(* what they mean, and files that are damaged in the ways the parser tells *)
(* apart.                                                                  *)
(***************************************************************************)
EXTENDS Mp4Demuxer

MK(type) == CHOOSE n \in DOMAIN MKTYPE : MKTYPE[n] = type

Sized(size, type, body) == <<size, IF type = "mdat" THEN 99 ELSE MK(type)>> \o body

Box(type, body) == Sized(8 + 4 * Len(body), type, body)

Ftyp == Box("ftyp", <<MK("mp42")>>)
Mvhd == Box("mvhd", <<0, 0, 0, 5, 9>>)

\* Headers with times of 32 and of 64 bits.
Short(type, value) == Box(type, <<0, 7, 7, value>>)
Long64(type, value) == Box(type, <<1, 7, 7, 7, 7, value>>)

Table(n, chunks) ==
   Box("minf", Box("stbl", Box("stts", <<0, 1, n, 3>>)
                           \o Box("stco", <<0, Len(chunks)>> \o chunks)))

Video(id, chunks) ==
   Box("trak", Long64("tkhd", id)
               \o Box("mdia", Short("mdhd", 5) \o Box("hdlr", <<0, 0, 98>>)
                              \o Table(Len(chunks), chunks)))

HintTrack(id, refer, chunks) ==
   Box("trak", Short("tkhd", id) \o Box("tref", Box("hint", <<refer>>))
               \o Box("mdia", Long64("mdhd", 5) \o Box("hdlr", <<0, 0, MK("hint")>>)
                              \o Table(Len(chunks), chunks))
               \o Box("udta", Box("hnti", Box("sdp", <<60 + id>>))))

\* What the tracks mean.
Made(id, type, refer, sdp, chunks) ==
   [NoTrack EXCEPT !.id = id, !.type = type, !.scale = 5, !.refer = refer,
                   !.sdp = sdp,
                   !.samples = [i \in DOMAIN chunks |->
                                  [ts |-> 3 * (i - 1), off |-> chunks[i]]]]

\* A packet with the given entries, bytes of its own, a piece of a sample.
Pack(header, flags, entries) == <<0, header, 16 * flags + Len(entries)>>
                                \o FlattenSeq(entries)
Own(data) == <<256 + 16 * Len(data)>> \o data \o [i \in 1..3 - Len(data) |-> 0]
Of(index, number, off, len) == <<512 + 16 * index + len, number, off, 0>>

-----------------------------------------------------------------------------
\* ftyp has 12 bytes and mdat 8 before its data: the media is at 20, 28, the
\* hints follow; sample 2 takes a piece of the media and one of itself.
Media == <<71, 72, 73>>
Hints1 == <<1>> \o Pack(81, 0, <<Own(<<82>>), Of(0, 1, 4, 1), Own(<<83, 84>>)>>)
Hints2 == <<2>> \o Pack(85, 0, <<Of(0, 2, 0, 1)>>) \o Pack(86, 0, <<Of(1, 2, 8, 1)>>)
Where1 == 20 + 4 * Len(Media)
Where2 == Where1 + 4 * Len(Hints1)

Moov == Box("moov", Mvhd \o HintTrack(2, 1, <<Where1, Where2>>)
                    \o Box("udta", << >>) \o Video(1, <<20, 28>>))

Whole(moov) == Ftyp \o Box("mdat", Media \o Hints1 \o Hints2) \o moov

\* Where the boxes between two positions begin, and those inside them.
RECURSIVE BoxesIn(_, _, _)
BoxesIn(f, p, end) ==
   IF p >= end THEN {}
   ELSE {p} \cup BoxesIn(f, End(f, p), end)
            \cup IF TypeOf(f, p) \in Holders THEN BoxesIn(f, p + 8, End(f, p)) ELSE {}

WithBoxes(cells) ==
   LET f == [cells |-> cells] IN [cells |-> cells, boxes |-> BoxesIn(f, 0, FileEnd(f))]

Good == WithBoxes(Whole(Moov))

ASSUME /\ Legal(Good)
       /\ Movie(Good) = {Made(1, "unknown", 0, 0, <<20, 28>>),
                         Made(2, "hint", 1, 62, <<Where1, Where2>>)}
       /\ \A t \in Traks(Good) : TrackOf(Good, t).type = "hint" =>
             /\ PacketsOf(Good, t, 1) = << <<81, 0, 2, 82, 72, 83, 84>> >>
             /\ PacketsOf(Good, t, 2) = << <<85, 3, 2, 73>>, <<86, 3, 2, 85>> >>

\* Another movie, with the same ID for another track.
OtherHints == <<1>> \o Pack(87, 0, <<Own(<<88>>)>>)
Other == WithBoxes(Ftyp \o Box("mdat", OtherHints)
                        \o Box("moov", Mvhd \o HintTrack(2, 2, <<20>>)))

ASSUME /\ Legal(Other) /\ Movie(Other) = {Made(2, "hint", 2, 62, <<20>>)}
       /\ \A t \in Traks(Other) : PacketsOf(Other, t, 1) = << <<87, 0, 2, 88>> >>

\* A third one with a track that the first one hints at, and its keys.
Keyed == WithBoxes(Ftyp \o Box("mdat", <<74, 75>>)
                        \o Box("moov", Box("trak", Box("stss", <<0, 2, 1, 2>>)
                                                  \o Tail(Tail(Video(1, <<24, 20>>))))))

ASSUME /\ Legal(Keyed)
       /\ Movie(Keyed) = {[Made(1, "unknown", 0, 0, <<24, 20>>) EXCEPT !.keys = <<0, 1>>]}

-----------------------------------------------------------------------------
Damaged(cells) == [cells |-> cells, boxes |-> {}]

\* Hints that cannot be followed: extra data, said in either byte, a number,
\* a track or a piece that is not there, a packet too long, a type of entry.
BadHints == << Pack(81, 4, <<Own(<<82>>)>>), Pack(81, 64, <<Own(<<82>>)>>),
               Pack(81, 0, <<Of(0, 7, 0, 1)>>), Pack(81, 0, <<Of(0, 1, 900, 1)>>),
               Pack(81, 0, <<Of(0, 1, 0, 6)>>), Pack(81, 0, <<<<1024, 0, 0, 0>>>>) >>

WithHints(h, refer) == Ftyp \o Box("mdat", <<1>> \o h)
                            \o Box("moov", HintTrack(2, refer, <<20>>))

\* The file ends behind a packet that announces extra data.
EndsEarly == LET moov(off) == Box("moov", HintTrack(2, 2, <<off>>))
             IN Ftyp \o moov(12 + 4 * Len(moov(0)) + 8)
                     \o Box("mdat", <<1, 0, 81, 1025>>)

\* A track whose only sample is at off, with a timescale.
Track(off, scale) ==
   Box("moov", Box("trak", Short("tkhd", 2) \o Box("hdlr", <<0, 0, MK("hint")>>)
                           \o Short("mdhd", scale) \o Table(1, <<off>>)))

BadBoxes ==
   << << >>, <<8>>, <<1, 99>>, Sized(0, "mdat", << >>), Sized(4, "mdat", <<8, 99>>),
      Sized(0, "moov", Mvhd), Sized(44, "mdat", <<8, 99>>),
      Ftyp \o Sized(44, "moov", Mvhd \o Box("mdat", << >>)),
      Box("ftyp", <<99>>), Box("mvhd", <<1, 0, 0, 5, 9>>),
      Box("mvhd", <<0, 0, 0, 0, 9>>), Box("mvhd", <<2, 0, 0, 0, 9>>),
      Short("tkhd", 3), Box("trak", Short("tkhd", 3)), <<20, MK("stco"), 0, 9>>,
      Box("moov", Video(1, <<20>>) \o HintTrack(1, 1, <<20>>)),
      Track(900, 5), Track(20, 0), EndsEarly, WithHints(BadHints[1], 9) >>

TheFiles == {Good, Other, Keyed} \cup {Damaged(cells) : cells \in Range(BadBoxes)}
            \cup {Damaged(WithHints(h, 2)) : h \in Range(BadHints)}
=============================================================================
