------------------------- MODULE MoviePlayerProofs -------------------------
(* Proofs about MoviePlayer, for any number of tracks, any samples, keys,  *)
(* ranges and faults: what a client hears of a track has no gap, a movie   *)
(* that closes itself has sent its tracks to the end or not at all,        *)
(* nothing is sent early and the shared timer never stalls.                *)
EXTENDS MoviePlayer, SequenceTheorems, WellFoundedInduction, TLAPS

-----------------------------------------------------------------------------
(* Sets of numbers: First and Seek choose the least or the greatest.       *)

(* The order of the naturals as a relation, which the library knows to be  *)
(* well founded.                                                           *)
LEMMA LessThan == ASSUME NEW x \in Nat, NEW y \in Nat
  PROVE <<y, x>> \in OpToRel(<,Nat) <=> y < x
  BY SMT DEF OpToRel

(* A set of naturals has a least element: what induction comes from here.  *)
LEMMA Least == ASSUME NEW T \in SUBSET Nat, T # {}
  PROVE \E x \in T : \A y \in T : x <= y
<1>1. PICK x \in T : \A y \in T : ~ (<<y, x>> \in OpToRel(<,Nat))
  BY WFMin, NatLessThanWellFounded, Zenon
<1>2. SUFFICES ASSUME NEW y \in T PROVE ~(y < x)
  BY SMT
<1>3. <<y, x>> \in OpToRel(<,Nat) <=> y < x
  BY LessThan
<1> QED BY <1>1, <1>3, Zenon

(* The least of a set of numbers ...                                       *)
LEMMA MinFacts ==
  ASSUME NEW S \in SUBSET Nat, S # {}
  PROVE  Min(S) \in S /\ \A y \in S : Min(S) <= y
BY Least DEF Min

(* ... and the greatest of one that has a bound.                           *)
LEMMA MaxFacts ==
  ASSUME NEW S \in SUBSET Nat, S # {}, NEW B \in Nat, \A x \in S : x <= B
  PROVE  Max(S) \in S /\ \A y \in S : y <= Max(S)
<1> DEFINE T == {b \in Nat : \A x \in S : x <= b}
<1>1. T \in SUBSET Nat /\ T # {}
  OBVIOUS
<1>2. PICK b \in T : \A c \in T : b <= c
  BY <1>1, Least
<1>3. b \in S
  <2> SUFFICES ASSUME b \notin S PROVE FALSE
    OBVIOUS
  <2>1. \A x \in S : x < b
    BY <1>2
  <2>2. PICK x \in S : TRUE
    OBVIOUS
  <2>3. b - 1 \in T /\ ~(b <= b - 1)
    BY <2>1, <2>2
  <2> QED BY <1>2, <2>3
<1>4. \E x \in S : \A y \in S : x >= y
  BY <1>2, <1>3
<1>5. Max(S) \in S /\ \A y \in S : Max(S) >= y
  BY <1>4 DEF Max
<1> QED BY <1>5

-----------------------------------------------------------------------------
(* The movie: samples are due one after the other, the first at once.      *)
LEMMA StampFacts ==
  ASSUME NEW t \in Tracks
  PROVE  /\ Stamps[t] \in Seq(Nat) /\ Len(Stamps[t]) \in Nat \ {0}
         /\ Samples(t) = 1..Len(Stamps[t]) /\ Stamps[t][1] = 0
         /\ \A i \in Samples(t) : Stamps[t][i] \in Nat /\ i \in Nat \ {0}
         /\ \A i, j \in Samples(t) : i < j => Stamps[t][i] <= Stamps[t][j]
         /\ Keys[t] \subseteq Samples(t) /\ 1 \in Keys[t]
<1>1. /\ Stamps[t] \in Seq(Nat) /\ Stamps[t] # << >> /\ Stamps[t][1] = 0
      /\ \A i, j \in Samples(t) : i < j => Stamps[t][i] <= Stamps[t][j]
      /\ Keys[t] \subseteq Samples(t) /\ 1 \in Keys[t]
  BY PlayerAssumption
<1>2. Len(Stamps[t]) \in Nat \ {0} /\ Samples(t) = 1..Len(Stamps[t])
  BY <1>1, EmptySeq DEF Samples
<1>3. \A i \in Samples(t) : Stamps[t][i] \in Nat
  BY <1>1, <1>2, ElementOfSeq
<1> QED BY <1>1, <1>2, <1>3

(* The stamps of the first n tracks have a bound.                          *)
BoundFor(n) == \E b \in Nat : \A t \in 1..n : \A i \in Samples(t) : Stamps[t][i] <= b

(* So there is one for all of them.                                        *)
LEMMA Bounded == BoundFor(NTracks)
<1> DEFINE T == {n \in 0..NTracks : ~BoundFor(n)}
<1>1. NTracks \in Nat \ {0}
  BY PlayerAssumption
<1> SUFFICES ASSUME ~BoundFor(NTracks) PROVE FALSE
  OBVIOUS
<1>2. T \in SUBSET Nat /\ NTracks \in T
  BY <1>1
<1>3. PICK n \in T : \A m \in T : n <= m
  BY <1>2, Least
<1>4. n # 0
  <2>1. \A t \in 1..0 : FALSE
    OBVIOUS
  <2>2. \A t \in 1..0 : \A i \in Samples(t) : Stamps[t][i] <= 0
    BY <2>1, Zenon
  <2>3. 0 \in Nat
    OBVIOUS
  <2>4. BoundFor(0)
    BY <2>2, <2>3, Zenon DEF BoundFor
  <2> QED BY <1>3, <2>4
<1>5. n \in Tracks /\ n - 1 \in 0..NTracks /\ ~(n <= n - 1)
  BY <1>1, <1>3, <1>4 DEF Tracks
<1>6. BoundFor(n - 1)
  BY <1>3, <1>5
<1>7. PICK b \in Nat : \A t \in 1..n - 1 : \A i \in Samples(t) : Stamps[t][i] <= b
  BY <1>6 DEF BoundFor
<1>8. PICK e \in Nat : \A i \in Samples(n) : Stamps[n][i] <= e
  <2> DEFINE last == Len(Stamps[n])
  <2>1. /\ last \in Samples(n) /\ Stamps[n][last] \in Nat
        /\ \A i \in Samples(n) : i = last \/ i < last
    BY <1>5, StampFacts
  <2>2. \A i \in Samples(n) : Stamps[n][i] <= Stamps[n][last]
    BY <1>5, <2>1, StampFacts
  <2> QED BY <2>1, <2>2
<1>9. PICK c \in Nat : b <= c /\ e <= c
  OBVIOUS
<1>10. ASSUME NEW t \in 1..n, NEW i \in Samples(t) PROVE Stamps[t][i] <= c
  <2>1. t \in Tracks /\ Stamps[t][i] \in Nat
    <3>1. t \in 1..NTracks
      BY <1>1, <1>5 DEF Tracks
    <3>2. t \in Tracks
      BY <3>1 DEF Tracks
    <3> QED BY <3>2, StampFacts
  <2>2. CASE t = n
    BY <1>8, <1>9, <2>1, <2>2
  <2>3. CASE t # n
    <3>1. t \in 1..n - 1
      BY <1>5, <2>3 DEF Tracks
    <3> QED BY <1>7, <1>9, <2>1, <3>1
  <2> QED BY <2>2, <2>3
<1>11. BoundFor(n)
  BY <1>10 DEF BoundFor
<1> QED BY <1>3, <1>11

(* The horizon is behind all of them.                                      *)
LEMMA HorizonFacts ==
  /\ Horizon \in Nat
  /\ \A t \in Tracks : \A i \in Samples(t) : Stamps[t][i] + 2 <= Horizon
<1> DEFINE U == UNION {Range(Stamps[t]) : t \in Tracks}
<1>1. NTracks \in Nat \ {0} /\ 1 \in Tracks
  BY PlayerAssumption DEF Tracks
<1>2. \A t \in Tracks : \A i \in Samples(t) : Stamps[t][i] \in U
  BY DEF Range, Samples
<1>3. \A x \in U : \E t \in Tracks : \E i \in Samples(t) : x = Stamps[t][i]
  BY DEF Range, Samples
<1>4. PICK b \in Nat : \A t \in Tracks : \A i \in Samples(t) : Stamps[t][i] <= b
  BY Bounded DEF BoundFor, Tracks
<1>5. Horizon = Max(U) + 2
  BY DEF Horizon
<1> HIDE DEF U
<1>6. U \in SUBSET Nat /\ \A x \in U : x <= b
  BY <1>3, <1>4, StampFacts
<1>7. U # {}
  <2>1. 1 \in Samples(1)
    BY <1>1, StampFacts
  <2> QED BY <1>1, <1>2, <2>1
<1>8. Max(U) \in U /\ \A x \in U : x <= Max(U)
  BY <1>6, <1>7, MaxFacts
<1>9. Max(U) \in Nat
  BY <1>6, <1>8
<1>10. ASSUME NEW t \in Tracks, NEW i \in Samples(t) PROVE Stamps[t][i] + 2 <= Horizon
  <2>1. Stamps[t][i] \in Nat /\ Stamps[t][i] <= Max(U)
    BY <1>2, <1>8, StampFacts
  <2> QED BY <1>5, <1>9, <2>1
<1> QED BY <1>5, <1>9, <1>10

(* Where Seek stops.                                                       *)
LEMMA SeekFacts ==
  ASSUME NEW t \in Tracks, NEW p \in Nat
  PROVE  /\ SeekTo(t, p) \in Samples(t) /\ SeekTo(t, p) \in Nat \ {0}
         /\ Stamps[t][SeekTo(t, p)] <= p /\ Stamps[t][SeekTo(t, p)] \in Nat
<1> DEFINE S == {i \in Keys[t] : Stamps[t][i] <= p}
<1>1. S \in SUBSET Nat /\ 1 \in S /\ \A i \in S : i <= Len(Stamps[t])
  BY StampFacts
<1>2. SeekTo(t, p) = Max(S) /\ Len(Stamps[t]) \in Nat
  BY StampFacts DEF SeekTo
<1>3. \A i \in S : i \in Samples(t) /\ Stamps[t][i] <= p
  BY StampFacts
<1> HIDE DEF S
<1>4. Max(S) \in S
  BY <1>1, <1>2, MaxFacts
<1> QED BY <1>2, <1>3, <1>4, StampFacts

(* What Play reads: of each track a sample that is due, or nothing.        *)
LEMMA FirstSamplesFacts ==
  ASSUME NEW p \in Nat, NEW unread
  PROVE  /\ FirstSamples(p, unread) \in [Tracks -> Nat]
         /\ \A t \in Tracks :
               \/ FirstSamples(p, unread)[t] = Nobody
               \/ /\ FirstSamples(p, unread)[t] = SeekTo(t, p)
                  /\ FirstSamples(p, unread)[t] \in Samples(t)
BY SeekFacts DEF FirstSamples, Nobody

(* m_StartTime is no later than the position asked for.                    *)
LEMMA StartedFacts ==
  ASSUME NEW p \in Nat, NEW unread
  PROVE  LET s == Started(FirstSamples(p, unread))
         IN s \in Nat /\ s <= p /\ s <= Horizon
<1> DEFINE found == FirstSamples(p, unread)
           S == {t \in Tracks : found[t] # Nobody}
<1>1. NTracks \in Nat /\ S \in SUBSET Nat /\ \A t \in S : t <= NTracks
  BY PlayerAssumption DEF Tracks
<1>2. Started(found) = IF S = {} THEN 0 ELSE Stamps[Max(S)][found[Max(S)]]
  BY DEF Started
<1>3. CASE S = {}
  BY <1>2, <1>3, HorizonFacts
<1>4. CASE S # {}
  <2> HIDE DEF S
  <2>1. Max(S) \in S
    BY <1>1, <1>4, MaxFacts
  <2>2. PICK t \in Tracks : t = Max(S) /\ found[t] # Nobody
    BY <2>1 DEF S
  <2>3. found[t] = SeekTo(t, p)
    BY <2>2, FirstSamplesFacts
  <2> HIDE DEF found
  <2>4. Started(found) = Stamps[t][SeekTo(t, p)]
    BY <1>2, <1>4, <2>2, <2>3
  <2>5. /\ Stamps[t][SeekTo(t, p)] \in Nat /\ Stamps[t][SeekTo(t, p)] <= p
        /\ SeekTo(t, p) \in Samples(t)
    BY SeekFacts
  <2>6. Stamps[t][SeekTo(t, p)] + 2 <= Horizon /\ Horizon \in Nat
    BY <2>5, HorizonFacts
  <2> QED BY <2>4, <2>5, <2>6 DEF found
<1> QED BY <1>3, <1>4

-----------------------------------------------------------------------------
(* The clock.                                                              *)
LEMMA LaterFacts ==
  ASSUME NEW p \in Nat, NEW q \in Nat
  PROVE  /\ Later(p) \in Nat /\ p <= Later(p)
         /\ p <= Horizon => Later(p) <= Horizon
         /\ p <= q /\ p <= Horizon => Later(p) <= Later(q)
BY HorizonFacts DEF Later

(* OnTimer's iterator over a set of tracks ...                             *)
LEMMA FirstFacts ==
  ASSUME NEW S \in SUBSET Tracks
  PROVE  /\ First(S) \in 1..NTracks + 1
         /\ First(S) \in S \/ (S = {} /\ First(S) = NTracks + 1)
         /\ \A u \in S : First(S) <= u
<1>1. S \in SUBSET Nat /\ NTracks \in Nat \ {0}
  BY PlayerAssumption DEF Tracks
<1>2. CASE S = {}
  BY <1>1, <1>2 DEF First
<1>3. CASE S # {}
  <2>1. First(S) \in S /\ \A u \in S : First(S) <= u
    BY <1>1, <1>3, MinFacts DEF First
  <2>2. First(S) \in 1..NTracks
    BY <2>1 DEF Tracks
  <2>3. First(S) \in 1..NTracks + 1
    BY <1>1, <2>2
  <2> QED BY <2>1, <2>3
<1> QED BY <1>2, <1>3

(* ... and its step: nothing that waits is between t and what follows it.  *)
LEMMA AfterFacts ==
  ASSUME NEW t \in Tracks
  PROVE  /\ After(t) \in 1..NTracks + 1
         /\ After(t) \in Waiting \ {t} \/ After(t) = NTracks + 1
         /\ \A u \in Waiting : u < After(t) => u <= t
<1> DEFINE S == {u \in Waiting : u > t}
<1>1. S \in SUBSET Tracks /\ After(t) = First(S)
  BY DEF Waiting, After
<1>2. \A u \in Waiting : u \in Nat /\ t \in Nat
  BY PlayerAssumption DEF Waiting, Tracks
<1>3. \A u \in S : u \in Waiting \ {t}
  BY <1>2
<1>4. ASSUME NEW u \in Waiting, u < First(S), ~(u <= t) PROVE FALSE
  <2>1. u \in S
    BY <1>2, <1>4
  <2>2. First(S) <= u /\ First(S) \in Nat
    BY <1>1, <2>1, FirstFacts, PlayerAssumption
  <2> QED BY <1>2, <1>4, <2>2
<1> HIDE DEF S
<1>5. First(S) \in 1..NTracks + 1 /\ (First(S) \in S \/ First(S) = NTracks + 1)
  BY <1>1, FirstFacts
<1> QED BY <1>1, <1>3, <1>4, <1>5

-----------------------------------------------------------------------------
(* A run of samples.                                                       *)
Run(s) == \A i \in 1..Len(s) - 1 : s[i + 1] = s[i] + 1

(* One sample more.                                                        *)
LEMMA RunAppend ==
  ASSUME NEW s \in Seq(Nat), NEW n \in Nat, Run(s), s # << >> => n = Last(s) + 1
  PROVE  /\ Append(s, n) \in Seq(Nat) /\ Run(Append(s, n))
         /\ Append(s, n) # << >> /\ Last(Append(s, n)) = n
<1> DEFINE a == Append(s, n)
<1>1. /\ a \in Seq(Nat) /\ Len(a) = Len(s) + 1 /\ Len(s) \in Nat
      /\ a[Len(s) + 1] = n /\ \A i \in 1..Len(s) : a[i] = s[i]
  BY AppendProperties
<1> HIDE DEF a
<1>2. a # << >> /\ Last(a) = n
  BY <1>1 DEF Last
<1>3. ASSUME NEW i \in 1..Len(a) - 1 PROVE a[i + 1] = a[i] + 1
  <2>1. CASE i < Len(s)
    <3>1. i \in 1..Len(s) - 1 /\ i \in 1..Len(s) /\ i + 1 \in 1..Len(s)
      BY <1>1, <2>1
    <3> QED BY <1>1, <3>1 DEF Run
  <2>2. CASE ~(i < Len(s))
    <3>1. i = Len(s) /\ i \in 1..Len(s)
      BY <1>1, <2>2
    <3>2. s # << >> /\ Last(s) = s[Len(s)]
      BY <3>1 DEF Last
    <3> QED BY <1>1, <3>1, <3>2
  <2> QED BY <2>1, <2>2
<1> QED BY <1>1, <1>2, <1>3 DEF Run, a

-----------------------------------------------------------------------------
(* The inductive invariant.                                                *)

(* A track stands behind the sample it has read.                           *)
ReadInv == \A t \in Tracks : held[t] # Nobody => next[t] = held[t] + 1

(* Nothing goes on in a closed movie; only an armed timer is reported.     *)
OpenInv == /\ ~opened => held = None /\ timer = Off /\ ~reported /\ pc # "tick"
           /\ reported => pc = "idle" /\ timer # Off

SentInv == \A t \in Tracks :
              /\ Run(sent[t])
              /\ held[t] # Nobody /\ sent[t] # << >> => held[t] = Last(sent[t]) + 1

Playing == timer # Off \/ pc = "tick"

(* While a movie plays, a track without a sample was left out, by PLAY or  *)
(* as not set up, or is complete; a track left out has none and nothing of *)
(* it was sent; what was sent is of tracks set up.                         *)
LeftOut == missed \cup dropped

OverInv == opened /\ Playing =>
              \A t \in Tracks : /\ held[t] = Nobody => t \in LeftOut \/ Complete(t)
                                /\ t \in LeftOut => held[t] = Nobody /\ sent[t] = << >>
                                /\ sent[t] # << >> => t \in listed

(* OnTimer's iter is at a track that waits or at the end, and a track that *)
(* waits behind it has armed the timer.                                    *)
LoopInv == pc = "tick" => /\ iter = NTracks + 1 \/ iter \in Waiting
                          /\ (\E u \in Waiting : u < iter) => timer # Off

Inv == TypeOK /\ ReadInv /\ OpenInv /\ SentInv /\ OverInv /\ LoopInv

(* ... and the clock, unless a movie is described while it plays: the      *)
(* position the clock has reached is not ahead of the client's.            *)
ClockInv == /\ Playing => pos <= real
            /\ pc = "tick" => at <= pos

(* The track OnTimer looks at has a sample.                                *)
LEMMA LookingFacts ==
  ASSUME Inv, NEW t \in Tracks, Looking(t)
  PROVE  /\ pc = "tick" /\ iter = t /\ t \in Waiting
         /\ held[t] \in Samples(t) /\ held[t] \in Nat \ {0} /\ held[t] # Nobody
         /\ next[t] = held[t] + 1 /\ opened /\ ~reported
<1>1. pc = "tick" /\ iter = t
  BY DEF Looking
<1>2. t # NTracks + 1
  BY PlayerAssumption DEF Tracks
<1>3. t \in Waiting
  BY <1>1, <1>2 DEF Inv, LoopInv
<1>4. held[t] # Nobody /\ held[t] \in Samples(t)
  BY <1>3 DEF Waiting, Inv, TypeOK
<1>5. held[t] \in Nat \ {0}
  BY <1>4, StampFacts
<1>6. next[t] = held[t] + 1
  BY <1>4 DEF Inv, ReadInv
<1>7. opened /\ ~reported
  BY <1>1 DEF Inv, OpenInv, TypeOK
<1> QED BY <1>1, <1>3, <1>4, <1>5, <1>6, <1>7

(* Time passes.                                                            *)
LEMMA AdvanceKeeps == ASSUME Inv, Advance PROVE Inv'
<1> USE DEF Inv, Advance, disk, tick
<1>1. TypeOK'
  <2>1. PICK p \in Nat, r \in Nat : p = pos /\ r = real /\ p <= Horizon
    BY HorizonFacts DEF TypeOK
  <2>2. Later(p) \in Nat /\ Later(p) <= Horizon /\ Later(r) \in Nat
    BY <2>1, LaterFacts
  <2>3. pos' \in 0..Horizon /\ real' \in Nat
    BY <2>1, <2>2, HorizonFacts
  <2>4. timer' \in {Off} \cup Nat
    BY DEF TypeOK, Off
  <2> QED BY <2>3, <2>4 DEF TypeOK
<1>2. (timer' = Off) <=> (timer = Off)
  BY DEF TypeOK, Off
<1>3. ReadInv' /\ SentInv' /\ Waiting' = Waiting
  BY DEF ReadInv, SentInv, Waiting
<1>4. OpenInv'
  BY <1>2 DEF OpenInv
<1>5. OverInv'
  BY <1>2 DEF OverInv, LeftOut, Playing, Complete
<1>6. LoopInv'
  BY <1>2, <1>3 DEF LoopInv
<1> QED BY <1>1, <1>3, <1>4, <1>5, <1>6

(* epoll reports the timer.                                                *)
LEMMA ReportKeeps == ASSUME Inv, Report PROVE Inv'
<1> USE DEF Inv, Report, disk, tick, history
<1>1. TypeOK'
  BY DEF TypeOK
<1>2. ReadInv' /\ SentInv'
  BY DEF ReadInv, SentInv
<1>3. OpenInv'
  BY DEF OpenInv, Off
<1>4. OverInv'
  BY DEF OverInv, LeftOut, Playing, Complete
<1>5. LoopInv'
  BY DEF LoopInv
<1> QED BY <1>1, <1>2, <1>3, <1>4, <1>5

(* DESCRIBE.                                                               *)
LEMMA SetupKeeps == ASSUME Inv, Setup PROVE Inv'
<1> USE DEF Inv, Setup, tick, history
<1>1. TypeOK'
  <2>1. next' \in [Tracks -> Nat \ {0}]
    BY DEF TypeOK
  <2>2. pos' \in 0..Horizon
    BY HorizonFacts
  <2> QED BY <2>1, <2>2 DEF TypeOK
<1>2. ReadInv'
  <2>1. CASE opened
    BY <2>1 DEF ReadInv
  <2>2. CASE ~opened
    BY <2>2 DEF OpenInv, ReadInv, None
  <2> QED BY <2>1, <2>2
<1>3. SentInv'
  BY DEF SentInv
<1>4. OpenInv'
  BY DEF OpenInv
<1>5. OverInv'
  BY DEF OverInv, LeftOut, OpenInv, Playing, Complete
<1>6. LoopInv'
  BY DEF LoopInv
<1> QED BY <1>1, <1>2, <1>3, <1>4, <1>5, <1>6

(* SETUP.                                                                  *)
LEMMA SetInterleavedKeeps ==
  ASSUME Inv, NEW t \in Tracks, SetInterleaved(t) PROVE Inv'
<1> USE DEF Inv, SetInterleaved, disk, clock, tick, history
<1>1. TypeOK'
  BY DEF TypeOK
<1>2. ReadInv' /\ SentInv' /\ OpenInv'
  BY DEF ReadInv, SentInv, OpenInv
<1>3. OverInv' /\ LoopInv'
  BY DEF OverInv, LeftOut, Playing, Complete, LoopInv, Waiting
<1> QED BY <1>1, <1>2, <1>3

(* PLAY: a track has a sample or was missed, and nothing is sent.          *)
LEMMA PlayFromKeeps == ASSUME Inv, NEW p \in Nat, PlayFrom(p) PROVE Inv'
<1>1. PICK unread \in Unreadable :
        held' = FirstSamples(p, unread) /\ PlayBegins(p, FirstSamples(p, unread))
  BY DEF PlayFrom
<1> DEFINE found == FirstSamples(p, unread)
<1>2. /\ pc = "idle" /\ opened /\ held' = found
      /\ next' = [t \in Tracks |-> IF found[t] = Nobody THEN SeekTo(t, p)
                                   ELSE found[t] + 1]
      /\ pos' = Started(found) /\ timer' = FirstTick
      /\ sent' = [t \in Tracks |-> << >>] /\ real' = p
      /\ missed' = {t \in Tracks : found[t] = Nobody} /\ dropped' = {}
      /\ opened' = opened /\ listed' = listed /\ reported' = reported
      /\ pc' = pc /\ at' = at /\ iter' = iter
  BY <1>1 DEF PlayFrom, PlayBegins, tick
<1>3. found \in [Tracks -> Nat] /\ \A t \in Tracks : found[t] \in Samples(t) \cup {Nobody}
  BY FirstSamplesFacts
<1>4. pos' \in 0..Horizon
  BY <1>2, StartedFacts, HorizonFacts
<1> HIDE DEF found
<1>5. next' \in [Tracks -> Nat \ {0}]
  <2>1. ASSUME NEW t \in Tracks
        PROVE  (IF found[t] = Nobody THEN SeekTo(t, p) ELSE found[t] + 1) \in Nat \ {0}
    BY <1>3, SeekFacts
  <2> QED BY <1>2, <2>1
<1>6. timer' \in Nat /\ timer' # Off
  BY <1>2, PlayerAssumption DEF Off
<1>7. [t \in Tracks |-> << >>] \in [Tracks -> Seq(Nat)]
  OBVIOUS
<1>8. \A t \in Tracks : /\ sent'[t] = << >>
                        /\ held'[t] # Nobody => next'[t] = held'[t] + 1
                        /\ t \in missed' \cup dropped' <=> held'[t] = Nobody
  BY <1>2
<1>9. missed' \subseteq Tracks /\ dropped' \subseteq Tracks
  BY <1>2
<1>10. TypeOK'
  BY <1>2, <1>3, <1>4, <1>5, <1>6, <1>7, <1>9 DEF Inv, TypeOK
<1>11. ReadInv'
  BY <1>8 DEF ReadInv
<1>12. SentInv'
  BY <1>8 DEF SentInv, Run
<1>13. OpenInv'
  BY <1>2, <1>6 DEF Inv, OpenInv
<1>14. OverInv'
  BY <1>8 DEF OverInv, LeftOut
<1>15. LoopInv'
  BY <1>2 DEF LoopInv
<1> QED BY <1>10, <1>11, <1>12, <1>13, <1>14, <1>15 DEF Inv

(* The position PLAY goes on from is one of the movie.                     *)
LEMMA CurrentPosFacts ==
  ASSUME Inv
  PROVE  /\ CurrentPos \in Nat
         /\ Waiting # {} => /\ Min(Waiting) \in Tracks /\ held[Min(Waiting)] # Nobody
                            /\ held[Min(Waiting)] \in Samples(Min(Waiting))
                            /\ CurrentPos = Stamps[Min(Waiting)][held[Min(Waiting)]]
<1>1. CASE Waiting = {}
  BY <1>1 DEF CurrentPos
<1>2. CASE Waiting # {}
  <2>1. Waiting \in SUBSET Nat
    BY PlayerAssumption DEF Waiting, Tracks
  <2>2. Min(Waiting) \in Waiting
    BY <1>2, <2>1, MinFacts
  <2>3. PICK t \in Tracks : t = Min(Waiting) /\ held[t] # Nobody
    BY <2>2 DEF Waiting
  <2>4. held[t] \in Samples(t)
    BY <2>3 DEF Inv, TypeOK
  <2>5. Stamps[t][held[t]] \in Nat
    BY <2>4, StampFacts
  <2>6. CurrentPos = Stamps[t][held[t]]
    BY <1>2, <2>3 DEF CurrentPos
  <2> QED BY <2>3, <2>4, <2>5, <2>6
<1> QED BY <1>1, <1>2

(* PLAY, with a Range or without.                                          *)
LEMMA PlayingKeeps == ASSUME Inv, Play \/ PlayOn PROVE Inv'
<1>1. CASE Play
  <2>1. PICK p \in Ranges : PlayFrom(p)
    BY <1>1 DEF Play
  <2>2. p \in Nat
    BY PlayerAssumption
  <2> QED BY <2>1, <2>2, PlayFromKeeps
<1>2. CASE PlayOn
  <2>1. PICK p \in Nat : p = CurrentPos
    BY CurrentPosFacts
  <2>2. PlayFrom(p)
    BY <1>2, <2>1 DEF PlayOn
  <2> QED BY <2>1, <2>2, PlayFromKeeps
<1> QED BY <1>1, <1>2

(* PLAY of a movie that is closed.                                         *)
LEMMA PlayClosedKeeps == ASSUME Inv, PlayClosed PROVE Inv'
<1>1. held' = held /\ UNCHANGED <<disk, listed, clock, tick, history>>
  BY DEF PlayClosed, Inv, OpenInv
<1> USE <1>1 DEF Inv, disk, clock, tick, history
<1>2. TypeOK' /\ ReadInv' /\ SentInv' /\ OpenInv'
  BY DEF TypeOK, ReadInv, SentInv, OpenInv
<1>3. OverInv' /\ LoopInv'
  BY DEF OverInv, LeftOut, Playing, Complete, LoopInv, Waiting
<1> QED BY <1>2, <1>3

(* PAUSE: nothing plays.                                                   *)
LEMMA PauseKeeps == ASSUME Inv, Pause PROVE Inv'
<1> USE DEF Inv, Pause, disk, tick, history
<1>1. TypeOK' /\ ReadInv' /\ SentInv'
  BY DEF TypeOK, ReadInv, SentInv
<1>2. OpenInv' /\ OverInv' /\ LoopInv'
  BY DEF OpenInv, OverInv, LeftOut, Playing, LoopInv
<1> QED BY <1>1, <1>2

(* A movie is closed: by TEARDOWN, by a file that cannot be read or by     *)
(* OnTimer at its end.                                                     *)
LEMMA ClosedKeeps ==
  ASSUME Inv, Closed, pc' \in {"idle", "aborted"}, UNCHANGED <<next, pos, at, iter, history>>
  PROVE  Inv'
<1> USE DEF Inv, history
<1>1. opened' = FALSE /\ held' = None /\ listed' = {} /\ timer' = Off /\ reported' = FALSE
  BY DEF Closed
<1>2. held' \in [Tracks -> Nat] /\ \A t \in Tracks : held'[t] = Nobody
  BY <1>1 DEF None, Nobody
<1>3. TypeOK'
  BY <1>1, <1>2 DEF TypeOK
<1>4. ReadInv' /\ SentInv'
  BY <1>2 DEF ReadInv, SentInv
<1>5. OpenInv' /\ OverInv' /\ LoopInv'
  BY <1>1 DEF OpenInv, OverInv, LoopInv
<1> QED BY <1>3, <1>4, <1>5

-----------------------------------------------------------------------------
(* OnTimer is called.                                                      *)
LEMMA TickKeeps == ASSUME Inv, Tick PROVE Inv'
<1> USE DEF Inv, Tick, disk, history
<1>1. Waiting \in SUBSET Tracks /\ Waiting' = Waiting
  BY DEF Waiting
<1>2. PICK f \in 1..NTracks + 1 : f = First(Waiting)
  BY <1>1, FirstFacts
<1>3. /\ f \in Waiting \/ f = NTracks + 1
      /\ \A u \in Waiting : f <= u
  BY <1>1, <1>2, FirstFacts
<1>4. iter' = f /\ timer' \in {Off} \cup Nat /\ opened
  BY <1>2 DEF TypeOK, OpenInv
<1>5. TypeOK'
  BY <1>4 DEF TypeOK
<1>6. ReadInv' /\ SentInv' /\ OpenInv'
  BY <1>4 DEF ReadInv, SentInv, OpenInv
<1>7. OverInv'
  BY DEF OverInv, LeftOut, OpenInv, Playing, Complete
<1>8. \A u \in Waiting : u \in Nat /\ f \in Nat
  BY <1>1, PlayerAssumption DEF Tracks
<1>9. ~ \E u \in Waiting : u < f
  BY <1>3, <1>8
<1>10. LoopInv'
  BY <1>1, <1>3, <1>4, <1>9 DEF LoopInv
<1> QED BY <1>5, <1>6, <1>7, <1>10

(* ... and ends.                                                           *)
LEMMA TickEndKeeps == ASSUME Inv, TickEnd PROVE Inv'
<1>1. CASE Closed
  BY <1>1, ClosedKeeps DEF TickEnd
<1>2. CASE ~Closed
  <2>1. /\ pc = "tick" /\ pc' = "idle"
        /\ UNCHANGED <<opened, held, listed, timer, reported, next, pos, at, iter, history>>
    BY <1>2 DEF TickEnd, Looking
  <2> USE <2>1 DEF Inv, history
  <2>2. TypeOK' /\ ReadInv' /\ SentInv' /\ OpenInv'
    BY DEF TypeOK, ReadInv, SentInv, OpenInv
  <2>3. OverInv' /\ LoopInv'
    BY DEF OverInv, LeftOut, Playing, Complete, LoopInv
  <2> QED BY <2>2, <2>3
<1> QED BY <1>1, <1>2

(* A sample is erased: the track waits no more, and the loop is at another *)
(* track that waits, or at the end, with none behind it that was not       *)
(* behind it before.                                                       *)
LEMMA ErasedFacts ==
  ASSUME Inv, NEW t \in Tracks, Looking(t), Erased(t), timer' = timer
  PROVE  /\ held' \in [Tracks -> Nat] /\ held'[t] = Nobody
         /\ \A u \in Tracks \ {t} : held'[u] = held[u]
         /\ iter' \in 1..NTracks + 1 /\ pc' \in {"tick", "aborted"}
         /\ LoopInv'
<1>1. /\ pc = "tick" /\ iter = t /\ t \in Waiting
  BY LookingFacts
<1>2. held \in [Tracks -> Nat] /\ held' = [held EXCEPT ![t] = Nobody] /\ Nobody \in Nat
  BY DEF Erased, Inv, TypeOK, Nobody
<1>3. /\ held' \in [Tracks -> Nat] /\ held'[t] = Nobody
      /\ \A u \in Tracks \ {t} : held'[u] = held[u]
  BY <1>2
<1>4. Waiting' = Waiting \ {t} /\ Waiting \in SUBSET Tracks
  BY <1>3 DEF Waiting
<1>5. NTracks \in Nat \ {0} /\ \A u \in Tracks : u \in Nat
  BY PlayerAssumption DEF Tracks
<1>6. (\E u \in Waiting : u < t) => timer' # Off
  BY <1>1 DEF Inv, LoopInv
<1>7. CASE iter' = After(t) /\ pc' = pc
  <2>1. PICK a \in 1..NTracks + 1 : a = After(t)
    BY AfterFacts
  <2>2. /\ a \in Waiting \ {t} \/ a = NTracks + 1
        /\ \A u \in Waiting : u < a => u <= t
    BY <2>1, AfterFacts
  <2>3. ASSUME NEW u \in Waiting \ {t}, u < a PROVE u < t
    <3>1. u \in Nat /\ t \in Nat /\ u # t /\ u <= t
      BY <1>4, <1>5, <2>2, <2>3
    <3> QED BY <3>1
  <2>4. LoopInv'
    BY <1>4, <1>6, <1>7, <2>1, <2>2, <2>3 DEF LoopInv
  <2> QED BY <1>1, <1>3, <1>7, <2>1, <2>4
<1>8. CASE iter' \in {u \in Waiting : u < t} /\ pc' = pc
  <2>1. PICK a \in Waiting : a = iter' /\ a < t
    BY <1>8
  <2>2. a \in Nat /\ t \in Nat /\ a \in 1..NTracks + 1 /\ a # t
    BY <1>4, <1>5, <2>1 DEF Tracks
  <2>3. a \in Waiting' /\ timer' # Off
    BY <1>4, <1>6, <2>1, <2>2
  <2>4. LoopInv'
    BY <2>1, <2>3 DEF LoopInv
  <2> QED BY <1>1, <1>3, <1>8, <2>1, <2>2, <2>4
<1>9. CASE pc' = "aborted" /\ iter' = iter
  <2>1. LoopInv'
    BY <1>9 DEF LoopInv
  <2>2. iter' \in 1..NTracks + 1
    BY <1>9 DEF Inv, TypeOK
  <2> QED BY <1>3, <1>9, <2>1, <2>2
<1> QED BY <1>7, <1>8, <1>9 DEF Erased

(* A track that was not set up is dropped.                                 *)
LEMMA DropKeeps == ASSUME Inv, NEW t \in Tracks, Drop(t) PROVE Inv'
<1>1. /\ Looking(t) /\ Erased(t) /\ dropped' = dropped \cup {t}
      /\ UNCHANGED <<opened, next, listed, pos, timer, reported, at, sent, missed, real>>
  BY DEF Drop, disk, clock
<1>2. /\ held' \in [Tracks -> Nat] /\ held'[t] = Nobody
      /\ \A u \in Tracks \ {t} : held'[u] = held[u]
      /\ iter' \in 1..NTracks + 1 /\ pc' \in {"tick", "aborted"}
      /\ LoopInv'
  BY <1>1, ErasedFacts
<1>3. pc = "tick" /\ opened /\ ~reported
  BY <1>1, LookingFacts
<1>4. t \notin listed
  BY DEF Drop
<1> USE <1>1, <1>2 DEF Inv
<1>5. TypeOK'
  BY DEF TypeOK
<1>6. ReadInv' /\ SentInv'
  BY DEF ReadInv, SentInv
<1>7. OpenInv'
  BY <1>3 DEF OpenInv
<1>8. OverInv'
  BY <1>3, <1>4 DEF OverInv, LeftOut, Playing, Complete
<1> QED BY <1>5, <1>6, <1>7, <1>8

(* A sample is sent: the next one is read, or the track is complete.       *)
LEMMA SendKeeps == ASSUME Inv, NEW t \in Tracks, Send(t) PROVE Inv'
<1>1. /\ Looking(t) /\ sent' = [sent EXCEPT ![t] = Append(@, held[t])]
      /\ UNCHANGED <<opened, listed, pos, timer, reported, at, missed, dropped, real>>
  BY DEF Send, clock
<1>2. /\ pc = "tick" /\ iter = t /\ t \in Waiting
      /\ held[t] \in Samples(t) /\ held[t] \in Nat \ {0} /\ held[t] # Nobody
      /\ next[t] = held[t] + 1 /\ opened /\ ~reported
  BY <1>1, LookingFacts
<1>3. PICK s \in Seq(Nat) : s = sent[t] /\ Run(s) /\ (s # << >> => held[t] = Last(s) + 1)
  BY <1>2 DEF Inv, TypeOK, SentInv
<1>4. PICK n \in Nat : n = held[t] /\ n # 0
  BY <1>2
<1>5. sent \in [Tracks -> Seq(Nat)]
  BY DEF Inv, TypeOK
<1>6. sent'[t] = Append(s, n) /\ \A u \in Tracks \ {t} : sent'[u] = sent[u]
  BY <1>1, <1>3, <1>4, <1>5
<1>7. /\ Append(s, n) \in Seq(Nat) /\ Run(Append(s, n))
      /\ Append(s, n) # << >> /\ Last(Append(s, n)) = n
  BY <1>3, <1>4, RunAppend
<1>8. sent' \in [Tracks -> Seq(Nat)]
  BY <1>1, <1>3, <1>4, <1>5, <1>7
<1>9. Len(Stamps[t]) \in Nat \ {0} /\ Samples(t) = 1..Len(Stamps[t])
  BY StampFacts
<1>10. t \in listed /\ t \notin LeftOut /\ LeftOut' = LeftOut
  <2>1. t \in listed
    BY DEF Send
  <2>2. t \notin LeftOut
    BY <1>2 DEF Inv, OverInv, Playing
  <2> QED BY <1>1, <2>1, <2>2 DEF LeftOut
<1>11. CASE HasMore(t)
  <2>1. /\ held' = [held EXCEPT ![t] = next[t]] /\ next' = [next EXCEPT ![t] = @ + 1]
        /\ iter' = iter /\ pc' = pc
    BY <1>11 DEF Send
  <2>2. n + 1 \in Samples(t) /\ next[t] = n + 1 /\ n + 1 # Nobody
    BY <1>2, <1>4, <1>9, <1>11 DEF HasMore, Nobody
  <2>3. held \in [Tracks -> Nat] /\ next \in [Tracks -> Nat \ {0}]
    BY DEF Inv, TypeOK
  <2>4. /\ held' \in [Tracks -> Nat] /\ next' \in [Tracks -> Nat \ {0}]
        /\ held'[t] = n + 1 /\ next'[t] = n + 2
        /\ \A u \in Tracks \ {t} : held'[u] = held[u] /\ next'[u] = next[u]
    BY <2>1, <2>2, <2>3
  <2>5. Waiting' = Waiting
    BY <1>2, <2>2, <2>4 DEF Waiting
  <2>6. TypeOK'
    BY <1>1, <1>8, <2>1, <2>2, <2>4 DEF Inv, TypeOK
  <2>7. ReadInv'
    BY <2>4 DEF Inv, ReadInv
  <2>8. SentInv'
    BY <1>6, <1>7, <2>4 DEF Inv, SentInv
  <2>9. OpenInv'
    BY <1>1, <1>2 DEF OpenInv
  <2>10. OverInv'
    BY <1>1, <1>2, <1>6, <1>10, <2>2, <2>4 DEF Inv, OverInv, Playing, Complete
  <2>11. LoopInv'
    BY <1>1, <2>1, <2>5 DEF Inv, LoopInv
  <2> QED BY <2>6, <2>7, <2>8, <2>9, <2>10, <2>11 DEF Inv
<1>12. CASE ~HasMore(t)
  <2>1. Erased(t) /\ next' = next
    BY <1>12 DEF Send
  <2>2. /\ held' \in [Tracks -> Nat] /\ held'[t] = Nobody
        /\ \A u \in Tracks \ {t} : held'[u] = held[u]
        /\ iter' \in 1..NTracks + 1 /\ pc' \in {"tick", "aborted"}
        /\ LoopInv'
    BY <1>1, <2>1, ErasedFacts
  <2>3. n = Len(Stamps[t])
    BY <1>2, <1>4, <1>9, <1>12 DEF HasMore
  <2>4. TypeOK'
    BY <1>1, <1>8, <2>1, <2>2 DEF Inv, TypeOK
  <2>5. ReadInv'
    BY <2>1, <2>2 DEF Inv, ReadInv
  <2>6. SentInv'
    BY <1>6, <1>7, <2>2 DEF Inv, SentInv
  <2>7. OpenInv'
    BY <1>1, <1>2, <2>2 DEF OpenInv
  <2>8. Complete(t)'
    BY <1>6, <1>7, <2>3 DEF Complete
  <2>9. OverInv'
    BY <1>1, <1>2, <1>6, <1>10, <2>2, <2>8 DEF Inv, OverInv, Playing, Complete
  <2> QED BY <2>2, <2>4, <2>5, <2>6, <2>7, <2>9 DEF Inv
<1> QED BY <1>11, <1>12

(* Nothing is due: the timer is armed.                                     *)
LEMMA NotDueKeeps == ASSUME Inv, NEW t \in Tracks, NotDue(t) PROVE Inv'
<1>1. /\ Looking(t) /\ ~Due(t)
      /\ timer' = IF Stamps[t][held[t]] > at THEN Stamps[t][held[t]] - at ELSE 1
      /\ iter' = After(t)
      /\ UNCHANGED <<opened, next, held, listed, pos, reported, pc, at, sent, missed,
                     dropped, real>>
  BY DEF NotDue, disk, history
<1>2. /\ pc = "tick" /\ held[t] \in Samples(t) /\ opened /\ ~reported
  BY <1>1, LookingFacts
<1>3. Stamps[t][held[t]] \in Nat /\ at \in Nat
  BY <1>2, StampFacts, HorizonFacts DEF Inv, TypeOK
<1>4. timer' \in Nat /\ timer' # Off
  BY <1>1, <1>3 DEF Off
<1>5. Waiting' = Waiting
  BY <1>1 DEF Waiting
<1>6. iter' \in 1..NTracks + 1 /\ (iter' \in Waiting \/ iter' = NTracks + 1)
  BY <1>1, AfterFacts
<1> USE <1>1 DEF Inv
<1>7. TypeOK'
  BY <1>4, <1>6 DEF TypeOK
<1>8. ReadInv' /\ SentInv'
  BY DEF ReadInv, SentInv
<1>9. OpenInv'
  BY <1>2 DEF OpenInv
<1>10. OverInv'
  BY <1>2 DEF OverInv, LeftOut, Playing, Complete
<1>11. LoopInv'
  BY <1>4, <1>5, <1>6 DEF LoopInv
<1> QED BY <1>7, <1>8, <1>9, <1>10, <1>11

(* The connection or the file fails.                                       *)
LEMMA FailureKeeps == ASSUME Inv, Failure PROVE Inv'
<1>1. PICK t \in Tracks : SendFails(t) \/ ReadFails(t)
  BY DEF Failure
<1>2. CASE SendFails(t)
  <2>1. /\ Looking(t) /\ pc' = "aborted"
        /\ UNCHANGED <<opened, next, held, listed, pos, timer, reported, at, iter,
                       sent, missed, dropped, real>>
    BY <1>2 DEF SendFails, disk, clock, history
  <2>2. pc = "tick" /\ opened /\ ~reported
    BY <2>1, LookingFacts
  <2> USE <2>1 DEF Inv
  <2>3. TypeOK' /\ ReadInv' /\ SentInv'
    BY DEF TypeOK, ReadInv, SentInv
  <2>4. OpenInv' /\ OverInv' /\ LoopInv'
    BY <2>2 DEF OpenInv, OverInv, LeftOut, Playing, Complete, LoopInv
  <2> QED BY <2>3, <2>4
<1>3. CASE ReadFails(t)
  BY <1>3, ClosedKeeps DEF ReadFails
<1> QED BY <1>1, <1>2, <1>3

(* The movie is closed, and every iterator at its start.                   *)
LEMMA InitHolds == ASSUME Init PROVE Inv
<1> USE DEF Init
<1>1. TypeOK
  <2>1. NTracks \in Nat \ {0} /\ Horizon \in Nat
    BY PlayerAssumption, HorizonFacts
  <2>2. None \in [Tracks -> Nat] /\ \A t \in Tracks : None[t] = Nobody
    BY DEF None, Nobody
  <2>3. next \in [Tracks -> Nat \ {0}] /\ sent \in [Tracks -> Seq(Nat)]
    OBVIOUS
  <2>4. pos \in 0..Horizon /\ at \in 0..Horizon /\ iter \in 1..NTracks + 1
    BY <2>1
  <2>5. timer \in {Off} \cup Nat /\ real \in Nat
    OBVIOUS
  <2>6. /\ opened \in BOOLEAN /\ reported \in BOOLEAN
        /\ pc \in {"idle", "tick", "aborted"} /\ listed \subseteq Tracks
        /\ missed \subseteq Tracks /\ dropped \subseteq Tracks
    BY Zenon
  <2>7. held \in [Tracks -> Nat] /\ \A t \in Tracks : held[t] \in Samples(t) \cup {Nobody}
    BY <2>2
  <2> QED BY <2>3, <2>4, <2>5, <2>6, <2>7, Zenon DEF TypeOK
<1>2. ReadInv /\ SentInv
  BY DEF ReadInv, SentInv, Run, None
<1>3. OpenInv /\ OverInv /\ LoopInv
  BY DEF OpenInv, OverInv, LoopInv, Off
<1> QED BY <1>1, <1>2, <1>3 DEF Inv

(* One step of Next, or none.                                              *)
LEMMA NextKeeps == ASSUME Inv, [Next]_vars PROVE Inv'
<1>1. CASE Advance \/ Report
  BY <1>1, AdvanceKeeps, ReportKeeps
<1>2. CASE Request
  <2>1. CASE Setup \/ Play \/ PlayOn
    BY <2>1, SetupKeeps, PlayingKeeps
  <2>2. CASE PlayClosed \/ Pause
    BY <2>2, PlayClosedKeeps, PauseKeeps
  <2>3. CASE Teardown
    BY <2>3, ClosedKeeps DEF Teardown, tick
  <2>4. CASE \E t \in Tracks : SetInterleaved(t)
    BY <2>4, SetInterleavedKeeps
  <2> QED BY <1>2, <2>1, <2>2, <2>3, <2>4 DEF Request
<1>3. CASE OnTimer
  <2>1. CASE Tick \/ TickEnd
    BY <2>1, TickKeeps, TickEndKeeps
  <2>2. CASE \E t \in Tracks : Drop(t) \/ Send(t) \/ NotDue(t)
    BY <2>2, DropKeeps, SendKeeps, NotDueKeeps
  <2> QED BY <1>3, <2>1, <2>2 DEF OnTimer
<1>4. CASE Failure
  BY <1>4, FailureKeeps
<1>5. CASE UNCHANGED vars
  <2> USE <1>5 DEF Inv, vars, disk, clock, tick, history
  <2>1. TypeOK' /\ ReadInv' /\ SentInv' /\ OpenInv'
    BY DEF TypeOK, ReadInv, SentInv, OpenInv
  <2>2. OverInv' /\ LoopInv'
    BY DEF OverInv, LeftOut, Playing, Complete, LoopInv, Waiting
  <2> QED BY <2>1, <2>2
<1> QED BY <1>1, <1>2, <1>3, <1>4, <1>5 DEF Next

(* The inductive invariant holds, whatever fails.                          *)
THEOREM Invariance == Spec => []Inv
<1>1. Init => Inv
  BY InitHolds
<1>2. Inv /\ [Next]_vars => Inv'
  BY NextKeeps
<1> QED BY <1>1, <1>2, PTL DEF Spec

(* A client hears of every track a run of its samples.                     *)
THEOREM NothingIsLeftOut == Spec => []NoGap
<1>1. Inv => NoGap
  BY DEF Inv, SentInv, Run, NoGap
<1> QED BY <1>1, Invariance, PTL

-----------------------------------------------------------------------------
(* Only the end of OnTimer leaves it for the next request.                 *)
LEMMA LeavesAtEnd ==
  ASSUME Inv, [Next]_vars, pc = "tick", pc' = "idle"
  PROVE  /\ TickEnd
         /\ Waiting = {} \/ timer' = timer
         /\ Waiting = {} \/ opened' = opened
<1>1. ~Advance /\ ~Report /\ ~Request
  BY DEF Advance, Report, Request, Setup, Play, PlayOn, PlayFrom, PlayBegins, PlayClosed, Pause,
         Teardown, SetInterleaved, tick
<1>2. ~Tick
  BY DEF Tick
<1>3. ASSUME NEW t \in Tracks, Drop(t) \/ Send(t) \/ NotDue(t) PROVE FALSE
  <2>1. CASE Drop(t)
    BY <2>1 DEF Drop, Erased
  <2>2. CASE Send(t)
    BY <2>2 DEF Send, Erased
  <2>3. CASE NotDue(t)
    BY <2>3 DEF NotDue
  <2> QED BY <1>3, <2>1, <2>2, <2>3
<1>4. ~Failure
  BY DEF Failure, SendFails, ReadFails
<1>5. pc' # pc
  OBVIOUS
<1>6. TickEnd
  BY <1>1, <1>2, <1>3, <1>4, <1>5 DEF Next, OnTimer, vars, tick
<1> QED BY <1>6 DEF TickEnd

(* A movie that closes itself has sent each track to its end, or nothing   *)
(* of one it could not read on PLAY or that was not set up.                *)
THEOREM ClosesAtTheEnd == Spec => PlayedOut
<1>1. ASSUME Inv, [Next]_vars, pc = "tick", pc' = "idle", opened, ~opened',
             NEW t \in Tracks
      PROVE  IF t \in missed \cup dropped THEN sent[t] = << >> ELSE Complete(t)
  <2>1. Waiting = {}
    BY <1>1, LeavesAtEnd
  <2>2. held[t] = Nobody
    BY <2>1 DEF Waiting
  <2> QED BY <1>1, <2>2 DEF Inv, OverInv, LeftOut, Playing
<1>2. Inv /\ [Next]_vars =>
        [pc = "tick" /\ pc' = "idle" /\ opened /\ ~opened' =>
           \A t \in Tracks : IF t \in missed \cup dropped THEN sent[t] = << >>
                             ELSE Complete(t)]_vars
  BY <1>1
<1> QED BY <1>2, Invariance, PTL DEF Spec, PlayedOut

(* When OnTimer returns with samples left the timer is armed.              *)
THEOREM TimerIsArmed == Spec => NeverStalls
<1>1. ASSUME Inv, [Next]_vars, pc = "tick", pc' = "idle", Waiting # {}
      PROVE  timer' # Off
  <2>1. iter = NTracks + 1 /\ timer' = timer
    BY <1>1, LeavesAtEnd DEF TickEnd, Looking
  <2>2. PICK u \in Tracks : u \in Waiting
    BY <1>1 DEF Waiting
  <2>3. u < iter
    BY <2>1, <2>2, PlayerAssumption DEF Tracks
  <2> QED BY <1>1, <2>1, <2>2, <2>3 DEF Inv, LoopInv
<1>2. Inv /\ [Next]_vars =>
        [pc = "tick" /\ pc' = "idle" /\ Waiting # {} => timer' # Off]_vars
  BY <1>1
<1> QED BY <1>2, Invariance, PTL DEF Spec, NeverStalls

(* PLAY without a Range leaves out no sample of the first track, if it can *)
(* read that.                                                              *)
THEOREM GoesOnFromThere == Spec => GoesOn
<1>1. ASSUME Inv, PlayOn, Waiting # {}, Strict(Min(Waiting)), Min(Waiting) \notin missed'
      PROVE  held'[Min(Waiting)] \in 1..held[Min(Waiting)]
  <2>1. PICK t \in Tracks : t = Min(Waiting)
    BY <1>1, CurrentPosFacts
  <2>2. PICK p \in Nat : p = CurrentPos
    BY <1>1, CurrentPosFacts
  <2>3. held[t] \in Samples(t) /\ p = Stamps[t][held[t]]
    BY <1>1, <2>1, <2>2, CurrentPosFacts
  <2>4. held'[t] = SeekTo(t, p)
    <3>1. PICK unread \in Unreadable :
            /\ held' = FirstSamples(p, unread)
            /\ missed' = {u \in Tracks : FirstSamples(p, unread)[u] = Nobody}
      BY <1>1, <2>2 DEF PlayOn, PlayFrom, PlayBegins
    <3>2. FirstSamples(p, unread)[t] # Nobody
      BY <1>1, <2>1, <3>1
    <3> QED BY <3>1, <3>2, FirstSamplesFacts
  <2>5. /\ SeekTo(t, p) \in Samples(t) /\ SeekTo(t, p) \in Nat \ {0}
        /\ Stamps[t][SeekTo(t, p)] <= p /\ Stamps[t][SeekTo(t, p)] \in Nat
    BY SeekFacts
  <2>6. held[t] \in Nat /\ p \in Nat
    BY <2>3, StampFacts
  <2>7. held[t] < SeekTo(t, p) => Stamps[t][held[t]] < Stamps[t][SeekTo(t, p)]
    BY <1>1, <2>1, <2>3, <2>5 DEF Strict
  <2>8. SeekTo(t, p) <= held[t]
    BY <2>3, <2>5, <2>6, <2>7
  <2>9. SeekTo(t, p) \in 1..held[t]
    BY <2>5, <2>6, <2>8
  <2> QED BY <2>1, <2>4, <2>9
<1>2. Inv => [PlayOn /\ Waiting # {} =>
                LET t == Min(Waiting)
                IN Strict(t) => t \in missed' \/ held'[t] \in 1..held[t]]_vars
  BY <1>1
<1> QED BY <1>2, Invariance, PTL DEF GoesOn

-----------------------------------------------------------------------------
(* The clock keeps behind the client's.                                    *)
LEMMA ClockKeeps ==
  ASSUME Inv, ClockInv, [Next]_vars, "redescribes" \notin Faults
  PROVE  ClockInv'
<1>1. pos \in 0..Horizon /\ real \in Nat /\ Horizon \in Nat /\ at \in 0..Horizon
  BY HorizonFacts DEF Inv, TypeOK
<1>2. CASE Advance
  <2>1. PICK p \in Nat, r \in Nat : p = pos /\ r = real /\ p <= Horizon /\ p <= r
    BY <1>1, <1>2 DEF Advance, ClockInv, Playing
  <2>2. Later(p) \in Nat /\ p <= Later(p) /\ Later(p) <= Later(r)
    BY <2>1, LaterFacts
  <2>3. pos' = Later(p) /\ real' = Later(r) /\ pc' = pc /\ at' = at
    BY <1>2, <2>1 DEF Advance, tick
  <2>4. pc = "tick" => at <= p
    BY <2>1 DEF ClockInv
  <2>5. pos' <= real'
    BY <2>2, <2>3
  <2>6. pc' = "tick" => at' <= pos'
    BY <1>1, <2>1, <2>2, <2>3, <2>4
  <2> QED BY <2>5, <2>6 DEF ClockInv
<1>3. CASE Report
  BY <1>3 DEF Report, ClockInv, Playing, tick, history
<1>4. CASE Setup
  BY <1>4 DEF Setup, ClockInv, Playing, tick, history
<1>5. CASE Play \/ PlayOn
  <2>1. PICK p \in Nat : PlayFrom(p)
    BY <1>5, CurrentPosFacts, PlayerAssumption DEF Play, PlayOn
  <2>2. PICK unread \in Unreadable : PlayBegins(p, FirstSamples(p, unread))
    BY <2>1 DEF PlayFrom
  <2>3. Started(FirstSamples(p, unread)) <= p
    BY StartedFacts
  <2>4. pos' = Started(FirstSamples(p, unread)) /\ real' = p /\ pc' = "idle"
    BY <2>1, <2>2 DEF PlayFrom, PlayBegins, tick
  <2> QED BY <2>3, <2>4 DEF ClockInv
<1>6. CASE PlayClosed
  BY <1>6 DEF PlayClosed, ClockInv, Playing, clock, tick, history
<1>7. CASE Pause \/ Teardown
  BY <1>7 DEF Pause, Teardown, Closed, ClockInv, Playing, tick, history
<1>8. CASE \E t \in Tracks : SetInterleaved(t)
  BY <1>8 DEF SetInterleaved, ClockInv, Playing, clock, tick, history
<1>9. CASE Tick
  <2>1. timer # Off
    BY <1>9 DEF Tick, Inv, OpenInv
  <2>2. pos' = pos /\ real' = real /\ at' = pos
    BY <1>9 DEF Tick, history
  <2> QED BY <1>1, <2>1, <2>2 DEF ClockInv, Playing
<1>10. CASE \/ TickEnd \/ Failure
            \/ \E t \in Tracks : Drop(t) \/ Send(t) \/ NotDue(t)
  <2>1. pc = "tick" /\ pos' = pos /\ real' = real /\ at' = at
    BY <1>10 DEF TickEnd, Failure, SendFails, ReadFails, Drop, Send, NotDue, Looking,
                 clock, history
  <2> QED BY <2>1 DEF ClockInv, Playing
<1>11. CASE UNCHANGED vars
  BY <1>11 DEF vars, clock, tick, history, ClockInv, Playing
<1> QED
  BY <1>2, <1>3, <1>4, <1>5, <1>6, <1>7, <1>8, <1>9, <1>10, <1>11
     DEF Next, Request, OnTimer

(* What goes out is the sample held, and it is due.                        *)
LEMMA SentIsDue ==
  ASSUME Inv, ClockInv, [Next]_vars, NEW t \in Tracks, sent'[t] # sent[t], sent'[t] # << >>
  PROVE  Stamps[t][Last(sent'[t])] < real
<1>1. PICK u \in Tracks : Send(u)
  <2>1. ~Play /\ ~PlayOn
    BY DEF Play, PlayOn, PlayFrom, PlayBegins
  <2>2. sent' # sent
    OBVIOUS
  <2> QED
    BY <2>1, <2>2 DEF Next, Request, OnTimer, Failure, Advance, Report, Setup, PlayClosed,
       Pause, Teardown, SetInterleaved, Tick, TickEnd, Drop, NotDue, SendFails, ReadFails,
       history, vars
<1>2. /\ Looking(u) /\ Due(u) /\ sent' = [sent EXCEPT ![u] = Append(@, held[u])]
  BY <1>1 DEF Send
<1>3. sent \in [Tracks -> Seq(Nat)]
  BY DEF Inv, TypeOK
<1>4. t = u
  BY <1>2, <1>3
<1>5. pc = "tick" /\ held[t] \in Samples(t) /\ held[t] \in Nat /\ held[t] # Nobody
  BY <1>2, <1>4, LookingFacts
<1>6. PICK s \in Seq(Nat), n \in Nat : s = sent[t] /\ n = held[t]
  BY <1>3, <1>5
<1>7. Run(s) /\ (s # << >> => n = Last(s) + 1)
  BY <1>5, <1>6 DEF Inv, SentInv
<1>8. Last(Append(s, n)) = n
  BY <1>7, RunAppend
<1>9. sent'[t] = Append(s, n)
  BY <1>2, <1>3, <1>4, <1>6
<1>10. Stamps[t][n] < at /\ Stamps[t][n] \in Nat
  BY <1>2, <1>4, <1>5, <1>6, StampFacts DEF Due
<1>11. at <= pos /\ pos <= real /\ at \in Nat /\ pos \in Nat /\ real \in Nat
  BY <1>5, HorizonFacts DEF ClockInv, Playing, Inv, TypeOK
<1> QED BY <1>8, <1>9, <1>10, <1>11

(* No sample goes out before its time, counted from the position the       *)
(* client asked for, unless the movie is described while it plays.         *)
THEOREM NothingIsEarly ==
  ASSUME "redescribes" \notin Faults
  PROVE  Spec => OnTime
<1>1. Init => ClockInv
  BY DEF Init, ClockInv, Playing
<1>2. Inv /\ ClockInv /\ [Next]_vars => ClockInv'
  BY ClockKeeps
<1>3. Spec => []ClockInv
  BY <1>1, <1>2, Invariance, PTL DEF Spec
<1>4. Inv /\ ClockInv /\ [Next]_vars =>
        [\A t \in Tracks :
           sent'[t] # sent[t] /\ sent'[t] # << >> => Stamps[t][Last(sent'[t])] < real]_vars
  BY SentIsDue
<1> QED BY <1>3, <1>4, Invariance, PTL DEF Spec, OnTime
=============================================================================
