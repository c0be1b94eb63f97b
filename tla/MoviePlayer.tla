---------------------------- MODULE MoviePlayer ----------------------------
(***************************************************************************)
(* CMp4Player (src/src/Mp4Player.cpp) over time, with the seeking and the  *)
(* reading position of CTrack and CMp4Demuxer (src/src/Mp4.cpp): a timer   *)
(* that is armed for one track at a time paces the samples of all hint     *)
(* tracks.  Requests and ticks are handlers of one thread; OnTimer is      *)
(* taken apart at its loops, because time goes on while it sends.          *)
(*                                                                         *)
(* Times are in ms of the movie.  pos is now - m_StartTime, the position   *)
(* the clock has reached; from the end of the movie on it makes no         *)
(* difference and stays at Horizon.  timer counts down to zero.            *)
(***************************************************************************)
EXTENDS Integers, FiniteSetsExt, SequencesExt

CONSTANTS NTracks,   \* hint tracks, in the order of m_Tracks: 1..NTracks
          Stamps,    \* Stamps[t][i]: when sample i of track t is due
          Keys,      \* Keys[t]: the samples Seek may stop at (m_Keys, or all)
          Ranges,    \* the positions clients ask for
          FirstTick, \* the 1000 of Play
          Faults     \* what may go wrong, see FaultSites

\* A packet is not sent; the file cannot be read; the memory of an erased
\* node is used again; a client describes the movie while it plays.
FaultSites == {"send", "read", "freed", "redescribes"}

Tracks == 1..NTracks
Samples(t) == DOMAIN Stamps[t]
Horizon == Max(UNION {Range(Stamps[t]) : t \in Tracks}) + 2
Off == -1
Nobody == 0

ASSUME PlayerAssumption ==
   /\ NTracks \in Nat \ {0} /\ FirstTick \in Nat \ {0}
   /\ Ranges \subseteq Nat /\ Faults \subseteq FaultSites
   /\ \A t \in Tracks : /\ Stamps[t] \in Seq(Nat) \ {<< >>}
                        /\ Stamps[t][1] = 0
                        /\ \A i, j \in Samples(t) :
                              i < j => Stamps[t][i] <= Stamps[t][j]
                        /\ Keys[t] \subseteq Samples(t) /\ 1 \in Keys[t]

VARIABLES opened,   \* m_Tracks holds the movie
          next,     \* m_SampleReaded + 1
          held,     \* m_Samples: the sample read for each track, or Nobody
          listed,   \* m_Interleaved: the tracks set up
          pos,      \* now - m_StartTime
          timer,    \* ms until the timer expires, or Off
          reported, \* epoll has reported the timer, OnTimer is to be called
          pc,       \* "idle", "tick" (in OnTimer), "aborted"
          at,       \* OnTimer's now - m_StartTime
          iter,     \* OnTimer's iter: a track, or NTracks + 1 for end()
          sent,     \* history: the samples sent since PLAY, per track
          missed,   \* history: the tracks PLAY could not read
          dropped,  \* history: the tracks dropped since PLAY
          real      \* history: where the client may expect the movie to be

disk == <<opened, next>>
clock == <<pos, timer, reported>>
tick == <<pc, at, iter>>
history == <<sent, missed, dropped, real>>
vars == <<disk, held, listed, clock, tick, history>>

Waiting == {t \in Tracks : held[t] # Nobody}
None == [t \in Tracks |-> Nobody]

Init == /\ opened = FALSE /\ next = [t \in Tracks |-> 1]
        /\ held = None /\ listed = {}
        /\ pos = 0 /\ timer = Off /\ reported = FALSE
        /\ pc = "idle" /\ at = 0 /\ iter = 1
        /\ sent = [t \in Tracks |-> << >>] /\ missed = {} /\ dropped = {}
        /\ real = 0

-----------------------------------------------------------------------------
(* Time, while it matters; epoll.                                          *)
Later(p) == IF p < Horizon THEN p + 1 ELSE p

Advance == /\ timer # Off \/ pc = "tick"
           /\ pos' = Later(pos) /\ real' = Later(real)
           /\ timer' = IF timer > 0 THEN timer - 1 ELSE timer
           /\ UNCHANGED <<disk, held, listed, reported, tick, sent, missed, dropped>>

Report == /\ pc = "idle" /\ timer = 0 /\ ~reported
          /\ reported' = TRUE
          /\ UNCHANGED <<disk, held, listed, pos, timer, tick, history>>

-----------------------------------------------------------------------------
(* Requests.                                                               *)

(* DESCRIBE: the movie is parsed, unless its tracks are there, and         *)
(* m_StartTime is 0, a time long gone.                                     *)
Setup == /\ pc = "idle"
         /\ timer = Off \/ "redescribes" \in Faults
         /\ opened' = TRUE
         /\ next' = IF opened THEN next ELSE [t \in Tracks |-> 1]
         /\ pos' = Horizon
         /\ UNCHANGED <<held, listed, timer, reported, tick, history>>

(* SETUP of one track.                                                     *)
SetInterleaved(t) == /\ pc = "idle"
                     /\ listed' = listed \cup {t}
                     /\ UNCHANGED <<disk, held, clock, tick, history>>

(* CTrack::Seek: the last sample (with keys, the last key) that is due.    *)
SeekTo(t, p) == Max({i \in Keys[t] : Stamps[t][i] <= p})

(* Variant: the position of the last track.                                *)
CurrentPosLast == IF Waiting = {} THEN 0
                  ELSE LET t == Max(Waiting) IN Stamps[t][held[t]]

(* GetCurrentPos: of the first track that has one, the sample to be sent.  *)
CurrentPos == IF Waiting = {} THEN 0
              ELSE LET t == Min(Waiting) IN Stamps[t][held[t]]

(* Variant: m_StartTime stays as Setup left it.                            *)
StartedNever(found) == Horizon

(* m_StartTime = GetCurrent() - seekPos: the sample of the last track that *)
(* was read; 0 if none was.                                                *)
Started(found) == LET S == {t \in Tracks : found[t] # Nobody}
                  IN IF S = {} THEN 0 ELSE Stamps[Max(S)][found[Max(S)]]

(* What Play reads, when it cannot read the tracks unread: the samples     *)
(* that Seek stopped at.                                                   *)
FirstSamples(p, unread) ==
   [t \in Tracks |-> IF t \in unread THEN Nobody ELSE SeekTo(t, p)]

Unreadable == IF "read" \in Faults THEN SUBSET Tracks ELSE {{}}

(* What Play does beyond m_Samples: a track that was read stands behind    *)
(* its sample, the timer is armed.                                         *)
PlayBegins(p, found) ==
   /\ next' = [t \in Tracks |-> IF found[t] = Nobody THEN SeekTo(t, p)
                                ELSE found[t] + 1]
   /\ pos' = Started(found)
   /\ timer' = FirstTick
   /\ sent' = [t \in Tracks |-> << >>]
   /\ missed' = {t \in Tracks : found[t] = Nobody} /\ dropped' = {}
   /\ real' = p
   /\ UNCHANGED <<opened, listed, reported, tick>>

(* Variant: Seek does not empty m_Samples, and insert replaces nothing.    *)
PlayKeeps(p) == /\ pc = "idle" /\ opened
                /\ \E unread \in Unreadable :
                      LET found == FirstSamples(p, unread)
                      IN /\ held' = [t \in Tracks |-> IF held[t] = Nobody
                                                      THEN found[t] ELSE held[t]]
                         /\ PlayBegins(p, found)

(* PLAY: Seek(p) and Play.  m_Samples is emptied and filled with the       *)
(* samples found.  A track whose sample cannot be read is left out, and    *)
(* nobody is told; if none can be read the movie plays nothing.            *)
PlayFrom(p) == /\ pc = "idle" /\ opened
               /\ \E unread \in Unreadable :
                     LET found == FirstSamples(p, unread)
                     IN held' = found /\ PlayBegins(p, found)

(* ... which has nothing to play once the movie is closed; the answer is   *)
(* an error.                                                               *)
PlayClosed == /\ pc = "idle" /\ ~opened
              /\ held' = None
              /\ UNCHANGED <<disk, listed, clock, tick, history>>

Play == \E p \in Ranges : PlayFrom(p)

PlayOn == PlayFrom(CurrentPos)

(* SetTimer(0, 0) also takes back a report of the timer (m_Delete).        *)
Pause == /\ pc = "idle"
         /\ timer' = Off /\ reported' = FALSE
         /\ UNCHANGED <<disk, held, listed, pos, tick, history>>

Closed == /\ opened' = FALSE /\ held' = None /\ listed' = {}
          /\ timer' = Off /\ reported' = FALSE

Teardown == /\ pc = "idle" /\ Closed
            /\ UNCHANGED <<next, pos, tick, history>>

-----------------------------------------------------------------------------
(* OnTimer.                                                                *)

First(S) == IF S = {} THEN NTracks + 1 ELSE Min(S)

After(t) == First({u \in Waiting : u > t})

Tick == /\ pc = "idle" /\ reported
        /\ pc' = "tick" /\ at' = pos /\ iter' = First(Waiting)
        /\ reported' = FALSE
        /\ timer' = IF timer = 0 THEN Off ELSE timer
        /\ UNCHANGED <<disk, held, listed, pos, history>>

Looking(t) == pc = "tick" /\ iter = t

(* m_Samples.erase(iter), then iter++ on what was erased.  The node keeps  *)
(* its links, as the tree had them, until the memory is used again: the    *)
(* loop goes on behind it or at an earlier track -- or it crashes.         *)
Erased(t) == /\ held' = [held EXCEPT ![t] = Nobody]
             /\ \/ iter' = After(t) /\ UNCHANGED pc
                \/ iter' \in {u \in Waiting : u < t} /\ UNCHANGED pc
                \/ "freed" \in Faults /\ pc' = "aborted" /\ UNCHANGED iter

(* A track that was not set up is dropped.                                 *)
Drop(t) == /\ Looking(t) /\ t \notin listed
           /\ Erased(t)
           /\ dropped' = dropped \cup {t}
           /\ UNCHANGED <<disk, listed, clock, at, sent, missed, real>>

Due(t) == Stamps[t][held[t]] < at

HasMore(t) == next[t] <= Len(Stamps[t])

(* Variant: nobody looks whether the sample read is empty.                 *)
SendForever(t) == /\ Looking(t) /\ t \in listed /\ Due(t)
                  /\ sent' = [sent EXCEPT ![t] = IF HasMore(t) THEN Append(@, held[t]) ELSE @]
                  /\ held' = [held EXCEPT ![t] = IF HasMore(t) THEN next[t] ELSE @]
                  /\ next' = [next EXCEPT ![t] = IF HasMore(t) THEN @ + 1 ELSE @]
                  /\ UNCHANGED <<opened, listed, clock, tick, missed, dropped, real>>

(* Its packets are sent and the next sample is read (GetRtpSample), or     *)
(* there is none and the track is over.                                    *)
Send(t) == /\ Looking(t) /\ t \in listed /\ Due(t)
           /\ sent' = [sent EXCEPT ![t] = Append(@, held[t])]
           /\ IF HasMore(t)
              THEN /\ held' = [held EXCEPT ![t] = next[t]]
                   /\ next' = [next EXCEPT ![t] = @ + 1]
                   /\ UNCHANGED <<iter, pc>>
              ELSE Erased(t) /\ UNCHANGED next
           /\ UNCHANGED <<opened, listed, clock, at, missed, dropped, real>>

(* The connection, or the file, fails: ReturnEvent(E_ERROR) to a session   *)
(* without OnSubEvent.                                                     *)
SendFails(t) == /\ "send" \in Faults
                /\ Looking(t) /\ t \in listed /\ Due(t)
                /\ pc' = "aborted"
                /\ UNCHANGED <<disk, held, listed, clock, at, iter, history>>

ReadFails(t) == /\ "read" \in Faults
                /\ Looking(t) /\ t \in listed /\ Due(t)
                /\ Closed /\ pc' = "aborted"
                /\ UNCHANGED <<next, pos, at, iter, history>>

(* Variant: a sample due this very moment arms no timer.                   *)
NotDueStalls(t) ==
   /\ Looking(t) /\ t \in listed /\ ~Due(t)
   /\ timer' = IF Stamps[t][held[t]] > at THEN Stamps[t][held[t]] - at ELSE timer
   /\ iter' = After(t)
   /\ UNCHANGED <<disk, held, listed, pos, reported, pc, at, history>>

(* Nothing due: the timer is armed for this track, whatever it was.        *)
NotDue(t) ==
   /\ Looking(t) /\ t \in listed /\ ~Due(t)
   /\ timer' = IF Stamps[t][held[t]] > at THEN Stamps[t][held[t]] - at ELSE 1
   /\ iter' = After(t)
   /\ UNCHANGED <<disk, held, listed, pos, reported, pc, at, history>>

(* Variant: the movie is closed when its first track is over.              *)
TickEndEarly == /\ Looking(NTracks + 1)
                /\ pc' = "idle"
                /\ IF 1 \notin Waiting THEN Closed
                   ELSE UNCHANGED <<opened, held, listed, timer, reported>>
                /\ UNCHANGED <<next, pos, at, iter, history>>

(* Behind the loop: when no track has a sample left the movie is closed.   *)
TickEnd == /\ Looking(NTracks + 1)
           /\ pc' = "idle"
           /\ IF Waiting = {} THEN Closed
              ELSE UNCHANGED <<opened, held, listed, timer, reported>>
           /\ UNCHANGED <<next, pos, at, iter, history>>

-----------------------------------------------------------------------------
Request == \/ Setup \/ Play \/ PlayOn \/ PlayClosed \/ Pause \/ Teardown
           \/ \E t \in Tracks : SetInterleaved(t)

OnTimer == \/ Tick \/ TickEnd
           \/ \E t \in Tracks : Drop(t) \/ Send(t) \/ NotDue(t)

Failure == \E t \in Tracks : SendFails(t) \/ ReadFails(t)

Next == Advance \/ Report \/ Request \/ OnTimer \/ Failure

Spec == Init /\ [][Next]_vars

(* Time goes on, epoll reports an expired timer, OnTimer runs on;          *)
(* nothing has to fail.                                                    *)
FairSpec == /\ Spec
            /\ WF_vars(Advance) /\ WF_vars(Report) /\ WF_vars(OnTimer)

-----------------------------------------------------------------------------
TypeOK == /\ opened \in BOOLEAN
          /\ next \in [Tracks -> Nat \ {0}]
          /\ held \in [Tracks -> Nat]
          /\ \A t \in Tracks : held[t] \in Samples(t) \cup {Nobody}
          /\ listed \subseteq Tracks
          /\ pos \in 0..Horizon
          /\ timer \in {Off} \cup Nat
          /\ reported \in BOOLEAN
          /\ pc \in {"idle", "tick", "aborted"}
          /\ at \in 0..Horizon
          /\ iter \in 1..NTracks + 1
          /\ sent \in [Tracks -> Seq(Nat)]
          /\ missed \subseteq Tracks /\ dropped \subseteq Tracks
          /\ real \in Nat

(* What a client hears of a track is a run of its samples: none twice,     *)
(* none left out, up to the one before the sample held; so it is although  *)
(* all tracks share one timer, iter may go back and clients pause, seek    *)
(* and play at any moment.                                                 *)
NoGap == TypeOK /\ \A t \in Tracks :
            /\ \A i \in 1..Len(sent[t]) - 1 : sent[t][i + 1] = sent[t][i] + 1
            /\ held[t] # Nobody /\ sent[t] # << >> =>
                  held[t] = Last(sent[t]) + 1

(* A movie that closes itself has sent each of its tracks to the end or    *)
(* nothing of it: nothing of those PLAY could not read (Mp4Player.cpp:81)  *)
(* and of those not set up when their turn came (:160), of all others the  *)
(* last sample.  None breaks off, whatever was sought, paused or erased,   *)
(* and a read that fails later never makes it look like the end.           *)
Complete(t) == sent[t] # << >> /\ Last(sent[t]) = Len(Stamps[t])

PlayedOut == [][pc = "tick" /\ pc' = "idle" /\ opened /\ ~opened' =>
                   \A t \in Tracks : IF t \in missed \cup dropped
                                     THEN sent[t] = << >>
                                     ELSE Complete(t)]_vars

(* No sample goes out before the time that has passed since PLAY, counted  *)
(* from the position the client asked for, is behind it.                   *)
OnTime == [][\A t \in Tracks :
                sent'[t] # sent[t] /\ sent'[t] # << >> =>
                   Stamps[t][Last(sent'[t])] < real]_vars

(* When OnTimer returns with samples left the timer is armed, whichever    *)
(* tracks were waiting, dropped or over: a pause is the only way to stop.  *)
NeverStalls == [][pc = "tick" /\ pc' = "idle" /\ Waiting # {} =>
                     timer' # Off]_vars

(* PLAY without a Range goes on with the sample the first track was to     *)
(* send next, or an earlier key, and leaves out none of that track --      *)
(* unless it cannot be read.                                               *)
Strict(t) == \A i, j \in Samples(t) : i < j => Stamps[t][i] < Stamps[t][j]

GoesOn == [][PlayOn /\ Waiting # {} =>
                LET t == Min(Waiting)
                IN Strict(t) => \/ t \in missed'
                                \/ held'[t] \in 1..held[t]]_vars

(* A movie that plays comes to an end, unless clients go on asking.        *)
Ends == \/ []<><<Request>>_vars
        \/ (Waiting # {} /\ timer # Off)
              ~> \/ Waiting = {} \/ pc = "aborted"
                 \/ (pc = "idle" /\ timer = Off)
=============================================================================
