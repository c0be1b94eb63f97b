----------------------------- MODULE LiveServer -----------------------------
(***************************************************************************)
(* CLiveChannels and CLiveChannel (src/src/LiveServer.cpp), the channels   *)
(* that follow the directories below live_dir, and CLivePlayer::Setup      *)
(* (src/src/LivePlayer.cpp), by which a session looks them up.  The scan   *)
(* runs in a thread of its own, the lookups in the server's, and nothing   *)
(* locks m_Channels; the directories are changed by other programs.        *)
(*                                                                         *)
(* spc is the place of the scanning thread in OnTimer:                     *)
(*   off, deaf  no thread; Initialize failed and there never will be one   *)
(*   idle       waiting for its timer                                      *)
(*   read       in the readdir loop                                        *)
(*   parse, stat  in CLiveChannel::Run of cur, before Parse, before stat   *)
(*   erase      in the second loop, between delete and erase of cur        *)
(*   joined     stopped by Uninitialize, which now deletes the channels    *)
(* lpc is the place of the session's thread in Setup: in GetSdp, in        *)
(* GetTrackID, in a GetPort, each taken apart behind its find (ptr).       *)
(*                                                                         *)
(* The steps are those of one process; Daemon has the processes, which     *)
(* come and go.                                                            *)
(***************************************************************************)
EXTENDS Integers, FiniteSets

CONSTANTS Names,      \* the directories, and so the channels, there may be
          NoName,
          Unfinished, \* those that may be there without their sdp
          Tracks,     \* how many tracks the sdp of a directory has
          LiveTracks  \* m_Tracks.size() of CLivePlayer

ASSUME LiveServerAssumption == /\ NoName \notin Names
                               /\ Unfinished \subseteq Names
                               /\ Tracks \in Nat /\ LiveTracks \in Nat

VARIABLES disk,    \* disk[n]: "none", "bare" (no n.sdp in it), "full"
          chan,    \* m_Channels
          spc, unread, cur, got,  \* OnTimer: names left to read, the channel
                                  \* at hand, the tracks it has
          lpc, want, ptr,  \* Setup: the name, what find returned
          desc,    \* m_Sdp: the channel the player has the sdp of, or NoName
          ids,     \* ids[i]: the channel m_Tracks[i].m_ID is of, or NoName
          ports,   \* ports[i]: the one its m_Port is of; NoName: none, 0
          found,   \* the tracks Setup found ids for, the last time
          nth      \* the i of Setup's loop

scanner == <<spc, unread, cur, got>>
lookup == <<lpc, want, ptr, nth>>
player == <<desc, ids, ports, found>>
live == <<disk, chan, scanner, lookup, player>>

NoChannel == [state |-> "none", tracks |-> 0]
Freed == [state |-> "freed", tracks |-> 0]
Alive(k) == [state |-> "alive", tracks |-> k]
NoPorts == [i \in 1..LiveTracks |-> NoName]

(* A process has just started.                                             *)
Blank == /\ chan = [n \in Names |-> NoChannel]
         /\ spc = "off" /\ unread = {} /\ cur = NoName /\ got = 0
         /\ lpc = "idle" /\ want = NoName /\ ptr = "unset" /\ nth = 1
         /\ desc = NoName /\ ids = NoPorts /\ ports = NoPorts /\ found = 0

(* A process is gone, with all it had.                                     *)
Wiped == /\ chan' = [n \in Names |-> NoChannel]
         /\ spc' = "off" /\ unread' = {} /\ cur' = NoName /\ got' = 0
         /\ lpc' = "idle" /\ want' = NoName /\ ptr' = "unset" /\ nth' = 1
         /\ desc' = NoName /\ ids' = NoPorts /\ ports' = NoPorts /\ found' = 0

-----------------------------------------------------------------------------
(* Other programs make, fill and remove directories.                       *)
Contents(n) == {"none", "full"} \cup (IF n \in Unfinished THEN {"bare"} ELSE {})

Change(n) == /\ \E v \in Contents(n) \ {disk[n]} :
                   disk' = [disk EXCEPT ![n] = v]
             /\ UNCHANGED <<chan, scanner, lookup, player>>

Changes == \E n \in Names : Change(n)

-----------------------------------------------------------------------------
(* Initialize: without live_dir, or without an engine, there is no scan.   *)
Initialize == /\ spc' = "idle"
              /\ UNCHANGED <<disk, chan, unread, cur, got, lookup, player>>

InitializeFails == /\ spc' = "deaf"
                   /\ UNCHANGED <<disk, chan, unread, cur, got, lookup, player>>

(* OnTimer: opendir; readdir returns what is there now, in any order.      *)
(* Entries of channels that are there are passed over: unread has the      *)
(* others.                                                                 *)
OnTimer == /\ spc = "idle"
           /\ spc' = "read"
           /\ unread' = {n \in Names : disk[n] # "none" /\ chan[n].state = "none"}
           /\ UNCHANGED <<disk, chan, cur, got, lookup, player>>

OnTimerFails == /\ spc = "idle"
                /\ spc' = "read"
                /\ UNCHANGED <<disk, chan, unread, cur, got, lookup, player>>

New(n) == /\ spc = "read" /\ n \in unread
          /\ unread' = unread \ {n}
          /\ cur' = n
          /\ spc' = "parse"
          /\ UNCHANGED <<disk, chan, got, lookup, player>>

(* CLiveChannel::Run fails: its engine cannot be initialised ...           *)
RunFails == /\ spc = "parse"
            /\ spc' = "read" /\ cur' = NoName
            /\ UNCHANGED <<disk, chan, unread, got, lookup, player>>

(* ... or the directory is gone.                                           *)
NoDir == RunFails /\ disk[cur] = "none"

(* Parse makes the tracks it finds in the other sdp; what it returns is    *)
(* ignored, and a track that cannot run ends it, leaked.                   *)
Parse(k) == /\ spc = "parse" /\ disk[cur] # "none"
            /\ got' = k
            /\ spc' = "stat"
            /\ UNCHANGED <<disk, chan, unread, cur, lookup, player>>

(* With its sdp the channel goes into the map, without it is deleted.      *)
Insert == /\ spc = "stat" /\ disk[cur] = "full"
          /\ chan' = [chan EXCEPT ![cur] = Alive(got)]
          /\ spc' = "read" /\ cur' = NoName /\ got' = 0
          /\ UNCHANGED <<disk, unread, lookup, player>>

Discard == /\ spc = "stat" /\ disk[cur] # "full"
           /\ spc' = "read" /\ cur' = NoName /\ got' = 0
           /\ UNCHANGED <<disk, chan, unread, lookup, player>>

Gone == {n \in Names : chan[n].state = "alive" /\ disk[n] = "none"}

(* A pointer to n that a lookup has already found is to freed memory now.  *)
Deleted(n) == /\ chan' = [chan EXCEPT ![n] = Freed]
              /\ ptr' = IF ptr = "hit" /\ want = n THEN "freed" ELSE ptr

(* Variant: the channel is deleted and stays in the map.                   *)
SweepKeeps(n) == /\ spc = "read" /\ unread = {} /\ n \in Gone
                 /\ Deleted(n)
                 /\ spc' = "idle"
                 /\ UNCHANGED <<disk, unread, cur, got, lpc, want, nth, player>>

(* The second loop: the first channel without a directory is stopped and   *)
(* deleted, then erased, and that is all for this time.                    *)
Sweep(n) == /\ spc = "read" /\ unread = {} /\ n \in Gone
            /\ Deleted(n)
            /\ spc' = "erase" /\ cur' = n
            /\ UNCHANGED <<disk, unread, got, lpc, want, nth, player>>

Erase == /\ spc = "erase"
         /\ chan' = [chan EXCEPT ![cur] = NoChannel]
         /\ spc' = "idle" /\ cur' = NoName
         /\ UNCHANGED <<disk, unread, got, lookup, player>>

Swept == /\ spc = "read" /\ unread = {} /\ Gone = {}
         /\ spc' = "idle"
         /\ UNCHANGED <<disk, chan, unread, cur, got, lookup, player>>

Scan == \/ OnTimer \/ NoDir \/ Insert \/ Discard \/ Erase \/ Swept
        \/ \E n \in Names : New(n) \/ Sweep(n)
        \/ \E k \in 0..Tracks : Parse(k)

-----------------------------------------------------------------------------
(* Uninitialize: the thread is joined, the channels are deleted one after  *)
(* the other, and the map is cleared only then.                            *)
Join == /\ spc \in {"idle", "deaf"}
        /\ spc' = "joined"
        /\ UNCHANGED <<disk, chan, unread, cur, got, lookup, player>>

Delete(n) == /\ spc = "joined" /\ chan[n].state = "alive"
             /\ Deleted(n)
             /\ UNCHANGED <<disk, scanner, lpc, want, nth, player>>

Emptied == spc = "joined" /\ \A n \in Names : chan[n].state # "alive"

Clear == /\ Emptied
         /\ chan' = [n \in Names |-> NoChannel]
         /\ spc' = "off"
         /\ UNCHANGED <<disk, unread, cur, got, lookup, player>>

-----------------------------------------------------------------------------
(* m_Channels.find: the entry may be there with its channel deleted.       *)
Found(n) == [none |-> "miss", alive |-> "hit", freed |-> "freed"][chan[n].state]

(* CLivePlayer::Setup, on DESCRIBE of n.                                   *)
Describe(n) == /\ lpc = "idle"
               /\ lpc' = "sdp" /\ want' = n /\ ptr' = Found(n)
               /\ UNCHANGED <<disk, chan, scanner, nth, player>>

Described == \E n \in Names : Describe(n)

Find == /\ lpc # "idle" /\ ptr = "unset"
        /\ ptr' = Found(want)
        /\ UNCHANGED <<disk, chan, scanner, lpc, want, nth, player>>

(* A deleted channel was emptied by Stop before: it answers, if it does    *)
(* not crash, as one that was not found.                                   *)
Answers == ptr = "hit"
Misses == ptr \in {"miss", "freed"}

Done == /\ lpc' = "idle" /\ want' = NoName /\ nth' = 1

GotSdp == /\ lpc = "sdp" /\ Answers
          /\ desc' = want
          /\ lpc' = "ids" /\ ptr' = "unset"
          /\ UNCHANGED <<disk, chan, scanner, want, nth, ids, ports, found>>

NoSdp == /\ lpc = "sdp" /\ Misses
         /\ desc' = NoName
         /\ ptr' = "unset" /\ Done
         /\ UNCHANGED <<disk, chan, scanner, ids, ports, found>>

(* The ids of the channel as it is now, which may be gone since GetSdp: no *)
(* more are looked at than the player has tracks.  Without any Setup is    *)
(* done; it returns true.                                                  *)
GotIds == /\ lpc = "ids" /\ (Answers \/ Misses)
          /\ LET n == IF Answers THEN chan[want].tracks ELSE 0
             IN found' = IF n < LiveTracks THEN n ELSE LiveTracks
          /\ ptr' = "unset"
          /\ IF found' = 0 THEN Done
             ELSE lpc' = "port" /\ UNCHANGED <<want, nth>>
          /\ UNCHANGED <<disk, chan, scanner, desc, ids, ports>>

(* Variant: a track that has a port keeps it.                              *)
PortCached == IF ports[nth] # NoName THEN ports[nth]
              ELSE IF Answers /\ nth <= chan[want].tracks THEN want ELSE NoName

(* Variant: a track whose port is not found keeps the one it has.          *)
PortKept == IF Answers /\ nth <= chan[want].tracks THEN want ELSE ports[nth]

Port == IF Answers /\ nth <= chan[want].tracks THEN want ELSE NoName

(* One track gets its id and its port; those Setup does not come to keep   *)
(* what they have, whatever channel that is of.                            *)
GotPort == /\ lpc = "port" /\ (Answers \/ Misses)
           /\ ids' = [ids EXCEPT ![nth] = want]
           /\ ports' = [ports EXCEPT ![nth] = Port]
           /\ ptr' = "unset"
           /\ IF nth = found THEN Done
              ELSE nth' = nth + 1 /\ UNCHANGED <<lpc, want>>
           /\ UNCHANGED <<disk, chan, scanner, desc, found>>

Lookup == Find \/ GotSdp \/ NoSdp \/ GotIds \/ GotPort

(* Where a lookup may end the process instead: it uses a deleted channel,  *)
(* or walks the map while an entry is taken out of it.                     *)
Torn == \/ ptr = "freed"
        \/ lpc # "idle" /\ (spc = "erase" \/ Emptied)

-----------------------------------------------------------------------------
TypeOK == /\ disk \in [Names -> {"none", "bare", "full"}]
          /\ chan \in [Names -> [state : {"none", "alive", "freed"},
                                 tracks : 0..Tracks]]
          /\ spc \in {"off", "deaf", "idle", "read", "parse", "stat", "erase",
                      "joined"}
          /\ unread \subseteq Names /\ cur \in Names \cup {NoName}
          /\ got \in 0..Tracks
          /\ lpc \in {"idle", "sdp", "ids", "port"}
          /\ want \in Names \cup {NoName}
          /\ ptr \in {"unset", "miss", "hit", "freed"}
          /\ desc \in Names \cup {NoName}
          /\ found \in 0..LiveTracks /\ nth \in 1..LiveTracks + 1
          /\ ids \in [1..LiveTracks -> Names \cup {NoName}]
          /\ ports \in [1..LiveTracks -> Names \cup {NoName}]

(* A deleted channel is in the map only while the thread that deletes it   *)
(* is about to take it out (LiveServer.cpp:363-365, 296-299): the window   *)
(* in which a session touches freed memory is no wider than those lines.   *)
MapSound == \A n \in Names : chan[n].state = "freed" =>
               (spc = "erase" /\ cur = n) \/ spc = "joined"

(* A player has each of its tracks whole: the port goes with the id or     *)
(* there is none, so a client never hears one channel on the track of      *)
(* another, although a channel may vanish between any two lookups of Setup *)
(* (LivePlayer.cpp:64-81).  Tracks for which ids were found are those of   *)
(* the channel described.  It does not say that all the client was told of *)
(* are: m_Sdp is of an earlier lookup.  When the channel goes in between   *)
(* the player keeps the tracks of another under it, and only Heals holds.  *)
OwnStreams == lpc = "idle" =>
                 /\ \A i \in 1..LiveTracks : ports[i] \in {ids[i], NoName}
                 /\ desc # NoName => \A i \in 1..found : ids[i] = desc

(* The player has all the tracks of the channel it was described, and      *)
(* their ports; of more tracks than the channel has it says nothing.       *)
Served == lpc = "idle" /\ desc # NoName =>
             \A i \in 1..LiveTracks : i <= chan[desc].tracks =>
                ids[i] = desc /\ ports[i] = desc
=============================================================================
