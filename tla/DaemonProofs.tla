---------------------------- MODULE DaemonProofs ----------------------------
(***************************************************************************)
(* Theorems about Daemon and the live channels in its worker, for every    *)
(* set of directories and every number of tracks.                          *)
(***************************************************************************)
EXTENDS Daemon, TLAPS

(* What a lookup has done so far: the tracks it came to are of the channel *)
(* whose sdp the player has; and those it did not come to are whole too.   *)
OwnUpTo(k) == \A i \in 1..k : ids[i] = desc

Whole == \A i \in 1..LiveTracks : ports[i] \in {ids[i], NoName}

LookupInv == /\ lpc # "idle" => want \in Names
             /\ lpc # "port" => nth = 1
             /\ lpc \in {"ids", "port"} => desc = want
             /\ lpc = "port" => nth <= found /\ OwnUpTo(nth - 1)
             /\ lpc = "idle" /\ desc # NoName => OwnUpTo(found)
             /\ Whole

LiveInv == TypeOK /\ MapSound /\ LookupInv

Empty == spc = "off" /\ \A n \in Names : chan[n] = NoChannel

(* At each place of the keeper, whether there is a worker; and a process   *)
(* that has just been forked, or is dead, has no channels.                 *)
ProcInv == /\ kpc \in {"loop", "fork", "wait", "inline", "gone", "dead"}
           /\ kpc \in {"loop", "fork", "gone"} => wpc = "none"
           /\ kpc = "loop" => pidWorker = FALSE
           /\ kpc = "wait" => wpc # "none" /\ pidWorker = TRUE
           /\ wpc = "init" \/ ~Lives => Empty

IInv == LiveInv /\ ProcInv

-----------------------------------------------------------------------------
(* What the scan and Uninitialize do to the channels leaves alone what a   *)
(* lookup knows, but for the pointer it holds.                             *)
LEMMA LookupKept ==
  ASSUME LookupInv, UNCHANGED <<lpc, want, nth, player>>
  PROVE  LookupInv'
BY DEF LookupInv, OwnUpTo, Whole, player

(* Every step of the scanning thread (OnTimer, CLiveChannel::Run) keeps    *)
(* the types and the map sound: only Sweep leaves a deleted channel in it, *)
(* and the next step, Erase, takes it out.                                 *)
LEMMA ScanKeeps ==
  ASSUME LiveInv, Scan \/ OnTimerFails \/ RunFails
  PROVE  LiveInv'
<1> USE LiveServerAssumption DEF LiveInv, TypeOK, MapSound, scanner, lookup, player
<1>1. CASE OnTimer \/ OnTimerFails
  <2>1. TypeOK' /\ MapSound'
    BY <1>1 DEF OnTimer, OnTimerFails
  <2> QED BY <2>1, <1>1, LookupKept DEF OnTimer, OnTimerFails
<1>2. CASE RunFails \/ NoDir
  <2>1. TypeOK' /\ MapSound'
    BY <1>2 DEF RunFails, NoDir
  <2> QED BY <2>1, <1>2, LookupKept DEF RunFails, NoDir
<1>3. CASE Insert
  <2>1. Alive(got) \in [state : {"none", "alive", "freed"}, tracks : 0..Tracks]
    BY DEF Alive
  <2>2. chan' \in [Names -> [state : {"none", "alive", "freed"}, tracks : 0..Tracks]]
    BY <1>3, <2>1 DEF Insert
  <2>3. spc' = "read" /\ cur' = NoName /\ got' \in 0..Tracks
    BY <1>3 DEF Insert
  <2>4. TypeOK'
    BY <1>3, <2>2, <2>3 DEF Insert
  <2>5. MapSound'
    BY <1>3 DEF Insert, Alive
  <2> QED BY <2>4, <2>5, <1>3, LookupKept DEF Insert
<1>4. CASE Discard
  <2>1. TypeOK' /\ MapSound'
    BY <1>4 DEF Discard
  <2> QED BY <2>1, <1>4, LookupKept DEF Discard
<1>5. CASE Erase
  <2>1. NoChannel \in [state : {"none", "alive", "freed"}, tracks : 0..Tracks]
    BY DEF NoChannel
  <2>2. TypeOK'
    BY <1>5, <2>1 DEF Erase
  <2>3. MapSound'
    BY <1>5 DEF Erase, NoChannel
  <2> QED BY <2>2, <2>3, <1>5, LookupKept DEF Erase
<1>6. CASE Swept
  <2>1. TypeOK' /\ MapSound'
    BY <1>6 DEF Swept
  <2> QED BY <2>1, <1>6, LookupKept DEF Swept
<1>7. ASSUME NEW n \in Names, New(n) PROVE LiveInv'
  <2>1. TypeOK' /\ MapSound'
    BY <1>7 DEF New
  <2> QED BY <2>1, <1>7, LookupKept DEF New
<1>8. ASSUME NEW n \in Names, Sweep(n) PROVE LiveInv'
  <2>1. TypeOK' /\ MapSound'
    BY <1>8 DEF Sweep, Deleted, Freed
  <2> QED BY <2>1, <1>8, LookupKept DEF Sweep
<1>9. ASSUME NEW k \in 0..Tracks, Parse(k) PROVE LiveInv'
  <2>1. TypeOK' /\ MapSound'
    BY <1>9 DEF Parse
  <2> QED BY <2>1, <1>9, LookupKept DEF Parse
<1> QED BY <1>1, <1>2, <1>3, <1>4, <1>5, <1>6, <1>7, <1>8, <1>9 DEF Scan

(* Uninitialize deletes the channels when the scan has been joined, so     *)
(* nobody but a lookup can meet one that is deleted.                       *)
LEMMA UninitializeKeeps ==
  ASSUME LiveInv, Join \/ Clear \/ \E n \in Names : Delete(n)
  PROVE  LiveInv'
<1> USE LiveServerAssumption DEF LiveInv, TypeOK, MapSound, scanner, lookup, player
<1>1. CASE Join
  <2>1. TypeOK' /\ MapSound'
    BY <1>1 DEF Join
  <2> QED BY <2>1, <1>1, LookupKept DEF Join
<1>2. CASE Clear
  <2>1. TypeOK' /\ MapSound'
    BY <1>2 DEF Clear, NoChannel
  <2> QED BY <2>1, <1>2, LookupKept DEF Clear
<1>3. ASSUME NEW n \in Names, Delete(n) PROVE LiveInv'
  <2>1. TypeOK' /\ MapSound'
    BY <1>3 DEF Delete, Deleted, Freed
  <2> QED BY <2>1, <1>3, LookupKept DEF Delete
<1> QED BY <1>1, <1>2, <1>3

(* m_Channels.find returns an entry, alive or deleted, or none.            *)
LEMMA FoundType ==
  ASSUME TypeOK, NEW n \in Names
  PROVE  Found(n) \in {"miss", "hit", "freed"}
<1>1. chan[n].state \in {"none", "alive", "freed"}
  BY DEF TypeOK
<1> QED BY <1>1 DEF Found

(* A lookup (CLivePlayer::Setup) sets the tracks one after the other, each *)
(* to the id and the port, or no port, of the channel it described.        *)
LEMMA LookupKeeps ==
  ASSUME LiveInv, Lookup \/ \E n \in Names : Describe(n)
  PROVE  LiveInv'
<1> USE LiveServerAssumption DEF LiveInv, scanner, lookup, player
<1>m. ASSUME UNCHANGED <<chan, spc, cur>> PROVE MapSound'
  BY <1>m DEF MapSound
<1>1. ASSUME NEW n \in Names, Describe(n) PROVE LiveInv'
  <2>1. TypeOK'
    BY <1>1, FoundType DEF Describe, TypeOK
  <2>2. LookupInv'
    BY <1>1 DEF Describe, LookupInv, OwnUpTo, Whole
  <2> QED BY <2>1, <2>2, <1>1, <1>m DEF Describe
<1>2. CASE Find
  <2>1. Found(want) \in {"miss", "hit", "freed"}
    BY <1>2, FoundType DEF Find, LookupInv
  <2>2. TypeOK'
    BY <1>2, <2>1 DEF Find, TypeOK
  <2>3. LookupInv'
    BY <1>2 DEF Find, LookupInv, OwnUpTo, Whole
  <2> QED BY <2>2, <2>3, <1>2, <1>m DEF Find
<1>3. CASE GotSdp
  <2>1. TypeOK'
    BY <1>3 DEF GotSdp, TypeOK
  <2>2. LookupInv'
    BY <1>3 DEF GotSdp, LookupInv, OwnUpTo, Whole
  <2> QED BY <2>1, <2>2, <1>3, <1>m DEF GotSdp
<1>4. CASE NoSdp
  <2>1. TypeOK'
    BY <1>4 DEF NoSdp, Done, TypeOK
  <2>2. LookupInv'
    BY <1>4 DEF NoSdp, Done, LookupInv, OwnUpTo, Whole
  <2> QED BY <2>1, <2>2, <1>4, <1>m DEF NoSdp
<1>5. CASE GotIds
  <2> DEFINE k == IF Answers THEN chan[want].tracks ELSE 0
  <2>1. k \in Nat
    BY <1>5 DEF GotIds, TypeOK, LookupInv
  <2>2. found' \in 0..LiveTracks
    BY <1>5, <2>1 DEF GotIds
  <2>3. CASE found' = 0
    <3>1. TypeOK'
      BY <1>5, <2>2, <2>3 DEF GotIds, Done, TypeOK
    <3>2. LookupInv'
      BY <1>5, <2>3 DEF GotIds, Done, LookupInv, OwnUpTo, Whole
    <3> QED BY <3>1, <3>2, <1>5, <1>m DEF GotIds
  <2>4. CASE found' # 0
    <3>1. TypeOK'
      BY <1>5, <2>2, <2>4 DEF GotIds, TypeOK
    <3>2. LookupInv'
      BY <1>5, <2>2, <2>4 DEF GotIds, LookupInv, OwnUpTo, Whole
    <3> QED BY <3>1, <3>2, <1>5, <1>m DEF GotIds
  <2> QED BY <2>3, <2>4
<1>6. CASE GotPort
  <2>1. Port \in {want, NoName} /\ want = desc /\ desc \in Names
    BY <1>6 DEF GotPort, Port, LookupInv
  <2>2. nth \in 1..found /\ found \in 0..LiveTracks
    BY <1>6 DEF GotPort, TypeOK, LookupInv
  <2>3. /\ ids' \in [1..LiveTracks -> Names \cup {NoName}]
        /\ ports' \in [1..LiveTracks -> Names \cup {NoName}]
        /\ \A i \in 1..LiveTracks : /\ ids'[i] = IF i = nth THEN want ELSE ids[i]
                                   /\ ports'[i] = IF i = nth THEN Port ELSE ports[i]
    BY <1>6, <2>1, <2>2 DEF GotPort, TypeOK
  <2>4. Whole'
    BY <2>1, <2>3 DEF LookupInv, Whole
  <2>5. ASSUME NEW i \in 1..nth PROVE ids'[i] = desc
    <3>1. i \in 1..LiveTracks
      BY <2>2
    <3>2. CASE i = nth
      BY <2>1, <2>3, <3>1, <3>2
    <3>3. CASE i # nth
      <4>1. i \in 1..nth - 1
        BY <2>2, <3>3
      <4> QED BY <1>6, <2>3, <3>1, <3>3, <4>1 DEF GotPort, LookupInv, OwnUpTo
    <3> QED BY <3>2, <3>3
  <2>6. CASE nth = found
    <3>1. TypeOK'
      BY <1>6, <2>3, <2>6 DEF GotPort, Done, TypeOK
    <3>2. LookupInv'
      BY <1>6, <2>4, <2>5, <2>6 DEF GotPort, Done, LookupInv, OwnUpTo
    <3> QED BY <3>1, <3>2, <1>6, <1>m DEF GotPort
  <2>7. CASE nth # found
    <3>1. nth' \in 1..found /\ nth' - 1 = nth
      BY <1>6, <2>2, <2>7 DEF GotPort
    <3>2. TypeOK'
      BY <1>6, <2>2, <2>3, <2>7, <3>1 DEF GotPort, TypeOK
    <3>3. LookupInv'
      BY <1>6, <2>2, <2>4, <2>5, <2>7, <3>1 DEF GotPort, LookupInv, OwnUpTo
    <3> QED BY <3>2, <3>3, <1>6, <1>m DEF GotPort
  <2> QED BY <2>6, <2>7
<1> QED BY <1>1, <1>2, <1>3, <1>4, <1>5, <1>6 DEF Lookup

-----------------------------------------------------------------------------
(* A process that has just started, or is gone, has nothing to keep.       *)
LEMMA WipedKeeps ==
  ASSUME disk' \in [Names -> {"none", "bare", "full"}], Wiped
  PROVE  LiveInv' /\ Empty'
<1> USE LiveServerAssumption DEF Wiped, NoChannel, NoPorts
<1>1. TypeOK'
  BY DEF TypeOK
<1>2. MapSound' /\ LookupInv'
  BY DEF MapSound, LookupInv, OwnUpTo, Whole
<1> QED BY <1>1, <1>2 DEF LiveInv, Empty

(* The keeper begins with no worker.                                       *)
LEMMA InitIInv == Init => IInv
<1> SUFFICES ASSUME Init PROVE IInv
  OBVIOUS
<1> USE LiveServerAssumption DEF Init, Blank, NoChannel, NoPorts
<1>1. TypeOK
  BY DEF TypeOK
<1>2. MapSound /\ LookupInv
  BY DEF MapSound, LookupInv, OwnUpTo, Whole
<1>3. ProcInv
  BY DEF ProcInv, Empty, Lives
<1> QED BY <1>1, <1>2, <1>3 DEF IInv, LiveInv

(* What leaves the channels and the lookup alone keeps their invariant.    *)
LEMMA LiveKept == ASSUME LiveInv, UNCHANGED live PROVE LiveInv'
BY DEF LiveInv, TypeOK, MapSound, LookupInv, OwnUpTo, Whole, live, scanner, lookup, player

(* CDaemon::Run and ForkWorker: a worker is forked only when the last one  *)
(* has been waited for; SIGINT only clears a flag; a keeper that is killed *)
(* forks none.                                                             *)
LEMMA KeeperKeeps ==
  ASSUME IInv, Keeper \/ Tell \/ ForkFails \/ KeeperDies \/ Reaped
  PROVE  IInv'
<1>1. UNCHANGED live
  BY DEF Keeper, Loop, Fork, WaitExited, WaitKilled, Returns, Tell, TellKeeper,
         TellWorker, ForkFails, KeeperDies, Reaped
<1>2. LiveInv' /\ (Empty => Empty')
  BY <1>1, LiveKept DEF IInv, Empty, live, scanner
<1> USE <1>2 DEF IInv, ProcInv, Lives, Ended, keeper, worker
<1>3. CASE Loop
  BY <1>3 DEF Loop
<1>4. CASE Fork
  BY <1>4 DEF Fork
<1>5. CASE WaitExited
  BY <1>5 DEF WaitExited
<1>6. CASE WaitKilled
  BY <1>6 DEF WaitKilled
<1>7. CASE Returns
  BY <1>7 DEF Returns
<1>8. CASE ForkFails
  BY <1>8 DEF ForkFails
<1>9. CASE TellKeeper
  BY <1>9 DEF TellKeeper
<1>10. CASE TellWorker
  BY <1>10 DEF TellWorker
<1>11. CASE KeeperDies
  BY <1>11 DEF KeeperDies
<1>12. CASE Reaped
  BY <1>12 DEF Reaped
<1> QED
  BY <1>3, <1>4, <1>5, <1>6, <1>7, <1>8, <1>9, <1>10, <1>11, <1>12 DEF Keeper, Tell

(* A worker begins with no channels, and when it dies it leaves none.      *)
LEMMA WorkerKeeps ==
  ASSUME IInv, Worker \/ StartsDeaf \/ ExitsOne \/ Crashes \/ Aborts
  PROVE  IInv'
<1>1. CASE Starts \/ StartsDeaf
  <2>1. TypeOK' /\ LookupInv'
    BY <1>1, LookupKept DEF Starts, StartsDeaf, Initialize, InitializeFails, IInv,
       LiveInv, TypeOK, lookup, player
  <2>2. MapSound'
    BY <1>1 DEF Starts, StartsDeaf, Initialize, InitializeFails, IInv, ProcInv,
       Empty, NoChannel, MapSound
  <2>3. ProcInv'
    BY <1>1 DEF Starts, StartsDeaf, IInv, ProcInv, Lives, keeper
  <2> QED BY <2>1, <2>2, <2>3 DEF IInv, LiveInv
<1>2. CASE Runs \/ Quits
  <2>1. LiveInv'
    BY <1>2, LiveKept DEF Runs, Quits, IInv
  <2>2. ProcInv'
    BY <1>2 DEF Runs, Quits, IInv, ProcInv, Lives, keeper
  <2> QED BY <2>1, <2>2 DEF IInv
<1>3. CASE Uninitialize
  <2>1. LiveInv'
    BY <1>3, UninitializeKeeps DEF Uninitialize, IInv
  <2>2. ProcInv'
    BY <1>3 DEF Uninitialize, IInv, ProcInv, Lives, keeper, worker
  <2> QED BY <2>1, <2>2 DEF IInv
<1>4. CASE ExitsOne \/ Exits \/ Crashes \/ Aborts
  <2>1. LiveInv' /\ Empty'
    BY <1>4, WipedKeeps DEF ExitsOne, Exits, Crashes, Aborts, IInv, LiveInv, TypeOK
  <2>2. ProcInv'
    BY <1>4, <2>1 DEF ExitsOne, Exits, Crashes, Aborts, Serves, IInv, ProcInv,
       Lives, keeper
  <2> QED BY <2>1, <2>2 DEF IInv
<1> QED BY <1>1, <1>2, <1>3, <1>4 DEF Worker

(* The threads of a worker that lives, and other programs.                 *)
LEMMA ThreadsKeep ==
  ASSUME IInv, Scans \/ ScanFails \/ Asks \/ LooksUp \/ Others
  PROVE  IInv'
<1>1. CASE Scans \/ ScanFails
  <2>1. LiveInv'
    BY <1>1, ScanKeeps DEF Scans, ScanFails, IInv
  <2>2. wpc # "init"
    BY <1>1 DEF Scans, ScanFails, IInv, ProcInv, Empty, Scan, OnTimer,
       OnTimerFails, NoDir, RunFails, Insert, Discard, Erase, Swept, New, Sweep,
       Parse
  <2>3. ProcInv'
    BY <1>1, <2>2 DEF Scans, ScanFails, IInv, ProcInv, Lives, keeper, worker
  <2> QED BY <2>1, <2>3 DEF IInv
<1>2. CASE Asks \/ LooksUp
  <2>1. LiveInv'
    BY <1>2, LookupKeeps DEF Asks, Described, LooksUp, IInv
  <2>2. ProcInv'
    BY <1>2 DEF Asks, LooksUp, Serves, IInv, ProcInv, Lives, keeper, worker
  <2> QED BY <2>1, <2>2 DEF IInv
<1>3. CASE Others
  <2>1. PICK n \in Names : Change(n)
    BY <1>3 DEF Others, Changes
  <2>2. TypeOK'
    BY <2>1 DEF Change, Contents, IInv, LiveInv, TypeOK, scanner, lookup, player
  <2>3. MapSound'
    BY <2>1 DEF Change, IInv, LiveInv, MapSound, scanner
  <2>4. LookupInv'
    BY <2>1, LookupKept DEF Change, IInv, LiveInv, lookup
  <2>5. ProcInv'
    BY <1>3, <2>1 DEF Others, Change, IInv, ProcInv, Empty, Lives, keeper, worker,
       scanner
  <2> QED BY <2>2, <2>3, <2>4, <2>5 DEF IInv, LiveInv
<1> QED BY <1>1, <1>2, <1>3

(* Every step of either process, of a thread or of another program.        *)
LEMMA StepIInv == IInv /\ [Next]_vars => IInv'
<1> SUFFICES ASSUME IInv, [Next]_vars PROVE IInv'
  OBVIOUS
<1>1. CASE Next
  BY <1>1, KeeperKeeps, WorkerKeeps, ThreadsKeep DEF Next, Fails
<1>2. CASE UNCHANGED vars
  <2>1. LiveInv'
    BY <1>2, LiveKept DEF IInv, vars
  <2>2. ProcInv'
    BY <1>2 DEF IInv, ProcInv, Empty, Lives, vars, live, scanner, keeper, worker
  <2> QED BY <2>1, <2>2 DEF IInv
<1> QED BY <1>1, <1>2

(* Every reachable state of the two processes satisfies the invariant.     *)
THEOREM Invariance == Spec => []IInv
BY InitIInv, StepIInv, PTL DEF Spec

-----------------------------------------------------------------------------
(* OneWorker, for any number of directories: never two workers, and none   *)
(* without its keeper but where the keeper was killed; nothing left of a   *)
(* dead one, and a deleted channel in the map only while the thread that   *)
(* deletes it goes on to take it out (Daemon.cpp:21-60,                    *)
(* LiveServer.cpp:288-302, 354-368).                                       *)
THEOREM NeverTwoWorkers == Spec => []OneWorker
<1>1. ASSUME IInv PROVE OneWorker
  <2>1. kpc \in {"loop", "fork", "wait", "inline", "gone", "dead"}
    BY <1>1 DEF IInv, ProcInv
  <2> QED BY <1>1, <2>1 DEF IInv, LiveInv, ProcInv, Empty, OneWorker
<1> QED BY <1>1, Invariance, PTL

(* OwnStreams, for any number of tracks: a player has the id and the port  *)
(* of each track from one channel, whenever channels come and go, and the  *)
(* tracks Setup found ids for from the one described; which may be fewer   *)
(* than the client was told of (LivePlayer.cpp:62-87).                     *)
THEOREM StreamsAreOwn == Spec => []OwnStreams
<1>1. IInv => OwnStreams
  BY DEF IInv, LiveInv, LookupInv, OwnUpTo, Whole, OwnStreams
<1> QED BY <1>1, Invariance, PTL
=============================================================================
