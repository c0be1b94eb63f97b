------------------------------- MODULE Daemon -------------------------------
(***************************************************************************)
(* CDaemon (src/src/Daemon.cpp): the process that keeps a worker running,  *)
(* the worker, and in it the live channels and a session that looks them   *)
(* up.  A worker that a signal killed is started again, with nothing of    *)
(* what it had; one that exits ends its keeper too.                        *)
(*                                                                         *)
(* kpc is the place of the keeper in Run: at the head of its loop, in      *)
(* ForkWorker, in wait, in a worker that is the process itself (started    *)
(* without daemon), gone when it has returned, dead when it was killed.    *)
(* wpc is that of the worker in ForkWorker: before the channels are        *)
(* initialised, before the server runs, asleep, in Uninitialize; exited or *)
(* killed and not yet waited for; none.                                    *)
(*                                                                         *)
(* Only SIGINT has a handler.  Any other signal kills the process it is    *)
(* sent to; a worker whose keeper is killed serves on.                     *)
(*                                                                         *)
(* daemon() forks the keeper itself, again at each restart: the old        *)
(* process and the signals sent to it are forgotten, the new one goes on   *)
(* with its memory.  "Told" is said of a process whose handler has run.    *)
(***************************************************************************)
EXTENDS LiveServer

VARIABLES mode,       \* isDaemon: "daemon" or "inline"
          kpc, kRun,  \* the keeper and its m_Run
          pidWorker,  \* pidWorker # -1
          wpc, wRun   \* the worker and its m_Run

keeper == <<mode, kpc, kRun, pidWorker>>
worker == <<wpc, wRun>>
vars == <<live, keeper, worker>>

Init == /\ disk \in [Names -> {"none", "full"}] /\ Blank
        /\ mode \in {"daemon", "inline"}
        /\ kpc = "loop" /\ kRun = TRUE /\ pidWorker = FALSE
        /\ wpc = "none" /\ wRun = FALSE

Lives == wpc \in {"init", "start", "serve", "uninit"}
Serves == wpc \in {"serve", "uninit"}
Ended == kpc \in {"gone", "dead"}

-----------------------------------------------------------------------------
(* SIGINT, sent to the one or to the other; wait and sleep go on.          *)
TellKeeper == /\ ~Ended /\ kRun
              /\ kRun' = FALSE
              /\ wRun' = IF kpc = "inline" THEN FALSE ELSE wRun
              /\ UNCHANGED <<live, mode, kpc, pidWorker, wpc>>

TellWorker == /\ mode = "daemon" /\ Lives /\ wRun
              /\ wRun' = FALSE
              /\ UNCHANGED <<live, keeper, wpc>>

-----------------------------------------------------------------------------
(* The keeper.                                                             *)

(* Variant: the loop does not look at m_Run.                               *)
LoopAnyway == /\ kpc = "loop"
              /\ kpc' = IF pidWorker THEN "wait" ELSE "fork"
              /\ UNCHANGED <<live, mode, kRun, pidWorker, worker>>

Loop == /\ kpc = "loop"
        /\ kpc' = IF ~kRun THEN "gone" ELSE IF pidWorker THEN "wait" ELSE "fork"
        /\ UNCHANGED <<live, mode, kRun, pidWorker, worker>>

(* The worker begins with the keeper's m_Run, whatever it is by now.       *)
Fork == /\ kpc = "fork"
        /\ wpc' = "init" /\ wRun' = kRun
        /\ pidWorker' = (mode = "daemon")
        /\ kpc' = IF mode = "daemon" THEN "wait" ELSE "inline"
        /\ UNCHANGED <<live, mode, kRun>>

ForkFails == /\ kpc = "fork" /\ mode = "daemon"
             /\ kpc' = "gone"
             /\ UNCHANGED <<live, mode, kRun, pidWorker, worker>>

(* wait: the worker has exited, with whatever status.                      *)
WaitExited == /\ kpc = "wait" /\ wpc = "exited"
              /\ kpc' = "gone" /\ wpc' = "none"
              /\ UNCHANGED <<live, mode, kRun, pidWorker, wRun>>

(* Variant: pidWorker is not set back.                                     *)
WaitKeepsPid == /\ kpc = "wait" /\ wpc = "killed"
                /\ kpc' = "loop" /\ wpc' = "none"
                /\ UNCHANGED <<live, mode, kRun, pidWorker, wRun>>

(* wait: a signal has killed it.                                           *)
WaitKilled == /\ kpc = "wait" /\ wpc = "killed"
              /\ kpc' = "loop" /\ wpc' = "none"
              /\ pidWorker' = FALSE
              /\ UNCHANGED <<live, mode, kRun, wRun>>

(* A process that is its own worker returns with it, or dies with it.      *)
Returns == /\ kpc = "inline" /\ wpc \in {"exited", "killed"}
           /\ kpc' = "gone" /\ wpc' = "none"
           /\ UNCHANGED <<live, mode, kRun, pidWorker, wRun>>

(* The keeper is killed; it has no child or one that knows nothing of it.  *)
(* (A process that is its own worker dies as that: Aborts.)                *)
KeeperDies == /\ kpc \in {"loop", "fork", "wait"}
              /\ kpc' = "dead"
              /\ UNCHANGED <<live, mode, kRun, pidWorker, worker>>

(* What is left of a worker without a keeper is waited for by init.        *)
Reaped == /\ kpc = "dead" /\ wpc \in {"exited", "killed"}
          /\ wpc' = "none"
          /\ UNCHANGED <<live, keeper, wRun>>

Keeper == Loop \/ Fork \/ WaitExited \/ WaitKilled \/ Returns

-----------------------------------------------------------------------------
(* The worker: what CLiveChannels::Initialize returns is ignored.          *)
Starts == /\ wpc = "init"
          /\ Initialize
          /\ wpc' = "start"
          /\ UNCHANGED <<keeper, wRun>>

StartsDeaf == /\ wpc = "init"
              /\ InitializeFails
              /\ wpc' = "start"
              /\ UNCHANGED <<keeper, wRun>>

(* CServer::Run, and its failure: exit(1), which destroys m_Channels while *)
(* the scan may be using it.                                               *)
Runs == /\ wpc = "start"
        /\ wpc' = "serve"
        /\ UNCHANGED <<live, keeper, wRun>>

ExitsOne == /\ wpc = "start"
            /\ wpc' \in {"exited", "killed"}
            /\ Wiped
            /\ UNCHANGED <<disk, keeper, wRun>>

(* The sleeping loop ends; the server still serves.                        *)
Quits == /\ wpc = "serve" /\ ~wRun
         /\ wpc' = "uninit"
         /\ UNCHANGED <<live, keeper, wRun>>

Uninitialize == /\ wpc = "uninit"
                /\ Join \/ Clear \/ \E n \in Names : Delete(n)
                /\ UNCHANGED <<keeper, worker>>

Exits == /\ wpc = "uninit" /\ spc = "off"
         /\ wpc' = "exited"
         /\ Wiped
         /\ UNCHANGED <<disk, keeper, wRun>>

Worker == Starts \/ Runs \/ Quits \/ Uninitialize \/ Exits

(* The scanning thread, until Uninitialize stops it at its next return.    *)
Scans == /\ Lives
         /\ Scan
         /\ spc = "idle" => wpc # "uninit"
         /\ UNCHANGED <<keeper, worker>>

ScanFails == /\ Lives
             /\ RunFails \/ (OnTimerFails /\ wpc # "uninit")
             /\ UNCHANGED <<keeper, worker>>

(* The server's thread.                                                    *)
Asks == /\ Serves
        /\ Described
        /\ UNCHANGED <<keeper, worker>>

LooksUp == /\ Serves
           /\ Lookup
           /\ UNCHANGED <<keeper, worker>>

(* A signal kills the worker: a lookup meets a deleted channel, ...        *)
Crashes == /\ Serves /\ Torn
           /\ wpc' = "killed"
           /\ Wiped
           /\ UNCHANGED <<disk, keeper, wRun>>

(* ... an assertion fails in a session (RtspSession!fault), or somebody    *)
(* sends it a signal that has no handler, at any place.                    *)
Aborts == /\ Lives
          /\ wpc' = "killed"
          /\ Wiped
          /\ UNCHANGED <<disk, keeper, wRun>>

Others == Changes /\ UNCHANGED <<keeper, worker>>

Fails == \/ ForkFails \/ StartsDeaf \/ ExitsOne \/ ScanFails \/ Crashes
         \/ Aborts \/ KeeperDies

Tell == TellKeeper \/ TellWorker

Next == \/ Tell \/ Keeper \/ Worker \/ Scans \/ Asks \/ LooksUp \/ Fails
        \/ Others \/ Reaped

Spec == Init /\ [][Next]_vars

(* Processes and threads run on, the timer of the scan fires again and     *)
(* again; nobody has to send a signal, a request or a directory.           *)
Fairness == /\ WF_vars(Keeper \/ Reaped) /\ WF_vars(Worker)
            /\ WF_vars(Scans) /\ WF_vars(LooksUp)

FairSpec == Spec /\ Fairness

-----------------------------------------------------------------------------
(* One worker at a time, whatever signals and deaths cross each other      *)
(* (Daemon.cpp:21-60): a new one is forked only when the last has been     *)
(* waited for, and a keeper that returns leaves none; only one that was    *)
(* killed does.  What is dead has no channels, and those of the living are *)
(* sound (MapSound).                                                       *)
OneWorker == /\ TypeOK /\ MapSound
             /\ wpc # "none" => kpc \in {"wait", "inline", "dead"}
             /\ kpc = "wait" => wpc # "none" /\ pidWorker
             /\ ~Lives => \A n \in Names : chan[n] = NoChannel

(* Once the directories stay as they are and nothing more fails, every     *)
(* directory with an sdp has its channel, and a channel without directory  *)
(* is gone, although a scan removes one only and a worker that died takes  *)
(* all of them with it -- unless nobody is left to start one again, or the *)
(* worker was started without a scan (Daemon.cpp:87, whose result is       *)
(* ignored).                                                               *)
Right == \A n \in Names : /\ disk[n] = "full" => chan[n].state = "alive"
                          /\ disk[n] = "none" => chan[n].state = "none"
Disturbed == Others \/ Tell \/ Fails
Calm == [](Ended => Lives) /\ <>[](spc # "deaf") /\ <>[][~Disturbed]_vars
Recovers == Calm => <>[]Right

(* Ids and ports of another channel, which a channel that vanished within  *)
(* a DESCRIBE leaves under its sdp (LivePlayer.cpp:64-80), do not stay:    *)
(* when things are calm a client that describes channels again and again   *)
(* gets the tracks each of them has, all with their ports.                 *)
Heals == Calm /\ []<><<Asks>>_vars => <>[]Served

(* When those that live have been told to end, both end, in whatever order *)
(* they were told, if the worker dies while it cleans up, and if the       *)
(* keeper was killed before.                                               *)
Told == (~Ended => ~kRun) /\ (Lives => ~wRun)
EndsWhenTold == Told ~> Ended /\ wpc = "none"
=============================================================================
