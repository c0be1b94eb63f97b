------------------------------- MODULE Engin -------------------------------
(***************************************************************************)
(* CEngin and CServer (src/src/Server.cpp): the engines that share one     *)
(* listening socket, pass the right to watch it from one to the other      *)
(* under a static mutex, and serve the accepted connections with a fixed   *)
(* pool of sessions each.                                                  *)
(*                                                                         *)
(* One engine is one worker thread: it runs one handler at a time, and     *)
(* pc[e] is the place in the handler where another thread may interleave:  *)
(*   new       not started (CServer::Run has not reached it)               *)
(*   wait      in epoll_wait, no handler running                           *)
(*   register  OnTimer, after TryLock, before RegisterPriority             *)
(*   accept    OnRead, in the accept loop                                  *)
(*   rearm     OnRead, after Unlock, before SetTimer and Unregister        *)
(*   handout   OnRead, in the loop that gives connections to sessions      *)
(*   stopped   destroyed                                                   *)
(*                                                                         *)
(* Removing a registered fd from epoll is taken not to fail.               *)
(***************************************************************************)
EXTENDS Integers, FiniteSets, SequencesExt

CONSTANTS Engins,        \* one per CEngin the server creates
          SessionCount,  \* m_SessionCount
          Conns,         \* client connections
          NoEngin,       \* "the mutex is free"
          NoConn,        \* "this session serves nobody"
          Faults         \* the calls that may fail: a subset of FaultSites

(* "start": CEngin::Run; "register": RegisterPriority; "accept": accept    *)
(* with an error other than EAGAIN; "timer": SetTimer(40, 5); "watch":     *)
(* the RegisterRD of CRtspSession::Handle.                                 *)
FaultSites == {"start", "register", "accept", "timer", "watch"}

ASSUME EnginAssumption == /\ SessionCount \in Nat \ {0}
                          /\ NoEngin \notin Engins
                          /\ NoConn \notin Conns
                          /\ Faults \subseteq FaultSites

VARIABLES mutex,      \* CEngin::m_Mutex, shared: its owner, or NoEngin
          backlog,    \* the listening socket's queue, shared
          pc,         \* the worker's place in its handler
          free,       \* m_Free
          sessions,   \* m_Sessions, the idle sessions, next one first
          fds,        \* the local list of OnRead: accepted, not handed out
          listening,  \* m_Added: the listener is in this engine's epoll
          timer,      \* m_Timer: "off", "armed", or "deaf" (failed to arm)
          serving,    \* serving[e][s]: the connection session s holds
          watched     \* watched[e]: the sessions whose fd is in epoll

vars == <<mutex, backlog, pc, free, sessions, fds, listening, timer, serving,
          watched>>

Sessions == 1..SessionCount

PCs == {"new", "wait", "register", "accept", "rearm", "handout", "stopped"}

Busy(e) == {s \in Sessions : serving[e][s] # NoConn}

(* Where a connection may be: a client connects again only from nowhere.   *)
Known(c) == \/ c \in ToSet(backlog)
            \/ \E e \in Engins : c \in ToSet(fds[e])
            \/ \E e \in Engins, s \in Sessions : serving[e][s] = c

Init == /\ mutex = NoEngin
        /\ backlog = << >>
        /\ pc = [e \in Engins |-> "new"]
        /\ free = [e \in Engins |-> SessionCount]
        /\ sessions = [e \in Engins |-> << >>]
        /\ fds = [e \in Engins |-> << >>]
        /\ listening = [e \in Engins |-> FALSE]
        /\ timer = [e \in Engins |-> "off"]
        /\ serving = [e \in Engins |-> [s \in Sessions |-> NoConn]]
        /\ watched = [e \in Engins |-> {}]

-----------------------------------------------------------------------------
(* The clients.                                                            *)

Arrive(c) == /\ ~Known(c)
             /\ backlog' = Append(backlog, c)
             /\ UNCHANGED <<mutex, pc, free, sessions, fds, listening, timer,
                            serving, watched>>

(* A client resets a connection nobody has accepted yet.                   *)
Leave(c) == /\ \E i \in DOMAIN backlog : /\ backlog[i] = c
                                         /\ backlog' = RemoveAt(backlog, i)
            /\ UNCHANGED <<mutex, pc, free, sessions, fds, listening, timer,
                           serving, watched>>

-----------------------------------------------------------------------------
(* The main thread.                                                        *)

(* CEngin::Run: fill the pool, start the worker, arm SetTimer(50, 5).      *)
Run(e) == /\ pc[e] = "new"
          /\ pc' = [pc EXCEPT ![e] = "wait"]
          /\ sessions' = [sessions EXCEPT ![e] = [s \in Sessions |-> s]]
          /\ timer' = [timer EXCEPT ![e] = "armed"]
          /\ UNCHANGED <<mutex, backlog, free, fds, listening, serving, watched>>

(* Run fails at any of its steps and CServer::Run deletes the engine.      *)
RunFails(e) == /\ "start" \in Faults
               /\ pc[e] = "new"
               /\ pc' = [pc EXCEPT ![e] = "stopped"]
               /\ UNCHANGED <<mutex, backlog, free, sessions, fds, listening,
                              timer, serving, watched>>

(* ~CEngin: join the worker (between two handlers), close the timer,       *)
(* unregister the listener, delete the idle sessions.  A mutex held for    *)
(* the listener stays locked, a session that serves a client is not freed. *)
Stop(e) == /\ pc[e] = "wait"
           /\ pc' = [pc EXCEPT ![e] = "stopped"]
           /\ timer' = [timer EXCEPT ![e] = "off"]
           /\ listening' = [listening EXCEPT ![e] = FALSE]
           /\ sessions' = [sessions EXCEPT ![e] = << >>]
           /\ UNCHANGED <<mutex, backlog, free, fds, serving, watched>>

-----------------------------------------------------------------------------
(* Variants of the worker's steps, each with one plausible bug.  None of   *)
(* them is part of Next: a run in which one replaces the step it is named  *)
(* after must break a property.                                            *)

(* Variant: the result of TryLock is ignored.                              *)
TryLockIgnored(e) == /\ pc[e] = "wait" /\ timer[e] = "armed" /\ free[e] > 0
                     /\ mutex' = e
                     /\ pc' = [pc EXCEPT ![e] = "register"]
                     /\ UNCHANGED <<backlog, free, sessions, fds, listening,
                                    timer, serving, watched>>

(* Variant: the mutex stays locked when the listener cannot be registered. *)
RegisterFailsLocked(e) == /\ "register" \in Faults /\ pc[e] = "register"
                          /\ pc' = [pc EXCEPT ![e] = "wait"]
                          /\ UNCHANGED <<mutex, backlog, free, sessions, fds,
                                         listening, timer, serving, watched>>

(* Variant: push_front instead of push_back: the newest is served first.   *)
AcceptInFront(e) == /\ pc[e] = "accept" /\ free[e] > 0 /\ backlog # << >>
                    /\ fds' = [fds EXCEPT ![e] = <<Head(backlog)>> \o @]
                    /\ backlog' = Tail(backlog)
                    /\ free' = [free EXCEPT ![e] = @ - 1]
                    /\ UNCHANGED <<mutex, pc, sessions, listening, timer,
                                   serving, watched>>

(* Variant: OnRead forgets to unlock.                                      *)
StopAcceptLocked(e) == /\ pc[e] = "accept"
                       /\ free[e] = 0 \/ backlog = << >>
                       /\ pc' = [pc EXCEPT ![e] = "rearm"]
                       /\ UNCHANGED <<mutex, backlog, free, sessions, fds,
                                      listening, timer, serving, watched>>

(* Variant: OnRead forgets to start the timer again.                       *)
RearmNoTimer(e) == /\ pc[e] = "rearm"
                   /\ pc' = [pc EXCEPT ![e] = "handout"]
                   /\ listening' = [listening EXCEPT ![e] = FALSE]
                   /\ UNCHANGED <<mutex, backlog, free, sessions, fds, timer,
                                  serving, watched>>

(* Variant: Close forgets to unregister the connection.                    *)
SessionEndsWatched(e, s) ==
   /\ pc[e] = "wait" /\ s \in watched[e] /\ free[e] < SessionCount
   /\ serving' = [serving EXCEPT ![e][s] = NoConn]
   /\ sessions' = [sessions EXCEPT ![e] = Append(@, s)]
   /\ free' = [free EXCEPT ![e] = @ + 1]
   /\ UNCHANGED <<mutex, backlog, pc, fds, listening, timer, watched>>

-----------------------------------------------------------------------------
(* A worker thread.                                                        *)

(* OnTimer: with a free session, try the mutex.                            *)
TryLock(e) == /\ pc[e] = "wait"
              /\ timer[e] = "armed"
              /\ free[e] > 0
              /\ mutex = NoEngin
              /\ mutex' = e
              /\ pc' = [pc EXCEPT ![e] = "register"]
              /\ UNCHANGED <<backlog, free, sessions, fds, listening, timer,
                             serving, watched>>

(* OnTimer, mutex held: watch the listener and close the timer ...         *)
Register(e) == /\ pc[e] = "register"
               /\ pc' = [pc EXCEPT ![e] = "wait"]
               /\ listening' = [listening EXCEPT ![e] = TRUE]
               /\ timer' = [timer EXCEPT ![e] = "off"]
               /\ UNCHANGED <<mutex, backlog, free, sessions, fds, serving,
                              watched>>

(* ... or, when the listener cannot be registered, give the mutex back.    *)
RegisterFails(e) == /\ "register" \in Faults
                    /\ pc[e] = "register"
                    /\ pc' = [pc EXCEPT ![e] = "wait"]
                    /\ mutex' = NoEngin
                    /\ UNCHANGED <<backlog, free, sessions, fds, listening,
                                   timer, serving, watched>>

(* The listener is readable: epoll is level-triggered for it.              *)
OnRead(e) == /\ pc[e] = "wait"
             /\ listening[e]
             /\ backlog # << >>
             /\ pc' = [pc EXCEPT ![e] = "accept"]
             /\ UNCHANGED <<mutex, backlog, free, sessions, fds, listening,
                            timer, serving, watched>>

Accept(e) == /\ pc[e] = "accept"
             /\ free[e] > 0
             /\ backlog # << >>
             /\ fds' = [fds EXCEPT ![e] = Append(@, Head(backlog))]
             /\ backlog' = Tail(backlog)
             /\ free' = [free EXCEPT ![e] = @ - 1]
             /\ UNCHANGED <<mutex, pc, sessions, listening, timer, serving,
                            watched>>

(* No session left, EAGAIN, or another error: leave the loop and unlock.   *)
StopAccept(e) == /\ pc[e] = "accept"
                 /\ free[e] = 0 \/ backlog = << >> \/ "accept" \in Faults
                 /\ pc' = [pc EXCEPT ![e] = "rearm"]
                 /\ mutex' = NoEngin
                 /\ UNCHANGED <<backlog, free, sessions, fds, listening, timer,
                                serving, watched>>

(* SetTimer(40, 5), whose result nobody looks at, then Unregister.         *)
Rearm(e) == /\ pc[e] = "rearm"
            /\ pc' = [pc EXCEPT ![e] = "handout"]
            /\ \/ timer' = [timer EXCEPT ![e] = "armed"]
               \/ "timer" \in Faults /\ timer' = [timer EXCEPT ![e] = "deaf"]
            /\ listening' = [listening EXCEPT ![e] = FALSE]
            /\ UNCHANGED <<mutex, backlog, free, sessions, fds, serving, watched>>

(* The first idle session takes the connection.  Handle returns true even  *)
(* when RegisterRD failed, so the branch that takes the session back is    *)
(* never entered.                                                          *)
HandOut(e) == LET s == Head(sessions[e])
                  c == Head(fds[e])
              IN /\ pc[e] = "handout"
                 /\ fds[e] # << >>
                 /\ sessions' = [sessions EXCEPT ![e] = Tail(@)]
                 /\ fds' = [fds EXCEPT ![e] = Tail(@)]
                 /\ serving' = [serving EXCEPT ![e][s] = c]
                 /\ \/ watched' = [watched EXCEPT ![e] = @ \cup {s}]
                    \/ "watch" \in Faults /\ UNCHANGED watched
                 /\ UNCHANGED <<mutex, backlog, pc, free, listening, timer>>

HandedOut(e) == /\ pc[e] = "handout"
                /\ fds[e] = << >>
                /\ pc' = [pc EXCEPT ![e] = "wait"]
                /\ UNCHANGED <<mutex, backlog, free, sessions, fds, listening,
                               timer, serving, watched>>

(* A session's handler ends the connection: CRtspSession::Close            *)
(* unregisters and closes it, and returns the session by OnSubEvent.       *)
SessionEnds(e, s) == /\ pc[e] = "wait"
                     /\ s \in watched[e]
                     /\ watched' = [watched EXCEPT ![e] = @ \ {s}]
                     /\ serving' = [serving EXCEPT ![e][s] = NoConn]
                     /\ sessions' = [sessions EXCEPT ![e] = Append(@, s)]
                     /\ free' = [free EXCEPT ![e] = @ + 1]
                     /\ UNCHANGED <<mutex, backlog, pc, fds, listening, timer>>

-----------------------------------------------------------------------------
Client == \E c \in Conns : Arrive(c) \/ Leave(c)

Main(e) == Run(e) \/ RunFails(e) \/ Stop(e)

Handler(e) == \/ TryLock(e) \/ Register(e) \/ RegisterFails(e)
              \/ OnRead(e) \/ Accept(e) \/ StopAccept(e)
              \/ Rearm(e) \/ HandOut(e) \/ HandedOut(e)

Worker(e) == Handler(e) \/ \E s \in Sessions : SessionEnds(e, s)

Next == Client \/ \E e \in Engins : Main(e) \/ Worker(e)

Spec == Init /\ [][Next]_vars

(* The scheduling a running thread gets: its timer keeps firing, epoll     *)
(* reports a readable listener, a handler that started runs on.  A call    *)
(* that fails and is tried again and again succeeds in the end.  Clients   *)
(* and sessions owe nothing.                                               *)
FairSpec == /\ Spec
            /\ \A e \in Engins : /\ WF_vars(Run(e)) /\ WF_vars(Handler(e))
                                 /\ SF_vars(Register(e)) /\ SF_vars(Accept(e))

-----------------------------------------------------------------------------
TypeOK == /\ mutex \in Engins \cup {NoEngin}
          /\ backlog \in Seq(Conns)
          /\ pc \in [Engins -> PCs]
          /\ free \in [Engins -> 0..SessionCount]
          /\ sessions \in [Engins -> Seq(Sessions)]
          /\ fds \in [Engins -> Seq(Conns)]
          /\ listening \in [Engins -> BOOLEAN]
          /\ timer \in [Engins -> {"off", "armed", "deaf"}]
          /\ serving \in [Engins -> [Sessions -> Conns \cup {NoConn}]]
          /\ watched \in [Engins -> SUBSET Sessions]

Running(e) == pc[e] \notin {"new", "stopped"}

(* The engine epoll will call, or has called, to accept.                   *)
Accepting(e) == \/ pc[e] = "accept"
                \/ pc[e] = "wait" /\ listening[e]

(* At most one engine accepts at a time, although OnRead unlocks the mutex *)
(* (Server.cpp:114) before it unregisters the listener (Server.cpp:116) and  *)
(* another engine may register it in between.                              *)
OneAcceptor == \A e, f \in Engins : Accepting(e) /\ Accepting(f) => e = f

(* A locked mutex is in use: its owner is about to watch the listener,     *)
(* watches it or accepts; otherwise no engine would ever accept again.     *)
(* (~CEngin gives no mutex back: Server.cpp:20-32.)                        *)
BatonInUse == mutex # NoEngin => \/ pc[mutex] \in {"register", "stopped"}
                                 \/ Accepting(mutex)

(* A waiting engine has exactly one way to be woken for new connections,   *)
(* its timer or the listener, unless its timer could not be armed          *)
(* (Server.cpp:115, whose result is ignored); and the level-triggered      *)
(* listener (Event.cpp:300-310) only with a session left to serve what it  *)
(* accepts: it would else wake it for ever to accept nothing.              *)
Wakeable == \A e \in Engins : pc[e] = "wait" =>
               /\ timer[e] # "deaf" => (timer[e] = "armed") # listening[e]
               /\ listening[e] => free[e] > 0

(* m_Free counts the idle sessions not yet promised to an accepted         *)
(* connection, so m_Sessions.front() (Server.cpp:122) never meets an empty *)
(* list and the assertion of Server.cpp:153 holds; and the list holds      *)
(* every session that serves nobody, once, and no other, none of which is  *)
(* in epoll or has a connection (the assertions of Event.cpp:19 at the end *)
(* and Socket.cpp:70 at the next Handle).                                  *)
PoolConsistent ==
   TypeOK /\ \A e \in Engins : Running(e) =>
                /\ Len(sessions[e]) = free[e] + Len(fds[e])
                /\ Len(sessions[e]) <= SessionCount
                /\ ToSet(sessions[e]) = Sessions \ Busy(e)
                /\ IsInjective(sessions[e])
                /\ watched[e] \subseteq Busy(e)

InBacklog(c) == c \in ToSet(backlog)

(* The engine is the abstract pool of SessionPool.tla: first come first    *)
(* accepted, never more taken than can be served, and a client in one      *)
(* place only, the queue, an accepted list or one session.                 *)
Pool == INSTANCE SessionPool WITH queue <- backlog, taken <- fds, at <- serving
PoolSpec == Pool!Spec

(* While every engine runs and could arm its timer, and some engine has a  *)
(* free session again and again, a waiting connection does not stay in the *)
(* backlog for ever.                                                       *)
AllWakeable == \A e \in Engins : pc[e] # "stopped" /\ timer[e] # "deaf"
SomeFree == \E e \in Engins : free[e] > 0
Accepted == []AllWakeable /\ []<>SomeFree =>
               \A c \in Conns : InBacklog(c) ~> ~InBacklog(c)
=============================================================================
