----------------------------- MODULE EventEngin -----------------------------
(***************************************************************************)
(* CEventEngin and CEvent (src/src/core/Event.cpp) on CThread              *)
(* (src/src/core/Thread.cpp): one thread that waits in epoll and calls the *)
(* handlers of the events it is told of, handlers that register and        *)
(* unregister events while a batch of reports is being worked off, another *)
(* thread that adds events at any time, and the owner that stops the       *)
(* thread.                                                                 *)
(*                                                                         *)
(* pc is the place of the thread:                                          *)
(*   loop      about to test m_Run (CThread::__Thread)                     *)
(*   wait      in epoll_wait                                               *)
(*   priority  batch received, looking for the priority event              *)
(*   dispatch  in the loop over the batch, at entry idx                    *)
(*   handling  inside a handler of cur.ev                                  *)
(*   off       the thread has returned                                     *)
(*                                                                         *)
(* Removing a registered fd from epoll is taken not to fail.               *)
(***************************************************************************)
EXTENDS Integers, FiniteSets, SequencesExt

CONSTANTS Events,     \* the CEvent objects of one engine
          Listener,   \* the one registered with RegisterPriority
          External,   \* those the main thread adds, once, while this one runs
          Connections,  \* those on a client's connection; others only read
          Masks,      \* what RegisterRD, RegisterWR (RegisterRW) ask for
          MaxEvents,  \* MAX_EVENTS
          NoEvent

Kinds == {"in", "out"}

ASSUME EventEnginAssumption == /\ Listener \in Events
                               /\ External \subseteq Events \ {Listener}
                               /\ Connections \subseteq Events \ {Listener}
                               /\ NoEvent \notin Events
                               /\ Masks \subseteq (SUBSET Kinds) \ {{}}
                               /\ MaxEvents \in Nat \ {0}

VARIABLES interest,  \* interest[ev]: what epoll watches ev for, {} if not added
          cond,      \* cond[ev]: the conditions that hold on ev's fd
          ready,     \* epoll's list of events to report, oldest first
          added,     \* m_Added
          toAdd,     \* the events the other thread has still to add
          adding,    \* the one it is adding, or NoEvent
          priority,  \* m_Priority
          batch,     \* m_Events[0..n)
          idx,       \* the loop's i
          prio,      \* the index the first loop stopped at
          deleted,   \* m_Delete
          doing,     \* m_Doing
          cur,       \* the handler running: [ev, what]
          pc, run,   \* the thread's place and m_Run
          stop,      \* the owner's Stop(): "none", "requested", "joined"
          live       \* history: the entries whose event is registered since

kernel == <<interest, cond, ready>>
place == <<batch, idx, prio, doing, cur, pc>>
thread == <<place, priority, deleted, live>>
registry == <<kernel, added, priority>>
other == <<toAdd, adding>>
owner == <<run, stop>>
vars == <<kernel, thread, added, other, owner>>

(* A connection is read or written; timers and datagrams are only read.    *)
Asks(ev) == IF ev \in Connections THEN Masks ELSE {{"in"}}

NoCall == [ev |-> NoEvent, what |-> "none"]
Entries == [ev : Events, mask : (SUBSET (Kinds \cup {"err"})) \ {{}}]

Init == /\ interest = [ev \in Events |-> {}]
        /\ cond = [ev \in Events |-> {}]
        /\ ready = << >>
        /\ added = [ev \in Events |-> FALSE]
        /\ toAdd = External /\ adding = NoEvent
        /\ priority = NoEvent
        /\ batch = << >> /\ idx = 1 /\ prio = 1
        /\ deleted = {} /\ doing = FALSE
        /\ cur = NoCall
        /\ pc = "loop" /\ run = TRUE /\ stop = "none"
        /\ live = {}

-----------------------------------------------------------------------------
(* epoll.                                                                  *)

Reports(ev) == cond[ev] \cap (interest[ev] \cup {"err"})

Listed(q, ev) == IF ev \in ToSet(q) THEN q ELSE Append(q, ev)

Unlisted(q, ev) == IF ev \in ToSet(q)
                   THEN RemoveAt(q, CHOOSE i \in DOMAIN q : q[i] = ev)
                   ELSE q

(* epoll_ctl: ADD and MOD list the event at once when a condition asked    *)
(* for (or an error) already holds.                                        *)
Watch(ev, mask) ==
   /\ interest' = [interest EXCEPT ![ev] = mask]
   /\ ready' = IF cond[ev] \cap (mask \cup {"err"}) # {}
               THEN Listed(ready, ev) ELSE Unlisted(ready, ev)
   /\ UNCHANGED cond

(* The fd of an unregistered event is closed by the same handler (Close,   *)
(* CTimer::Uninitialize), so its conditions are gone; the listener's stay. *)
Unwatch(ev) ==
   /\ interest' = [interest EXCEPT ![ev] = {}]
   /\ cond' = IF ev = Listener THEN cond ELSE [cond EXCEPT ![ev] = {}]
   /\ ready' = Unlisted(ready, ev)

(* Data, room to write, an expired timer or an error arrives; what holds   *)
(* when an event is registered is what arrives right after.                *)
Raise(ev, c) ==
   /\ ev = Listener => c = "in"
   /\ ev # Listener => interest[ev] # {}
   /\ c # "in" => ev \in Connections
   /\ stop # "joined"
   /\ cond' = [cond EXCEPT ![ev] = @ \cup {c}]
   /\ ready' = IF interest[ev] # {} /\ c \in interest[ev] \cup {"err"}
               THEN Listed(ready, ev) ELSE ready
   /\ UNCHANGED <<interest, thread, added, other, owner>>

-----------------------------------------------------------------------------
(* CEvent::Register, RegisterPriority and Unregister, CEventEngin::Add,    *)
(* Mod and Del, called by the engine's thread.                             *)

Register(ev, mask) == /\ Watch(ev, mask)
                      /\ added' = [added EXCEPT ![ev] = TRUE]
                      /\ UNCHANGED <<deleted, live, priority>>

(* Variant: Del does not note the event.                                   *)
UnregisterUnnoted(ev) == /\ Unwatch(ev)
                         /\ added' = [added EXCEPT ![ev] = FALSE]
                         /\ live' = {i \in live : batch[i].ev # ev}
                         /\ UNCHANGED <<priority, deleted>>

(* Del notes the event in m_Delete while a batch is being worked off.      *)
Unregister(ev) == /\ Unwatch(ev)
                  /\ added' = [added EXCEPT ![ev] = FALSE]
                  /\ deleted' = IF doing THEN deleted \cup {ev} ELSE deleted
                  /\ live' = {i \in live : batch[i].ev # ev}
                  /\ UNCHANGED priority

(* RegisterPriority: level-triggered; an event already added is deleted    *)
(* from epoll first.                                                       *)
RegisterPriority ==
   /\ Watch(Listener, {"in"})
   /\ added' = [added EXCEPT ![Listener] = TRUE]
   /\ priority' = Listener
   /\ IF added[Listener]
      THEN /\ deleted' = IF doing THEN deleted \cup {Listener} ELSE deleted
           /\ live' = {i \in live : batch[i].ev # Listener}
      ELSE UNCHANGED <<deleted, live>>

(* What a running handler may do: read or write its own fd until EAGAIN,   *)
(* ask for something else on its own fd, register another event, have the  *)
(* listener watched, unregister any event (one the other thread is just    *)
(* adding is not m_Added yet: nothing happens); it then returns.           *)
HandlerDrains == /\ pc = "handling" /\ cur.what # "err"
                 /\ cond' = [cond EXCEPT ![cur.ev] = @ \ {cur.what}]
                 /\ ready' = IF (cond[cur.ev] \ {cur.what})
                                   \cap (interest[cur.ev] \cup {"err"}) = {}
                             THEN Unlisted(ready, cur.ev) ELSE ready
                 /\ UNCHANGED <<interest, thread, added, other, owner>>

HandlerRegisters == /\ pc = "handling"
                    /\ \E ev \in Events \ (toAdd \cup {adding, Listener}) :
                          /\ ev = cur.ev \/ ~added[ev]
                          /\ \E mask \in Asks(ev) : Register(ev, mask)
                    /\ UNCHANGED <<other, place, owner>>

HandlerWatchesListener == /\ pc = "handling"
                          /\ RegisterPriority
                          /\ UNCHANGED <<other, place, owner>>

HandlerUnregisters == /\ pc = "handling"
                      /\ \E ev \in Events : added[ev] /\ Unregister(ev)
                      /\ UNCHANGED <<other, place, owner>>

-----------------------------------------------------------------------------
(* Another thread registers an event while this one runs: epoll_ctl first, *)
(* m_Added after it (Event.cpp:90-92).                                     *)
OtherAdds(ev) == /\ stop = "none" /\ adding = NoEvent /\ ev \in toAdd
                 /\ Watch(ev, {"in"})
                 /\ toAdd' = toAdd \ {ev}
                 /\ adding' = ev
                 /\ UNCHANGED <<thread, added, owner>>

OtherAdded == /\ adding # NoEvent
              /\ added' = [added EXCEPT ![adding] = TRUE]
              /\ adding' = NoEvent
              /\ UNCHANGED <<kernel, thread, toAdd, owner>>

-----------------------------------------------------------------------------
(* CThread::__Thread and CEventEngin::Thread.                              *)

(* Variant: the loop does not look at m_Run.                               *)
LoopForever == /\ pc = "loop"
               /\ pc' = "wait"
               /\ UNCHANGED <<registry, batch, idx, prio, deleted, doing, cur,
                              live, other, owner>>

Loop == /\ pc = "loop"
        /\ pc' = IF run THEN "wait" ELSE "off"
        /\ UNCHANGED <<registry, batch, idx, prio, deleted, doing, cur,
                       live, other, owner>>

(* epoll_wait reports the oldest MaxEvents entries of the list; the        *)
(* level-triggered one goes to its end again.                              *)
Wait == LET n == IF Len(ready) < MaxEvents THEN Len(ready) ELSE MaxEvents
            rest == SubSeq(ready, n + 1, Len(ready))
        IN /\ pc = "wait" /\ ready # << >>
           /\ batch' = [i \in 1..n |-> [ev |-> ready[i],
                                        mask |-> Reports(ready[i])]]
           /\ ready' = IF \E i \in 1..n : ready[i] = Listener
                       THEN Append(rest, Listener) ELSE rest
           /\ live' = 1..n
           /\ doing' = TRUE
           /\ pc' = "priority"
           /\ UNCHANGED <<interest, cond, priority, idx, prio, deleted,
                          cur, added, other, owner>>

(* epoll_wait times out or is interrupted.                                 *)
Timeout == /\ pc = "wait"
           /\ pc' = "loop"
           /\ UNCHANGED <<registry, batch, idx, prio, deleted, doing, cur,
                          live, other, owner>>

(* The first loop: the priority event is called before all others.         *)
Priority == /\ pc = "priority"
            /\ idx' = 1
            /\ \/ \E i \in DOMAIN batch :
                     /\ batch[i].ev = priority
                     /\ prio' = i
                     /\ cur' = [ev |-> priority, what |-> "in"]
                     /\ pc' = "handling"
               \/ /\ \A i \in DOMAIN batch : batch[i].ev # priority
                  /\ prio' = Len(batch) + 1
                  /\ pc' = "dispatch"
                  /\ UNCHANGED cur
            /\ UNCHANGED <<registry, batch, deleted, doing, live, other,
                           owner>>

(* Variant: the second loop does not skip the priority entry.              *)
SkippedDeleted(i) == batch[i].ev \in deleted

(* The second loop: entries to skip ...                                    *)
Skipped(i) == i = prio \/ batch[i].ev \in deleted

Skip == /\ pc = "dispatch" /\ idx <= Len(batch)
        /\ Skipped(idx)
        /\ idx' = idx + 1
        /\ UNCHANGED <<registry, batch, prio, deleted, doing, cur, pc,
                       live, other, owner>>

(* ... and entries to call the handler of: OnError alone, or OnRead, or    *)
(* OnWrite.                                                                *)
Dispatch == /\ pc = "dispatch" /\ idx <= Len(batch)
            /\ ~Skipped(idx)
            /\ cur' = [ev |-> batch[idx].ev,
                       what |-> IF "err" \in batch[idx].mask THEN "err"
                                ELSE IF "in" \in batch[idx].mask THEN "in"
                                ELSE "out"]
            /\ pc' = "handling"
            /\ UNCHANGED <<registry, batch, idx, prio, deleted, doing,
                           live, other, owner>>

(* A handler returns.  After the priority event's the second loop begins;  *)
(* after OnRead comes OnWrite when both were reported, with no second look *)
(* at m_Delete.                                                            *)
InFirstLoop == prio <= Len(batch) /\ cur.ev = batch[prio].ev

ThenWrites == ~InFirstLoop /\ cur.what = "in" /\ "out" \in batch[idx].mask

HandlerReturns == /\ pc = "handling"
                  /\ IF ThenWrites
                     THEN /\ cur' = [cur EXCEPT !.what = "out"]
                          /\ UNCHANGED <<pc, idx>>
                     ELSE /\ cur' = NoCall
                          /\ pc' = "dispatch"
                          /\ idx' = IF InFirstLoop THEN idx ELSE idx + 1
                  /\ UNCHANGED <<registry, batch, prio, deleted, doing,
                                 live, other, owner>>

(* Variant: m_Delete is not cleared.                                       *)
EndBatchKeeps == /\ pc = "dispatch" /\ idx > Len(batch)
                 /\ doing' = FALSE
                 /\ batch' = << >> /\ live' = {} /\ idx' = 1 /\ prio' = 1
                 /\ pc' = "loop"
                 /\ UNCHANGED <<registry, deleted, cur, other, owner>>

EndBatch == /\ pc = "dispatch" /\ idx > Len(batch)
            /\ deleted' = {} /\ doing' = FALSE
            /\ batch' = << >> /\ live' = {} /\ idx' = 1 /\ prio' = 1
            /\ pc' = "loop"
            /\ UNCHANGED <<registry, cur, other, owner>>

-----------------------------------------------------------------------------
(* CThread::Stop, called by the owner: clear m_Run, join, set it again.    *)
RequestStop == /\ stop = "none" /\ toAdd = {} /\ adding = NoEvent
               /\ run' = FALSE
               /\ stop' = "requested"
               /\ UNCHANGED <<kernel, thread, added, other>>

(* Variant: Stop does not join.                                            *)
JoinEarly == /\ stop = "requested"
             /\ run' = TRUE
             /\ stop' = "joined"
             /\ UNCHANGED <<kernel, thread, added, other>>

Join == /\ stop = "requested" /\ pc = "off"
        /\ run' = TRUE
        /\ stop' = "joined"
        /\ UNCHANGED <<kernel, thread, added, other>>

-----------------------------------------------------------------------------
HandlerStep == \/ HandlerDrains \/ HandlerRegisters \/ HandlerWatchesListener
               \/ HandlerUnregisters

ThreadStep == \/ Loop \/ Wait \/ Timeout \/ Priority \/ Skip \/ Dispatch
              \/ HandlerReturns \/ EndBatch

Next == \/ \E ev \in Events, c \in (UNION Masks) \cup {"err"} : Raise(ev, c)
        \/ \E ev \in External : OtherAdds(ev)
        \/ OtherAdded \/ HandlerStep \/ ThreadStep \/ RequestStop \/ Join

Spec == Init /\ [][Next]_vars

(* The thread is scheduled, its handlers return (none of them waits), and  *)
(* epoll_wait is not interrupted for ever.                                 *)
FairSpec == /\ Spec
            /\ WF_vars(ThreadStep) /\ SF_vars(Wait) /\ WF_vars(HandlerReturns)
            /\ WF_vars(OtherAdded) /\ WF_vars(Join)

-----------------------------------------------------------------------------
TypeOK == /\ interest \in [Events -> {{}, {"in"}} \cup Masks]
          /\ cond \in [Events -> SUBSET (Kinds \cup {"err"})]
          /\ ready \in Seq(Events)
          /\ added \in [Events -> BOOLEAN]
          /\ toAdd \subseteq External /\ adding \in External \cup {NoEvent}
          /\ priority \in {NoEvent, Listener}
          /\ batch \in Seq(Entries) /\ Len(batch) <= MaxEvents
          /\ idx \in 1..MaxEvents + 1 /\ prio \in 1..MaxEvents + 1
          /\ deleted \subseteq Events
          /\ doing \in BOOLEAN
          /\ cur \in [ev : Events, what : Kinds \cup {"err"}] \cup {NoCall}
          /\ pc \in {"loop", "wait", "priority", "dispatch", "handling", "off"}
          /\ run \in BOOLEAN
          /\ stop \in {"none", "requested", "joined"}
          /\ live \subseteq 1..MaxEvents

StartsHandler == pc' = "handling" /\ (pc # "handling" \/ cur' # cur)

(* A handler is only called for a report of this batch whose event nobody  *)
(* has unregistered since epoll made the report: an earlier handler of the *)
(* same batch may have closed it (a session ending its player's timer),    *)
(* and CTimer::OnRead asserts an open fd (Event.cpp:206).                  *)
DispatchesLive ==
   [][StartsHandler => \E i \in live : /\ batch[i].ev = cur'.ev
                                       /\ cur'.what \in batch[i].mask]_vars

(* The priority event is served before every other one of its batch and    *)
(* not a second time by the loop over the rest (Event.cpp:394-413).        *)
PriorityFirst ==
   [][StartsHandler /\ pc # "priority" =>
         /\ cur'.ev # priority
         /\ \A i \in live : batch[i].ev = priority => i = prio]_vars

(* Once Stop has returned no handler runs any more: destructors rely on it *)
(* when they free what handlers use (Server.cpp:22, LiveServer.cpp:151).   *)
(* And the array of reports never overflows (in TypeOK).                   *)
QuietAfterStop == TypeOK /\ (stop = "joined" => pc = "off" /\ cur = NoCall)

(* Stop returns.                                                           *)
StopReturns == stop = "requested" ~> stop = "joined"

(* No report is lost: an event epoll has to report is handled, unless it   *)
(* is unregistered, its condition passes or the engine is stopped -- with  *)
(* more events than MaxEvents, a level-triggered event that is always      *)
(* ready and handlers that register what they just unregistered.           *)
EveryReportServed ==
   \A ev \in Events :
      ev \in ToSet(ready) /\ stop = "none"
         ~> \/ cur.ev = ev \/ interest[ev] = {} \/ Reports(ev) = {}
            \/ stop # "none"
=============================================================================
