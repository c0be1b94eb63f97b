---------------------------- MODULE SessionPool ----------------------------
(***************************************************************************)
(* What the accept side of the server promises, without the mutex, the     *)
(* timers, the free counter or the list of idle sessions: connections wait *)
(* in the order they arrived, an engine takes one only while it has a      *)
(* session left for it, every connection taken is served by one session,   *)
(* and a session serves one connection at a time.  Engin.tla implements it.*)
(***************************************************************************)
EXTENDS Naturals, FiniteSets, SequencesExt

CONSTANTS Engins,        \* the engines (one worker thread each)
          SessionCount,  \* sessions per engine
          Conns,         \* client connections
          NoConn         \* "this session serves nobody"

VARIABLES queue,  \* connections waiting to be accepted, oldest first
          taken,  \* taken[e]: connections accepted and not yet given a session
          at      \* at[e][s]: the connection session s of engine e serves

vars == <<queue, taken, at>>

Sessions == 1..SessionCount

Busy(e) == {s \in Sessions : at[e][s] # NoConn}

Known(c) == \/ c \in ToSet(queue)
            \/ \E e \in Engins : c \in ToSet(taken[e])
            \/ \E e \in Engins, s \in Sessions : at[e][s] = c

Init == /\ queue = << >>
        /\ taken = [e \in Engins |-> << >>]
        /\ at = [e \in Engins |-> [s \in Sessions |-> NoConn]]

Arrive(c) == /\ ~Known(c)
             /\ queue' = Append(queue, c)
             /\ UNCHANGED <<taken, at>>

(* A client that gives up is forgotten wherever it stood in the queue. *)
Leave(c) == /\ \E i \in DOMAIN queue : /\ queue[i] = c
                                       /\ queue' = RemoveAt(queue, i)
            /\ UNCHANGED <<taken, at>>

(* Only the oldest connection is taken, and never more than there are      *)
(* sessions left: nothing is accepted that nobody can serve.               *)
Take(e) == /\ queue # << >>
           /\ Cardinality(Busy(e)) + Len(taken[e]) < SessionCount
           /\ taken' = [taken EXCEPT ![e] = Append(@, Head(queue))]
           /\ queue' = Tail(queue)
           /\ UNCHANGED at

Give(e) == /\ taken[e] # << >>
           /\ \E s \in Sessions \ Busy(e) :
                 at' = [at EXCEPT ![e][s] = Head(taken[e])]
           /\ taken' = [taken EXCEPT ![e] = Tail(@)]
           /\ UNCHANGED queue

Finish(e, s) == /\ at[e][s] # NoConn
                /\ at' = [at EXCEPT ![e][s] = NoConn]
                /\ UNCHANGED <<queue, taken>>

Next == \/ \E c \in Conns : Arrive(c) \/ Leave(c)
        \/ \E e \in Engins : \/ Take(e)
                             \/ Give(e)
                             \/ \E s \in Sessions : Finish(e, s)

Spec == Init /\ [][Next]_vars
=============================================================================
