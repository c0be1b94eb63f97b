---------------------------- MODULE EnginProofs ----------------------------
(***************************************************************************)
(* Theorems about Engin, for every number of engines, sessions and         *)
(* connections and every set of faults.                                    *)
(***************************************************************************)
EXTENDS Engin, FiniteSetTheorems, SequenceTheorems, TLAPS

-----------------------------------------------------------------------------
(* Sequences without repetition: the list of idle sessions, the queue of   *)
(* waiting clients.                                                        *)

(* A new element at the end of a list without it.                          *)
LEMMA AppendDistinct ==
  ASSUME NEW S, NEW q \in Seq(S), NEW x \in S
  PROVE  /\ Append(q, x) \in Seq(S)
         /\ Len(Append(q, x)) = Len(q) + 1
         /\ ToSet(Append(q, x)) = ToSet(q) \cup {x}
         /\ IsInjective(q) /\ x \notin ToSet(q) => IsInjective(Append(q, x))
<1> DEFINE r == Append(q, x)
<1>1. /\ r \in Seq(S)
      /\ Len(r) = Len(q) + 1
      /\ \A i \in 1..Len(q) : r[i] = q[i]
      /\ r[Len(q) + 1] = x
  OBVIOUS
<1>2. DOMAIN q = 1..Len(q) /\ DOMAIN r = 1..Len(q) + 1 /\ Len(q) \in Nat
  BY <1>1
<1> HIDE DEF r
<1>3. ToSet(r) = ToSet(q) \cup {x}
  <2>1. ASSUME NEW y \in ToSet(q) PROVE y \in ToSet(r)
    <3>1. PICK i \in 1..Len(q) : y = q[i]
      BY <1>2 DEF ToSet
    <3> QED BY <3>1, <1>1, <1>2 DEF ToSet
  <2>2. x \in ToSet(r)
    BY <1>1, <1>2 DEF ToSet
  <2>3. ASSUME NEW y \in ToSet(r) PROVE y \in ToSet(q) \cup {x}
    <3>1. PICK i \in 1..Len(q) + 1 : y = r[i]
      BY <1>2 DEF ToSet
    <3>2. CASE i = Len(q) + 1
      BY <3>1, <3>2, <1>1
    <3>3. CASE i \in 1..Len(q)
      BY <3>1, <3>3, <1>1, <1>2 DEF ToSet
    <3> QED BY <3>2, <3>3, <1>2
  <2> QED BY <2>1, <2>2, <2>3
<1>4. IsInjective(q) /\ x \notin ToSet(q) => IsInjective(r)
  BY <1>1, <1>2 DEF IsInjective, ToSet
<1> QED BY <1>1, <1>3, <1>4 DEF r

(* The head leaves a list without repetition for good.                     *)
LEMMA TailDistinct ==
  ASSUME NEW S, NEW q \in Seq(S), q # << >>
  PROVE  /\ Head(q) \in S
         /\ Head(q) \in ToSet(q)
         /\ Tail(q) \in Seq(S)
         /\ Len(Tail(q)) = Len(q) - 1
         /\ ToSet(Tail(q)) \subseteq ToSet(q)
         /\ IsInjective(q) => /\ IsInjective(Tail(q))
                        /\ ToSet(Tail(q)) = ToSet(q) \ {Head(q)}
<1>1. /\ Len(q) \in Nat \ {0}
      /\ Head(q) = q[1]
      /\ Tail(q) \in Seq(S)
      /\ Len(Tail(q)) = Len(q) - 1
      /\ \A i \in 1..Len(q) - 1 : Tail(q)[i] = q[i + 1]
  OBVIOUS
<1>2. DOMAIN q = 1..Len(q) /\ DOMAIN Tail(q) = 1..Len(q) - 1
  BY <1>1
<1>3. Head(q) \in S /\ Head(q) \in ToSet(q)
  BY <1>1, <1>2 DEF ToSet
<1>4. ToSet(Tail(q)) \subseteq ToSet(q)
  BY <1>1, <1>2 DEF ToSet
<1>5. ASSUME IsInjective(q)
      PROVE  IsInjective(Tail(q)) /\ ToSet(Tail(q)) = ToSet(q) \ {Head(q)}
  <2>1. IsInjective(Tail(q))
    BY <1>1, <1>2, <1>5 DEF IsInjective
  <2>2. Head(q) \notin ToSet(Tail(q))
    BY <1>1, <1>2, <1>5 DEF ToSet, IsInjective
  <2>3. ASSUME NEW x \in ToSet(q), x # Head(q)
        PROVE  x \in ToSet(Tail(q))
    <3>1. PICK i \in 1..Len(q) : x = q[i]
      BY <1>2 DEF ToSet
    <3>2. i # 1
      BY <3>1, <2>3, <1>1
    <3>3. i - 1 \in 1..Len(q) - 1 /\ Tail(q)[i - 1] = x
      BY <3>1, <3>2, <1>1
    <3> QED BY <3>3, <1>2 DEF ToSet
  <2> QED BY <2>1, <2>2, <2>3, <1>4
<1> QED BY <1>1, <1>3, <1>4, <1>5

(* As many elements as places: a list without repetition is as long as its *)
(* set of elements.                                                        *)
LEMMA DistinctCardinality ==
  ASSUME NEW S, NEW q \in Seq(S), IsInjective(q)
  PROVE  IsFiniteSet(ToSet(q)) /\ Cardinality(ToSet(q)) = Len(q)
<1>1. DOMAIN q = 1..Len(q) /\ Len(q) \in Nat
  OBVIOUS
<1>2. IsFiniteSet(1..Len(q)) /\ Cardinality(1..Len(q)) = Len(q)
  BY <1>1, FS_Interval
<1>3. q \in Bijection(1..Len(q), ToSet(q))
  BY <1>1 DEF ToSet, Bijection, Injection, Surjection, IsInjective
<1> QED BY <1>2, <1>3, FS_Bijection DEF ExistsBijection

(* Hence no longer than the interval its elements come from.               *)
LEMMA DistinctLength ==
  ASSUME NEW n \in Nat, NEW q \in Seq(1..n), IsInjective(q)
  PROVE  Len(q) <= n
<1>1. IsFiniteSet(1..n) /\ Cardinality(1..n) = n
  BY FS_Interval
<1>2. ToSet(q) \subseteq 1..n
  BY DEF ToSet
<1> QED BY <1>1, <1>2, DistinctCardinality, FS_Subset

(* One element out of the middle.                                          *)
LEMMA RemoveAtDistinct ==
  ASSUME NEW S, NEW q \in Seq(S), NEW i \in DOMAIN q
  PROVE  /\ RemoveAt(q, i) \in Seq(S)
         /\ ToSet(RemoveAt(q, i)) \subseteq ToSet(q)
         /\ IsInjective(q) => q[i] \notin ToSet(RemoveAt(q, i))
         /\ IsInjective(q) => IsInjective(RemoveAt(q, i))
<1> DEFINE r == RemoveAt(q, i)
<1>1. /\ r \in Seq(S)
      /\ Len(r) = Len(q) - 1
      /\ \A k \in 1..Len(r) : r[k] = IF k < i THEN q[k] ELSE q[k + 1]
  <2> DEFINE a == SubSeq(q, 1, i - 1)
             b == SubSeq(q, i + 1, Len(q))
  <2>1. i \in 1..Len(q) /\ Len(q) \in Nat
    OBVIOUS
  <2>2. a \in Seq(S) /\ Len(a) = i - 1 /\ \A k \in 1..i - 1 : a[k] = q[k]
    BY <2>1, SubSeqProperties
  <2>3. /\ b \in Seq(S) /\ Len(b) = Len(q) - i
        /\ \A k \in 1..Len(q) - i : b[k] = q[k + i]
    BY <2>1, SubSeqProperties
  <2>4. r = a \o b
    BY DEF RemoveAt
  <2> HIDE DEF a, b, r
  <2>5. /\ r \in Seq(S) /\ Len(r) = Len(a) + Len(b)
        /\ \A k \in 1..Len(a) + Len(b) :
              r[k] = IF k <= Len(a) THEN a[k] ELSE b[k - Len(a)]
    BY <2>2, <2>3, <2>4, ConcatProperties
  <2>6. Len(r) = Len(q) - 1
    BY <2>1, <2>2, <2>3, <2>5
  <2>7. ASSUME NEW k \in 1..Len(r)
        PROVE  r[k] = IF k < i THEN q[k] ELSE q[k + 1]
    <3>1. CASE k < i
      BY <3>1, <2>1, <2>2, <2>3, <2>5, SMTT(30)
    <3>2. CASE ~(k < i)
      <4>1. k - (i - 1) \in 1..Len(q) - i
        BY <3>2, <2>1, <2>6
      <4>2. r[k] = b[k - (i - 1)]
        BY <3>2, <4>1, <2>1, <2>2, <2>3, <2>5
      <4>3. b[k - (i - 1)] = q[k - (i - 1) + i]
        BY <4>1, <2>3
      <4> QED BY <4>2, <4>3, <3>2, <2>1
    <3> QED BY <3>1, <3>2
  <2> QED BY <2>5, <2>6, <2>7
<1>2. DOMAIN q = 1..Len(q) /\ DOMAIN r = 1..Len(r) /\ Len(q) \in Nat
  BY <1>1
<1> HIDE DEF r
<1>3. ToSet(r) \subseteq ToSet(q)
  BY <1>1, <1>2 DEF ToSet
<1>4. IsInjective(q) => IsInjective(r)
  <2>1. i \in 1..Len(q)
    BY <1>2
  <2> SUFFICES ASSUME IsInjective(q), NEW j \in 1..Len(r), NEW k \in 1..Len(r),
                      r[j] = r[k]
               PROVE  j = k
    BY <1>2 DEF IsInjective
  <2> DEFINE at(n) == IF n < i THEN n ELSE n + 1
  <2>2. /\ at(j) \in 1..Len(q) /\ r[j] = q[at(j)]
        /\ at(k) \in 1..Len(q) /\ r[k] = q[at(k)]
    BY <1>1, <1>2, <2>1
  <2>3. at(j) = at(k)
    BY <2>2, <1>2 DEF IsInjective
  <2> QED BY <2>3, <1>2, <2>1
<1>5. IsInjective(q) => q[i] \notin ToSet(r)
  <2> SUFFICES ASSUME IsInjective(q), NEW k \in 1..Len(r), r[k] = q[i]
               PROVE  FALSE
    BY <1>2 DEF ToSet
  <2> DEFINE at == IF k < i THEN k ELSE k + 1
  <2>1. at \in 1..Len(q) /\ q[at] = q[i] /\ at # i /\ i \in 1..Len(q)
    BY <1>1, <1>2
  <2> QED BY <2>1, <1>2 DEF IsInjective
<1> QED BY <1>1, <1>3, <1>4, <1>5 DEF r

-----------------------------------------------------------------------------

(* What each place in the handler says about the engine's wake-ups: the    *)
(* part of Wakeable and the mutex that is inductive.                       *)
WakeInv(e) ==
   /\ pc[e] \in {"new", "stopped", "register", "handout"} => ~listening[e]
   /\ pc[e] = "register" \/ Accepting(e) => mutex = e
   /\ pc[e] = "register" => free[e] > 0 /\ timer[e] = "armed"
   /\ pc[e] = "wait" /\ listening[e] => free[e] > 0 /\ timer[e] = "off"
   /\ pc[e] = "wait" /\ ~listening[e] => timer[e] # "off"
   /\ pc[e] = "handout" => timer[e] # "off"
   /\ timer[e] = "deaf" => "timer" \in Faults

(* What the pool of an engine looks like before, while and after it runs.  *)
PoolInv(e) ==
   /\ pc[e] = "new" => /\ free[e] = SessionCount
                       /\ serving[e] = [s \in Sessions |-> NoConn]
                       /\ watched[e] = {}
   /\ pc[e] \in {"new", "wait", "register", "stopped"} => fds[e] = << >>
   /\ Running(e) => /\ Len(sessions[e]) = free[e] + Len(fds[e])
                    /\ ToSet(sessions[e]) = Sessions \ Busy(e)
                    /\ IsInjective(sessions[e])
                    /\ watched[e] \subseteq Busy(e)

IInv == /\ TypeOK
        /\ BatonInUse
        /\ \A e \in Engins : WakeInv(e) /\ PoolInv(e)

-----------------------------------------------------------------------------
(* A server just constructed satisfies the invariant: CEngin's constructor  *)
(* puts all its sessions in the list and sets m_Free to their number.      *)
LEMMA InitIInv == Init => IInv
<1> SUFFICES ASSUME Init PROVE IInv
  OBVIOUS
<1> USE EnginAssumption DEF Init
<1>1. TypeOK
  BY DEF TypeOK, PCs, Sessions
<1>2. BatonInUse
  BY DEF BatonInUse
<1>3. ASSUME NEW e \in Engins PROVE WakeInv(e) /\ PoolInv(e)
  BY DEF WakeInv, PoolInv, Running, Accepting, Sessions
<1> QED BY <1>1, <1>2, <1>3 DEF IInv

(* A step of engine e leaves the other engines' part of the invariant      *)
(* alone, as long as it does not take the mutex from one of them.          *)
OthersKept(e) == \A f \in Engins \ {e} :
                    /\ pc'[f] = pc[f] /\ free'[f] = free[f]
                    /\ sessions'[f] = sessions[f] /\ fds'[f] = fds[f]
                    /\ listening'[f] = listening[f] /\ timer'[f] = timer[f]
                    /\ serving'[f] = serving[f] /\ watched'[f] = watched[f]

(* A step of one engine that keeps the state of the others keeps their      *)
(* share of the invariant.                                                 *)
LEMMA OthersInv ==
  ASSUME NEW e \in Engins, IInv, OthersKept(e), NEW f \in Engins \ {e},
         mutex' = mutex \/ mutex = e \/ mutex = NoEngin
  PROVE  WakeInv(f)' /\ PoolInv(f)'
<1>1. WakeInv(f) /\ PoolInv(f)
  BY DEF IInv
<1>2. WakeInv(f)'
  BY <1>1, EnginAssumption DEF WakeInv, Accepting, OthersKept
<1>3. PoolInv(f)'
  BY <1>1 DEF PoolInv, OthersKept, Running, Busy
<1> QED BY <1>2, <1>3

(* The three facts one handler or main-thread step has to establish.       *)
LEMMA OneEngin ==
  ASSUME NEW e \in Engins, IInv, TypeOK', OthersKept(e),
         mutex' = mutex \/ mutex = e \/ mutex = NoEngin,
         BatonInUse', WakeInv(e)', PoolInv(e)'
  PROVE  IInv'
BY OthersInv DEF IInv

(* What the accept loop and Stop and Run do to the baton.                  *)
LEMMA BatonStep ==
  ASSUME NEW e \in Engins, IInv, OthersKept(e),
         \/ mutex' = NoEngin
         \/ mutex' = e /\ (pc'[e] \in {"register", "stopped"} \/ Accepting(e)')
         \/ mutex' = mutex /\ mutex # e
  PROVE  BatonInUse'
BY EnginAssumption DEF IInv, TypeOK, BatonInUse, Accepting, OthersKept

(* Between TryLock and Unlock the engine owns the mutex.                   *)
LEMMA Owner ==
  ASSUME NEW e \in Engins, IInv, pc[e] \in {"register", "accept"}
  PROVE  /\ mutex = e
         /\ pc[e] = "register" => free[e] > 0
<1>1. WakeInv(e)
  BY DEF IInv
<1> QED BY <1>1 DEF WakeInv, Accepting

-----------------------------------------------------------------------------
(* A client that connects or leaves disturbs no engine.                     *)
LEMMA ClientInv == IInv /\ Client => IInv'
<1> SUFFICES ASSUME IInv, NEW c \in Conns, Arrive(c) \/ Leave(c)
             PROVE  IInv'
  BY DEF Client
<1>1. backlog' \in Seq(Conns)
  <2>1. CASE Arrive(c)
    BY <2>1 DEF Arrive, IInv, TypeOK
  <2>2. CASE Leave(c)
    BY <2>2, RemoveAtDistinct DEF Leave, IInv, TypeOK
  <2> QED BY <2>1, <2>2
<1>2. UNCHANGED <<mutex, pc, free, sessions, fds, listening, timer, serving,
                  watched>>
  BY DEF Arrive, Leave
<1>3. TypeOK'
  BY <1>1, <1>2 DEF IInv, TypeOK
<1>4. BatonInUse'
  BY <1>2 DEF IInv, BatonInUse, Accepting
<1>5. ASSUME NEW e \in Engins PROVE WakeInv(e)' /\ PoolInv(e)'
  BY <1>2 DEF IInv, WakeInv, PoolInv, Running, Accepting, Busy
<1> QED BY <1>3, <1>4, <1>5 DEF IInv

(* Run, RunFails and Stop, the steps of the owner, keep the invariant.      *)
LEMMA MainInv ==
  ASSUME IInv, NEW e \in Engins, Main(e)
  PROVE  IInv'
<1> USE EnginAssumption
<1>1. CASE Run(e)
  <2>1. TypeOK'
    <3>1. sessions'[e] \in Seq(Sessions)
      BY <1>1 DEF Run, IInv, TypeOK, Sessions
    <3> QED BY <1>1, <3>1 DEF Run, IInv, TypeOK, PCs
  <2>2. OthersKept(e)
    BY <1>1 DEF Run, OthersKept, IInv, TypeOK
  <2>3. mutex # e
    BY <1>1 DEF Run, IInv, TypeOK, BatonInUse, Accepting
  <2>4. BatonInUse'
    BY <1>1, <2>2, <2>3, BatonStep DEF Run
  <2>5. WakeInv(e)'
    BY <1>1 DEF Run, IInv, TypeOK, WakeInv, Accepting
  <2>6. PoolInv(e)'
    <3>1. /\ free[e] = SessionCount /\ fds[e] = << >> /\ watched[e] = {}
          /\ serving[e] = [s \in Sessions |-> NoConn]
      BY <1>1 DEF Run, IInv, PoolInv
    <3>2. /\ sessions'[e] = [s \in Sessions |-> s]
          /\ pc'[e] = "wait" /\ serving' = serving /\ watched' = watched
          /\ free' = free /\ fds' = fds
      BY <1>1 DEF Run, IInv, TypeOK
    <3>3. /\ Len(sessions'[e]) = SessionCount
          /\ ToSet(sessions'[e]) = Sessions
          /\ IsInjective(sessions'[e])
      BY <3>2 DEF Sessions, ToSet, IsInjective
    <3>4. Busy(e)' = {}
      BY <3>1, <3>2 DEF Busy
    <3> QED BY <3>1, <3>2, <3>3, <3>4 DEF PoolInv, Running
  <2> QED BY <1>1, <2>1, <2>2, <2>4, <2>5, <2>6, OneEngin DEF Run
<1>2. CASE RunFails(e)
  <2>1. TypeOK'
    BY <1>2 DEF RunFails, IInv, TypeOK, PCs
  <2>2. OthersKept(e)
    BY <1>2 DEF RunFails, OthersKept, IInv, TypeOK
  <2>3. mutex # e
    BY <1>2 DEF RunFails, IInv, TypeOK, BatonInUse, Accepting
  <2>4. BatonInUse'
    BY <1>2, <2>2, <2>3, BatonStep DEF RunFails
  <2>5. WakeInv(e)'
    BY <1>2 DEF RunFails, IInv, TypeOK, WakeInv, Accepting
  <2>6. PoolInv(e)'
    BY <1>2 DEF RunFails, IInv, TypeOK, PoolInv, Running
  <2> QED BY <1>2, <2>1, <2>2, <2>4, <2>5, <2>6, OneEngin DEF RunFails
<1>3. CASE Stop(e)
  <2>1. TypeOK'
    BY <1>3 DEF Stop, IInv, TypeOK, PCs
  <2>2. OthersKept(e)
    BY <1>3 DEF Stop, OthersKept, IInv, TypeOK
  <2>3. BatonInUse'
    <3>1. mutex' = mutex /\ pc'[e] = "stopped"
      BY <1>3 DEF Stop, IInv, TypeOK
    <3> QED BY <3>1, <2>2, BatonStep
  <2>4. WakeInv(e)'
    BY <1>3 DEF Stop, IInv, TypeOK, WakeInv, Accepting
  <2>5. PoolInv(e)'
    BY <1>3 DEF Stop, IInv, TypeOK, PoolInv, Running
  <2> QED BY <1>3, <2>1, <2>2, <2>3, <2>4, <2>5, OneEngin DEF Stop
<1> QED BY <1>1, <1>2, <1>3 DEF Main

-----------------------------------------------------------------------------
(* The steps of a handler that move no connection and no session.          *)
LEMMA HandlerInv ==
  ASSUME IInv, NEW e \in Engins,
         \/ TryLock(e) \/ Register(e) \/ RegisterFails(e) \/ OnRead(e)
         \/ StopAccept(e) \/ Rearm(e) \/ HandedOut(e)
  PROVE  IInv'
<1> USE EnginAssumption
<1>1. CASE TryLock(e)
  <2>1. TypeOK'
    BY <1>1 DEF TryLock, IInv, TypeOK, PCs
  <2>2. OthersKept(e)
    BY <1>1 DEF TryLock, OthersKept, IInv, TypeOK
  <2>3. BatonInUse'
    BY <1>1, <2>2, BatonStep DEF TryLock, IInv, TypeOK, BatonInUse, Accepting
  <2>4. WakeInv(e)'
    BY <1>1 DEF TryLock, IInv, TypeOK, WakeInv, Accepting
  <2>5. PoolInv(e)'
    BY <1>1 DEF TryLock, IInv, TypeOK, PoolInv, Running, Busy
  <2>6. mutex' = mutex \/ mutex = e \/ mutex = NoEngin
    BY <1>1, Owner DEF TryLock
  <2> QED BY <2>1, <2>2, <2>3, <2>4, <2>5, <2>6, OneEngin
<1>2. CASE Register(e)
  <2>1. TypeOK'
    BY <1>2 DEF Register, IInv, TypeOK, PCs
  <2>2. OthersKept(e)
    BY <1>2 DEF Register, OthersKept, IInv, TypeOK
  <2>3. BatonInUse'
    BY <1>2, <2>2, BatonStep DEF Register, IInv, TypeOK, BatonInUse, Accepting
  <2>4. WakeInv(e)'
    BY <1>2, Owner DEF Register, IInv, TypeOK, WakeInv, Accepting
  <2>5. PoolInv(e)'
    BY <1>2 DEF Register, IInv, TypeOK, PoolInv, Running, Busy
  <2>6. mutex' = mutex \/ mutex = e \/ mutex = NoEngin
    BY <1>2, Owner DEF Register
  <2> QED BY <2>1, <2>2, <2>3, <2>4, <2>5, <2>6, OneEngin
<1>3. CASE RegisterFails(e)
  <2>1. TypeOK'
    BY <1>3 DEF RegisterFails, IInv, TypeOK, PCs
  <2>2. OthersKept(e)
    BY <1>3 DEF RegisterFails, OthersKept, IInv, TypeOK
  <2>3. BatonInUse'
    BY <1>3, <2>2, BatonStep DEF RegisterFails, IInv, TypeOK, BatonInUse, Accepting
  <2>4. WakeInv(e)'
    BY <1>3 DEF RegisterFails, IInv, TypeOK, WakeInv, Accepting
  <2>5. PoolInv(e)'
    BY <1>3 DEF RegisterFails, IInv, TypeOK, PoolInv, Running, Busy
  <2>6. mutex' = mutex \/ mutex = e \/ mutex = NoEngin
    BY <1>3, Owner DEF RegisterFails
  <2> QED BY <2>1, <2>2, <2>3, <2>4, <2>5, <2>6, OneEngin
<1>4. CASE OnRead(e)
  <2>1. TypeOK'
    BY <1>4 DEF OnRead, IInv, TypeOK, PCs
  <2>2. OthersKept(e)
    BY <1>4 DEF OnRead, OthersKept, IInv, TypeOK
  <2>3. BatonInUse'
    BY <1>4, <2>2, BatonStep DEF OnRead, IInv, TypeOK, BatonInUse, Accepting
  <2>4. WakeInv(e)'
    BY <1>4 DEF OnRead, IInv, TypeOK, WakeInv, Accepting
  <2>5. PoolInv(e)'
    BY <1>4 DEF OnRead, IInv, TypeOK, PoolInv, Running, Busy
  <2>6. mutex' = mutex \/ mutex = e \/ mutex = NoEngin
    BY <1>4, Owner DEF OnRead
  <2> QED BY <2>1, <2>2, <2>3, <2>4, <2>5, <2>6, OneEngin
<1>5. CASE StopAccept(e)
  <2>1. TypeOK'
    BY <1>5 DEF StopAccept, IInv, TypeOK, PCs
  <2>2. OthersKept(e)
    BY <1>5 DEF StopAccept, OthersKept, IInv, TypeOK
  <2>3. BatonInUse'
    BY <1>5, <2>2, BatonStep DEF StopAccept, IInv, TypeOK, BatonInUse, Accepting
  <2>4. WakeInv(e)'
    BY <1>5 DEF StopAccept, IInv, TypeOK, WakeInv, Accepting
  <2>5. PoolInv(e)'
    BY <1>5 DEF StopAccept, IInv, TypeOK, PoolInv, Running, Busy
  <2>6. mutex' = mutex \/ mutex = e \/ mutex = NoEngin
    BY <1>5, Owner DEF StopAccept
  <2> QED BY <2>1, <2>2, <2>3, <2>4, <2>5, <2>6, OneEngin
<1>6. CASE Rearm(e)
  <2>1. TypeOK'
    BY <1>6 DEF Rearm, IInv, TypeOK, PCs
  <2>2. OthersKept(e)
    BY <1>6 DEF Rearm, OthersKept, IInv, TypeOK
  <2>3. BatonInUse'
    BY <1>6, <2>2, BatonStep DEF Rearm, IInv, TypeOK, BatonInUse, Accepting
  <2>4. WakeInv(e)'
    BY <1>6 DEF Rearm, IInv, TypeOK, WakeInv, Accepting
  <2>5. PoolInv(e)'
    BY <1>6 DEF Rearm, IInv, TypeOK, PoolInv, Running, Busy
  <2>6. mutex' = mutex \/ mutex = e \/ mutex = NoEngin
    BY <1>6, Owner DEF Rearm
  <2> QED BY <2>1, <2>2, <2>3, <2>4, <2>5, <2>6, OneEngin
<1>7. CASE HandedOut(e)
  <2>1. TypeOK'
    BY <1>7 DEF HandedOut, IInv, TypeOK, PCs
  <2>2. OthersKept(e)
    BY <1>7 DEF HandedOut, OthersKept, IInv, TypeOK
  <2>3. BatonInUse'
    BY <1>7, <2>2, BatonStep DEF HandedOut, IInv, TypeOK, BatonInUse, Accepting
  <2>4. WakeInv(e)'
    BY <1>7 DEF HandedOut, IInv, TypeOK, WakeInv, Accepting
  <2>5. PoolInv(e)'
    BY <1>7 DEF HandedOut, IInv, TypeOK, PoolInv, Running, Busy
  <2>6. mutex' = mutex \/ mutex = e \/ mutex = NoEngin
    BY <1>7, Owner DEF HandedOut
  <2> QED BY <2>1, <2>2, <2>3, <2>4, <2>5, <2>6, OneEngin
<1> QED BY <1>1, <1>2, <1>3, <1>4, <1>5, <1>6, <1>7

(* The accept loop moves a connection from the backlog to the list and     *)
(* one from the free count to the promised ones.                           *)
LEMMA AcceptInv ==
  ASSUME IInv, NEW e \in Engins, Accept(e)
  PROVE  IInv'
<1> USE EnginAssumption
<1>1. /\ Head(backlog) \in Conns /\ Tail(backlog) \in Seq(Conns)
      /\ fds'[e] = Append(fds[e], Head(backlog))
      /\ fds'[e] \in Seq(Conns) /\ Len(fds'[e]) = Len(fds[e]) + 1
  BY AppendDistinct, TailDistinct DEF Accept, IInv, TypeOK
<1>2. TypeOK'
  BY <1>1 DEF Accept, IInv, TypeOK
<1>3. OthersKept(e)
  BY DEF Accept, OthersKept, IInv, TypeOK
<1>4. mutex = e /\ pc'[e] = "accept" /\ mutex' = mutex
  BY Owner DEF Accept
<1>5. BatonInUse'
  BY <1>3, <1>4, BatonStep DEF Accepting
<1>6. WakeInv(e)'
  BY DEF Accept, IInv, TypeOK, WakeInv, Accepting
<1>7. PoolInv(e)'
  <2>1. /\ Len(fds[e]) \in Nat /\ free'[e] = free[e] - 1 /\ free[e] \in Nat
        /\ pc'[e] = "accept" /\ pc[e] = "accept"
        /\ UNCHANGED <<pc, sessions, serving, watched>>
    BY DEF Accept, IInv, TypeOK
  <2>2. /\ Len(sessions[e]) = free[e] + Len(fds[e])
        /\ ToSet(sessions[e]) = Sessions \ Busy(e)
        /\ IsInjective(sessions[e])
        /\ watched[e] \subseteq Busy(e)
    BY <2>1 DEF IInv, PoolInv, Running
  <2>3. Len(sessions'[e]) = free'[e] + Len(fds'[e])
    <3>1. Len(sessions'[e]) = free[e] + Len(fds[e])
      BY <2>1, <2>2
    <3>2. \A a, b \in Nat : (a - 1) + (b + 1) = a + b
      OBVIOUS
    <3>3. free'[e] + Len(fds'[e]) = free[e] + Len(fds[e])
      BY <3>2, <1>1, <2>1
    <3> QED BY <3>1, <3>3
  <2>4. Busy(e)' = Busy(e)
    BY <2>1 DEF Busy
  <2> QED BY <2>1, <2>2, <2>3, <2>4 DEF PoolInv, Running
<1> QED BY <1>2, <1>3, <1>4, <1>5, <1>6, <1>7, OneEngin

(* There is a session for every accepted connection.                       *)
LEMMA HandOutInv ==
  ASSUME IInv, NEW e \in Engins, HandOut(e)
  PROVE  IInv'
<1> USE EnginAssumption
<1> DEFINE s == Head(sessions[e])
           c == Head(fds[e])
<1>1. /\ pc[e] = "handout" /\ fds[e] # << >> /\ fds[e] \in Seq(Conns)
      /\ sessions[e] \in Seq(Sessions) /\ free[e] \in Nat
      /\ serving[e] \in [Sessions -> Conns \cup {NoConn}]
      /\ watched[e] \in SUBSET Sessions
  BY DEF HandOut, IInv, TypeOK
<1>2. /\ Len(sessions[e]) = free[e] + Len(fds[e])
      /\ ToSet(sessions[e]) = Sessions \ Busy(e)
      /\ IsInjective(sessions[e])
      /\ watched[e] \subseteq Busy(e)
  BY <1>1 DEF IInv, PoolInv, Running
<1>3. sessions[e] # << >>
  BY <1>1, <1>2
<1>4. /\ s \in Sessions \ Busy(e)
      /\ Tail(sessions[e]) \in Seq(Sessions)
      /\ Len(Tail(sessions[e])) = Len(sessions[e]) - 1
      /\ ToSet(Tail(sessions[e])) = (Sessions \ Busy(e)) \ {s}
      /\ IsInjective(Tail(sessions[e]))
  BY <1>1, <1>2, <1>3, TailDistinct
<1>5. c \in Conns /\ Tail(fds[e]) \in Seq(Conns)
      /\ Len(Tail(fds[e])) = Len(fds[e]) - 1
  BY <1>1, TailDistinct
<1>6. /\ sessions' = [sessions EXCEPT ![e] = Tail(sessions[e])]
      /\ fds' = [fds EXCEPT ![e] = Tail(fds[e])]
      /\ serving' = [serving EXCEPT ![e][s] = c]
      /\ \/ watched' = [watched EXCEPT ![e] = watched[e] \cup {s}]
         \/ watched' = watched
      /\ UNCHANGED <<mutex, backlog, pc, free, listening, timer>>
  BY DEF HandOut
<1> HIDE DEF s, c
<1>7. serving'[e] = [serving[e] EXCEPT ![s] = c]
  BY <1>6 DEF IInv, TypeOK
<1>8. TypeOK'
  <2>1. serving' \in [Engins -> [Sessions -> Conns \cup {NoConn}]]
    BY <1>4, <1>5, <1>6 DEF IInv, TypeOK
  <2>2. watched' \in [Engins -> SUBSET Sessions]
    <3>1. watched[e] \cup {s} \in SUBSET Sessions
      BY <1>1, <1>4
    <3> QED BY <3>1, <1>6 DEF IInv, TypeOK
  <2> QED BY <1>4, <1>5, <1>6, <2>1, <2>2 DEF IInv, TypeOK
<1>9. OthersKept(e)
  BY <1>6 DEF OthersKept, IInv, TypeOK
<1>10. BatonInUse'
  BY <1>6 DEF IInv, BatonInUse, Accepting
<1>11. WakeInv(e)'
  BY <1>6 DEF IInv, WakeInv, Accepting
<1>12. PoolInv(e)'
  <2>1. Busy(e)' = Busy(e) \cup {s}
    BY <1>1, <1>4, <1>5, <1>7 DEF Busy
  <2>2. /\ sessions'[e] = Tail(sessions[e]) /\ fds'[e] = Tail(fds[e])
        /\ watched'[e] \subseteq watched[e] \cup {s}
    BY <1>6 DEF IInv, TypeOK
  <2>3. Len(sessions'[e]) = free'[e] + Len(fds'[e])
    <3>1. Len(fds[e]) \in Nat /\ free' = free
      BY <1>1, <1>6
    <3> QED BY <3>1, <1>1, <1>2, <1>4, <1>5, <2>2
  <2>4. ToSet(sessions'[e]) = Sessions \ Busy(e)'
    BY <1>4, <2>1, <2>2
  <2> QED BY <1>1, <1>2, <1>4, <1>6, <2>1, <2>2, <2>3, <2>4 DEF PoolInv
<1> QED BY <1>6, <1>8, <1>9, <1>10, <1>11, <1>12, OneEngin

(* A session comes back once: it was not in the list, so the list and the  *)
(* free count stay within SessionCount (the assertion of Server.cpp:153).  *)
LEMMA SessionEndsInv ==
  ASSUME IInv, NEW e \in Engins, NEW s \in Sessions, SessionEnds(e, s)
  PROVE  IInv'
<1> USE EnginAssumption
<1>1. /\ pc[e] = "wait" /\ s \in watched[e]
      /\ watched' = [watched EXCEPT ![e] = watched[e] \ {s}]
      /\ serving' = [serving EXCEPT ![e][s] = NoConn]
      /\ sessions' = [sessions EXCEPT ![e] = Append(sessions[e], s)]
      /\ free' = [free EXCEPT ![e] = free[e] + 1]
      /\ UNCHANGED <<mutex, backlog, pc, fds, listening, timer>>
  BY DEF SessionEnds
<1>2. /\ Len(sessions[e]) = free[e] + Len(fds[e]) /\ fds[e] = << >>
      /\ ToSet(sessions[e]) = Sessions \ Busy(e)
      /\ IsInjective(sessions[e])
      /\ watched[e] \subseteq Busy(e)
  BY <1>1 DEF IInv, PoolInv, Running
<1>3. /\ sessions[e] \in Seq(Sessions) /\ free[e] \in Nat
      /\ serving[e] \in [Sessions -> Conns \cup {NoConn}]
      /\ watched[e] \in SUBSET Sessions
  BY DEF IInv, TypeOK
<1>4. /\ Append(sessions[e], s) \in Seq(Sessions)
      /\ Len(Append(sessions[e], s)) = Len(sessions[e]) + 1
      /\ ToSet(Append(sessions[e], s)) = (Sessions \ Busy(e)) \cup {s}
      /\ IsInjective(Append(sessions[e], s))
  <2>1. s \notin ToSet(sessions[e])
    BY <1>1, <1>2
  <2> QED BY <2>1, <1>2, <1>3, AppendDistinct
<1>5. free[e] + 1 \in 0..SessionCount
  <2>1. Len(Append(sessions[e], s)) <= SessionCount
    BY <1>4, DistinctLength DEF Sessions
  <2> QED BY <2>1, <1>2, <1>3, <1>4
<1>6. TypeOK'
  <2>1. serving' \in [Engins -> [Sessions -> Conns \cup {NoConn}]]
    BY <1>1 DEF IInv, TypeOK
  <2> QED BY <1>1, <1>4, <1>5, <2>1 DEF IInv, TypeOK
<1>7. OthersKept(e)
  BY <1>1 DEF OthersKept, IInv, TypeOK
<1>8. BatonInUse'
  BY <1>1 DEF IInv, BatonInUse, Accepting
<1>9. WakeInv(e)'
  BY <1>1, <1>3 DEF IInv, TypeOK, WakeInv, Accepting
<1>10. PoolInv(e)'
  <2>1. /\ serving'[e] = [serving[e] EXCEPT ![s] = NoConn]
        /\ sessions'[e] = Append(sessions[e], s)
        /\ watched'[e] = watched[e] \ {s} /\ free'[e] = free[e] + 1
    BY <1>1 DEF IInv, TypeOK
  <2>2. Busy(e)' = Busy(e) \ {s}
    BY <2>1, <1>3 DEF Busy
  <2>3. ToSet(sessions'[e]) = Sessions \ Busy(e)'
    BY <1>4, <2>1, <2>2
  <2> QED BY <1>1, <1>2, <1>3, <1>4, <2>1, <2>2, <2>3 DEF PoolInv, Running
<1> QED BY <1>1, <1>6, <1>7, <1>8, <1>9, <1>10, OneEngin

-----------------------------------------------------------------------------
(* The invariant is inductive.                                              *)
LEMMA NextIInv == IInv /\ [Next]_vars => IInv'
<1> SUFFICES ASSUME IInv, [Next]_vars PROVE IInv'
  OBVIOUS
<1>1. CASE Client
  BY <1>1, ClientInv
<1>2. ASSUME NEW e \in Engins, Main(e) PROVE IInv'
  BY <1>2, MainInv
<1>3. ASSUME NEW e \in Engins, Worker(e) PROVE IInv'
  BY <1>3, HandlerInv, AcceptInv, HandOutInv, SessionEndsInv DEF Worker, Handler
<1>4. CASE UNCHANGED vars
  BY <1>4 DEF vars, IInv, TypeOK, BatonInUse, WakeInv, PoolInv, Running, Busy,
              Accepting
<1> QED BY <1>1, <1>2, <1>3, <1>4 DEF Next

(* Every reachable state satisfies the inductive invariant, for any number  *)
(* of engines, sessions and clients and whatever system calls fail.        *)
THEOREM Invariance == Spec => []IInv
  BY InitIInv, NextIInv, PTL DEF Spec

(* Every variable stays in its type; in particular the free counter never  *)
(* goes below zero nor above SessionCount (the assertion of                *)
(* Server.cpp:153).                                                        *)
THEOREM TypeCorrect == Spec => []TypeOK
<1>1. IInv => TypeOK
  BY DEF IInv
<1> QED BY <1>1, Invariance, PTL

(* At most one engine accepts, whatever the number of engines.             *)
THEOREM AcceptExclusion == Spec => []OneAcceptor
<1>1. IInv => OneAcceptor
  BY DEF IInv, WakeInv, OneAcceptor
<1> QED BY <1>1, Invariance, PTL

(* The mutex is never left locked by an engine that is not about to use it.*)
THEOREM BatonKept == Spec => []BatonInUse
<1>1. IInv => BatonInUse
  BY DEF IInv
<1> QED BY <1>1, Invariance, PTL

(* An engine that watches the listener can serve what it accepts, and a    *)
(* waiting engine can be woken as long as its timer can be armed.          *)
THEOREM AlwaysWakeable == Spec => []Wakeable
<1>1. IInv => Wakeable
  BY DEF IInv, TypeOK, WakeInv, Wakeable
<1> QED BY <1>1, Invariance, PTL

(* The free count, the idle list and the sessions in use always agree, so  *)
(* front() is never called on an empty list, however the sessions return.  *)
THEOREM PoolAgrees == Spec => []PoolConsistent
<1>1. ASSUME IInv, NEW e \in Engins, Running(e)
      PROVE  Len(sessions[e]) <= SessionCount
  <2>1. sessions[e] \in Seq(1..SessionCount) /\ IsInjective(sessions[e])
    BY <1>1 DEF IInv, TypeOK, PoolInv, Sessions
  <2> QED BY <2>1, DistinctLength, EnginAssumption
<1>2. IInv => PoolConsistent
  BY <1>1 DEF IInv, PoolInv, PoolConsistent
<1> QED BY <1>2, Invariance, PTL

-----------------------------------------------------------------------------
(* A free count above zero means capacity is left in the abstract pool:    *)
(* the number of idle sessions is what is not in use.                      *)
LEMMA FreeIsCapacity ==
  ASSUME IInv, NEW e \in Engins, Running(e), free[e] > 0
  PROVE  Cardinality(Busy(e)) + Len(fds[e]) < SessionCount
<1>1. /\ sessions[e] \in Seq(Sessions) /\ fds[e] \in Seq(Conns)
      /\ free[e] \in Nat
  BY DEF IInv, TypeOK
<1>2. /\ Len(sessions[e]) = free[e] + Len(fds[e])
      /\ ToSet(sessions[e]) = Sessions \ Busy(e)
      /\ IsInjective(sessions[e])
  BY DEF IInv, PoolInv
<1>3. /\ IsFiniteSet(Sessions) /\ Cardinality(Sessions) = SessionCount
      /\ SessionCount \in Nat
  BY FS_Interval, EnginAssumption DEF Sessions
<1>4. /\ IsFiniteSet(Sessions \ Busy(e))
      /\ Cardinality(Sessions \ Busy(e)) = Len(sessions[e])
  BY <1>1, <1>2, DistinctCardinality
<1>5. Busy(e) \in SUBSET Sessions
  BY DEF Busy
<1>6. IsFiniteSet(Busy(e)) /\ Cardinality(Busy(e)) \in Nat
  BY <1>3, <1>5, FS_Subset, FS_CardinalityType
<1>7. Cardinality(Sessions \ Busy(e)) = SessionCount - Cardinality(Busy(e))
  <2>1. Sessions \cap Busy(e) = Busy(e)
    BY <1>5
  <2> QED BY <1>3, <2>1, FS_Difference
<1>8. Len(fds[e]) \in Nat /\ Len(sessions[e]) \in Nat
  BY <1>1
<1> QED BY <1>1, <1>2, <1>3, <1>4, <1>6, <1>7, <1>8

(* The server starts as the pool does: nobody waits, nobody is served.      *)
LEMMA InitPool == Init => Pool!Init
BY DEF Init, Pool!Init, Sessions, Pool!Sessions

(* Both specifications mean the same by a client the server knows.          *)
LEMMA KnownSame == ASSUME NEW c PROVE Known(c) <=> Pool!Known(c)
BY DEF Known, Pool!Known, Sessions, Pool!Sessions, ToSet, Pool!ToSet

(* Both count sets in the same way.                                         *)
LEMMA CardinalitySame == ASSUME NEW S PROVE Pool!Cardinality(S) = Cardinality(S)
BY DEF Cardinality, Pool!Cardinality

(* Each step of the engines is a step of the pool or leaves it unchanged:   *)
(* Connect and Leave are the client's, Accept is Accept, SessionEnds frees. *)
LEMMA StepPool == IInv /\ [Next]_vars => [Pool!Next]_Pool!vars
<1> SUFFICES ASSUME IInv, [Next]_vars PROVE [Pool!Next]_Pool!vars
  OBVIOUS
<1> USE EnginAssumption
<1>1. ASSUME NEW c \in Conns, Arrive(c) PROVE Pool!Arrive(c)
  BY <1>1, KnownSame DEF Arrive, Pool!Arrive
<1>2. ASSUME NEW c \in Conns, Leave(c) PROVE Pool!Leave(c)
  BY <1>2 DEF Leave, Pool!Leave, RemoveAt, Pool!RemoveAt
<1>3. ASSUME NEW e \in Engins, Accept(e) PROVE Pool!Take(e)
  <2>1. Running(e) /\ free[e] > 0
    BY <1>3 DEF Accept, Running
  <2>2. Cardinality(Busy(e)) + Len(fds[e]) < SessionCount
    BY <2>1, FreeIsCapacity
  <2>3. Pool!Busy(e) = Busy(e)
    BY DEF Busy, Pool!Busy, Sessions, Pool!Sessions
  <2>4. Pool!Cardinality(Pool!Busy(e)) + Len(fds[e]) < SessionCount
    BY <2>2, <2>3, CardinalitySame
  <2> QED BY <1>3, <2>4 DEF Accept, Pool!Take
<1>4. ASSUME NEW e \in Engins, HandOut(e) PROVE Pool!Give(e)
  <2>1. /\ sessions[e] \in Seq(Sessions) /\ fds[e] \in Seq(Conns)
        /\ free[e] \in Nat /\ fds[e] # << >>
    BY <1>4 DEF HandOut, IInv, TypeOK
  <2>2. /\ Len(sessions[e]) = free[e] + Len(fds[e])
        /\ ToSet(sessions[e]) = Sessions \ Busy(e)
    BY <1>4 DEF HandOut, IInv, PoolInv, Running
  <2>3. sessions[e] # << >>
    BY <2>1, <2>2
  <2>4. Head(sessions[e]) \in Sessions \ Busy(e)
    BY <2>1, <2>2, <2>3, TailDistinct
  <2>5. Head(sessions[e]) \in Pool!Sessions \ Pool!Busy(e)
    BY <2>4 DEF Busy, Pool!Busy, Sessions, Pool!Sessions
  <2>6. /\ serving' = [serving EXCEPT ![e][Head(sessions[e])] = Head(fds[e])]
        /\ fds' = [fds EXCEPT ![e] = Tail(@)]
        /\ backlog' = backlog
    BY <1>4 DEF HandOut
  <2> QED BY <2>1, <2>5, <2>6 DEF Pool!Give
<1>5. ASSUME NEW e \in Engins, NEW s \in Sessions, SessionEnds(e, s)
      PROVE  Pool!Finish(e, s)
  <2>1. s \in Busy(e)
    BY <1>5 DEF SessionEnds, IInv, PoolInv, Running
  <2> QED BY <1>5, <2>1 DEF SessionEnds, Busy, Pool!Finish
<1>6. ASSUME NEW e \in Engins,
             \/ Main(e) \/ TryLock(e) \/ Register(e) \/ RegisterFails(e)
             \/ OnRead(e) \/ StopAccept(e) \/ Rearm(e) \/ HandedOut(e)
      PROVE  UNCHANGED Pool!vars
  BY <1>6 DEF Pool!vars, Main, Run, RunFails, Stop, TryLock, Register,
              RegisterFails, OnRead, StopAccept, Rearm, HandedOut
<1>7. CASE UNCHANGED vars
  BY <1>7 DEF vars, Pool!vars
<1>8. CASE Client
  BY <1>8, <1>1, <1>2 DEF Client, Pool!Next
<1>9. ASSUME NEW e \in Engins, Worker(e) PROVE [Pool!Next]_Pool!vars
  BY <1>9, <1>3, <1>4, <1>5, <1>6
     DEF Worker, Handler, Pool!Next, Sessions, Pool!Sessions
<1> QED BY <1>6, <1>7, <1>8, <1>9 DEF Next

(* The engines implement the abstract pool: oldest connection first, none  *)
(* accepted without a session for it, one session per connection.          *)
THEOREM ImplementsPool == Spec => PoolSpec
BY InitPool, StepPool, Invariance, PTL DEF Spec, PoolSpec, Pool!Spec
=============================================================================
