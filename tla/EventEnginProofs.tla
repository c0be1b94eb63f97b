-------------------------- MODULE EventEnginProofs --------------------------
(***************************************************************************)
(* Theorems about EventEngin, for every number of events and every size of *)
(* the array of reports: no handler runs once Stop has returned, the       *)
(* priority event is served first, and no handler is called for an event   *)
(* that was unregistered after it was reported.                            *)
(***************************************************************************)
EXTENDS EventEngin, SequenceTheorems, TLAPS

-----------------------------------------------------------------------------
(* Sequences without repetition: the batch and epoll's list.               *)

(* A new element at the end of a list without it.                          *)
LEMMA AppendDistinct ==
  ASSUME NEW S, NEW q \in Seq(S), NEW x \in S
  PROVE  /\ Append(q, x) \in Seq(S)
         /\ Len(Append(q, x)) = Len(q) + 1
         /\ ToSet(Append(q, x)) = ToSet(q) \cup {x}
         /\ IsInjective(q) /\ x \notin ToSet(q) => IsInjective(Append(q, x))
<1> DEFINE r == Append(q, x)
<1>1. /\ r \in Seq(S)
      /\ Len(r) = Len(q) + 1
      /\ \A i \in 1..Len(q) : r[i] = q[i]
      /\ r[Len(q) + 1] = x
  OBVIOUS
<1>2. DOMAIN q = 1..Len(q) /\ DOMAIN r = 1..Len(q) + 1 /\ Len(q) \in Nat
  BY <1>1
<1> HIDE DEF r
<1>3. ToSet(r) = ToSet(q) \cup {x}
  <2>1. ASSUME NEW y \in ToSet(q) PROVE y \in ToSet(r)
    <3>1. PICK i \in 1..Len(q) : y = q[i]
      BY <1>2 DEF ToSet
    <3> QED BY <3>1, <1>1, <1>2 DEF ToSet
  <2>2. x \in ToSet(r)
    BY <1>1, <1>2 DEF ToSet
  <2>3. ASSUME NEW y \in ToSet(r) PROVE y \in ToSet(q) \cup {x}
    <3>1. PICK i \in 1..Len(q) + 1 : y = r[i]
      BY <1>2 DEF ToSet
    <3>2. CASE i = Len(q) + 1
      BY <3>1, <3>2, <1>1
    <3>3. CASE i \in 1..Len(q)
      BY <3>1, <3>3, <1>1, <1>2 DEF ToSet
    <3> QED BY <3>2, <3>3, <1>2
  <2> QED BY <2>1, <2>2, <2>3
<1>4. IsInjective(q) /\ x \notin ToSet(q) => IsInjective(r)
  BY <1>1, <1>2 DEF IsInjective, ToSet
<1> QED BY <1>1, <1>3, <1>4 DEF r

(* One element out of the middle.                                          *)
LEMMA RemoveAtDistinct ==
  ASSUME NEW S, NEW q \in Seq(S), NEW i \in DOMAIN q
  PROVE  /\ RemoveAt(q, i) \in Seq(S)
         /\ ToSet(RemoveAt(q, i)) \subseteq ToSet(q)
         /\ IsInjective(q) => q[i] \notin ToSet(RemoveAt(q, i))
         /\ IsInjective(q) => IsInjective(RemoveAt(q, i))
<1> DEFINE r == RemoveAt(q, i)
<1>1. /\ r \in Seq(S)
      /\ Len(r) = Len(q) - 1
      /\ \A k \in 1..Len(r) : r[k] = IF k < i THEN q[k] ELSE q[k + 1]
  <2> DEFINE a == SubSeq(q, 1, i - 1)
             b == SubSeq(q, i + 1, Len(q))
  <2>1. i \in 1..Len(q) /\ Len(q) \in Nat
    OBVIOUS
  <2>2. a \in Seq(S) /\ Len(a) = i - 1 /\ \A k \in 1..i - 1 : a[k] = q[k]
    BY <2>1, SubSeqProperties
  <2>3. /\ b \in Seq(S) /\ Len(b) = Len(q) - i
        /\ \A k \in 1..Len(q) - i : b[k] = q[k + i]
    BY <2>1, SubSeqProperties
  <2>4. r = a \o b
    BY DEF RemoveAt
  <2> HIDE DEF a, b, r
  <2>5. /\ r \in Seq(S) /\ Len(r) = Len(a) + Len(b)
        /\ \A k \in 1..Len(a) + Len(b) :
              r[k] = IF k <= Len(a) THEN a[k] ELSE b[k - Len(a)]
    BY <2>2, <2>3, <2>4, ConcatProperties
  <2>6. Len(r) = Len(q) - 1
    BY <2>1, <2>2, <2>3, <2>5
  <2>7. ASSUME NEW k \in 1..Len(r)
        PROVE  r[k] = IF k < i THEN q[k] ELSE q[k + 1]
    <3>1. CASE k < i
      BY <3>1, <2>1, <2>2, <2>3, <2>5, SMTT(30)
    <3>2. CASE ~(k < i)
      <4>1. k - (i - 1) \in 1..Len(q) - i
        BY <3>2, <2>1, <2>6
      <4>2. r[k] = b[k - (i - 1)]
        BY <3>2, <4>1, <2>1, <2>2, <2>3, <2>5
      <4>3. b[k - (i - 1)] = q[k - (i - 1) + i]
        BY <4>1, <2>3
      <4> QED BY <4>2, <4>3, <3>2, <2>1
    <3> QED BY <3>1, <3>2
  <2> QED BY <2>5, <2>6, <2>7
<1>2. DOMAIN q = 1..Len(q) /\ DOMAIN r = 1..Len(r) /\ Len(q) \in Nat
  BY <1>1
<1> HIDE DEF r
<1>3. ToSet(r) \subseteq ToSet(q)
  BY <1>1, <1>2 DEF ToSet
<1>4. IsInjective(q) => IsInjective(r)
  <2>1. i \in 1..Len(q)
    BY <1>2
  <2> SUFFICES ASSUME IsInjective(q), NEW j \in 1..Len(r), NEW k \in 1..Len(r),
                      r[j] = r[k]
               PROVE  j = k
    BY <1>2 DEF IsInjective
  <2> DEFINE at(n) == IF n < i THEN n ELSE n + 1
  <2>2. /\ at(j) \in 1..Len(q) /\ r[j] = q[at(j)]
        /\ at(k) \in 1..Len(q) /\ r[k] = q[at(k)]
    BY <1>1, <1>2, <2>1
  <2>3. at(j) = at(k)
    BY <2>2, <1>2 DEF IsInjective
  <2> QED BY <2>3, <1>2, <2>1
<1>5. IsInjective(q) => q[i] \notin ToSet(r)
  <2> SUFFICES ASSUME IsInjective(q), NEW k \in 1..Len(r), r[k] = q[i]
               PROVE  FALSE
    BY <1>2 DEF ToSet
  <2> DEFINE at == IF k < i THEN k ELSE k + 1
  <2>1. at \in 1..Len(q) /\ q[at] = q[i] /\ at # i /\ i \in 1..Len(q)
    BY <1>1, <1>2
  <2> QED BY <2>1, <1>2 DEF IsInjective
<1> QED BY <1>1, <1>3, <1>4, <1>5 DEF r

-----------------------------------------------------------------------------

(* epoll's list has no event twice and none without a report; the listener *)
(* is only read.                                                           *)
KernelInv ==
   /\ interest \in [Events -> {{}, {"in"}} \cup Masks]
   /\ cond \in [Events -> SUBSET (Kinds \cup {"err"})]
   /\ ready \in Seq(Events) /\ IsInjective(ready)
   /\ \A ev \in ToSet(ready) : Reports(ev) # {}
   /\ interest[Listener] \in {{}, {"in"}} /\ cond[Listener] \subseteq {"in"}

(* The listener is watched once there is a priority event, not before.     *)
RegistryInv ==
   /\ added \in [Events -> BOOLEAN]
   /\ toAdd \subseteq External /\ adding \in External \cup {NoEvent}
   /\ priority \in {NoEvent, Listener}
   /\ priority = NoEvent =>
         /\ interest[Listener] = {}
         /\ \A i \in DOMAIN batch : batch[i].ev # Listener
   /\ run \in BOOLEAN /\ stop \in {"none", "requested", "joined"}

(* A batch has an event once, and m_Delete what was unregistered of it.    *)
BatchInv ==
   /\ batch \in Seq(Entries) /\ Len(batch) <= MaxEvents
   /\ \A i, j \in DOMAIN batch : (batch[i].ev = batch[j].ev => i = j)
   /\ \A i \in DOMAIN batch : (batch[i].ev = Listener => batch[i].mask = {"in"})
   /\ deleted \subseteq Events
   /\ live = {i \in DOMAIN batch : batch[i].ev \notin deleted}

Resting == /\ batch = << >> /\ deleted = {} /\ doing = FALSE
           /\ idx = 1 /\ prio = 1 /\ cur = NoCall

(* prio is the listener's place in the batch, or the one after the last.   *)
Found == /\ prio \in 1..Len(batch) + 1
         /\ \A i \in DOMAIN batch : (batch[i].ev = Listener <=> i = prio)

(* The handler running is that of the priority event, or of entry idx.     *)
Serving ==
   \/ prio <= Len(batch) /\ cur = [ev |-> Listener, what |-> "in"] /\ idx = 1
   \/ /\ idx <= Len(batch) /\ idx # prio
      /\ cur \in [ev : Events, what : Kinds \cup {"err"}]
      /\ cur.ev = batch[idx].ev /\ cur.what \in batch[idx].mask

PlaceInv ==
   /\ pc \in {"loop", "wait", "priority", "dispatch", "handling", "off"}
   /\ pc \in {"loop", "wait", "off"} => Resting
   /\ pc \in {"priority", "dispatch", "handling"} => doing = TRUE
   /\ pc = "priority" => deleted = {} /\ idx = 1 /\ prio = 1 /\ cur = NoCall
   /\ pc \in {"dispatch", "handling"} => Found /\ idx \in 1..Len(batch) + 1
   /\ pc = "dispatch" => cur = NoCall
   /\ pc = "handling" => Serving
   /\ stop = "joined" => pc = "off"

Inv == KernelInv /\ RegistryInv /\ BatchInv /\ PlaceInv

-----------------------------------------------------------------------------
(* An event enters epoll's list once, and leaves it altogether.            *)
LEMMA ListOnce ==
  ASSUME NEW q \in Seq(Events), IsInjective(q), NEW ev \in Events
  PROVE  /\ Listed(q, ev) \in Seq(Events) /\ IsInjective(Listed(q, ev))
         /\ ToSet(Listed(q, ev)) = ToSet(q) \cup {ev}
         /\ Unlisted(q, ev) \in Seq(Events) /\ IsInjective(Unlisted(q, ev))
         /\ ToSet(Unlisted(q, ev)) \subseteq ToSet(q) \ {ev}
<1>1. /\ Listed(q, ev) \in Seq(Events) /\ IsInjective(Listed(q, ev))
      /\ ToSet(Listed(q, ev)) = ToSet(q) \cup {ev}
  BY AppendDistinct DEF Listed
<1>2. CASE ev \in ToSet(q)
  <2> DEFINE i == CHOOSE j \in DOMAIN q : q[j] = ev
  <2>1. i \in DOMAIN q /\ q[i] = ev
    BY <1>2 DEF ToSet
  <2>2. Unlisted(q, ev) = RemoveAt(q, i)
    BY <1>2 DEF Unlisted
  <2> HIDE DEF i
  <2> QED BY <1>1, <2>1, <2>2, RemoveAtDistinct
<1>3. CASE ev \notin ToSet(q)
  BY <1>1, <1>3 DEF Unlisted
<1> QED BY <1>2, <1>3

(* The list is of events.                                                  *)
LEMMA ReadyEvents ==
  ASSUME NEW q \in Seq(Events)
  PROVE  \A e \in ToSet(q) : e \in Events
<1>1. \A i \in DOMAIN q : q[i] \in Events
  OBVIOUS
<1> QED BY <1>1 DEF ToSet

(* An entry of the array, and what may be asked for.                       *)
LEMMA EntryFields ==
  /\ \A e \in Entries : /\ e.ev \in Events
                        /\ e.mask \subseteq Kinds \cup {"err"} /\ e.mask # {}
  /\ \A ev \in Events, mask \in SUBSET (Kinds \cup {"err"}) :
        mask # {} => [ev |-> ev, mask |-> mask] \in Entries
<1> DEFINE S == (SUBSET (Kinds \cup {"err"})) \ {{}}
<1>1. \A x : x \in S <=> x \subseteq Kinds \cup {"err"} /\ x # {}
  OBVIOUS
<1>2. Entries = [ev : Events, mask : S]
  BY DEF Entries
<1> HIDE DEF S
<1> QED BY <1>1, <1>2

(* The fields of an entry that epoll_wait filled.                          *)
LEMMA BatchEntries ==
  ASSUME BatchInv, NEW i \in DOMAIN batch
  PROVE  /\ batch[i] \in Entries /\ batch[i].ev \in Events
         /\ batch[i].mask \subseteq Kinds \cup {"err"} /\ batch[i].mask # {}
<1>1. batch[i] \in Entries
  BY DEF BatchInv
<1> QED BY <1>1, EntryFields

(* What is registered asks for "in" or "out".                              *)
LEMMA MaskKinds ==
  \A mask \in Masks : mask \subseteq Kinds /\ mask # {}
<1>1. Masks \subseteq (SUBSET Kinds) \ {{}}
  BY EventEnginAssumption
<1> QED BY <1>1

(* ADD and MOD.                                                            *)
LEMMA WatchKeeps ==
  ASSUME KernelInv, NEW ev \in Events, NEW mask \in {{"in"}} \cup Masks,
         ev = Listener => mask = {"in"}, Watch(ev, mask)
  PROVE  /\ KernelInv'
         /\ ev # Listener => interest'[Listener] = interest[Listener]
<1> USE EventEnginAssumption
<1>1. /\ interest' = [interest EXCEPT ![ev] = mask] /\ cond' = cond
      /\ ready' = IF cond[ev] \cap (mask \cup {"err"}) # {}
                  THEN Listed(ready, ev) ELSE Unlisted(ready, ev)
  BY DEF Watch
<1>2. /\ interest' \in [Events -> {{}, {"in"}} \cup Masks]
      /\ interest'[ev] = mask
      /\ \A e \in Events \ {ev} : interest'[e] = interest[e]
  BY <1>1 DEF KernelInv
<1>3. /\ Listed(ready, ev) \in Seq(Events) /\ IsInjective(Listed(ready, ev))
      /\ ToSet(Listed(ready, ev)) = ToSet(ready) \cup {ev}
      /\ Unlisted(ready, ev) \in Seq(Events) /\ IsInjective(Unlisted(ready, ev))
      /\ ToSet(Unlisted(ready, ev)) \subseteq ToSet(ready) \ {ev}
  BY ListOnce DEF KernelInv
<1>4. \A e \in ToSet(ready) : e \in Events /\ Reports(e) # {}
  BY ReadyEvents DEF KernelInv
<1>5. ready' \in Seq(Events) /\ IsInjective(ready')
  BY <1>1, <1>3
<1>6. ASSUME NEW e \in ToSet(ready')
      PROVE  Reports(e)' # {}
  <2>1. CASE e = ev
    BY <1>1, <1>2, <1>3, <1>6, <2>1 DEF Reports
  <2>2. CASE e # ev
    <3>1. e \in ToSet(ready)
      BY <1>1, <1>3, <1>6, <2>2
    <3> QED BY <1>1, <1>2, <1>4, <2>2, <3>1 DEF Reports
  <2> QED BY <2>1, <2>2
<1>7. /\ interest'[Listener] \in {{}, {"in"}} /\ cond'[Listener] \subseteq {"in"}
      /\ ev # Listener => interest'[Listener] = interest[Listener]
  BY <1>1, <1>2 DEF KernelInv
<1> QED BY <1>1, <1>2, <1>5, <1>6, <1>7 DEF KernelInv

(* DEL, and the fd closed.                                                 *)
LEMMA UnwatchKeeps ==
  ASSUME KernelInv, NEW ev \in Events, Unwatch(ev)
  PROVE  /\ KernelInv'
         /\ interest'[Listener] \in {{}, interest[Listener]}
<1> USE EventEnginAssumption
<1>1. /\ interest' = [interest EXCEPT ![ev] = {}]
      /\ cond' = cond \/ cond' = [cond EXCEPT ![ev] = {}]
      /\ ready' = Unlisted(ready, ev)
  BY DEF Unwatch
<1>2. /\ interest' \in [Events -> {{}, {"in"}} \cup Masks]
      /\ interest'[ev] = {}
      /\ \A e \in Events \ {ev} : interest'[e] = interest[e]
  BY <1>1 DEF KernelInv
<1>3. /\ cond' \in [Events -> SUBSET (Kinds \cup {"err"})]
      /\ \A e \in Events : cond'[e] \subseteq cond[e]
      /\ \A e \in Events \ {ev} : cond'[e] = cond[e]
  BY <1>1 DEF KernelInv
<1>4. /\ ready' \in Seq(Events) /\ IsInjective(ready')
      /\ ToSet(ready') \subseteq ToSet(ready) \ {ev}
  BY <1>1, ListOnce DEF KernelInv
<1>5. \A e \in ToSet(ready) : e \in Events /\ Reports(e) # {}
  BY ReadyEvents DEF KernelInv
<1>6. ASSUME NEW e \in ToSet(ready')
      PROVE  Reports(e)' # {}
  <2>1. e \in ToSet(ready) /\ e # ev /\ e \in Events
    BY <1>4, <1>5
  <2> QED BY <1>2, <1>3, <1>5, <2>1 DEF Reports
<1>7. /\ interest'[Listener] \in {{}, {"in"}} /\ cond'[Listener] \subseteq {"in"}
      /\ interest'[Listener] \in {{}, interest[Listener]}
  BY <1>2, <1>3 DEF KernelInv
<1> QED BY <1>2, <1>3, <1>4, <1>6, <1>7 DEF KernelInv

(* The conditions of one event change, and the list with them.             *)
LEMMA ConditionsKeep ==
  ASSUME KernelInv, interest' = interest,
         NEW ev \in Events, NEW C \in SUBSET (Kinds \cup {"err"}),
         ev = Listener => C \subseteq {"in"},
         cond' = [cond EXCEPT ![ev] = C],
         \/ ready' = ready /\ Reports(ev) \subseteq C
         \/ ready' = ready /\ C \cap (interest[ev] \cup {"err"}) # {}
         \/ ready' = Listed(ready, ev) /\ C \cap (interest[ev] \cup {"err"}) # {}
         \/ ready' = Unlisted(ready, ev)
  PROVE  KernelInv'
<1> USE EventEnginAssumption
<1>1. /\ cond' \in [Events -> SUBSET (Kinds \cup {"err"})]
      /\ cond'[ev] = C /\ \A e \in Events \ {ev} : cond'[e] = cond[e]
  BY DEF KernelInv
<1>2. /\ Listed(ready, ev) \in Seq(Events) /\ IsInjective(Listed(ready, ev))
      /\ ToSet(Listed(ready, ev)) = ToSet(ready) \cup {ev}
      /\ Unlisted(ready, ev) \in Seq(Events) /\ IsInjective(Unlisted(ready, ev))
      /\ ToSet(Unlisted(ready, ev)) \subseteq ToSet(ready) \ {ev}
  BY ListOnce DEF KernelInv
<1>3. \A e \in ToSet(ready) : e \in Events /\ Reports(e) # {}
  BY ReadyEvents DEF KernelInv
<1>4. ready' \in Seq(Events) /\ IsInjective(ready')
  BY <1>2 DEF KernelInv
<1>5. ASSUME NEW e \in ToSet(ready')
      PROVE  Reports(e)' # {}
  <2>1. CASE e # ev
    <3>1. e \in ToSet(ready)
      BY <1>2, <1>5, <2>1
    <3> QED BY <1>1, <1>3, <2>1, <3>1 DEF Reports
  <2>2. CASE e = ev /\ ready' = ready
    <3>1. Reports(ev) # {} /\ Reports(ev) \subseteq interest[ev] \cup {"err"}
      BY <1>3, <1>5, <2>2 DEF Reports
    <3>2. Reports(ev)' = C \cap (interest[ev] \cup {"err"})
      BY <1>1 DEF Reports
    <3>3. CASE Reports(ev) \subseteq C
      BY <3>1, <3>2, <3>3, <2>2
    <3>4. CASE C \cap (interest[ev] \cup {"err"}) # {}
      BY <2>2, <3>2, <3>4
    <3>5. CASE ready' = Unlisted(ready, ev)
      BY <1>2, <1>5, <2>2, <3>5
    <3> QED BY <3>3, <3>4, <3>5
  <2>3. CASE e = ev /\ ready' # ready
    BY <1>1, <1>2, <1>5, <2>3 DEF Reports
  <2> QED BY <2>1, <2>2, <2>3
<1>6. cond'[Listener] \subseteq {"in"}
  BY <1>1 DEF KernelInv
<1> QED BY <1>1, <1>4, <1>5, <1>6 DEF KernelInv

-----------------------------------------------------------------------------
(* What arrives.                                                           *)
LEMMA RaiseKeeps ==
  ASSUME Inv, NEW ev \in Events, NEW c \in (UNION Masks) \cup {"err"}, Raise(ev, c)
  PROVE  Inv'
<1> USE EventEnginAssumption
<1> DEFINE C == cond[ev] \cup {c}
<1>1. /\ interest' = interest /\ cond' = [cond EXCEPT ![ev] = C]
      /\ ready' = IF interest[ev] # {} /\ c \in interest[ev] \cup {"err"}
                  THEN Listed(ready, ev) ELSE ready
      /\ UNCHANGED <<thread, added, other, owner>>
  BY DEF Raise
<1>2. C \in SUBSET (Kinds \cup {"err"})
  <2>1. cond[ev] \in SUBSET (Kinds \cup {"err"})
    BY DEF Inv, KernelInv
  <2>2. c \in Kinds \cup {"err"}
    BY MaskKinds
  <2> QED BY <2>1, <2>2
<1>3. ev = Listener => C \subseteq {"in"}
  BY DEF Raise, Inv, KernelInv
<1>4. Reports(ev) \subseteq C
  BY DEF Reports
<1>5. c \in interest[ev] \cup {"err"} => C \cap (interest[ev] \cup {"err"}) # {}
  OBVIOUS
<1> HIDE DEF C
<1>6. KernelInv'
  BY <1>1, <1>2, <1>3, <1>4, <1>5, ConditionsKeep DEF Inv
<1>7. RegistryInv' /\ BatchInv' /\ PlaceInv'
  BY <1>1 DEF Inv, RegistryInv, BatchInv, PlaceInv, Resting, Found, Serving,
     thread, place, other, owner
<1> QED BY <1>6, <1>7 DEF Inv

(* The other thread's two steps.                                           *)
LEMMA OtherKeeps ==
  ASSUME Inv, OtherAdded \/ \E ev \in External : OtherAdds(ev)
  PROVE  Inv'
<1> USE EventEnginAssumption
<1>1. CASE OtherAdded
  <2>1. KernelInv' /\ UNCHANGED <<kernel, thread, toAdd, owner>>
    BY <1>1 DEF OtherAdded, Inv, KernelInv, kernel, Reports
  <2>2. adding \in Events /\ added' = [added EXCEPT ![adding] = TRUE] /\ adding' = NoEvent
    BY <1>1 DEF OtherAdded, Inv, RegistryInv
  <2>3. RegistryInv' /\ BatchInv' /\ PlaceInv'
    BY <2>1, <2>2 DEF Inv, RegistryInv, BatchInv, PlaceInv, Resting, Found,
       Serving, kernel, thread, place, owner
  <2> QED BY <2>1, <2>3 DEF Inv
<1>2. ASSUME NEW ev \in External, OtherAdds(ev)
      PROVE  Inv'
  <2>1. /\ Watch(ev, {"in"}) /\ toAdd' = toAdd \ {ev} /\ adding' = ev
        /\ UNCHANGED <<thread, added, owner>>
    BY <1>2 DEF OtherAdds
  <2>2. KernelInv' /\ interest'[Listener] = interest[Listener]
    BY <2>1, WatchKeeps DEF Inv
  <2>3. RegistryInv' /\ BatchInv' /\ PlaceInv'
    BY <2>1, <2>2 DEF Inv, RegistryInv, BatchInv, PlaceInv, Resting, Found,
       Serving, thread, place, owner
  <2> QED BY <2>2, <2>3 DEF Inv
<1> QED BY <1>1, <1>2

(* m_Delete and what is left of the batch change together.                 *)
LEMMA DeletesKeep ==
  ASSUME BatchInv, batch' = batch, NEW ev \in Events,
         deleted' = deleted \cup {ev}, live' = {i \in live : batch[i].ev # ev}
  PROVE  BatchInv'
BY DEF BatchInv

(* What a handler does while it runs.                                      *)
LEMMA HandlerKeeps ==
  ASSUME Inv, HandlerStep
  PROVE  Inv'
<1> USE EventEnginAssumption
<1>1. pc = "handling" /\ UNCHANGED <<place, other, owner>>
  BY DEF HandlerStep, HandlerDrains, HandlerRegisters, HandlerWatchesListener,
     HandlerUnregisters, thread
<1>2. doing = TRUE /\ Serving /\ cur.ev \in Events
  BY <1>1 DEF Inv, PlaceInv, Serving
<1>3. PlaceInv'
  BY <1>1 DEF Inv, PlaceInv, Found, Serving, place, owner
<1>4. batch' = batch
  BY <1>1 DEF place
<1>5. CASE HandlerDrains
  <2> DEFINE C == cond[cur.ev] \ {cur.what}
  <2>1. /\ cond' = [cond EXCEPT ![cur.ev] = C] /\ interest' = interest
        /\ ready' = IF C \cap (interest[cur.ev] \cup {"err"}) = {}
                    THEN Unlisted(ready, cur.ev) ELSE ready
        /\ UNCHANGED <<thread, added>>
    BY <1>5 DEF HandlerDrains
  <2>2. C \in SUBSET (Kinds \cup {"err"}) /\ (cur.ev = Listener => C \subseteq {"in"})
    BY <1>2 DEF Inv, KernelInv
  <2> HIDE DEF C
  <2>3. KernelInv'
    BY <1>2, <2>1, <2>2, ConditionsKeep DEF Inv
  <2>4. RegistryInv' /\ BatchInv'
    BY <1>1, <2>1 DEF Inv, RegistryInv, BatchInv, thread, place, other, owner
  <2> QED BY <1>3, <2>3, <2>4 DEF Inv
<1>6. CASE HandlerRegisters
  <2>1. PICK ev \in Events \ (toAdd \cup {adding, Listener}) :
           \E mask \in Asks(ev) : Register(ev, mask)
    BY <1>6 DEF HandlerRegisters
  <2>2. PICK mask \in {{"in"}} \cup Masks : Register(ev, mask)
    BY <2>1 DEF Asks
  <2>3. KernelInv' /\ interest'[Listener] = interest[Listener]
    BY <2>2, WatchKeeps DEF Inv, Register
  <2>4. added' = [added EXCEPT ![ev] = TRUE] /\ UNCHANGED <<deleted, live, priority>>
    BY <2>2 DEF Register
  <2>5. RegistryInv' /\ BatchInv'
    BY <1>1, <1>4, <2>3, <2>4 DEF Inv, RegistryInv, BatchInv, other, owner
  <2> QED BY <1>3, <2>3, <2>5 DEF Inv
<1>7. CASE HandlerWatchesListener
  <2>1. RegisterPriority
    BY <1>7 DEF HandlerWatchesListener
  <2>2. KernelInv'
    BY <2>1, WatchKeeps DEF Inv, RegisterPriority
  <2>3. added' = [added EXCEPT ![Listener] = TRUE] /\ priority' = Listener
    BY <2>1 DEF RegisterPriority
  <2>4. RegistryInv'
    BY <1>1, <1>4, <2>3 DEF Inv, RegistryInv, other, owner
  <2>5. BatchInv'
    <3>1. CASE added[Listener]
      BY <1>2, <1>4, <2>1, <3>1, DeletesKeep DEF Inv, RegisterPriority
    <3>2. CASE ~added[Listener]
      BY <1>4, <2>1, <3>2 DEF Inv, RegisterPriority, BatchInv
    <3> QED BY <3>1, <3>2
  <2> QED BY <1>3, <2>2, <2>4, <2>5 DEF Inv
<1>8. CASE HandlerUnregisters
  <2>1. PICK ev \in Events : Unregister(ev)
    BY <1>8 DEF HandlerUnregisters
  <2>2. KernelInv' /\ interest'[Listener] \in {{}, interest[Listener]}
    BY <2>1, UnwatchKeeps DEF Inv, Unregister
  <2>3. added' = [added EXCEPT ![ev] = FALSE] /\ priority' = priority
    BY <2>1 DEF Unregister
  <2>4. RegistryInv'
    BY <1>1, <1>4, <2>2, <2>3 DEF Inv, RegistryInv, other, owner
  <2>5. BatchInv'
    BY <1>2, <1>4, <2>1, DeletesKeep DEF Inv, Unregister
  <2> QED BY <1>3, <2>2, <2>4, <2>5 DEF Inv
<1> QED BY <1>5, <1>6, <1>7, <1>8 DEF HandlerStep

-----------------------------------------------------------------------------
(* epoll_wait fills the array with distinct events and their reports.      *)
LEMMA WaitKeeps ==
  ASSUME Inv, Wait
  PROVE  Inv' /\ (\A i \in DOMAIN batch' : batch'[i].ev \in Events
                        /\ batch'[i].mask = Reports(batch'[i].ev))
<1> USE EventEnginAssumption
<1> DEFINE n == IF Len(ready) < MaxEvents THEN Len(ready) ELSE MaxEvents
           rest == SubSeq(ready, n + 1, Len(ready))
           Report(e) == [ev |-> e, mask |-> Reports(e)]
<1>1. /\ pc = "wait" /\ ready # << >>
      /\ batch' = [i \in 1..n |-> Report(ready[i])]
      /\ ready' = IF \E i \in 1..n : ready[i] = Listener
                  THEN Append(rest, Listener) ELSE rest
      /\ live' = 1..n /\ doing' = TRUE /\ pc' = "priority"
      /\ UNCHANGED <<interest, cond, priority, idx, prio, deleted,
                     cur, added, other, owner>>
  BY DEF Wait
<1>2. /\ ready \in Seq(Events) /\ Len(ready) \in Nat /\ DOMAIN ready = 1..Len(ready)
      /\ \A i \in 1..Len(ready) : ready[i] \in Events
      /\ \A i, j \in 1..Len(ready) : ready[i] = ready[j] => i = j
      /\ \A i \in 1..Len(ready) : Reports(ready[i]) # {}
  <2>1. ready \in Seq(Events) /\ IsInjective(ready)
    BY DEF Inv, KernelInv
  <2>2. DOMAIN ready = 1..Len(ready) /\ Len(ready) \in Nat
    BY <2>1, LenProperties
  <2>3. \A i \in 1..Len(ready) : ready[i] \in ToSet(ready)
    BY <2>2 DEF ToSet
  <2> QED BY <2>1, <2>2, <2>3 DEF Inv, KernelInv, IsInjective
<1>3. n \in 0..MaxEvents /\ n \in 0..Len(ready)
  BY <1>2
<1> HIDE DEF n
<1>4. /\ rest \in Seq(Events) /\ Len(rest) = Len(ready) - n
      /\ \A i \in 1..Len(ready) - n : rest[i] = ready[i + n]
  <2>1. \A i \in n + 1..Len(ready) : ready[i] \in Events
    BY <1>2, <1>3
  <2>2. rest = [i \in 1..Len(ready) - n |-> ready[i + n]]
    <3>1. n + 1 \in Int /\ Len(ready) \in Int
      BY <1>2, <1>3
    <3>2. rest = [i \in 1..1 + Len(ready) - (n + 1) |-> ready[i + (n + 1) - 1]]
      BY <1>2, <1>3, SubSeqProperties
    <3> QED BY <1>2, <1>3, <3>2
  <2>3. \A i \in 1..Len(ready) - n : i + n \in 1..Len(ready)
    BY <1>2, <1>3
  <2> HIDE DEF rest
  <2> QED BY <1>2, <1>3, <2>2, <2>3
<1>5. IsInjective(rest)
  BY <1>2, <1>3, <1>4 DEF IsInjective
<1>6. ToSet(rest) \subseteq ToSet(ready)
  BY <1>2, <1>3, <1>4 DEF ToSet
<1>7. \A i \in 1..n : ready[i] \notin ToSet(rest)
  <2> SUFFICES ASSUME NEW i \in 1..n, NEW j \in 1..Len(rest), rest[j] = ready[i]
               PROVE  FALSE
    BY <1>4, LenProperties DEF ToSet
  <2>1. j \in 1..Len(ready) - n
    BY <1>4
  <2>2. /\ j + n \in 1..Len(ready) /\ i \in 1..Len(ready) /\ j + n # i
    BY <1>2, <1>3, <2>1
  <2>3. rest[j] = ready[j + n]
    BY <1>4, <2>1
  <2> QED BY <1>2, <2>2, <2>3
<1> HIDE DEF rest
<1>8. ready' \in Seq(Events) /\ IsInjective(ready') /\ ToSet(ready') \subseteq ToSet(ready)
  <2>1. CASE \E i \in 1..n : ready[i] = Listener
    <3>1. PICK i \in 1..n : ready[i] = Listener
      BY <2>1
    <3>2. Listener \in ToSet(ready)
      BY <1>2, <1>3, <3>1 DEF ToSet
    <3>3. Listener \notin ToSet(rest)
      BY <1>7, <3>1
    <3> QED BY <1>1, <1>4, <1>5, <1>6, <2>1, <3>2, <3>3, AppendDistinct
  <2>2. CASE ~\E i \in 1..n : ready[i] = Listener
    BY <1>1, <1>4, <1>5, <1>6, <2>2
  <2> QED BY <2>1, <2>2
<1>9. KernelInv'
  <2>1. \A e \in ToSet(ready') : Reports(e)' # {}
    BY <1>1, <1>8 DEF Inv, KernelInv, Reports
  <2> QED BY <1>1, <1>8, <2>1 DEF Inv, KernelInv
<1>10. /\ DOMAIN batch' = 1..n /\ Len(batch') = n /\ batch' \in Seq(Entries)
       /\ \A i \in 1..n : batch'[i].ev = ready[i] /\ batch'[i].mask = Reports(ready[i])
  <2>1. ASSUME NEW i \in 1..n
        PROVE  Report(ready[i]) \in Entries
    <3>1. ready[i] \in Events /\ Reports(ready[i]) # {}
      BY <1>2, <1>3
    <3>2. Reports(ready[i]) \subseteq Kinds \cup {"err"}
      BY <3>1 DEF Reports, Inv, KernelInv
    <3> QED BY <3>1, <3>2, EntryFields
  <2> QED BY <1>1, <1>3, <2>1
<1>11. Resting
  BY <1>1 DEF Inv, PlaceInv
<1>12. \A i \in 1..n : ready[i] = Listener =>
          Reports(ready[i]) = {"in"} /\ interest[Listener] # {}
  <2>1. Reports(Listener) # {} => Reports(Listener) = {"in"} /\ interest[Listener] # {}
    BY DEF Reports, Inv, KernelInv
  <2> QED BY <1>2, <1>3, <2>1
<1>13. RegistryInv'
  BY <1>1, <1>10, <1>12 DEF Inv, RegistryInv, other, owner
<1>14. BatchInv'
  <2>1. deleted' = {} /\ live' = DOMAIN batch'
    BY <1>1, <1>10, <1>11 DEF Resting
  <2>2. \A i, j \in DOMAIN batch' : (batch'[i].ev = batch'[j].ev => i = j)
    BY <1>2, <1>3, <1>10
  <2>3. \A i \in DOMAIN batch' : (batch'[i].ev = Listener => batch'[i].mask = {"in"})
    BY <1>10, <1>12
  <2>4. Len(batch') <= MaxEvents
    BY <1>3, <1>10
  <2> QED BY <1>10, <2>1, <2>2, <2>3, <2>4 DEF BatchInv
<1>15. PlaceInv'
  BY <1>1, <1>11 DEF Inv, PlaceInv, Resting, owner
<1>16. \A i \in DOMAIN batch' : batch'[i].ev \in Events
                                /\ batch'[i].mask = Reports(batch'[i].ev)
  BY <1>2, <1>3, <1>10
<1> QED BY <1>9, <1>13, <1>14, <1>15, <1>16 DEF Inv

(* The steps between handlers.                                             *)
LEMMA LoopKeeps ==
  ASSUME Inv, Loop \/ Timeout \/ EndBatch
  PROVE  Inv'
<1>1. UNCHANGED <<registry, other, owner>>
  BY DEF Loop, Timeout, EndBatch
<1>2. KernelInv'
  BY <1>1 DEF Inv, KernelInv, registry, kernel, Reports
<1>3. pc \in {"loop", "wait"} => Resting
  BY DEF Inv, PlaceInv
<1>4. /\ batch' = << >> /\ deleted' = {} /\ doing' = FALSE /\ live' = {}
      /\ idx' = 1 /\ prio' = 1 /\ cur' = NoCall
  BY <1>3 DEF Loop, Timeout, EndBatch, Resting, Inv, PlaceInv, BatchInv
<1>5. pc' \in {"loop", "wait", "off"} /\ pc # "off"
  BY DEF Loop, Timeout, EndBatch
<1>6. DOMAIN << >> = {} /\ Len(<< >>) = 0 /\ << >> \in Seq(Entries)
  OBVIOUS
<1>7. RegistryInv'
  BY <1>1, <1>4, <1>6 DEF Inv, RegistryInv, registry, kernel, other, owner
<1>8. BatchInv'
  BY <1>4, <1>6, EventEnginAssumption DEF BatchInv
<1>9. PlaceInv'
  BY <1>1, <1>4, <1>5 DEF Inv, PlaceInv, Resting, owner
<1> QED BY <1>2, <1>7, <1>8, <1>9 DEF Inv

(* The steps that begin, skip and end the entries of a batch.              *)
LEMMA BatchKept ==
  ASSUME Inv, UNCHANGED <<registry, batch, deleted, doing, live, other, owner>>
  PROVE  KernelInv' /\ RegistryInv' /\ BatchInv'
BY DEF Inv, KernelInv, RegistryInv, BatchInv, registry, kernel, Reports, other, owner

(* The thread leaves the loop over the priority events for the other loop. *)
LEMMA PriorityKeeps ==
  ASSUME Inv, Priority
  PROVE  Inv'
<1> USE EventEnginAssumption
<1>1. /\ pc = "priority" /\ idx' = 1 /\ doing = TRUE
      /\ UNCHANGED <<registry, batch, deleted, doing, live, other, owner>>
  BY DEF Priority, Inv, PlaceInv
<1>2. KernelInv' /\ RegistryInv' /\ BatchInv'
  BY <1>1, BatchKept
<1>3. Len(batch) \in Nat /\ DOMAIN batch = 1..Len(batch)
  BY LenProperties DEF Inv, BatchInv
<1>4. \A i \in DOMAIN batch : batch[i].ev \in Events
  BY BatchEntries DEF Inv
<1>5. stop # "joined"
  BY <1>1 DEF Inv, PlaceInv
<1>6. stop' = stop
  BY <1>1 DEF owner
<1>7. CASE pc' = "handling"
  <2>1. PICK i \in DOMAIN batch : /\ batch[i].ev = priority /\ prio' = i
                                  /\ cur' = [ev |-> priority, what |-> "in"]
    BY <1>7 DEF Priority
  <2>2. priority = Listener
    BY <1>4, <2>1 DEF Inv, RegistryInv
  <2>3. \A j \in DOMAIN batch : (batch[j].ev = Listener <=> j = i)
    BY <2>1, <2>2 DEF Inv, BatchInv
  <2>4. Found' /\ Serving'
    BY <1>1, <1>3, <2>1, <2>2, <2>3 DEF Found, Serving
  <2>5. PlaceInv'
    BY <1>1, <1>3, <1>5, <1>6, <1>7, <2>4 DEF PlaceInv
  <2> QED BY <1>2, <2>5 DEF Inv
<1>8. CASE pc' # "handling"
  <2>1. /\ \A i \in DOMAIN batch : batch[i].ev # priority
        /\ prio' = Len(batch) + 1 /\ pc' = "dispatch" /\ cur' = cur
    BY <1>8 DEF Priority
  <2>2. cur = NoCall
    BY <1>1 DEF Inv, PlaceInv
  <2>3. \A i \in DOMAIN batch : batch[i].ev # Listener
    BY <2>1 DEF Inv, RegistryInv
  <2>4. Found'
    BY <1>1, <1>3, <2>1, <2>3 DEF Found
  <2>5. PlaceInv'
    BY <1>1, <1>3, <1>5, <1>6, <2>1, <2>2, <2>4 DEF PlaceInv
  <2> QED BY <1>2, <2>5 DEF Inv
<1> QED BY <1>7, <1>8

(* An entry whose event is deleted, or not the turn of, is passed over.    *)
LEMMA SkipKeeps ==
  ASSUME Inv, Skip
  PROVE  Inv'
<1>1. /\ pc = "dispatch" /\ pc' = pc /\ idx <= Len(batch) /\ idx' = idx + 1
      /\ prio' = prio /\ cur' = cur
      /\ UNCHANGED <<registry, batch, deleted, doing, live, other, owner>>
  BY DEF Skip
<1>2. KernelInv' /\ RegistryInv' /\ BatchInv'
  BY <1>1, BatchKept
<1>3. Len(batch) \in Nat
  BY LenProperties DEF Inv, BatchInv
<1>4. PlaceInv'
  BY <1>1, <1>3 DEF Inv, PlaceInv, Found, owner
<1> QED BY <1>2, <1>4 DEF Inv

(* The entry called is live, and its handler is for what was reported.     *)
LEMMA DispatchKeeps ==
  ASSUME Inv, Dispatch
  PROVE  /\ Inv'
         /\ idx \in live /\ idx # prio /\ cur'.ev = batch[idx].ev
         /\ cur'.what \in batch[idx].mask
<1> DEFINE e == batch[idx]
           what == IF "err" \in e.mask THEN "err"
                   ELSE IF "in" \in e.mask THEN "in" ELSE "out"
<1>1. /\ pc = "dispatch" /\ pc' = "handling" /\ idx <= Len(batch) /\ idx' = idx
      /\ prio' = prio /\ cur' = [ev |-> e.ev, what |-> what]
      /\ UNCHANGED <<registry, batch, deleted, doing, live, other, owner>>
      /\ ~Skipped(idx)
  BY DEF Dispatch
<1>2. KernelInv' /\ RegistryInv' /\ BatchInv'
  BY <1>1, BatchKept
<1>3. Len(batch) \in Nat /\ DOMAIN batch = 1..Len(batch)
  BY LenProperties DEF Inv, BatchInv
<1>4. idx \in DOMAIN batch
  BY <1>1, <1>3 DEF Inv, PlaceInv
<1>5. e \in Entries
  BY <1>4 DEF Inv, BatchInv
<1>6. /\ e.ev \in Events /\ e.mask \subseteq Kinds \cup {"err"} /\ e.mask # {}
  BY <1>5, EntryFields
<1>7. what \in e.mask /\ what \in Kinds \cup {"err"}
  BY <1>6 DEF Kinds
<1>8. idx \in live /\ idx # prio
  BY <1>1, <1>4 DEF Skipped, Inv, BatchInv
<1> HIDE DEF what
<1>9. cur'.ev = e.ev /\ cur'.what \in e.mask
  BY <1>1, <1>7
<1>10. cur' \in [ev : Events, what : Kinds \cup {"err"}]
  BY <1>1, <1>6, <1>7
<1>11. Serving'
  BY <1>1, <1>8, <1>9, <1>10 DEF Serving
<1>12. PlaceInv'
  BY <1>1, <1>11 DEF Inv, PlaceInv, Found, owner
<1> QED BY <1>2, <1>8, <1>9, <1>12 DEF Inv

(* A handler that runs is the priority event's just when it is called so.  *)
LEMMA TwoLoops ==
  ASSUME Inv, pc = "handling"
  PROVE  /\ InFirstLoop => cur = [ev |-> Listener, what |-> "in"] /\ idx = 1
         /\ ~InFirstLoop => /\ idx \in DOMAIN batch /\ idx # prio
                            /\ cur \in [ev : Events, what : Kinds \cup {"err"}]
                            /\ cur.ev = batch[idx].ev
                            /\ cur.what \in batch[idx].mask
<1>1. Serving /\ Found /\ idx \in 1..Len(batch) + 1
  BY DEF Inv, PlaceInv
<1>2. DOMAIN batch = 1..Len(batch) /\ Len(batch) \in Nat
  BY LenProperties DEF Inv, BatchInv
<1>3. CASE prio <= Len(batch) /\ cur = [ev |-> Listener, what |-> "in"] /\ idx = 1
  <2>1. prio \in DOMAIN batch /\ batch[prio].ev = Listener
    BY <1>1, <1>2, <1>3 DEF Found
  <2> QED BY <1>3, <2>1 DEF InFirstLoop
<1>4. CASE /\ idx <= Len(batch) /\ idx # prio
           /\ cur \in [ev : Events, what : Kinds \cup {"err"}]
           /\ cur.ev = batch[idx].ev /\ cur.what \in batch[idx].mask
  <2>1. idx \in DOMAIN batch
    BY <1>1, <1>2, <1>4
  <2>2. prio <= Len(batch) => prio \in DOMAIN batch
    BY <1>1, <1>2 DEF Found
  <2>3. ~InFirstLoop
    BY <1>4, <2>1, <2>2 DEF InFirstLoop, Inv, BatchInv
  <2> QED BY <1>4, <2>1, <2>3
<1> QED BY <1>1, <1>3, <1>4 DEF Serving

(* A handler returns: the thread goes on with the entry behind.            *)
LEMMA ReturnKeeps ==
  ASSUME Inv, HandlerReturns
  PROVE  Inv'
<1>1. /\ pc = "handling" /\ prio' = prio
      /\ UNCHANGED <<registry, batch, deleted, doing, live, other, owner>>
  BY DEF HandlerReturns
<1>2. KernelInv' /\ RegistryInv' /\ BatchInv'
  BY <1>1, BatchKept
<1>3. DOMAIN batch = 1..Len(batch) /\ Len(batch) \in Nat
  BY LenProperties DEF Inv, BatchInv
<1>4. CASE ThenWrites
  <2>1. cur' = [cur EXCEPT !.what = "out"] /\ pc' = pc /\ idx' = idx
    BY <1>1, <1>4 DEF HandlerReturns
  <2>2. /\ idx \in DOMAIN batch /\ idx # prio
        /\ cur \in [ev : Events, what : Kinds \cup {"err"}]
        /\ cur.ev = batch[idx].ev /\ "out" \in batch[idx].mask
    BY <1>1, <1>4, TwoLoops DEF ThenWrites
  <2>3. /\ cur' \in [ev : Events, what : Kinds \cup {"err"}]
        /\ cur'.ev = cur.ev /\ cur'.what = "out"
    BY <2>1, <2>2 DEF Kinds
  <2>4. Serving'
    BY <1>1, <1>3, <2>1, <2>2, <2>3 DEF Serving
  <2>5. PlaceInv'
    BY <1>1, <2>1, <2>4 DEF Inv, PlaceInv, Found, owner
  <2> QED BY <1>2, <2>5 DEF Inv
<1>5. CASE ~ThenWrites
  <2>1. /\ cur' = NoCall /\ pc' = "dispatch"
        /\ idx' = IF InFirstLoop THEN idx ELSE idx + 1
    BY <1>5 DEF HandlerReturns
  <2>2. idx' \in 1..Len(batch) + 1
    <3>1. CASE InFirstLoop
      BY <1>1, <1>3, <2>1, <3>1, TwoLoops
    <3>2. CASE ~InFirstLoop
      BY <1>1, <1>3, <2>1, <3>2, TwoLoops
    <3> QED BY <3>1, <3>2
  <2>3. PlaceInv'
    BY <1>1, <2>1, <2>2 DEF Inv, PlaceInv, Found, owner
  <2> QED BY <1>2, <2>3 DEF Inv
<1> QED BY <1>4, <1>5

(* The owner asks for the end of the thread, and joins it when it is off.  *)
LEMMA StopKeeps ==
  ASSUME Inv, RequestStop \/ Join
  PROVE  Inv'
<1>1. /\ UNCHANGED <<kernel, thread, added, other>>
      /\ run' \in BOOLEAN /\ stop' \in {"requested", "joined"}
      /\ stop' = "joined" => pc = "off"
  BY DEF RequestStop, Join
<1>2. UNCHANGED <<interest, cond, ready, added, priority, deleted, live, batch,
                 idx, prio, doing, cur, pc, toAdd, adding>>
  BY <1>1 DEF kernel, thread, place, other
<1>3. KernelInv' /\ BatchInv'
  BY <1>2 DEF Inv, KernelInv, BatchInv, Reports
<1>4. RegistryInv' /\ PlaceInv'
  BY <1>1, <1>2 DEF Inv, RegistryInv, PlaceInv, Resting, Found, Serving
<1> QED BY <1>3, <1>4 DEF Inv

-----------------------------------------------------------------------------
(* The engine starts with nothing registered.                              *)
LEMMA Begins == Init => Inv
<1> SUFFICES ASSUME Init PROVE Inv
  OBVIOUS
<1> USE EventEnginAssumption DEF Init
<1>1. << >> \in Seq(Events) /\ << >> \in Seq(Entries) /\ DOMAIN << >> = {}
      /\ Len(<< >>) = 0
  OBVIOUS
<1>2. KernelInv
  <2>1. IsInjective(<< >>) /\ ToSet(<< >>) = {}
    BY <1>1 DEF IsInjective, ToSet
  <2> QED BY <1>1, <2>1 DEF KernelInv
<1>3. RegistryInv
  BY <1>1 DEF RegistryInv
<1>4. BatchInv
  BY <1>1 DEF BatchInv
<1>5. PlaceInv
  BY DEF PlaceInv, Resting
<1> QED BY <1>2, <1>3, <1>4, <1>5 DEF Inv

(* Every step keeps the invariant.                                         *)
LEMMA InvStep == Inv /\ [Next]_vars => Inv'
<1> SUFFICES ASSUME Inv, [Next]_vars PROVE Inv'
  OBVIOUS
<1>1. CASE UNCHANGED vars
  <2>1. /\ UNCHANGED <<interest, cond, ready, added, priority, deleted, live, batch>>
        /\ UNCHANGED <<idx, prio, doing, cur, pc, toAdd, adding, run, stop>>
    BY <1>1 DEF vars, kernel, thread, place, other, owner
  <2>2. KernelInv' /\ BatchInv'
    BY <2>1 DEF Inv, KernelInv, BatchInv, Reports
  <2>3. RegistryInv' /\ PlaceInv'
    BY <2>1 DEF Inv, RegistryInv, PlaceInv, Resting, Found, Serving
  <2> QED BY <2>2, <2>3 DEF Inv
<1>2. ASSUME NEW ev \in Events, NEW c \in (UNION Masks) \cup {"err"}, Raise(ev, c)
      PROVE  Inv'
  BY <1>2, RaiseKeeps
<1>3. CASE OtherAdded \/ \E ev \in External : OtherAdds(ev)
  BY <1>3, OtherKeeps
<1>4. CASE HandlerStep
  BY <1>4, HandlerKeeps
<1>5. CASE ThreadStep
  BY <1>5, LoopKeeps, WaitKeeps, PriorityKeeps, SkipKeeps, DispatchKeeps, ReturnKeeps
     DEF ThreadStep
<1>6. CASE RequestStop \/ Join
  BY <1>6, StopKeeps
<1> QED BY <1>1, <1>2, <1>3, <1>4, <1>5, <1>6 DEF Next

(* What the thread keeps in every state.                                   *)
THEOREM Invariance == Spec => []Inv
BY Begins, InvStep, PTL DEF Spec

(* Once Stop has returned no handler runs (Thread.cpp, Server.cpp:22,      *)
(* LiveServer.cpp:151), and no batch is larger than the array.             *)
THEOREM NoHandlerAfterStop == Spec => []QuietAfterStop
<1>1. Inv => QuietAfterStop
  <2> SUFFICES ASSUME Inv PROVE QuietAfterStop
    OBVIOUS
  <2>1. DOMAIN batch = 1..Len(batch) /\ Len(batch) \in 0..MaxEvents
    BY LenProperties, EventEnginAssumption DEF Inv, BatchInv
  <2>2. idx \in 1..MaxEvents + 1 /\ prio \in 1..MaxEvents + 1
    BY <2>1, EventEnginAssumption DEF Inv, PlaceInv, Resting, Found
  <2>3. cur \in [ev : Events, what : Kinds \cup {"err"}] \cup {NoCall}
    <3>1. [ev |-> Listener, what |-> "in"] \in [ev : Events, what : Kinds \cup {"err"}]
      BY EventEnginAssumption DEF Kinds
    <3> QED BY <3>1 DEF Inv, PlaceInv, Resting, Serving
  <2>4. live \subseteq 1..MaxEvents
    BY <2>1, EventEnginAssumption DEF Inv, BatchInv
  <2>5. doing \in BOOLEAN
    BY DEF Inv, PlaceInv, Resting
  <2>6. TypeOK
    BY <2>2, <2>3, <2>4, <2>5 DEF TypeOK, Inv, KernelInv, RegistryInv, BatchInv,
       PlaceInv
  <2>7. stop = "joined" => pc = "off" /\ cur = NoCall
    BY DEF Inv, PlaceInv, Resting
  <2> QED BY <2>6, <2>7 DEF QuietAfterStop
<1> QED BY <1>1, Invariance, PTL

(* Which steps call a handler.                                             *)
LEMMA Starts ==
  ASSUME Inv, [Next]_vars, StartsHandler
  PROVE  \/ Priority /\ pc = "priority"
         \/ Dispatch /\ pc = "dispatch"
         \/ HandlerReturns /\ ThenWrites /\ pc = "handling"
<1>1. pc' = "handling" /\ (pc # "handling" \/ cur' # cur)
  BY DEF StartsHandler
<1>2. ASSUME pc' = pc /\ cur' = cur
      PROVE  FALSE
  BY <1>1, <1>2
<1>3. CASE UNCHANGED vars
  BY <1>2, <1>3 DEF vars, thread, place
<1>4. ASSUME NEW ev \in Events, NEW c \in (UNION Masks) \cup {"err"}, Raise(ev, c)
      PROVE  FALSE
  BY <1>2, <1>4 DEF Raise, thread, place
<1>5. CASE OtherAdded \/ \E ev \in External : OtherAdds(ev)
  BY <1>2, <1>5 DEF OtherAdded, OtherAdds, thread, place
<1>6. CASE HandlerStep
  BY <1>2, <1>6 DEF HandlerStep, HandlerDrains, HandlerRegisters,
     HandlerWatchesListener, HandlerUnregisters, thread, place
<1>7. CASE RequestStop \/ Join
  BY <1>2, <1>7 DEF RequestStop, Join, thread, place
<1>8. CASE ThreadStep
  BY <1>1, <1>8 DEF ThreadStep, Loop, Wait, Timeout, Priority, Skip, Dispatch,
     HandlerReturns, EndBatch
<1> QED BY <1>3, <1>4, <1>5, <1>6, <1>7, <1>8 DEF Next

(* The priority event is served before every other one of its batch and    *)
(* not a second time by the loop over the rest (Event.cpp:394-413).        *)
THEOREM PriorityIsFirst == Spec => PriorityFirst
<1>1. ASSUME Inv, [Next]_vars, StartsHandler, pc # "priority"
      PROVE  /\ cur'.ev # priority
             /\ \A i \in live : batch[i].ev = priority => i = prio
  <2>1. pc \in {"dispatch", "handling"} /\ Found
    BY <1>1, Starts DEF Inv, PlaceInv
  <2>2. idx \in DOMAIN batch /\ idx # prio /\ cur'.ev = batch[idx].ev
    <3>1. CASE Dispatch
      <4>1. live \subseteq DOMAIN batch
        BY <1>1 DEF Inv, BatchInv
      <4> QED BY <1>1, <3>1, <4>1, DispatchKeeps
    <3>2. CASE HandlerReturns /\ ThenWrites /\ pc = "handling"
      <4>1. /\ idx \in DOMAIN batch /\ idx # prio /\ cur.ev = batch[idx].ev
            /\ cur \in [ev : Events, what : Kinds \cup {"err"}]
        BY <1>1, <3>2, TwoLoops DEF ThenWrites
      <4>2. cur' = [cur EXCEPT !.what = "out"]
        BY <3>2 DEF HandlerReturns
      <4> QED BY <4>1, <4>2
    <3> QED BY <1>1, <3>1, <3>2, Starts
  <2>3. \A i \in DOMAIN batch : batch[i].ev = priority => i = prio
    <3>1. \A i \in DOMAIN batch : batch[i].ev \in Events
      BY <1>1, BatchEntries DEF Inv
    <3> QED BY <1>1, <2>1, <3>1, EventEnginAssumption DEF Found, Inv, RegistryInv
  <2> QED BY <1>1, <2>2, <2>3 DEF Inv, BatchInv
<1>2. Inv /\ [Next]_vars => [StartsHandler /\ pc # "priority" =>
         /\ cur'.ev # priority
         /\ \A i \in live : batch[i].ev = priority => i = prio]_vars
  BY <1>1
<1> QED BY <1>2, Invariance, PTL DEF Spec, PriorityFirst

-----------------------------------------------------------------------------
(* Nothing in the code asks for both kinds at once (RegisterRW), so that   *)
(* no report has both.                                                     *)
OneKind == \A i \in DOMAIN batch : ~({"in", "out"} \subseteq batch[i].mask)

(* What epoll_wait reports of an event is within what was asked for it.    *)
LEMMA OneKindStep ==
  ASSUME \A mask \in Masks : mask # Kinds
  PROVE  Inv /\ OneKind /\ [Next]_vars => OneKind'
<1> SUFFICES ASSUME Inv, OneKind, [Next]_vars PROVE OneKind'
  OBVIOUS
<1>1. CASE batch' = batch
  BY <1>1 DEF OneKind
<1>2. CASE EndBatch
  <2>1. batch' = << >> /\ DOMAIN << >> = {}
    BY <1>2 DEF EndBatch
  <2> QED BY <2>1 DEF OneKind
<1>3. CASE Wait
  <2> SUFFICES ASSUME NEW i \in DOMAIN batch', {"in", "out"} \subseteq batch'[i].mask
               PROVE  FALSE
    BY DEF OneKind
  <2> DEFINE ev == batch'[i].ev
  <2>1. ev \in Events /\ batch'[i].mask = cond[ev] \cap (interest[ev] \cup {"err"})
    BY <1>3, WaitKeeps DEF Reports
  <2>2. {"in", "out"} \subseteq interest[ev]
    BY <2>1
  <2>3. interest[ev] \in {{}, {"in"}} \cup Masks
    BY <2>1 DEF Inv, KernelInv
  <2> HIDE DEF ev
  <2>4. interest[ev] \in Masks
    BY <2>2, <2>3
  <2>5. interest[ev] = Kinds
    BY <2>2, <2>4, MaskKinds DEF Kinds
  <2> QED BY <2>4, <2>5
<1>4. CASE ~Wait /\ ~EndBatch
  <2>1. ThreadStep => batch' = batch
    BY <1>4 DEF ThreadStep, Loop, Timeout, Priority, Skip, Dispatch, HandlerReturns
  <2>2. HandlerStep => batch' = batch
    BY DEF HandlerStep, HandlerDrains, HandlerRegisters, HandlerWatchesListener,
       HandlerUnregisters, thread, place
  <2>3. (\E ev \in Events, c \in (UNION Masks) \cup {"err"} : Raise(ev, c)) => batch' = batch
    BY DEF Raise, thread, place
  <2>4. (OtherAdded \/ \E ev \in External : OtherAdds(ev)) => batch' = batch
    BY DEF OtherAdded, OtherAdds, thread, place
  <2>5. (RequestStop \/ Join) => batch' = batch
    BY DEF RequestStop, Join, thread, place
  <2>6. UNCHANGED vars => batch' = batch
    BY DEF vars, thread, place
  <2> QED BY <1>1, <2>1, <2>2, <2>3, <2>4, <2>5, <2>6 DEF Next
<1> QED BY <1>2, <1>3, <1>4

(* A handler is only called for a report of this batch whose event nobody  *)
(* has unregistered since: m_Delete, a level-triggered listener and a      *)
(* closed and reused event included (Event.cpp:205, 330-427).              *)
THEOREM DispatchesTheLive ==
  ASSUME \A mask \in Masks : mask # Kinds
  PROVE  Spec => DispatchesLive
<1>1. Init => OneKind
  <2>1. Init => batch = << >> /\ DOMAIN << >> = {}
    BY DEF Init
  <2> QED BY <2>1 DEF OneKind
<1>2. Inv /\ OneKind /\ [Next]_vars => OneKind'
  BY OneKindStep
<1>3. ASSUME Inv, OneKind, [Next]_vars, StartsHandler
      PROVE  \E i \in live : batch[i].ev = cur'.ev /\ cur'.what \in batch[i].mask
  <2>1. CASE Priority /\ pc = "priority"
    <3>1. PICK i \in DOMAIN batch : /\ batch[i].ev = priority
                                    /\ cur' = [ev |-> priority, what |-> "in"]
      BY <1>3, <2>1 DEF Priority, StartsHandler
    <3>2. priority = Listener
      <4>1. batch[i].ev \in Events
        BY <1>3, BatchEntries DEF Inv
      <4> QED BY <1>3, <3>1, <4>1, EventEnginAssumption DEF Inv, RegistryInv
    <3>3. i \in live /\ batch[i].mask = {"in"}
      BY <1>3, <2>1, <3>1, <3>2 DEF Inv, PlaceInv, BatchInv
    <3> QED BY <3>1, <3>3
  <2>2. CASE Dispatch
    BY <1>3, <2>2, DispatchKeeps
  <2>3. ~(HandlerReturns /\ ThenWrites /\ pc = "handling")
    <3>1. ThenWrites /\ pc = "handling" => /\ cur.what = "in" /\ "out" \in batch[idx].mask
                                           /\ idx \in DOMAIN batch
                                           /\ cur.what \in batch[idx].mask
      BY <1>3, TwoLoops DEF ThenWrites
    <3> QED BY <1>3, <3>1 DEF OneKind
  <2> QED BY <1>3, <2>1, <2>2, <2>3, Starts
<1>4. Inv /\ OneKind /\ [Next]_vars =>
        [StartsHandler => \E i \in live : /\ batch[i].ev = cur'.ev
                                          /\ cur'.what \in batch[i].mask]_vars
  BY <1>3
<1> QED BY <1>1, <1>2, <1>4, Invariance, PTL DEF Spec, DispatchesLive
=============================================================================
