-------------------------- MODULE RtspInputProofs --------------------------
(* Proofs about RtspInput.  Whatever the clients send and however TCP cuts *)
(* it, the variables keep their types.  When no pair of bytes read at once *)
(* is cut and nothing follows an RTCP packet in its chunk, the bytes held, *)
(* the bytes of the chunk and those still to come are, together, a message *)
(* in the place the parser believes it is in, and the messages after it.   *)
EXTENDS RtspInput, SequenceTheorems, WellFoundedInduction, TLAPS

-----------------------------------------------------------------------------
(* FlattenSeq, which puts the bytes of messages one behind the other.      *)

(* The order of the naturals as a relation, which the library knows to be  *)
(* well founded.                                                           *)
LEMMA LessThan == ASSUME NEW x \in Nat, NEW y \in Nat
  PROVE <<y, x>> \in OpToRel(<,Nat) <=> y < x
  BY SMT DEF OpToRel

(* A set of naturals has a least element: what induction comes from here.  *)
LEMMA Least == ASSUME NEW T \in SUBSET Nat, T # {}
  PROVE \E x \in T : \A y \in T : x <= y
<1>1. PICK x \in T : \A y \in T : ~ (<<y, x>> \in OpToRel(<,Nat))
  BY WFMin, NatLessThanWellFounded, Zenon
<1>2. SUFFICES ASSUME NEW y \in T PROVE ~(y < x)
  BY SMT
<1>3. <<y, x>> \in OpToRel(<,Nat) <=> y < x
  BY LessThan
<1> QED BY <1>1, <1>3, Zenon

(* f puts the first n sequences of ss together.                            *)
Flat(f, ss, n) ==
  f = [i \in 1..n |-> IF i = 1 THEN ss[i] ELSE f[i - 1] \o ss[i]]

(* FlattenSeq is defined recursively: there is such a function ...         *)
LEMMA FlatExists ==
  ASSUME NEW ss, NEW n \in Nat
  PROVE  \E f : Flat(f, ss, n)
<1> DEFINE T == {m \in Nat : ~ \E f : Flat(f, ss, m)}
<1>1. SUFFICES ASSUME T # {} PROVE FALSE
  OBVIOUS
<1>2. T \in SUBSET Nat
  OBVIOUS
<1>3. PICK m \in T : \A k \in T : m <= k
  BY <1>1, <1>2, Least
<1>4. CASE m = 0
  <2> DEFINE f == [i \in 1..0 |-> 0]
  <2>1. Flat(f, ss, 0)
    BY DEF Flat
  <2> QED BY <2>1, <1>4
<1>5. CASE m # 0
  <2>1. m - 1 \in Nat /\ m - 1 \notin T
    BY <1>3, <1>5
  <2>2. PICK f : Flat(f, ss, m - 1)
    BY <2>1
  <2> DEFINE g == [i \in 1..m |-> IF i < m THEN f[i]
                   ELSE IF i = 1 THEN ss[i] ELSE f[i - 1] \o ss[i]]
  <2>3. Flat(g, ss, m)
    <3> DEFINE h == [i \in 1..m |-> IF i = 1 THEN ss[i] ELSE g[i - 1] \o ss[i]]
    <3>0. \A i \in 1..m - 1 : f[i] = IF i = 1 THEN ss[i] ELSE f[i - 1] \o ss[i]
      BY <2>2, Zenon DEF Flat
    <3>1. ASSUME NEW i \in 1..m PROVE g[i] = h[i]
      <4>1. CASE i = 1
        BY <2>1, <3>0, <1>5, <4>1
      <4>2. CASE i # 1
        <5>1. i - 1 \in 1..m /\ i - 1 < m /\ g[i - 1] = f[i - 1]
          BY <2>1, <1>5, <4>2
        <5>2. CASE i < m
          <6>1. i \in 1..m - 1
            BY <2>1, <5>2
          <6>2. f[i] = f[i - 1] \o ss[i]
            BY <3>0, <6>1, <4>2, Zenon
          <6>3. g[i] = f[i]
            BY <5>2
          <6>4. h[i] = g[i - 1] \o ss[i]
            BY <4>2
          <6> QED BY <6>2, <6>3, <6>4, <5>1
        <5>3. CASE i = m
          <6>1. ~(i < m) /\ i # 1
            BY <4>2, <5>3, <2>1
          <6>2a. g[i] = IF i < m THEN f[i] ELSE IF i = 1 THEN ss[i] ELSE f[i - 1] \o ss[i]
            BY Zenon
          <6>3. g[i] = f[i - 1] \o ss[i]
            BY <6>1, <6>2a, Zenon
          <6>2. h[i] = g[i - 1] \o ss[i]
            BY <4>2
          <6> QED BY <6>3, <6>2, <5>1, Zenon
        <5> QED BY <5>2, <5>3, <2>1
      <4> QED BY <4>1, <4>2
    <3>2. g = h
      BY <3>1
    <3> QED BY <3>2 DEF Flat
  <2> QED BY <2>3
<1> QED BY <1>4, <1>5

(* ... FlattenSeq takes its last value ...                                 *)
LEMMA FlattenIsFlat ==
  ASSUME NEW ss, Len(ss) \in Nat, Len(ss) # 0
  PROVE  \E f : Flat(f, ss, Len(ss)) /\ FlattenSeq(ss) = f[Len(ss)]
<1> DEFINE f == CHOOSE f : f = [i \in 1..Len(ss) |-> IF i = 1 THEN ss[i] ELSE f[i - 1] \o ss[i]]
<1>1. \E g : g = [i \in 1..Len(ss) |-> IF i = 1 THEN ss[i] ELSE g[i - 1] \o ss[i]]
  BY FlatExists, Zenon DEF Flat
<1>2. f = [i \in 1..Len(ss) |-> IF i = 1 THEN ss[i] ELSE f[i - 1] \o ss[i]]
  BY <1>1, Zenon
<1>3. Flat(f, ss, Len(ss))
  BY <1>2, Zenon DEF Flat
<1>4. FlattenSeq(ss) = f[Len(ss)]
  BY Zenon DEF FlattenSeq
<1> QED BY <1>3, <1>4, Zenon

(* ... whose values are sequences ...                                      *)
LEMMA FlatType ==
  ASSUME NEW S, NEW ss \in Seq(Seq(S)), NEW f, NEW n \in 0..Len(ss), Flat(f, ss, n)
  PROVE  \A i \in 1..n : f[i] \in Seq(S)
<1> DEFINE T == {i \in 1..n : f[i] \notin Seq(S)}
<1>1. SUFFICES ASSUME T # {} PROVE FALSE
  OBVIOUS
<1>2. T \in SUBSET Nat
  BY SMT
<1>3. PICK m \in T : \A k \in T : m <= k
  BY <1>1, <1>2, Least
<1>4. f[m] = IF m = 1 THEN ss[m] ELSE f[m - 1] \o ss[m]
  BY <1>3, Zenon DEF Flat
<1>5. ss[m] \in Seq(S)
  BY <1>3
<1>6. m # 1 /\ m - 1 \in 1..n /\ m - 1 \notin T
  BY <1>3, <1>4, <1>5
<1>7. f[m - 1] \in Seq(S)
  BY <1>6
<1>8. f[m - 1] \o ss[m] \in Seq(S)
  BY <1>5, <1>7, ConcatProperties
<1>9. f[m] \notin Seq(S)
  BY <1>3
<1> QED BY <1>4, <1>6, <1>8, <1>9, Zenon

(* ... and depend on the sequences so far only.                            *)
LEMMA FlatUnique ==
  ASSUME NEW ss, NEW tt, NEW f, NEW g, NEW n \in Nat, NEW o \in n..n + 1,
         Flat(f, ss, n), Flat(g, tt, o), \A i \in 1..n : ss[i] = tt[i]
  PROVE  \A i \in 1..n : f[i] = g[i]
<1> DEFINE T == {i \in 1..n : f[i] # g[i]}
<1>1. SUFFICES ASSUME T # {} PROVE FALSE
  OBVIOUS
<1>2. T \in SUBSET Nat
  BY SMT
<1>3. PICK m \in T : \A k \in T : m <= k
  BY <1>1, <1>2, Least
<1>4. f[m] = IF m = 1 THEN ss[m] ELSE f[m - 1] \o ss[m]
  BY <1>3, Zenon DEF Flat
<1>5. m \in 1..o
  BY <1>3
<1>6. g[m] = IF m = 1 THEN tt[m] ELSE g[m - 1] \o tt[m]
  BY <1>5, Zenon DEF Flat
<1>7. ss[m] = tt[m] /\ f[m] # g[m]
  BY <1>3
<1>8. m # 1
  BY <1>4, <1>6, <1>7
<1>9. m - 1 \in 1..n /\ m - 1 \notin T
  BY <1>3, <1>8
<1>10. f[m - 1] = g[m - 1]
  BY <1>9
<1> QED BY <1>4, <1>6, <1>7, <1>8, <1>10, Zenon

(* What is put together of sequences is one.                               *)
LEMMA FlattenType ==
  ASSUME NEW S, NEW ss \in Seq(Seq(S))
  PROVE  FlattenSeq(ss) \in Seq(S)
<1>1. CASE Len(ss) = 0
  <2>1. FlattenSeq(ss) = << >> 
    BY <1>1, SMT DEF FlattenSeq
  <2> QED BY <2>1
<1>2. CASE Len(ss) # 0
  <2>1. PICK f : Flat(f, ss, Len(ss)) /\ FlattenSeq(ss) = f[Len(ss)]
    BY <1>2, FlattenIsFlat
  <2>2. Len(ss) \in 0..Len(ss) /\ Len(ss) \in 1..Len(ss)
    BY <1>2
  <2> QED BY <2>1, <2>2, FlatType
<1> QED BY <1>1, <1>2

(* Nothing put together.                                                   *)
LEMMA FlattenEmpty == FlattenSeq(<< >>) = << >>
  BY DEF FlattenSeq

(* A value of the recursive function.                                      *)
LEMMA FlatAt ==
  ASSUME NEW ss, NEW f, NEW n \in Nat, Flat(f, ss, n), NEW i \in 1..n
  PROVE  f[i] = IF i = 1 THEN ss[i] ELSE f[i - 1] \o ss[i]
  BY Zenon DEF Flat

(* One sequence more at the end, said by position ...                      *)
LEMMA FlattenLast ==
  ASSUME NEW S, NEW n \in Nat, NEW ss \in Seq(Seq(S)), NEW tt \in Seq(Seq(S)),
         n = Len(ss), Len(tt) = n + 1, \A i \in 1..n : ss[i] = tt[i]
  PROVE  FlattenSeq(tt) = FlattenSeq(ss) \o tt[n + 1]
<1>1. Len(tt) \in Nat /\ Len(tt) # 0 /\ n + 1 \in Nat
  BY SMT
<1>2. PICK g : Flat(g, tt, n + 1) /\ FlattenSeq(tt) = g[n + 1]
  <2>1. \E g : Flat(g, tt, Len(tt)) /\ FlattenSeq(tt) = g[Len(tt)]
    BY <1>1, FlattenIsFlat, Zenon
  <2> QED BY <2>1, Zenon
<1>3. n + 1 \in 1..n + 1 /\ n + 1 - 1 = n
  BY SMT
<1>4. g[n + 1] = IF n + 1 = 1 THEN tt[n + 1] ELSE g[n + 1 - 1] \o tt[n + 1]
  <2>1. Flat(g, tt, n + 1)
    BY <1>2
  <2> QED BY ONLY <1>1, <2>1, <1>3, FlatAt
<1>5. CASE n = 0
  <2>0. ss = << >>
    BY <1>5, EmptySeq
  <2>1. FlattenSeq(ss) = << >>
    BY <2>0, FlattenEmpty, Zenon
  <2>2. tt[n + 1] \in Seq(S)
    <3>1. n + 1 \in 1..Len(tt)
      BY <1>5, SMT
    <3> QED BY <3>1, ElementOfSeq
  <2>3. << >> \o tt[n + 1] = tt[n + 1]
    BY <2>2
  <2> QED BY <1>2, <1>4, <1>5, <2>1, <2>3
<1>6. CASE n # 0
  <2>1. PICK f : Flat(f, ss, n) /\ FlattenSeq(ss) = f[n]
    BY <1>6, FlattenIsFlat
  <2>2. n + 1 \in n..n + 1 /\ n \in 1..n /\ n + 1 # 1
    BY <1>6, SMT
  <2>3. \A i \in 1..n : f[i] = g[i]
    <3>1. Flat(g, tt, n + 1) /\ Flat(f, ss, n)
      BY <1>2, <2>1
    <3> QED BY ONLY <3>1, <2>2, n \in Nat, \A i \in 1..n : ss[i] = tt[i], FlatUnique
  <2> QED BY <1>2, <1>3, <1>4, <2>1, <2>2, <2>3, Zenon
<1> QED BY <1>5, <1>6

(* ... and by Append.                                                      *)
LEMMA FlattenAppend ==
  ASSUME NEW S, NEW ss \in Seq(Seq(S)), NEW s \in Seq(S)
  PROVE  FlattenSeq(Append(ss, s)) = FlattenSeq(ss) \o s
<1>1. PICK tt \in Seq(Seq(S)) : tt = Append(ss, s)
  <2>1. Append(ss, s) \in Seq(Seq(S))
    OBVIOUS
  <2> QED BY <2>1, Zenon
<1>2. PICK n \in Nat : n = Len(ss)
  OBVIOUS
<1>3. Len(tt) = n + 1 /\ tt[n + 1] = s /\ \A i \in 1..n : ss[i] = tt[i]
  BY <1>1, <1>2
<1>4. FlattenSeq(tt) = FlattenSeq(ss) \o tt[n + 1]
  BY <1>2, <1>3, FlattenLast
<1> QED BY <1>1, <1>3, <1>4

(* A sequence and its last element.                                        *)
LEMMA SplitLast ==
  ASSUME NEW S, NEW v \in Seq(S), Len(v) # 0
  PROVE  \E u \in Seq(S), x \in S : v = Append(u, x) /\ Len(u) = Len(v) - 1
<1> DEFINE w == SubSeq(v, 1, Len(v) - 1)
<1>1. /\ Len(v) \in Nat /\ Len(v) \in 1..Len(v)
      /\ 1 \in 1..Len(v) + 1 /\ Len(v) - 1 \in 0..Len(v)
  OBVIOUS
<1>2. v[Len(v)] \in S
  BY <1>1, ElementOfSeq
<1>3. w \in Seq(S) /\ Len(w) = Len(v) - 1
  BY <1>1, SubSeqProperties
<1>4. \A i \in 1..Len(v) - 1 : w[i] = v[i]
  BY <1>1, SubSeqProperties
<1> HIDE DEF w
<1>5. v = Append(w, v[Len(v)])
  BY <1>1, <1>2, <1>3, <1>4
<1> QED BY <1>2, <1>3, <1>5

(* The step of the induction for FlattenConcat.                            *)
LEMMA FlattenConcatStep ==
  ASSUME NEW S, NEW ss \in Seq(Seq(S)), NEW u \in Seq(Seq(S)), NEW s \in Seq(S),
         FlattenSeq(ss \o u) = FlattenSeq(ss) \o FlattenSeq(u)
  PROVE  FlattenSeq(ss \o Append(u, s)) = FlattenSeq(ss) \o FlattenSeq(Append(u, s))
<1>1. ss \o u \in Seq(Seq(S)) /\ <<s>> \in Seq(Seq(S))
  BY ConcatProperties
<1>2. Append(u, s) = u \o <<s>> /\ Append(ss \o u, s) = (ss \o u) \o <<s>>
  BY <1>1, AppendIsConcat
<1>3. (ss \o u) \o <<s>> = ss \o (u \o <<s>>)
  BY <1>1, ConcatAssociative
<1>4. ss \o Append(u, s) = Append(ss \o u, s)
  BY <1>2, <1>3, Zenon
<1>5. FlattenSeq(ss) \in Seq(S) /\ FlattenSeq(u) \in Seq(S)
  BY FlattenType
<1>6. FlattenSeq(Append(u, s)) = FlattenSeq(u) \o s
  BY FlattenAppend
<1>7. FlattenSeq(Append(ss \o u, s)) = FlattenSeq(ss \o u) \o s
  BY <1>1, FlattenAppend
<1>8. (FlattenSeq(ss) \o FlattenSeq(u)) \o s = FlattenSeq(ss) \o (FlattenSeq(u) \o s)
  BY <1>5, ConcatAssociative
<1> QED BY <1>4, <1>6, <1>7, <1>8, Zenon

(* Putting together goes over concatenation.                               *)
LEMMA FlattenConcat ==
  ASSUME NEW S, NEW ss \in Seq(Seq(S)), NEW tt \in Seq(Seq(S))
  PROVE  FlattenSeq(ss \o tt) = FlattenSeq(ss) \o FlattenSeq(tt)
<1> DEFINE Holds(n) == \A v \in Seq(Seq(S)) : Len(v) = n =>
                         FlattenSeq(ss \o v) = FlattenSeq(ss) \o FlattenSeq(v)
           T == {n \in Nat : ~Holds(n)}
<1>1. SUFFICES ASSUME T # {} PROVE FALSE
  <2>1. Len(tt) \in Nat
    OBVIOUS
  <2>2. Holds(Len(tt)) => FlattenSeq(ss \o tt) = FlattenSeq(ss) \o FlattenSeq(tt)
    BY Zenon
  <2> HIDE DEF Holds
  <2> QED BY <2>1, <2>2
<1>2. PICK m \in T : \A k \in T : m <= k
  <2>1. T \in SUBSET Nat
    OBVIOUS
  <2> QED BY <1>1, <2>1, Least
<1>3. PICK v \in Seq(Seq(S)) : /\ Len(v) = m
                               /\ FlattenSeq(ss \o v) # FlattenSeq(ss) \o FlattenSeq(v)
  BY <1>2
<1>4. FlattenSeq(ss) \in Seq(S)
  BY FlattenType
<1>5. m # 0
  <2>1. SUFFICES ASSUME m = 0 PROVE FALSE
    OBVIOUS
  <2>2. v = << >> /\ ss \o v = ss
    BY <1>3, <2>1
  <2>3. FlattenSeq(ss) \o << >> = FlattenSeq(ss)
    BY <1>4
  <2> QED BY <1>3, <2>2, <2>3, FlattenEmpty
<1>6. PICK u \in Seq(Seq(S)), s \in Seq(S) : v = Append(u, s) /\ Len(u) = m - 1
  BY <1>3, <1>5, SplitLast
<1>7. FlattenSeq(ss \o u) = FlattenSeq(ss) \o FlattenSeq(u)
  <2>1. m - 1 \in Nat /\ m - 1 \notin T
    BY <1>2, <1>5
  <2>2. Holds(m - 1)
    BY <2>1
  <2> QED BY <2>2, <1>6
<1> QED BY <1>3, <1>6, <1>7, FlattenConcatStep, Zenon

(* One sequence put together.                                              *)
LEMMA FlattenOne ==
  ASSUME NEW S, NEW s \in Seq(S)
  PROVE  FlattenSeq(<<s>>) = s
<1>1. << >> \in Seq(Seq(S)) /\ Append(<< >>, s) = <<s>> /\ << >> \o s = s
  OBVIOUS
<1>2. FlattenSeq(Append(<< >>, s)) = FlattenSeq(<< >>) \o s
  BY <1>1, FlattenAppend
<1> QED BY <1>1, <1>2, FlattenEmpty

(* What is put together of sequences of a set closed under concatenation   *)
(* is in the set.                                                          *)
LEMMA FlattenClosed ==
  ASSUME NEW S, NEW T \in SUBSET Seq(S), << >> \in T,
         \A a, b \in T : a \o b \in T, NEW ss \in Seq(T)
  PROVE  FlattenSeq(ss) \in T
<1> DEFINE Holds(n) == \A v \in Seq(T) : Len(v) = n => FlattenSeq(v) \in T
           N == {n \in Nat : ~Holds(n)}
<1>1. SUFFICES ASSUME N # {} PROVE FALSE
  <2>1. Len(ss) \in Nat
    OBVIOUS
  <2>2. Holds(Len(ss)) => FlattenSeq(ss) \in T
    BY Zenon
  <2> HIDE DEF Holds
  <2> QED BY <2>1, <2>2
<1>2. PICK m \in N : \A k \in N : m <= k
  <2>1. N \in SUBSET Nat
    OBVIOUS
  <2> QED BY <1>1, <2>1, Least
<1>3. PICK v \in Seq(T) : Len(v) = m /\ FlattenSeq(v) \notin T
  BY <1>2
<1>4. m # 0
  <2>1. SUFFICES ASSUME m = 0 PROVE FALSE
    OBVIOUS
  <2>2. v = << >>
    BY <1>3, <2>1, EmptySeq
  <2> QED BY <1>3, <2>2, FlattenEmpty
<1>5. PICK u \in Seq(T), s \in T : v = Append(u, s) /\ Len(u) = m - 1
  <2>1. Len(v) # 0
    BY <1>3, <1>4
  <2>2. \E u \in Seq(T), s \in T : v = Append(u, s) /\ Len(u) = Len(v) - 1
    BY <2>1, SplitLast, Zenon
  <2> QED BY <2>2, <1>3, Zenon
<1>6. FlattenSeq(u) \in T
  <2>1. m - 1 \in Nat /\ m - 1 \notin N
    BY <1>2, <1>4
  <2>2. Holds(m - 1)
    BY <2>1
  <2> QED BY <2>2, <1>5
<1>7. u \in Seq(Seq(S)) /\ s \in Seq(S)
  <2>1. \A i \in 1..Len(u) : u[i] \in Seq(S)
    BY ElementOfSeq
  <2> QED BY <2>1
<1>8. FlattenSeq(v) = FlattenSeq(u) \o s
  BY <1>5, <1>7, FlattenAppend
<1> QED BY <1>3, <1>6, <1>8

-----------------------------------------------------------------------------
(* The messages and their bytes.                                           *)
LEMMA BodyBytes ==
  ASSUME NEW n \in Nat
  PROVE  /\ Body(n) \in Seq(Byte) /\ Len(Body(n)) = n
         /\ \A i \in 1..n : Body(n)[i] = IF i = n THEN "z" ELSE "d"
  BY DEF Body, Byte

(* The length's byte says the length.                                      *)
LEMMA DigitValue ==
  ASSUME NEW n \in 0..2
  PROVE  /\ Digits[n + 1] \in ToSet(Digits) /\ Digits[n + 1] \in Byte
         /\ Value(Digits[n + 1]) = n
<1>1. /\ DOMAIN Digits = 1..3 /\ n + 1 \in 1..3
      /\ Digits[1] = "0" /\ Digits[2] = "1" /\ Digits[3] = "2"
  BY DEF Digits
<1>2. Digits[n + 1] \in ToSet(Digits)
  BY <1>1 DEF ToSet
<1>3. \A i \in 1..3 : Digits[i] = Digits[n + 1] => i = n + 1
  BY <1>1
<1>4. (CHOOSE i \in DOMAIN Digits : Digits[i] = Digits[n + 1]) = n + 1
  BY <1>1, <1>3
<1>5. Value(Digits[n + 1]) = n
  <2>1. Value(Digits[n + 1]) = (n + 1) - 1
    BY <1>4, Zenon DEF Value
  <2> QED BY <2>1
<1>6. Digits[n + 1] \in Byte
  BY <1>2 DEF Byte
<1> QED BY <1>2, <1>5, <1>6

(* The digits are what a length can be.                                    *)
LEMMA ValueType ==
  ASSUME NEW x \in ToSet(Digits)
  PROVE  Value(x) \in 0..2
<1>1. PICK i \in 1..3 : x = Digits[i]
  BY DEF ToSet, Digits
<1>2. i - 1 \in 0..2 /\ (i - 1) + 1 = i
  OBVIOUS
<1>3. Value(Digits[(i - 1) + 1]) = i - 1
  BY <1>2, DigitValue
<1> QED BY <1>1, <1>2, <1>3

(* A request has its end at its end only.                                  *)
LEMMA RequestBytes ==
  ASSUME NEW n \in Nat \ {0}, NEW end \in {"e", "b"}
  PROVE  /\ Request(n, end) \in Seq(Byte) /\ Len(Request(n, end)) = n
         /\ Request(n, end)[n] = end
         /\ \A i \in 1..n - 1 : Request(n, end)[i] = "r"
         /\ IsRequest(Request(n, end))
<1> DEFINE m == Request(n, end)
<1>1. \A i \in 1..n : m[i] = IF i = n THEN end ELSE "r"
  BY DEF Request
<1>2. m \in Seq(Byte) /\ Len(m) = n
  BY DEF Request, Byte
<1> HIDE DEF m
<1>3. m[n] = end /\ \A i \in 1..n - 1 : m[i] = "r"
  BY <1>1
<1>4. IsRequest(m)
  BY <1>1 DEF IsRequest
<1> QED BY <1>2, <1>3, <1>4 DEF m

(* An RTCP packet is the pair that is skipped, the pair of the length and  *)
(* the body.                                                               *)
Lead == <<"$", "c">>
Length(n) == <<"h", Digits[n + 1]>>

(* Their bytes.                                                            *)
LEMMA LeadLength ==
  ASSUME NEW n \in 0..2
  PROVE  /\ Lead \in Seq(Byte) /\ Len(Lead) = 2 /\ Lead[1] = "$" /\ Lead[2] = "c"
         /\ Length(n) \in Seq(Byte) /\ Len(Length(n)) = 2
         /\ Length(n)[1] = "h" /\ Length(n)[2] = Digits[n + 1]
<1>1. "$" \in Byte /\ "c" \in Byte /\ "h" \in Byte /\ Digits[n + 1] \in Byte
  BY DigitValue DEF Byte
<1> QED BY <1>1 DEF Lead, Length

(* The packet they are parts of.                                           *)
LEMMA RtcpBytes ==
  ASSUME NEW n \in 0..2
  PROVE  /\ Rtcp(n) \in Seq(Byte) /\ Len(Rtcp(n)) = 4 + n
         /\ Rtcp(n) = Lead \o (Length(n) \o Body(n))
         /\ Rtcp(n)[1] = "$"
         /\ ~IsRequest(Rtcp(n))
<1> DEFINE four == <<"$", "c", "h", Digits[n + 1]>>
<1>1. "$" \in Byte /\ "c" \in Byte /\ "h" \in Byte /\ Digits[n + 1] \in Byte
  BY DigitValue DEF Byte
<1>2. /\ four \in Seq(Byte) /\ Len(four) = 4 /\ four[1] = "$"
      /\ four = Lead \o Length(n)
  BY <1>1 DEF Lead, Length
<1>3. Rtcp(n) = four \o Body(n)
  BY DEF Rtcp
<1> HIDE DEF four
<1>4. Body(n) \in Seq(Byte) /\ Len(Body(n)) = n
  BY BodyBytes
<1>5. Rtcp(n) \in Seq(Byte) /\ Len(Rtcp(n)) = 4 + n /\ Rtcp(n)[1] = "$"
  BY <1>2, <1>3, <1>4, ConcatProperties
<1>6. Rtcp(n) = Lead \o (Length(n) \o Body(n))
  <2>1. Lead \in Seq(Byte) /\ Length(n) \in Seq(Byte)
    BY LeadLength
  <2>2. (Lead \o Length(n)) \o Body(n) = Lead \o (Length(n) \o Body(n))
    BY <2>1, <1>4, ConcatAssociative, SMTT(40)
  <2> QED BY <1>2, <1>3, <2>2, Zenon
<1> QED BY <1>5, <1>6 DEF IsRequest

(* The packet and what is behind it.                                       *)
LEMMA PacketThen ==
  ASSUME NEW n \in 0..2, NEW rest \in Seq(Byte)
  PROVE  Rtcp(n) \o rest = Lead \o (Length(n) \o (Body(n) \o rest))
<1>1. PICK a \in Seq(Byte) : a = Lead
  BY LeadLength, Zenon
<1>2. PICK b \in Seq(Byte) : b = Length(n)
  BY LeadLength, Zenon
<1>3. PICK c \in Seq(Byte) : c = Body(n)
  <2>1. n \in Nat
    OBVIOUS
  <2> QED BY <2>1, BodyBytes, Zenon
<1>4. PICK bc \in Seq(Byte) : bc = b \o c
  BY ConcatProperties, Zenon
<1>5. (a \o bc) \o rest = a \o (bc \o rest)
  BY ConcatAssociative, SMTT(40)
<1>6. (b \o c) \o rest = b \o (c \o rest)
  BY ConcatAssociative, SMTT(40)
<1>7. Rtcp(n) = a \o bc
  BY <1>1, <1>2, <1>3, <1>4, RtcpBytes, Zenon
<1> QED BY <1>1, <1>2, <1>3, <1>4, <1>5, <1>6, <1>7, Zenon

(* What a client sends.                                                    *)
LEMMA MessageKinds ==
  ASSUME NEW m \in Messages
  PROVE  /\ m \in Seq(Byte) /\ Len(m) > 0
         /\ IsRequest(m) => \E n \in Sizes, end \in {"e", "b"} :
                               n \in Nat \ {0} /\ m = Request(n, end)
         /\ ~IsRequest(m) => \E n \in Lengths : n \in 0..2 /\ m = Rtcp(n)
<1>1. CASE \E n \in Sizes, end \in Ends : m = Request(n, end)
  <2>1. PICK n \in Sizes, end \in Ends : m = Request(n, end)
    BY <1>1
  <2>2. n \in Nat \ {0} /\ end \in {"e", "b"}
    BY RtspInputAssumption DEF Ends
  <2>3. m \in Seq(Byte) /\ Len(m) = n /\ IsRequest(m)
    BY <2>1, <2>2, RequestBytes
  <2> QED BY <2>1, <2>2, <2>3
<1>2. CASE \E n \in Lengths : m = Rtcp(n)
  <2>1. PICK n \in Lengths : m = Rtcp(n)
    BY <1>2
  <2>2. n \in 0..2
    BY RtspInputAssumption
  <2>3. m \in Seq(Byte) /\ Len(m) = 4 + n /\ ~IsRequest(m)
    BY <2>1, <2>2, RtcpBytes
  <2> QED BY <2>1, <2>2, <2>3
<1> QED BY <1>1, <1>2 DEF Messages

-----------------------------------------------------------------------------
(* Of the messages of a client, the requests among the first d and the     *)
(* bytes of those after them.                                              *)
Done(ms, d) == Requests(SubSeq(ms, 1, d))
After(ms, d) == FlattenSeq(SubSeq(ms, d + 1, Len(ms)))

Picked(ms) == [i \in DOMAIN ms |-> IF IsRequest(ms[i]) THEN <<ms[i]>> ELSE << >>]

(* The list Requests puts together.                                        *)
LEMMA PickedType ==
  ASSUME NEW ms \in Seq(Messages)
  PROVE  /\ Picked(ms) \in Seq(Seq(Messages)) /\ Len(Picked(ms)) = Len(ms)
         /\ \A i \in 1..Len(ms) :
               Picked(ms)[i] = IF IsRequest(ms[i]) THEN <<ms[i]>> ELSE << >>
         /\ Requests(ms) = FlattenSeq(Picked(ms))
         /\ Requests(ms) \in Seq(Messages)
<1>1. DOMAIN ms = 1..Len(ms) /\ Len(ms) \in Nat
  OBVIOUS
<1>2. \A i \in 1..Len(ms) : ms[i] \in Messages
  BY ElementOfSeq
<1>3. \A i \in 1..Len(ms) : /\ Picked(ms)[i] = IF IsRequest(ms[i]) THEN <<ms[i]>> ELSE << >>
                            /\ Picked(ms)[i] \in Seq(Messages)
  BY <1>1, <1>2 DEF Picked
<1>4. Picked(ms) \in Seq(Seq(Messages)) /\ Len(Picked(ms)) = Len(ms)
  BY <1>1, <1>3 DEF Picked
<1>5. Requests(ms) = FlattenSeq(Picked(ms))
  BY DEF Requests, Picked
<1> QED BY <1>3, <1>4, <1>5, FlattenType

(* Two lists are one behind the other when their elements are.             *)
LEMMA SameAsConcat ==
  ASSUME NEW S, NEW p \in Seq(S), NEW q \in Seq(S), NEW r \in Seq(S),
         Len(r) = Len(p) + Len(q),
         \A i \in 1..Len(p) : r[i] = p[i],
         \A i \in 1..Len(q) : r[Len(p) + i] = q[i]
  PROVE  r = p \o q
<1>1. /\ p \o q \in Seq(S) /\ Len(p \o q) = Len(p) + Len(q)
      /\ Len(p) \in Nat /\ Len(q) \in Nat
      /\ \A i \in 1..Len(p) + Len(q) :
            (p \o q)[i] = IF i <= Len(p) THEN p[i] ELSE q[i - Len(p)]
  BY ConcatProperties
<1> DEFINE s == p \o q
<1> HIDE DEF s
<1>2. \A i \in 1..Len(r) : r[i] = s[i]
  <2> TAKE i \in 1..Len(r)
  <2>1. CASE i <= Len(p)
    BY <1>1, <2>1 DEF s
  <2>2. CASE ~(i <= Len(p))
    <3>1. i - Len(p) \in 1..Len(q) /\ Len(p) + (i - Len(p)) = i
      BY <1>1, <2>2
    <3>2. r[i] = q[i - Len(p)]
      BY <3>1
    <3>3. s[i] = q[i - Len(p)]
      BY <1>1, <2>2 DEF s
    <3> QED BY <3>2, <3>3
  <2> QED BY <2>1, <2>2
<1>3. s \in Seq(S) /\ Len(s) = Len(r)
  BY <1>1 DEF s
<1>4. r = s
  BY <1>2, <1>3
<1> QED BY <1>4 DEF s

(* The requests of two lists of messages.                                  *)
LEMMA RequestsConcat ==
  ASSUME NEW ms \in Seq(Messages), NEW ns \in Seq(Messages)
  PROVE  Requests(ms \o ns) = Requests(ms) \o Requests(ns)
<1>1. PICK both \in Seq(Messages) : both = ms \o ns
  <2>1. ms \o ns \in Seq(Messages)
    BY ConcatProperties
  <2> QED BY <2>1, Zenon
<1>2. /\ Len(both) = Len(ms) + Len(ns) /\ Len(ms) \in Nat /\ Len(ns) \in Nat
      /\ \A i \in 1..Len(ms) + Len(ns) :
            both[i] = IF i <= Len(ms) THEN ms[i] ELSE ns[i - Len(ms)]
  BY <1>1, ConcatProperties
<1>3. PICK p \in Seq(Seq(Messages)), q \in Seq(Seq(Messages)), r \in Seq(Seq(Messages)) :
         p = Picked(ms) /\ q = Picked(ns) /\ r = Picked(both)
  BY PickedType, Zenon
<1>4. /\ Len(p) = Len(ms) /\ Len(q) = Len(ns) /\ Len(r) = Len(ms) + Len(ns)
      /\ \A i \in 1..Len(ms) : p[i] = IF IsRequest(ms[i]) THEN <<ms[i]>> ELSE << >>
      /\ \A i \in 1..Len(ns) : q[i] = IF IsRequest(ns[i]) THEN <<ns[i]>> ELSE << >>
      /\ \A i \in 1..Len(ms) + Len(ns) :
            r[i] = IF IsRequest(both[i]) THEN <<both[i]>> ELSE << >>
  BY <1>2, <1>3, PickedType
<1>5. \A i \in 1..Len(p) : r[i] = p[i]
  <2> TAKE i \in 1..Len(p)
  <2>1. i \in 1..Len(ms) + Len(ns) /\ i <= Len(ms) /\ i \in 1..Len(ms)
    BY <1>2, <1>4
  <2>2. both[i] = ms[i]
    BY <1>2, <2>1
  <2> QED BY <1>4, <2>1, <2>2
<1>6. \A i \in 1..Len(q) : r[Len(p) + i] = q[i]
  <2> TAKE i \in 1..Len(q)
  <2>1. /\ Len(p) + i \in 1..Len(ms) + Len(ns) /\ ~(Len(p) + i <= Len(ms))
        /\ Len(p) + i - Len(ms) = i /\ i \in 1..Len(ns)
    BY <1>2, <1>4
  <2>2. both[Len(p) + i] = ns[i]
    BY <1>2, <2>1
  <2> QED BY <1>4, <2>1, <2>2
<1>7. r = p \o q
  <2>1. Len(r) = Len(p) + Len(q)
    BY <1>4
  <2> QED BY <2>1, <1>5, <1>6, SameAsConcat, Zenon
<1>8. FlattenSeq(r) = FlattenSeq(p) \o FlattenSeq(q)
  BY <1>7, FlattenConcat
<1> QED BY <1>1, <1>3, <1>8, PickedType, Zenon

(* The requests of one message.                                            *)
LEMMA RequestsOne ==
  ASSUME NEW m \in Messages
  PROVE  Requests(<<m>>) = IF IsRequest(m) THEN <<m>> ELSE << >>
<1>1. <<m>> \in Seq(Messages) /\ Len(<<m>>) = 1 /\ <<m>>[1] = m
  OBVIOUS
<1>2. PICK p \in Seq(Seq(Messages)), s \in Seq(Messages) :
         p = Picked(<<m>>) /\ s = IF IsRequest(m) THEN <<m>> ELSE << >>
  <2>1. (IF IsRequest(m) THEN <<m>> ELSE << >>) \in Seq(Messages)
    BY <1>1
  <2> QED BY <1>1, <2>1, PickedType, Zenon
<1>3. Len(p) = 1 /\ p[1] = s
  <2>1. /\ Len(p) = Len(<<m>>)
        /\ \A i \in 1..Len(<<m>>) :
              p[i] = IF IsRequest(<<m>>[i]) THEN <<<<m>>[i]>> ELSE << >>
    BY <1>1, <1>2, PickedType, Zenon
  <2>2. p[1] = IF IsRequest(m) THEN <<m>> ELSE << >>
    BY <1>1, <2>1
  <2> QED BY <1>1, <1>2, <2>1, <2>2
<1>4. p = <<s>>
  BY <1>3
<1>5. FlattenSeq(p) = s
  BY <1>4, FlattenOne
<1> QED BY <1>1, <1>2, <1>5, PickedType, Zenon

(* A list up to d and after it.                                            *)
LEMMA SplitAt ==
  ASSUME NEW S, NEW ms \in Seq(S), NEW d \in 0..Len(ms)
  PROVE  /\ SubSeq(ms, 1, d) \in Seq(S) /\ SubSeq(ms, d + 1, Len(ms)) \in Seq(S)
         /\ ms = SubSeq(ms, 1, d) \o SubSeq(ms, d + 1, Len(ms))
<1>1. Len(ms) \in Nat /\ \A i \in 1..Len(ms) : ms[i] \in S
  BY ElementOfSeq
<1> DEFINE p == SubSeq(ms, 1, d)
           q == SubSeq(ms, d + 1, Len(ms))
<1>2. p \in Seq(S) /\ Len(p) = d /\ \A i \in 1..d : p[i] = ms[i]
  BY <1>1, SubSeqProperties
<1>3. q \in Seq(S) /\ Len(q) = Len(ms) - d /\ \A i \in 1..Len(ms) - d : q[i] = ms[d + i]
  BY <1>1, SubSeqProperties
<1> HIDE DEF p, q
<1>4. /\ p \in Seq(S) /\ q \in Seq(S) /\ Len(ms) = Len(p) + Len(q)
      /\ \A i \in 1..Len(p) : ms[i] = p[i]
      /\ \A i \in 1..Len(q) : ms[Len(p) + i] = q[i]
  BY <1>1, <1>2, <1>3
<1>5. ms = p \o q
  BY <1>4, SameAsConcat, Zenon
<1> QED BY <1>4, <1>5 DEF p, q

(* ... and one element more.                                               *)
LEMMA SplitNext ==
  ASSUME NEW S, NEW ms \in Seq(S), NEW d \in 0..Len(ms), d < Len(ms)
  PROVE  /\ ms[d + 1] \in S /\ d + 1 \in 0..Len(ms)
         /\ SubSeq(ms, 1, d + 1) = SubSeq(ms, 1, d) \o <<ms[d + 1]>>
         /\ SubSeq(ms, d + 1, Len(ms)) = <<ms[d + 1]>> \o SubSeq(ms, d + 2, Len(ms))
<1>1. Len(ms) \in Nat /\ \A i \in 1..Len(ms) : ms[i] \in S
  BY ElementOfSeq
<1>2. d + 1 \in 1..Len(ms) /\ ms[d + 1] \in S /\ <<ms[d + 1]>> \in Seq(S)
  BY <1>1
<1>3. SubSeq(ms, d + 1, d + 1) = <<ms[d + 1]>>
  <2> DEFINE one == SubSeq(ms, d + 1, d + 1)
  <2>1. \A i \in d + 1..d + 1 : ms[i] \in S
    BY <1>1, <1>2
  <2>2. one \in Seq(S) /\ Len(one) = 1 /\ one[1] = ms[d + 1]
    BY <1>2, <2>1, SubSeqProperties
  <2> HIDE DEF one
  <2>3. one = <<ms[d + 1]>>
    BY <1>2, <2>2
  <2> QED BY <2>3 DEF one
<1>4. SubSeq(ms, 1, d) \o SubSeq(ms, d + 1, d + 1) = SubSeq(ms, 1, d + 1)
  <2>1. 1 \in 1..Len(ms) + 1 /\ d \in 1 - 1..Len(ms) /\ d + 1 \in d..Len(ms)
    BY <1>1, <1>2
  <2> QED BY <2>1, ConcatAdjacentSubSeq
<1>5. SubSeq(ms, d + 1, d + 1) \o SubSeq(ms, d + 2, Len(ms)) = SubSeq(ms, d + 1, Len(ms))
  <2>1. /\ d + 1 \in 1..Len(ms) + 1 /\ d + 1 \in (d + 1) - 1..Len(ms)
        /\ Len(ms) \in d + 1..Len(ms) /\ (d + 1) + 1 = d + 2
    BY <1>1, <1>2
  <2>2. SubSeq(ms, d + 1, d + 1) \o SubSeq(ms, (d + 1) + 1, Len(ms))
           = SubSeq(ms, d + 1, Len(ms))
    BY <2>1, ConcatAdjacentSubSeq
  <2> QED BY <2>1, <2>2
<1> QED BY <1>2, <1>3, <1>4, <1>5

(* Messages are sequences of bytes.                                        *)
LEMMA MessagesAreBytes ==
  /\ \A m \in Messages : m \in Seq(Byte)
  /\ \A ms \in Seq(Messages) : ms \in Seq(Seq(Byte))
<1>1. \A m \in Messages : m \in Seq(Byte)
  BY MessageKinds
<1>2. ASSUME NEW ms \in Seq(Messages) PROVE ms \in Seq(Seq(Byte))
  <2>1. \A i \in 1..Len(ms) : ms[i] \in Seq(Byte)
    BY <1>1, ElementOfSeq
  <2> QED BY <2>1
<1> QED BY <1>1, <1>2

(* What is after d begins with the next message.                           *)
LEMMA AfterStep ==
  ASSUME NEW ms \in Seq(Messages), NEW d \in 0..Len(ms)
  PROVE  /\ After(ms, d) \in Seq(Byte)
         /\ d = Len(ms) => After(ms, d) = << >>
         /\ d < Len(ms) => /\ After(ms, d) = ms[d + 1] \o After(ms, d + 1)
                           /\ After(ms, d + 1) \in Seq(Byte)
<1>1. SubSeq(ms, d + 1, Len(ms)) \in Seq(Messages)
  BY SplitAt
<1>2. After(ms, d) \in Seq(Byte)
  BY <1>1, MessagesAreBytes, FlattenType DEF After
<1>3. ASSUME d = Len(ms) PROVE After(ms, d) = << >>
  <2>1. SubSeq(ms, d + 1, Len(ms)) = << >>
    BY <1>3, SubSeqEmpty
  <2> QED BY <2>1, FlattenEmpty DEF After
<1>4. ASSUME d < Len(ms)
      PROVE  After(ms, d) = ms[d + 1] \o After(ms, d + 1) /\ After(ms, d + 1) \in Seq(Byte)
  <2> DEFINE m == ms[d + 1]
             rest == SubSeq(ms, d + 2, Len(ms))
  <2>1. /\ m \in Messages /\ d + 1 \in 0..Len(ms) /\ (d + 1) + 1 = d + 2
        /\ SubSeq(ms, d + 1, Len(ms)) = <<m>> \o rest
    BY <1>4, SplitNext
  <2>2. rest \in Seq(Messages)
    BY <2>1, SplitAt
  <2>3. After(ms, d + 1) = FlattenSeq(rest) /\ After(ms, d) = FlattenSeq(<<m>> \o rest)
    BY <2>1 DEF After
  <2> HIDE DEF m, rest
  <2>4. m \in Seq(Byte) /\ <<m>> \in Seq(Seq(Byte)) /\ rest \in Seq(Seq(Byte))
    BY <2>1, <2>2, MessagesAreBytes
  <2>5. FlattenSeq(<<m>> \o rest) = FlattenSeq(<<m>>) \o FlattenSeq(rest)
    BY <2>4, FlattenConcat, Zenon
  <2>6. FlattenSeq(<<m>>) = m /\ FlattenSeq(rest) \in Seq(Byte)
    BY <2>4, FlattenOne, FlattenType
  <2> QED BY <2>3, <2>5, <2>6 DEF m
<1> QED BY <1>2, <1>3, <1>4

(* All that is sent, of which what is after d is the end.                  *)
LEMMA AfterAll ==
  ASSUME NEW ms \in Seq(Messages), NEW d \in 0..Len(ms)
  PROVE  /\ After(ms, 0) = FlattenSeq(ms)
         /\ Len(After(ms, d)) <= Len(FlattenSeq(ms))
<1>1. After(ms, 0) = FlattenSeq(ms)
  <2>1. SubSeq(ms, 0 + 1, Len(ms)) = ms
    OBVIOUS
  <2> QED BY <2>1 DEF After
<1>2. PICK p \in Seq(Messages), q \in Seq(Messages) :
         ms = p \o q /\ q = SubSeq(ms, d + 1, Len(ms))
  BY SplitAt
<1>3. p \in Seq(Seq(Byte)) /\ q \in Seq(Seq(Byte))
  BY MessagesAreBytes
<1>4. FlattenSeq(ms) = FlattenSeq(p) \o FlattenSeq(q)
  BY <1>2, <1>3, FlattenConcat
<1>5. FlattenSeq(p) \in Seq(Byte) /\ FlattenSeq(q) \in Seq(Byte)
  BY <1>3, FlattenType
<1>6. Len(FlattenSeq(ms)) = Len(FlattenSeq(p)) + Len(FlattenSeq(q))
  BY <1>4, <1>5, ConcatProperties
<1>7. Len(FlattenSeq(q)) <= Len(FlattenSeq(ms))
  BY <1>5, <1>6
<1> QED BY <1>1, <1>2, <1>7 DEF After

(* The requests up to d ...                                                *)
LEMMA DoneStep ==
  ASSUME NEW ms \in Seq(Messages), NEW d \in 0..Len(ms)
  PROVE  /\ Done(ms, d) \in Seq(Messages)
         /\ d = 0 => Done(ms, d) = << >>
         /\ d = Len(ms) => Done(ms, d) = Requests(ms)
         /\ d < Len(ms) => Done(ms, d + 1) = IF IsRequest(ms[d + 1])
                                             THEN Append(Done(ms, d), ms[d + 1])
                                             ELSE Done(ms, d)
<1>1. SubSeq(ms, 1, d) \in Seq(Messages)
  BY SplitAt
<1>2. Done(ms, d) \in Seq(Messages)
  BY <1>1, PickedType DEF Done
<1>3. ASSUME d = 0 PROVE Done(ms, d) = << >>
  <2>1. SubSeq(ms, 1, d) = << >>
    BY <1>3, SubSeqEmpty
  <2>2. << >> \in Seq(Messages) /\ Len(<< >>) = 0
    OBVIOUS
  <2>3. /\ Picked(<< >>) \in Seq(Seq(Messages)) /\ Len(Picked(<< >>)) = Len(<< >>)
        /\ Requests(<< >>) = FlattenSeq(Picked(<< >>))
    BY <2>2, PickedType, Zenon
  <2>4. Picked(<< >>) = << >>
    BY <2>2, <2>3, EmptySeq
  <2> QED BY <2>1, <2>3, <2>4, FlattenEmpty, Zenon DEF Done
<1>4. ASSUME d = Len(ms) PROVE Done(ms, d) = Requests(ms)
  <2>1. SubSeq(ms, 1, Len(ms)) = ms
    OBVIOUS
  <2> QED BY <2>1, <1>4 DEF Done
<1>5. ASSUME d < Len(ms)
      PROVE  Done(ms, d + 1) = IF IsRequest(ms[d + 1])
                               THEN Append(Done(ms, d), ms[d + 1]) ELSE Done(ms, d)
  <2> DEFINE m == ms[d + 1]
             p == SubSeq(ms, 1, d)
  <2>1. m \in Messages /\ SubSeq(ms, 1, d + 1) = p \o <<m>>
    BY <1>5, SplitNext
  <2>2. Done(ms, d) = Requests(p) /\ Done(ms, d + 1) = Requests(p \o <<m>>)
    BY <2>1 DEF Done
  <2>3. p \in Seq(Messages)
    BY <1>1
  <2> HIDE DEF m, p
  <2>4. <<m>> \in Seq(Messages)
    BY <2>1
  <2>5. Requests(p \o <<m>>) = Requests(p) \o Requests(<<m>>)
    BY <2>3, <2>4, RequestsConcat, Zenon
  <2>6. Requests(<<m>>) = IF IsRequest(m) THEN <<m>> ELSE << >>
    BY <2>1, RequestsOne
  <2>7. Requests(p) \in Seq(Messages)
    BY <2>3, PickedType
  <2>8. Requests(p) \o <<m>> = Append(Requests(p), m) /\ Requests(p) \o << >> = Requests(p)
    BY <2>1, <2>7, AppendIsConcat, ConcatEmptySeq
  <2> QED BY <2>2, <2>5, <2>6, <2>8 DEF m
<1> QED BY <1>2, <1>3, <1>4, <1>5

(* ... are the first of the requests.                                      *)
LEMMA DoneFirst ==
  ASSUME NEW ms \in Seq(Messages), NEW d \in 0..Len(ms)
  PROVE  IsPrefix(Done(ms, d), Requests(ms))
<1>1. PICK p \in Seq(Messages), q \in Seq(Messages) :
         ms = p \o q /\ p = SubSeq(ms, 1, d)
  BY SplitAt
<1>2. Requests(ms) = Requests(p) \o Requests(q)
  BY <1>1, RequestsConcat
<1>3. Requests(p) \in Seq(Messages) /\ Requests(q) \in Seq(Messages)
  BY PickedType
<1>4. Done(ms, d) = Requests(p)
  BY <1>1 DEF Done
<1> HIDE DEF Done
<1>5. /\ Len(Requests(p)) <= Len(Requests(ms))
      /\ Requests(p) = SubSeq(Requests(ms), 1, Len(Requests(p)))
  <2> DEFINE a == Requests(p)
             b == Requests(q)
  <2>1. a \in Seq(Messages) /\ b \in Seq(Messages)
    BY <1>3
  <2> HIDE DEF a, b
  <2>2. Len(a) <= Len(a \o b) /\ a = SubSeq(a \o b, 1, Len(a))
    BY <2>1
  <2> QED BY <2>2, <1>2 DEF a, b
<1> QED BY <1>4, <1>5 DEF IsPrefix

-----------------------------------------------------------------------------
(* What is behind the same first part.                                     *)
LEMMA CancelFirst ==
  ASSUME NEW S, NEW p \in Seq(S), NEW v \in Seq(S), NEW x \in Seq(S), p \o v = p \o x
  PROVE  v = x
  BY ConcatSimplifications

(* A sequence without its first n elements.                                *)
Beyond(a, n) == SubSeq(a, n + 1, Len(a))

(* The same bytes divided in two ways: the longer first part begins with   *)
(* the shorter ...                                                         *)
LEMMA LeadSame ==
  ASSUME NEW S, NEW a \in Seq(S), NEW b \in Seq(S), NEW p \in Seq(S), NEW x \in Seq(S),
         a \o b = p \o x, Len(p) <= Len(a)
  PROVE  \A i \in 1..Len(p) : a[i] = p[i]
<1>1. Len(a) \in Nat /\ Len(p) \in Nat /\ Len(b) \in Nat /\ Len(x) \in Nat
  OBVIOUS
<1> TAKE i \in 1..Len(p)
<1>2. i \in 1..Len(p) + Len(x) /\ i \in 1..Len(a) + Len(b) /\ i <= Len(a) /\ i <= Len(p)
  BY <1>1
<1>3. (a \o b)[i] = a[i]
  BY <1>2, ConcatProperties
<1>4. (p \o x)[i] = p[i]
  BY <1>2, ConcatProperties
<1> QED BY <1>3, <1>4

(* ... that is, is it ...                                                  *)
LEMMA LeadFirst ==
  ASSUME NEW S, NEW a \in Seq(S), NEW b \in Seq(S), NEW p \in Seq(S), NEW x \in Seq(S),
         a \o b = p \o x, Len(p) <= Len(a)
  PROVE  SubSeq(a, 1, Len(p)) = p
<1> DEFINE u == SubSeq(a, 1, Len(p))
<1>1. Len(a) \in Nat /\ Len(p) \in Nat /\ Len(p) \in 0..Len(a)
  OBVIOUS
<1>2. \A i \in 1..Len(p) : a[i] \in S
  BY <1>1, ElementOfSeq
<1>3. u \in Seq(S) /\ Len(u) = Len(p) /\ \A i \in 1..Len(p) : u[i] = a[i]
  BY <1>1, <1>2, SubSeqProperties
<1> HIDE DEF u
<1>4. \A i \in 1..Len(p) : a[i] = p[i]
  BY LeadSame
<1>5. Len(u) = Len(p) /\ \A i \in 1..Len(u) : u[i] = p[i]
  BY <1>3, <1>4
<1>6. u = p
  BY <1>3, <1>5, SeqEqual
<1> QED BY <1>6 DEF u

(* ... and what it has besides is what the other division goes on with.    *)
LEMMA DropLead ==
  ASSUME NEW S, NEW a \in Seq(S), NEW b \in Seq(S), NEW p \in Seq(S), NEW x \in Seq(S),
         a \o b = p \o x, Len(p) <= Len(a)
  PROVE  Beyond(a, Len(p)) \o b = x
<1>1. Len(a) \in Nat /\ Len(p) \in Nat /\ Len(p) \in 0..Len(a)
  OBVIOUS
<1> DEFINE u == SubSeq(a, 1, Len(p))
           v == SubSeq(a, Len(p) + 1, Len(a))
<1>2. u \in Seq(S) /\ v \in Seq(S) /\ a = u \o v
  BY <1>1, SplitAt
<1>3. u = p
  BY LeadFirst
<1> HIDE DEF u, v
<1>4. (p \o v) \o b = p \o (v \o b)
  BY <1>2, ConcatAssociative, SMTT(40)
<1>5. p \o (v \o b) = p \o x
  BY <1>2, <1>3, <1>4
<1>6. v \o b \in Seq(S)
  BY <1>2, ConcatProperties
<1>7. v \o b = x
  BY <1>5, <1>6, CancelFirst
<1> QED BY <1>7 DEF v, Beyond

(* The type of what is left.                                               *)
LEMMA BeyondType ==
  ASSUME NEW S, NEW a \in Seq(S), NEW k \in Nat
  PROVE  /\ Beyond(a, k) \in Seq(S)
         /\ Len(Beyond(a, k)) = IF k <= Len(a) THEN Len(a) - k ELSE 0
         /\ \A i \in 1..Len(a) - k : Beyond(a, k)[i] = a[k + i]
<1>1. Len(a) \in Nat /\ \A i \in 1..Len(a) : a[i] \in S
  BY ElementOfSeq
<1> QED BY <1>1, SubSeqProperties DEF Beyond

(* What is left of two parts when more than the first is taken off.        *)
LEMMA RestOfTwo ==
  ASSUME NEW S, NEW h \in Seq(S), NEW c \in Seq(S), NEW n \in Nat,
         Len(h) < n, n <= Len(h) + Len(c)
  PROVE  Beyond(h \o c, n) = Beyond(c, n - Len(h))
<1>1. /\ Len(h) \in Nat /\ Len(c) \in Nat /\ h \o c \in Seq(S)
      /\ Len(h \o c) = Len(h) + Len(c)
      /\ \A i \in 1..Len(h) + Len(c) :
            (h \o c)[i] = IF i <= Len(h) THEN h[i] ELSE c[i - Len(h)]
  BY ConcatProperties
<1> DEFINE a == h \o c
           u == SubSeq(a, n + 1, Len(a))
           v == SubSeq(c, n - Len(h) + 1, Len(c))
<1>2. (\A i \in 1..Len(a) : a[i] \in S) /\ (\A i \in 1..Len(c) : c[i] \in S)
  BY <1>1, ElementOfSeq
<1> HIDE DEF a
<1>3. /\ u \in Seq(S) /\ Len(u) = Len(a) - n
      /\ \A i \in 1..Len(a) - n : u[i] = a[n + i]
  BY <1>1, <1>2, SubSeqProperties DEF a
<1>4. /\ v \in Seq(S) /\ Len(v) = Len(c) - (n - Len(h))
      /\ \A i \in 1..Len(c) - (n - Len(h)) : v[i] = c[n - Len(h) + i]
  <2> DEFINE m == n - Len(h) + 1
  <2>1. /\ m \in Int /\ Len(c) \in Int /\ \A i \in m..Len(c) : c[i] \in S
        /\ m <= Len(c) + 1
    BY <1>1, <1>2
  <2>2. v = SubSeq(c, m, Len(c))
    OBVIOUS
  <2> HIDE DEF m, v
  <2>3. /\ v \in Seq(S) /\ Len(v) = IF m <= Len(c) THEN Len(c) - m + 1 ELSE 0
        /\ \A i \in 1..Len(c) - m + 1 : v[i] = c[m + i - 1]
    BY <2>1, <2>2, SubSeqProperties
  <2>4. Len(v) = Len(c) - (n - Len(h))
    <3>1. /\ Len(c) - m + 1 = Len(c) - (n - Len(h))
          /\ ~(m <= Len(c)) => Len(c) - (n - Len(h)) = 0
      BY <1>1 DEF m
    <3> QED BY <2>3, <3>1
  <2>5. ASSUME NEW i \in 1..Len(c) - (n - Len(h)) PROVE v[i] = c[n - Len(h) + i]
    <3>1. i \in 1..Len(c) - m + 1 /\ m + i - 1 = n - Len(h) + i
      BY <1>1 DEF m
    <3> QED BY <2>3, <3>1
  <2> QED BY <2>3, <2>4, <2>5
<1> HIDE DEF u, v
<1>5. Len(u) = Len(v)
  BY <1>1, <1>3, <1>4 DEF a
<1>6. ASSUME NEW i \in 1..Len(u) PROVE u[i] = v[i]
  <2>1. /\ n + i \in 1..Len(h) + Len(c) /\ ~(n + i <= Len(h))
        /\ n + i - Len(h) = n - Len(h) + i
    BY <1>1, <1>3 DEF a
  <2>2. a[n + i] = c[n + i - Len(h)]
    BY <1>1, <2>1 DEF a
  <2>3. i \in 1..Len(a) - n /\ i \in 1..Len(c) - (n - Len(h))
    BY <1>3, <1>4, <1>5
  <2>4. u[i] = a[n + i]
    BY <1>3, <2>3
  <2>5. v[i] = c[n - Len(h) + i]
    BY <1>4, <2>3
  <2> QED BY <2>1, <2>2, <2>4, <2>5
<1>7. u = v
  BY <1>3, <1>4, <1>5, <1>6, SeqEqual
<1> QED BY <1>7 DEF Beyond, u, v, a

(* What a chunk is like when no pair of bytes is cut at its end and nothing *)
(* follows an RTCP packet in it.                                           *)
Clear(x) == x # << >> => /\ x[Len(x)] \notin {"$", "h"}
                         /\ \A i \in 1..Len(x) - 1 : x[i] # "z"

(* The rest of such a chunk is one.                                        *)
LEMMA RestClear ==
  ASSUME NEW x \in Seq(Byte), Clear(x), NEW k \in Nat
  PROVE  /\ Beyond(x, k) \in Seq(Byte)
         /\ Len(Beyond(x, k)) = IF k <= Len(x) THEN Len(x) - k ELSE 0
         /\ Clear(Beyond(x, k))
<1> DEFINE y == SubSeq(x, k + 1, Len(x))
<1>1. Len(x) \in Nat /\ \A i \in 1..Len(x) : x[i] \in Byte
  BY ElementOfSeq
<1>2. /\ y \in Seq(Byte) /\ Len(y) = IF k <= Len(x) THEN Len(x) - k ELSE 0
      /\ \A i \in 1..Len(x) - k : y[i] = x[k + i]
  BY <1>1, SubSeqProperties
<1> HIDE DEF y
<1>3. ASSUME y # << >> PROVE y[Len(y)] \notin {"$", "h"} /\ \A i \in 1..Len(y) - 1 : y[i] # "z"
  <2>1. Len(y) \in 1..Len(x) - k /\ k + Len(y) = Len(x) /\ x # << >>
    BY <1>1, <1>2, <1>3, EmptySeq
  <2>2. y[Len(y)] = x[Len(x)]
    BY <1>2, <2>1
  <2>3. ASSUME NEW i \in 1..Len(y) - 1 PROVE y[i] # "z"
    <3>1. i \in 1..Len(x) - k /\ k + i \in 1..Len(x) - 1
      BY <1>1, <2>1
    <3> QED BY <1>2, <2>1, <3>1 DEF Clear
  <2> QED BY <2>1, <2>2, <2>3 DEF Clear
<1> QED BY <1>2, <1>3 DEF Clear, Beyond, y

(* A chunk that goes on with the body of an RTCP packet and ends within.   *)
LEMMA EatSome ==
  ASSUME NEW k \in Nat, NEW x \in Seq(Byte), NEW w \in Seq(Byte), NEW r \in Seq(Byte),
         x \o w = Body(k) \o r, Len(x) < k
  PROVE  w = Body(k - Len(x)) \o r
<1>1. PICK body \in Seq(Byte) : body = Body(k)
  BY BodyBytes, Zenon
<1>2. Len(body) = k /\ \A i \in 1..k : body[i] = IF i = k THEN "z" ELSE "d"
  BY <1>1, BodyBytes
<1>3. Len(x) \in Nat /\ Len(x) <= Len(body) /\ body \o r = x \o w
  BY <1>1, <1>2
<1> DEFINE y == Beyond(body, Len(x))
<1>4. y \in Seq(Byte) /\ y \o r = w
  <2>1. y \o r = w
    BY <1>3, DropLead, Zenon
  <2> QED BY <1>3, <2>1, BeyondType
<1>5. Len(y) = k - Len(x) /\ \A i \in 1..k - Len(x) : y[i] = body[Len(x) + i]
  <2>1. \A i \in 1..Len(body) : body[i] \in Byte
    BY ElementOfSeq
  <2> QED BY <1>2, <1>3, <2>1, SubSeqProperties DEF Beyond
<1> HIDE DEF y
<1>6. k - Len(x) \in Nat
  BY <1>3
<1>7. PICK z \in Seq(Byte) : z = Body(k - Len(x))
  BY <1>6, BodyBytes, Zenon
<1>8. Len(z) = k - Len(x) /\ \A i \in 1..k - Len(x) : z[i] = IF i = k - Len(x) THEN "z" ELSE "d"
  BY <1>6, <1>7, BodyBytes
<1>9. ASSUME NEW i \in 1..Len(y) PROVE y[i] = z[i]
  <2>1. /\ i \in 1..k - Len(x) /\ Len(x) + i \in 1..k
        /\ (Len(x) + i = k <=> i = k - Len(x))
    BY <1>3, <1>5, <1>6
  <2> QED BY <1>2, <1>5, <1>8, <2>1
<1>10. y = z
  BY <1>4, <1>5, <1>8, <1>9, SeqEqual
<1> QED BY <1>4, <1>7, <1>10

(* ... or is at the end of the chunk when the body ends in it.             *)
LEMMA EatAll ==
  ASSUME NEW k \in Nat \ {0}, NEW x \in Seq(Byte), NEW w \in Seq(Byte), NEW r \in Seq(Byte),
         x \o w = Body(k) \o r, Clear(x), k <= Len(x)
  PROVE  k = Len(x) /\ w = r
<1>1. PICK body \in Seq(Byte) : body = Body(k)
  BY BodyBytes, Zenon
<1>2. Len(body) = k /\ body[k] = "z" /\ x \o w = body \o r
  BY <1>1, BodyBytes
<1>3. Len(body) <= Len(x) /\ k \in 1..Len(body) /\ Len(x) \in Nat /\ x # << >>
  BY <1>2
<1>4. \A i \in 1..Len(body) : x[i] = body[i]
  BY <1>2, <1>3, LeadSame
<1>5. k = Len(x)
  BY <1>2, <1>3, <1>4 DEF Clear
<1>6. Beyond(x, Len(body)) \o w = r
  BY <1>2, <1>3, DropLead, Zenon
<1>7. Beyond(x, Len(body)) = << >>
  BY <1>2, <1>3, <1>5, SubSeqEmpty DEF Beyond
<1>8. << >> \o w = w
  OBVIOUS
<1> QED BY <1>5, <1>6, <1>7, <1>8

-----------------------------------------------------------------------------
(* Whatever the clients do, the byte that says a length is behind an "h":  *)
(* what OnRead reads of the length is a length.                            *)
Formed(x) == \A i \in 1..Len(x) : x[i] = "h" => i < Len(x) /\ x[i + 1] \in ToSet(Digits)

(* Of two parts.                                                           *)
LEMMA FormedConcat ==
  ASSUME NEW a \in Seq(Byte), NEW b \in Seq(Byte), Formed(a), Formed(b)
  PROVE  Formed(a \o b)
<1>1. /\ Len(a \o b) = Len(a) + Len(b) /\ Len(a) \in Nat /\ Len(b) \in Nat
      /\ \A i \in 1..Len(a) + Len(b) :
            (a \o b)[i] = IF i <= Len(a) THEN a[i] ELSE b[i - Len(a)]
  BY ConcatProperties
<1> DEFINE x == a \o b
<1> HIDE DEF x
<1>2. SUFFICES ASSUME NEW i \in 1..Len(a) + Len(b), x[i] = "h"
               PROVE  i < Len(a) + Len(b) /\ x[i + 1] \in ToSet(Digits)
  BY <1>1 DEF Formed, x
<1>3. CASE i <= Len(a)
  <2>1. i \in 1..Len(a) /\ a[i] = "h"
    BY <1>1, <1>2, <1>3 DEF x
  <2>2. i < Len(a) /\ a[i + 1] \in ToSet(Digits)
    BY <2>1 DEF Formed
  <2>3. i + 1 \in 1..Len(a) + Len(b) /\ i + 1 <= Len(a)
    BY <1>1, <2>2
  <2>4. x[i + 1] = a[i + 1]
    BY <1>1, <2>3 DEF x
  <2> QED BY <1>1, <2>2, <2>4
<1>4. CASE ~(i <= Len(a))
  <2>1. i - Len(a) \in 1..Len(b) /\ b[i - Len(a)] = "h"
    BY <1>1, <1>2, <1>4 DEF x
  <2>2. i - Len(a) < Len(b) /\ b[i - Len(a) + 1] \in ToSet(Digits)
    BY <2>1 DEF Formed
  <2>3. /\ i + 1 \in 1..Len(a) + Len(b) /\ ~(i + 1 <= Len(a))
        /\ i + 1 - Len(a) = i - Len(a) + 1
    BY <1>1, <1>4, <2>1, <2>2
  <2>4. x[i + 1] = b[i + 1 - Len(a)]
    BY <1>1, <2>3 DEF x
  <2> QED BY <1>1, <2>1, <2>2, <2>3, <2>4
<1> QED BY <1>3, <1>4

(* Of what is left.                                                        *)
LEMMA FormedBeyond ==
  ASSUME NEW a \in Seq(Byte), NEW b \in Seq(Byte), Formed(a \o b), NEW k \in Nat
  PROVE  Formed(b) /\ Formed(Beyond(a, k) \o b)
<1>1. /\ a \o b \in Seq(Byte) /\ Len(a \o b) = Len(a) + Len(b)
      /\ Len(a) \in Nat /\ Len(b) \in Nat
      /\ \A i \in 1..Len(a) + Len(b) :
            (a \o b)[i] = IF i <= Len(a) THEN a[i] ELSE b[i - Len(a)]
  BY ConcatProperties
<1>2. PICK x \in Seq(Byte) : x = a \o b
  BY <1>1, Zenon
<1>3. /\ Len(x) = Len(a) + Len(b) /\ Formed(x)
      /\ \A i \in 1..Len(a) + Len(b) : x[i] = IF i <= Len(a) THEN a[i] ELSE b[i - Len(a)]
  BY <1>1, <1>2
<1>4. Formed(b)
  <2> SUFFICES ASSUME NEW i \in 1..Len(b), b[i] = "h"
               PROVE  i < Len(b) /\ b[i + 1] \in ToSet(Digits)
    BY DEF Formed
  <2>1. /\ Len(a) + i \in 1..Len(x) /\ ~(Len(a) + i <= Len(a))
        /\ Len(a) + i - Len(a) = i
    BY <1>1, <1>3
  <2>2. x[Len(a) + i] = "h"
    BY <1>3, <2>1
  <2>3. Len(a) + i < Len(x) /\ x[Len(a) + i + 1] \in ToSet(Digits)
    BY <2>1, <2>2, <1>3 DEF Formed
  <2>4. /\ Len(a) + i + 1 \in 1..Len(a) + Len(b) /\ ~(Len(a) + i + 1 <= Len(a))
        /\ Len(a) + i + 1 - Len(a) = i + 1
    BY <1>1, <1>3, <2>3
  <2>5. x[Len(a) + i + 1] = b[i + 1]
    BY <1>3, <2>4
  <2> QED BY <1>1, <1>3, <2>3, <2>5
<1>5. CASE k <= Len(a)
  <2>1. PICK y \in Seq(Byte) : y = Beyond(a, k)
    BY BeyondType, Zenon
  <2>2. Len(y) = Len(a) - k /\ \A i \in 1..Len(a) - k : y[i] = a[k + i]
    BY <1>5, <2>1, BeyondType
  <2>3. PICK z \in Seq(Byte) : z = y \o b
    BY ConcatProperties, Zenon
  <2>4. /\ Len(z) = Len(y) + Len(b)
        /\ \A i \in 1..Len(y) + Len(b) : z[i] = IF i <= Len(y) THEN y[i] ELSE b[i - Len(y)]
    BY <2>3, ConcatProperties
  <2>5. ASSUME NEW i \in 1..Len(z) PROVE k + i \in 1..Len(x) /\ z[i] = x[k + i]
    <3>1. k + i \in 1..Len(a) + Len(b) /\ Len(y) = Len(a) - k
      BY <1>1, <1>3, <1>5, <2>2, <2>4
    <3>2. CASE i <= Len(y)
      <4>1. z[i] = a[k + i]
        BY <2>2, <2>4, <3>2, <3>1
      <4> QED BY <4>1, <3>1, <3>2, <1>3
    <3>3. CASE ~(i <= Len(y))
      <4>1. z[i] = b[i - Len(y)] /\ i - Len(y) = k + i - Len(a) /\ ~(k + i <= Len(a))
        BY <1>1, <2>4, <3>3, <3>1
      <4> QED BY <4>1, <3>1, <1>3
    <3> QED BY <3>2, <3>3
  <2>6. Formed(z)
    <3> SUFFICES ASSUME NEW i \in 1..Len(z), z[i] = "h"
                 PROVE  i < Len(z) /\ z[i + 1] \in ToSet(Digits)
      BY DEF Formed
    <3>1. k + i \in 1..Len(x) /\ x[k + i] = "h"
      BY <2>5
    <3>2. k + i < Len(x) /\ x[k + i + 1] \in ToSet(Digits)
      BY <3>1, <1>3 DEF Formed
    <3>3. i + 1 \in 1..Len(z) /\ k + (i + 1) = k + i + 1
      BY <1>1, <1>3, <2>2, <2>4, <3>2
    <3> QED BY <2>5, <3>2, <3>3
  <2> QED BY <1>4, <2>1, <2>3, <2>6
<1>6. CASE ~(k <= Len(a))
  <2>1. Beyond(a, k) = << >>
    BY <1>1, <1>6, SubSeqEmpty DEF Beyond
  <2>2. << >> \o b = b
    OBVIOUS
  <2> QED BY <1>4, <2>1, <2>2
<1> QED BY <1>5, <1>6

(* Of a message.                                                           *)
LEMMA FormedMessage ==
  ASSUME NEW m \in Messages
  PROVE  Formed(m)
<1>1. CASE IsRequest(m)
  <2>1. PICK n \in Nat \ {0}, end \in {"e", "b"} : m = Request(n, end)
    BY <1>1, MessageKinds
  <2>2. m \in Seq(Byte) /\ Len(m) = n /\ m[n] = end /\ \A i \in 1..n - 1 : m[i] = "r"
    BY <2>1, RequestBytes
  <2>3. \A i \in 1..Len(m) : m[i] # "h"
    BY <2>2
  <2> QED BY <2>3 DEF Formed
<1>2. CASE ~IsRequest(m)
  <2>1. PICK n \in 0..2 : m = Rtcp(n)
    BY <1>2, MessageKinds
  <2>2. PICK a \in Seq(Byte), b \in Seq(Byte), c \in Seq(Byte) :
           a = Lead /\ b = Length(n) /\ c = Body(n)
    <3>1. Lead \in Seq(Byte) /\ Length(n) \in Seq(Byte)
      BY LeadLength
    <3>2. n \in Nat
      OBVIOUS
    <3>3. Body(n) \in Seq(Byte)
      BY <3>2, BodyBytes
    <3> QED BY <3>1, <3>3, Zenon
  <2>3. m = a \o (b \o c)
    BY <2>1, <2>2, RtcpBytes, Zenon
  <2>4. Formed(a) /\ Formed(b)
    <3>1. /\ Len(a) = 2 /\ a[1] = "$" /\ a[2] = "c"
          /\ Len(b) = 2 /\ b[1] = "h" /\ b[2] = Digits[n + 1]
      BY <2>2, LeadLength
    <3>2. Digits[n + 1] \in ToSet(Digits) /\ Digits[n + 1] # "h"
      BY DigitValue DEF Digits
    <3> QED BY <3>1, <3>2 DEF Formed
  <2>5. Formed(c)
    BY <2>2, BodyBytes DEF Formed
  <2>6. Formed(b \o c) /\ b \o c \in Seq(Byte)
    BY <2>4, <2>5, FormedConcat, ConcatProperties
  <2> QED BY <2>3, <2>4, <2>6, FormedConcat
<1> QED BY <1>1, <1>2

(* Of all that a client sends.                                             *)
LEMMA FormedStream ==
  ASSUME NEW ms \in Seq(Messages)
  PROVE  FlattenSeq(ms) \in Seq(Byte) /\ Formed(FlattenSeq(ms))
<1> DEFINE T == {x \in Seq(Byte) : Formed(x)}
<1>1. T \in SUBSET Seq(Byte) /\ << >> \in T
  BY DEF Formed
<1>2. \A a, b \in T : a \o b \in T
  BY FormedConcat, ConcatProperties
<1>3. ms \in Seq(T)
  <2>1. \A i \in 1..Len(ms) : ms[i] \in T
    BY ElementOfSeq, MessagesAreBytes, FormedMessage
  <2> HIDE DEF T
  <2> QED BY <2>1
<1> HIDE DEF T
<1>4. FlattenSeq(ms) \in T
  BY <1>1, <1>2, <1>3, FlattenClosed
<1> QED BY <1>4 DEF T

-----------------------------------------------------------------------------
(* Lengths and their arithmetic: size_t, and the length of what is held,   *)
(* which grows by a chunk at most for each client that is refused.         *)
LEMMA MinusFacts ==
  ASSUME NEW a \in Int, NEW b \in Int
  PROVE  /\ Minus(a, b) \in 0..Modulus - 1
         /\ a - b \in 0..Modulus - 1 => Minus(a, b) = a - b
<1>1. Modulus \in Nat \ {0}
  BY RtspInputAssumption
<1> QED BY <1>1 DEF Minus

Bound(n) == MaxRequest + n * MaxChunk

(* A client more, a chunk more.                                            *)
LEMMA BoundStep ==
  ASSUME NEW n \in Nat
  PROVE  /\ Bound(n) \in Nat /\ MaxRequest <= Bound(n)
         /\ Bound(n + 1) = Bound(n) + MaxChunk
<1>1. MaxRequest \in Nat /\ MaxChunk \in Nat
  BY RtspInputAssumption
<1>2. n * MaxChunk \in Nat /\ (n + 1) * MaxChunk = n * MaxChunk + MaxChunk
  BY <1>1
<1> QED BY <1>1, <1>2 DEF Bound

(* The end of a request is the first byte that ends one.                   *)
LEMMA EndFacts ==
  ASSUME NEW x \in Seq(Byte), Ended(x)
  PROVE  /\ End(x) \in 1..Len(x)
         /\ x[End(x)] \in {"e", "b"}
         /\ \A j \in 1..End(x) - 1 : x[j] \notin {"e", "b"}
<1> DEFINE T == {i \in 1..Len(x) : x[i] \in {"e", "b"}}
           At(i) == x[i] \in {"e", "b"} /\ \A j \in 1..i - 1 : x[j] \notin {"e", "b"}
<1>1. DOMAIN x = 1..Len(x) /\ Len(x) \in Nat
  OBVIOUS
<1>2. T \in SUBSET Nat /\ T # {}
  BY <1>1 DEF Ended
<1>3. PICK i \in T : \A j \in T : i <= j
  BY <1>2, Least
<1>4. \A j \in 1..i - 1 : x[j] \notin {"e", "b"}
  <2> SUFFICES ASSUME NEW j \in 1..i - 1, x[j] \in {"e", "b"} PROVE FALSE
    OBVIOUS
  <2>1. j \in 1..Len(x) /\ ~(i <= j)
    BY <1>1, <1>3
  <2>2. j \in T
    BY <2>1
  <2> QED BY <1>3, <2>1, <2>2
<1>5. \E k \in 1..Len(x) : At(k)
  BY <1>3, <1>4
<1>6. End(x) = CHOOSE k \in 1..Len(x) : At(k)
  BY <1>1 DEF End
<1> HIDE DEF At
<1>7. End(x) \in 1..Len(x) /\ At(End(x))
  BY <1>5, <1>6
<1> QED BY <1>7 DEF At

-----------------------------------------------------------------------------
(* The types, with what keeps them: the bytes to come say lengths where    *)
(* OnRead reads them, and what is held is bounded.                         *)
Chunks == IF open THEN nth - 1 ELSE nth

TypeInv == /\ TypeOK
           /\ wire \in Seq(Byte) /\ chunk \in Seq(Byte)
           /\ Formed(chunk \o wire)
           /\ Len(chunk) <= MaxChunk
           /\ open => nth > 0
           /\ Len(held) <= Bound(Chunks)

(* Before the first client.                                                *)
LEMMA TypeBegins == Init => TypeInv
<1> SUFFICES ASSUME Init PROVE TypeInv
  OBVIOUS
<1>1. /\ sent \in Seq(Messages) /\ got \in Seq(Seq(Byte)) /\ held \in Seq(Byte)
      /\ wire \in Seq(Byte) /\ chunk \in Seq(Byte)
      /\ Len(held) = 0 /\ Len(chunk) = 0 /\ chunk \o wire = << >>
  BY DEF Init
<1>2. /\ MaxChunk \in Nat \ {0} /\ MaxClients \in Nat
      /\ 0 \in 0..Modulus - 1 /\ 0 \in 0..MaxClients
  BY RtspInputAssumption
<1>3. Bound(0) \in Nat
  BY BoundStep
<1>4. nth = 0 /\ open = FALSE /\ l = 0 /\ type = 0 /\ need = 0
  BY DEF Init
<1>5. Formed(chunk \o wire)
  BY <1>1 DEF Formed
<1>6. Len(held) <= Bound(nth) /\ Chunks = nth
  BY <1>1, <1>3, <1>4 DEF Chunks
<1>7. TypeOK
  <2>1. Len(held) <= MaxRequest + nth * MaxChunk
    BY <1>6 DEF Bound
  <2>2. open \in BOOLEAN
    BY <1>4, Zenon
  <2>3. type \in 0..2 /\ need \in 0..2
    BY <1>4
  <2>4. nth \in 0..MaxClients /\ l \in 0..Modulus - 1
    BY <1>2, <1>4
  <2> QED BY <1>1, <2>1, <2>2, <2>3, <2>4, Zenon DEF TypeOK
<1> QED BY <1>1, <1>2, <1>4, <1>5, <1>6, <1>7 DEF TypeInv

(* A client begins: a chunk more may come to be held.                      *)
LEMMA HandleTypes == TypeInv /\ Handle => TypeInv'
<1> SUFFICES ASSUME TypeInv, Handle PROVE TypeInv'
  OBVIOUS
<1> USE DEF Handle, parser, TypeInv, TypeOK
<1>1. sent' \in Seq(Messages)
  <2>1. PICK n \in 1..MaxMessages : sent' \in [1..n -> Messages]
    OBVIOUS
  <2>2. n \in Nat
    BY RtspInputAssumption
  <2> QED BY <2>1, <2>2
<1>2. wire' \in Seq(Byte) /\ Formed(wire')
  BY <1>1, FormedStream
<1>3. chunk' = << >> /\ Formed(chunk' \o wire')
  BY <1>2
<1>4. nth \in Nat /\ nth' = nth + 1 /\ nth' \in 0..MaxClients /\ open' = TRUE /\ open = FALSE
  BY RtspInputAssumption
<1>5. Len(held') <= Bound(nth) /\ Chunks' = nth
  BY <1>4 DEF Chunks
<1>6. Len(held') \in Nat /\ Bound(nth') = Bound(nth) + MaxChunk /\ Bound(nth) \in Nat
      /\ MaxChunk \in Nat
  <2>1. held' \in Seq(Byte) /\ MaxChunk \in Nat
    BY RtspInputAssumption
  <2>2. Bound(nth + 1) = Bound(nth) + MaxChunk /\ Bound(nth) \in Nat
    BY <1>4, BoundStep
  <2> QED BY <1>4, <2>1, <2>2
<1>7. Len(held') <= MaxRequest + nth' * MaxChunk
  BY <1>5, <1>6, SMTT(30) DEF Bound
<1>8. 0 \in 0..Modulus - 1 /\ Len(chunk') <= MaxChunk /\ << >> \in Seq(Seq(Byte))
      /\ chunk' \in Seq(Byte)
  BY <1>3, <1>6, RtspInputAssumption
<1> QED BY <1>1, <1>2, <1>3, <1>4, <1>5, <1>7, <1>8

(* A step that leaves the client as it is, or that only closes it, keeps   *)
(* the types when it keeps those of the parsers.                           *)
LEMMA ParserTypes ==
  ASSUME TypeInv,
         UNCHANGED <<sent, wire, nth>>, open, open' \in BOOLEAN,
         chunk' \in Seq(Byte), Len(chunk') <= MaxChunk, Formed(chunk' \o wire),
         got' \in Seq(Seq(Byte)), held' \in Seq(Byte),
         Len(held') <= Bound(IF open' THEN nth - 1 ELSE nth),
         l' \in 0..Modulus - 1, type' \in 0..2, need' \in 0..2
  PROVE  TypeInv'
<1>1. nth \in Nat /\ nth - 1 \in Nat /\ nth - 1 + 1 = nth
  BY DEF TypeInv, TypeOK
<1>2. Bound(nth) = Bound(nth - 1) + MaxChunk /\ Bound(nth - 1) \in Nat /\ MaxChunk \in Nat
  BY <1>1, BoundStep, RtspInputAssumption
<1>3. Len(held') \in Nat
  OBVIOUS
<1>4. Len(held') <= Bound(nth)
  BY <1>2, <1>3
<1>5. Len(held') <= MaxRequest + nth' * MaxChunk
  BY <1>4 DEF Bound
<1>6. Chunks' = IF open' THEN nth - 1 ELSE nth
  BY DEF Chunks
<1>7. TypeOK'
  BY <1>5 DEF TypeInv, TypeOK
<1>8. Len(held') <= Bound(Chunks')
  BY <1>6
<1> QED BY <1>1, <1>7, <1>8 DEF TypeInv, Bound

(* What the parser of requests sees.                                       *)
LEMMA AllFacts ==
  ASSUME TypeInv, open
  PROVE  /\ All \in Seq(Byte) /\ Len(All) = Len(held) + Len(chunk)
         /\ Len(held) \in Nat /\ Len(chunk) \in Nat /\ nth \in Nat /\ nth - 1 \in Nat
         /\ Len(All) <= Bound(nth)
         /\ Fits => Len(All) <= Bound(nth - 1)
<1>1. /\ held \in Seq(Byte) /\ chunk \in Seq(Byte) /\ nth \in Nat /\ nth - 1 \in Nat
      /\ Len(held) <= Bound(nth - 1) /\ Len(chunk) <= MaxChunk
  BY DEF TypeInv, TypeOK, Chunks
<1>2. All \in Seq(Byte) /\ Len(All) = Len(held) + Len(chunk)
  BY <1>1, ConcatProperties DEF All
<1>3. /\ Bound((nth - 1) + 1) = Bound(nth - 1) + MaxChunk /\ Bound(nth - 1) \in Nat
      /\ MaxRequest <= Bound(nth - 1)
  BY <1>1, BoundStep
<1>4. (nth - 1) + 1 = nth /\ MaxChunk \in Nat /\ MaxRequest \in Nat
  BY <1>1, RtspInputAssumption
<1>5. Len(held) \in Nat /\ Len(chunk) \in Nat
  BY <1>1
<1>6. Len(All) <= Bound(nth)
  BY <1>1, <1>2, <1>3, <1>4, <1>5
<1>7. ASSUME Fits PROVE Len(All) <= Bound(nth - 1)
  BY <1>2, <1>3, <1>4, <1>5, <1>7 DEF Fits
<1> QED BY <1>1, <1>2, <1>5, <1>6, <1>7

(* What is left of a chunk.                                                *)
LEMMA RestFacts ==
  ASSUME TypeInv, NEW k \in Nat
  PROVE  /\ Rest(k) = Beyond(chunk, k)
         /\ Rest(k) \in Seq(Byte) /\ Len(Rest(k)) <= MaxChunk
         /\ Formed(Rest(k) \o wire)
<1>1. /\ chunk \in Seq(Byte) /\ wire \in Seq(Byte) /\ Formed(chunk \o wire)
      /\ Len(chunk) <= MaxChunk /\ MaxChunk \in Nat
  BY RtspInputAssumption DEF TypeInv
<1>2. Rest(k) = Beyond(chunk, k)
  BY DEF Rest, Beyond
<1>3. /\ Beyond(chunk, k) \in Seq(Byte)
      /\ Len(Beyond(chunk, k)) = IF k <= Len(chunk) THEN Len(chunk) - k ELSE 0
  BY <1>1, BeyondType
<1>4. Formed(Beyond(chunk, k) \o wire)
  BY <1>1, FormedBeyond
<1>5. Len(chunk) \in Nat
  BY <1>1
<1>6. Len(Beyond(chunk, k)) <= MaxChunk
  BY <1>1, <1>3, <1>5
<1> QED BY <1>2, <1>3, <1>4, <1>6

(* What a parser sees of the variables.                                    *)
LEMMA ParsingFacts ==
  ASSUME TypeInv, NEW t, Parsing(t)
  PROVE  /\ open /\ type = t /\ l = Len(chunk) /\ l \in Nat /\ l > 0 /\ l <= MaxChunk
         /\ chunk \in Seq(Byte) /\ chunk # << >> /\ wire \in Seq(Byte)
         /\ held \in Seq(Byte) /\ need \in 0..2 /\ got \in Seq(Seq(Byte))
         /\ Len(held) <= Bound(nth - 1)
  BY DEF TypeInv, TypeOK, Parsing, InStep, Chunks

(* The pair that is skipped leaves lengths where they are read.            *)
LEMMA ClassifyTypes == TypeInv /\ Classify => TypeInv'
<1> SUFFICES ASSUME TypeInv, Classify PROVE TypeInv'
  OBVIOUS
<1>1. Parsing(0) /\ UNCHANGED <<client, got, held, need>>
  BY DEF Classify
<1>2. /\ open /\ open' = open /\ UNCHANGED <<sent, wire, nth, got, held, need>>
      /\ l \in Int /\ chunk \in Seq(Byte) /\ Len(chunk) <= MaxChunk
      /\ Formed(chunk \o wire) /\ l \in 0..Modulus - 1
      /\ got \in Seq(Seq(Byte)) /\ held \in Seq(Byte) /\ need \in 0..2
      /\ Len(held) <= Bound(nth - 1) /\ open' \in BOOLEAN
  BY <1>1, ParsingFacts DEF client, TypeInv, TypeOK
<1>3. CASE Head(chunk) # "$"
  <2>1. type' = 1 /\ chunk' = chunk /\ l' = l
    BY <1>3 DEF Classify
  <2> QED BY <1>2, <2>1, ParserTypes
<1>4. CASE Head(chunk) = "$"
  <2>1. type' = 2 /\ chunk' = Rest(2) /\ l' = Minus(l, 2)
    BY <1>4 DEF Classify
  <2>2. l' \in 0..Modulus - 1
    BY <1>2, <2>1, MinusFacts
  <2>3. chunk' \in Seq(Byte) /\ Len(chunk') <= MaxChunk /\ Formed(chunk' \o wire)
    BY <2>1, RestFacts
  <2> QED BY <1>2, <2>1, <2>2, <2>3, ParserTypes
<1> QED BY <1>3, <1>4

(* A request is taken off the chunk.                                       *)
LEMMA RequestOkTypes == TypeInv /\ RequestOk => TypeInv'
<1> SUFFICES ASSUME TypeInv, RequestOk PROVE TypeInv'
  OBVIOUS
<1>1. /\ Parsing(1) /\ Ended(All) /\ UNCHANGED <<client, need>>
      /\ got' = Append(got, SubSeq(All, 1, End(All)))
      /\ held' = << >> /\ type' = 0 /\ chunk' = Rest(Used) /\ l' = Minus(l, Used)
  BY DEF RequestOk, Taken
<1>2. /\ open /\ open' \in BOOLEAN /\ open' = open /\ UNCHANGED <<sent, wire, nth, need>>
      /\ l \in Int /\ got \in Seq(Seq(Byte)) /\ need \in 0..2
      /\ held \in Seq(Byte)
  BY <1>1, ParsingFacts DEF client, TypeInv, TypeOK
<1>3. /\ All \in Seq(Byte) /\ nth - 1 \in Nat /\ Len(held) \in Nat
      /\ End(All) \in 1..Len(All)
  BY <1>1, <1>2, AllFacts, EndFacts
<1>4. Used \in Nat /\ Used \in Int /\ l' \in 0..Modulus - 1
  <2>1. Used \in 0..Modulus - 1
    BY <1>3, MinusFacts DEF Used
  <2> QED BY <2>1, <1>1, <1>2, MinusFacts
<1>5. chunk' \in Seq(Byte) /\ Len(chunk') <= MaxChunk /\ Formed(chunk' \o wire)
  BY <1>1, <1>4, RestFacts
<1>6. got' \in Seq(Seq(Byte))
  <2>1. \A i \in 1..End(All) : All[i] \in Byte
    BY <1>3
  <2>2. SubSeq(All, 1, End(All)) \in Seq(Byte)
    BY <1>3, <2>1, SubSeqProperties
  <2> QED BY <1>1, <1>2, <2>2
<1>7. held' \in Seq(Byte) /\ Len(held') <= Bound(nth - 1)
  <2>1. Bound(nth - 1) \in Nat
    BY <1>3, BoundStep
  <2> QED BY <1>1, <2>1
<1>8. type' \in 0..2 /\ need' \in 0..2
  BY <1>1, <1>2
<1> QED BY <1>2, <1>4, <1>5, <1>6, <1>7, <1>8, ParserTypes

(* What is held fits.                                                      *)
LEMMA RequestContinuesTypes == TypeInv /\ RequestContinues => TypeInv'
<1> SUFFICES ASSUME TypeInv, RequestContinues PROVE TypeInv'
  OBVIOUS
<1>1. /\ Parsing(1) /\ Fits /\ UNCHANGED <<client, got, type, need>>
      /\ held' = All /\ chunk' = << >> /\ l' = 0
  BY DEF RequestContinues
<1>2. /\ open /\ open' \in BOOLEAN /\ open' = open
      /\ UNCHANGED <<sent, wire, nth, got, type, need>>
      /\ got \in Seq(Seq(Byte)) /\ need \in 0..2 /\ type \in 0..2
      /\ wire \in Seq(Byte) /\ chunk \in Seq(Byte) /\ Formed(chunk \o wire)
  BY <1>1, ParsingFacts DEF client, TypeInv, TypeOK
<1>3. held' \in Seq(Byte) /\ Len(held') <= Bound(nth - 1)
  BY <1>1, <1>2, AllFacts
<1>4. /\ chunk' \in Seq(Byte) /\ Len(chunk') <= MaxChunk /\ l' \in 0..Modulus - 1
  BY <1>1, RtspInputAssumption
<1>5. Formed(chunk' \o wire)
  <2>1. << >> \o wire = wire
    BY <1>2
  <2>2. Formed(wire)
    BY <1>2, FormedBeyond
  <2> QED BY <1>1, <2>1, <2>2
<1> QED BY <1>2, <1>3, <1>4, <1>5, ParserTypes

(* A client that is refused leaves a chunk more behind.                    *)
LEMMA RequestRefusedTypes == TypeInv /\ RequestRefused => TypeInv'
<1> SUFFICES ASSUME TypeInv, RequestRefused PROVE TypeInv'
  OBVIOUS
<1>1. /\ Parsing(1) /\ UNCHANGED <<sent, wire, nth, got, type, need>>
      /\ ~Fits \/ (Ended(All) /\ All[End(All)] = "b")
      /\ held' = All /\ open' = FALSE
      /\ IF Fits THEN chunk' = Rest(Used) /\ l' = Minus(l, Used)
                 ELSE UNCHANGED <<chunk, l>>
  BY DEF RequestRefused, Taken
<1>2. /\ open /\ open' \in BOOLEAN
      /\ got \in Seq(Seq(Byte)) /\ need \in 0..2 /\ type \in 0..2
      /\ chunk \in Seq(Byte) /\ Formed(chunk \o wire) /\ Len(chunk) <= MaxChunk
      /\ l \in 0..Modulus - 1 /\ l \in Int /\ held \in Seq(Byte)
  <2>1. open /\ chunk \in Seq(Byte) /\ l \in Int /\ held \in Seq(Byte)
    BY <1>1, ParsingFacts
  <2>2. /\ got \in Seq(Seq(Byte)) /\ need \in 0..2 /\ type \in 0..2
        /\ l \in 0..Modulus - 1
        /\ Formed(chunk \o wire) /\ Len(chunk) <= MaxChunk
    BY Zenon DEF TypeInv, TypeOK
  <2>3. open' \in BOOLEAN
    BY <1>1
  <2> QED BY <2>1, <2>2, <2>3
<1>3. held' \in Seq(Byte) /\ Len(held') <= Bound(nth)
  BY <1>1, <1>2, AllFacts
<1>4. CASE Fits
  <2>1. All \in Seq(Byte) /\ Len(held) \in Nat /\ End(All) \in 1..Len(All)
    BY <1>1, <1>2, <1>4, AllFacts, EndFacts
  <2>2. Used \in 0..Modulus - 1
    BY <2>1, MinusFacts DEF Used
  <2>3. l' \in 0..Modulus - 1
    BY <1>1, <1>2, <1>4, <2>2, MinusFacts
  <2>4. chunk' \in Seq(Byte) /\ Len(chunk') <= MaxChunk /\ Formed(chunk' \o wire)
    BY <1>1, <1>4, <2>2, RestFacts
  <2> QED BY <1>1, <1>2, <1>3, <2>3, <2>4, ParserTypes
<1>5. CASE ~Fits
  <2>1. chunk' = chunk /\ l' = l
    BY <1>1, <1>5
  <2> QED BY <1>1, <1>2, <1>3, <2>1, ParserTypes
<1> QED BY <1>4, <1>5

(* The length that is read is one: of the bytes behind the pair skipped,   *)
(* or what is kept of it.                                                  *)
LEMMA WantedFacts ==
  ASSUME TypeInv, Parsing(2), Whole
  PROVE  /\ Wanted \in 0..2 /\ Header \in 0..2 /\ Header <= l /\ l \in Nat
         /\ Eaten \in 0..Wanted /\ Eaten <= l - Header
         /\ Eaten = IF Wanted <= l - Header THEN Wanted ELSE l - Header
<1>1. /\ l = Len(chunk) /\ l \in Nat /\ l > 0 /\ need \in 0..2
      /\ chunk \in Seq(Byte) /\ wire \in Seq(Byte) /\ Formed(chunk \o wire)
  BY ParsingFacts DEF TypeInv
<1>2. ASSUME Fresh PROVE l >= 2 /\ Value(chunk[2]) \in 0..2
  <2>1. l >= 2 /\ chunk[1] = "h"
    BY <1>2 DEF Whole
  <2>2. PICK x \in Seq(Byte) : x = chunk \o wire
    BY <1>1, ConcatProperties, Zenon
  <2>3. /\ Len(x) = Len(chunk) + Len(wire) /\ Len(wire) \in Nat
        /\ \A i \in 1..Len(chunk) + Len(wire) :
              x[i] = IF i <= Len(chunk) THEN chunk[i] ELSE wire[i - Len(chunk)]
    BY <1>1, <2>2, ConcatProperties
  <2>4. 1 \in 1..Len(x) /\ x[1] = "h" /\ x[2] = chunk[2]
    BY <1>1, <2>1, <2>3
  <2>5. x[1 + 1] \in ToSet(Digits)
    BY <1>1, <2>2, <2>4 DEF Formed
  <2> QED BY <2>1, <2>4, <2>5, ValueType
<1>3. CASE Fresh
  <2>1. Wanted = Value(chunk[2]) /\ Header = 2
    BY <1>3 DEF Wanted, Header
  <2> QED BY <1>1, <1>2, <1>3, <2>1 DEF Eaten
<1>4. CASE ~Fresh
  <2>1. Wanted = need /\ Header = 0
    BY <1>4 DEF Wanted, Header
  <2> QED BY <1>1, <2>1 DEF Eaten
<1> QED BY <1>3, <1>4

(* What is still wanted of a packet is a length.                           *)
LEMMA RtcpParseTypes == TypeInv /\ RtcpParse => TypeInv'
<1> SUFFICES ASSUME TypeInv, RtcpParse PROVE TypeInv'
  OBVIOUS
<1>1. /\ Parsing(2) /\ Whole /\ UNCHANGED <<client, got, held>>
      /\ need' = Wanted - Eaten /\ type' = (IF need' = 0 THEN 0 ELSE 2)
      /\ chunk' = << >> /\ l' = Minus(Header + Eaten, l)
  BY DEF RtcpParse
<1>2. /\ open /\ open' \in BOOLEAN /\ open' = open
      /\ UNCHANGED <<sent, wire, nth, got, held>>
      /\ got \in Seq(Seq(Byte)) /\ held \in Seq(Byte) /\ Len(held) <= Bound(nth - 1)
      /\ wire \in Seq(Byte) /\ chunk \in Seq(Byte) /\ Formed(chunk \o wire)
  BY <1>1, ParsingFacts DEF client, TypeInv, TypeOK
<1>3. /\ Wanted \in 0..2 /\ Header \in 0..2 /\ l \in Nat /\ Eaten \in 0..Wanted
  BY <1>1, WantedFacts
<1>4. need' \in 0..2 /\ type' \in 0..2 /\ l' \in 0..Modulus - 1
  <2>1. Header + Eaten \in Int /\ l \in Int
    BY <1>3
  <2>2. Minus(Header + Eaten, l) \in 0..Modulus - 1
    BY <2>1, MinusFacts
  <2>3. need' \in 0..2
    BY <1>1, <1>3
  <2>4. type' \in 0..2
    BY <1>1
  <2> QED BY <1>1, <2>2, <2>3, <2>4
<1>5. chunk' \in Seq(Byte) /\ Len(chunk') <= MaxChunk
  BY <1>1, RtspInputAssumption
<1>6. Formed(chunk' \o wire)
  <2>1. << >> \o wire = wire
    BY <1>2
  <2>2. Formed(wire)
    BY <1>2, FormedBeyond
  <2> QED BY <1>1, <2>1, <2>2
<1> QED BY <1>2, <1>4, <1>5, <1>6, ParserTypes

(* What is received is divided between the chunk and the wire.             *)
LEMMA RecvFacts ==
  ASSUME TypeInv, Recv
  PROVE  /\ wire = chunk' \o wire' /\ chunk' \in Seq(Byte) /\ wire' \in Seq(Byte)
         /\ l' = Len(chunk') /\ l' \in Nat \ {0} /\ l' <= MaxChunk
         /\ Cut(chunk')
         /\ open /\ l = 0 /\ UNCHANGED <<sent, nth, open, tidy, got, parser>>
<1>1. PICK k \in 1..MaxChunk : /\ k <= Len(wire) /\ Cut(SubSeq(wire, 1, k))
                               /\ chunk' = SubSeq(wire, 1, k) /\ l' = k
                               /\ wire' = SubSeq(wire, k + 1, Len(wire))
  BY DEF Recv
<1>2. wire \in Seq(Byte) /\ MaxChunk \in Nat
  BY RtspInputAssumption DEF TypeInv
<1>3. k \in 0..Len(wire) /\ k \in Nat \ {0} /\ \A i \in 1..k : wire[i] \in Byte
  BY <1>1, <1>2, ElementOfSeq
<1>4. Len(SubSeq(wire, 1, k)) = k
  BY <1>3, SubSeqProperties
<1>5. /\ SubSeq(wire, 1, k) \in Seq(Byte) /\ SubSeq(wire, k + 1, Len(wire)) \in Seq(Byte)
      /\ wire = SubSeq(wire, 1, k) \o SubSeq(wire, k + 1, Len(wire))
  BY <1>2, <1>3, SplitAt
<1>6. open /\ l = 0 /\ UNCHANGED <<sent, nth, open, tidy, got, parser>>
  BY DEF Recv
<1>7. wire = chunk' \o wire' /\ chunk' \in Seq(Byte) /\ wire' \in Seq(Byte)
  BY <1>1, <1>5, Zenon
<1>8. l' = Len(chunk') /\ l' \in Nat \ {0} /\ l' <= MaxChunk /\ Cut(chunk')
  BY <1>1, <1>2, <1>3, <1>4
<1> QED BY <1>6, <1>7, <1>8

(* A chunk is the first bytes of the wire.                                 *)
LEMMA RecvTypes == TypeInv /\ Recv => TypeInv'
<1> SUFFICES ASSUME TypeInv, Recv PROVE TypeInv'
  OBVIOUS
<1>1. /\ wire = chunk' \o wire' /\ chunk' \in Seq(Byte) /\ wire' \in Seq(Byte)
      /\ l' = Len(chunk') /\ l' \in Nat \ {0} /\ l' <= MaxChunk
      /\ UNCHANGED <<sent, nth, open, tidy, got, type, held, need>>
  BY RecvFacts DEF parser
<1>2. l' \in 0..Modulus - 1
  BY <1>1, RtspInputAssumption
<1>3. Formed(chunk' \o wire')
  <2>1. Formed(wire)
    BY FormedBeyond DEF TypeInv
  <2> QED BY <1>1, <2>1
<1>4. TypeOK'
  BY <1>1, <1>2 DEF TypeInv, TypeOK
<1>5. (open' => nth' > 0) /\ Len(held') <= Bound(Chunks')
  BY <1>1 DEF TypeInv, Chunks
<1> QED BY <1>1, <1>3, <1>4, <1>5 DEF TypeInv

(* A client that leaves, leaves what is held.                              *)
LEMMA HangupTypes == TypeInv /\ Hangup => TypeInv'
<1> SUFFICES ASSUME TypeInv, Hangup PROVE TypeInv'
  OBVIOUS
<1>1. /\ open /\ open' = FALSE /\ UNCHANGED <<sent, wire, nth, got, chunk, l, type, held, need>>
  BY DEF Hangup, parser
<1>2. /\ held \in Seq(Byte) /\ nth - 1 \in Nat /\ (nth - 1) + 1 = nth
      /\ Len(held) <= Bound(nth - 1)
  BY <1>1 DEF TypeInv, TypeOK, Chunks
<1>3. Len(held) <= Bound(nth)
  <2>1. /\ Bound((nth - 1) + 1) = Bound(nth - 1) + MaxChunk /\ Bound(nth - 1) \in Nat
        /\ MaxChunk \in Nat
    BY <1>2, BoundStep, RtspInputAssumption
  <2> QED BY <1>2, <2>1
<1>4. TypeOK'
  BY <1>1 DEF TypeInv, TypeOK
<1>5. (open' => nth' > 0) /\ Len(held') <= Bound(Chunks')
  BY <1>1, <1>3 DEF Chunks
<1> QED BY <1>1, <1>4, <1>5 DEF TypeInv

(* The steps keep the types.                                               *)
LEMMA TypeStep == TypeInv /\ [Next]_vars => TypeInv'
<1> SUFFICES ASSUME TypeInv, [Next]_vars PROVE TypeInv'
  OBVIOUS
<1>1. CASE UNCHANGED vars
  BY <1>1 DEF vars, client, parser, TypeInv, TypeOK, Chunks
<1> QED BY <1>1, HandleTypes, RecvTypes, HangupTypes, ClassifyTypes, RequestOkTypes,
           RequestContinuesTypes, RequestRefusedTypes, RtcpParseTypes DEF Next

(* Whatever the clients send and do, and however TCP cuts it, l stays a    *)
(* size_t, what is held stays bounded, and a length that is read is one.   *)
THEOREM TypeCorrect == Spec => []TypeOK
<1>1. TypeInv => TypeOK
  BY DEF TypeInv
<1> QED BY <1>1, TypeBegins, TypeStep, PTL DEF Spec
-----------------------------------------------------------------------------
(* Where the parsers are in what the client sent, when d of its messages   *)
(* are done: between two of them, ...                                      *)
Between(d) == /\ type = 0 /\ held = << >> /\ need = 0
              /\ chunk \o wire = After(sent, d)

(* ... inside a request, of which a part is held, ...                      *)
InRequest(d) == /\ type = 1 /\ need = 0
                /\ d < Len(sent) /\ IsRequest(sent[d + 1])
                /\ held \o (chunk \o wire) = After(sent, d)
                /\ Len(held) < Len(sent[d + 1])
                /\ held # << >> \/ chunk # << >>

(* ... inside an RTCP packet, before its length or in its body.            *)
InRtcp(d) == /\ type = 2 /\ held = << >>
             /\ d < Len(sent)
             /\ \E k \in Lengths :
                   /\ sent[d + 1] = Rtcp(k)
                   /\ need = 0 => chunk \o wire
                                     = Length(k) \o (Body(k) \o After(sent, d + 1))
                   /\ need # 0 => chunk \o wire = Body(need) \o After(sent, d + 1)

Place(d) == /\ got = Done(sent, d)
            /\ Between(d) \/ InRequest(d) \/ InRtcp(d)

ParseInv == /\ open /\ tidy => /\ InStep /\ Clear(chunk)
                               /\ \E d \in 0..Len(sent) : Place(d)
            /\ ~open /\ tidy => type = 0 /\ held = << >> /\ need = 0

(* A message that is not done is still to come, whole.                     *)
LEMMA NextMessage ==
  ASSUME TypeInv, NEW d \in 0..Len(sent)
  PROVE  /\ sent \in Seq(Messages) /\ Len(sent) \in Nat /\ After(sent, d) \in Seq(Byte)
         /\ d = Len(sent) => After(sent, d) = << >>
         /\ d < Len(sent) => /\ sent[d + 1] \in Messages /\ sent[d + 1] \in Seq(Byte)
                             /\ Len(sent[d + 1]) > 0
                             /\ d + 1 \in 0..Len(sent)
                             /\ After(sent, d + 1) \in Seq(Byte)
                             /\ After(sent, d) = sent[d + 1] \o After(sent, d + 1)
                             /\ Len(After(sent, d)) = Len(sent[d + 1]) + Len(After(sent, d + 1))
<1>1. sent \in Seq(Messages) /\ Len(sent) \in Nat
  BY DEF TypeInv, TypeOK
<1>2. /\ After(sent, d) \in Seq(Byte)
      /\ d = Len(sent) => After(sent, d) = << >>
      /\ d < Len(sent) => /\ After(sent, d) = sent[d + 1] \o After(sent, d + 1)
                          /\ After(sent, d + 1) \in Seq(Byte)
  BY <1>1, AfterStep
<1>3. ASSUME d < Len(sent)
      PROVE  /\ sent[d + 1] \in Messages /\ sent[d + 1] \in Seq(Byte)
             /\ Len(sent[d + 1]) > 0 /\ d + 1 \in 0..Len(sent)
             /\ Len(After(sent, d)) = Len(sent[d + 1]) + Len(After(sent, d + 1))
  <2>1. sent[d + 1] \in Messages /\ d + 1 \in 0..Len(sent)
    BY <1>1, <1>3
  <2>2. sent[d + 1] \in Seq(Byte) /\ Len(sent[d + 1]) > 0
    BY <2>1, MessageKinds
  <2>3. Len(sent[d + 1] \o After(sent, d + 1)) = Len(sent[d + 1]) + Len(After(sent, d + 1))
    BY <1>2, <1>3, <2>2, ConcatProperties
  <2> QED BY <1>2, <1>3, <2>1, <2>2, <2>3
<1> QED BY <1>1, <1>2, <1>3

(* The lengths of what is left, in a message.                              *)
LEMMA LeftOver ==
  ASSUME TypeInv, NEW d \in 0..Len(sent)
  PROVE  /\ chunk \in Seq(Byte) /\ wire \in Seq(Byte) /\ held \in Seq(Byte)
         /\ Len(chunk) \in Nat /\ Len(wire) \in Nat /\ Len(held) \in Nat
         /\ chunk \o wire \in Seq(Byte) /\ Len(chunk \o wire) = Len(chunk) + Len(wire)
         /\ InRequest(d) => Len(held) + Len(chunk) + Len(wire) = Len(After(sent, d))
         /\ InRtcp(d) => \E k \in 0..2 :
               /\ Len(sent[d + 1]) = 4 + k
               /\ Len(chunk) + Len(wire)
                     = (IF need = 0 THEN 2 + k ELSE need) + Len(After(sent, d + 1))
<1>1. chunk \in Seq(Byte) /\ wire \in Seq(Byte) /\ held \in Seq(Byte)
  BY DEF TypeInv, TypeOK
<1>2. chunk \o wire \in Seq(Byte) /\ Len(chunk \o wire) = Len(chunk) + Len(wire)
  BY <1>1, ConcatProperties
<1>3. ASSUME InRequest(d) PROVE Len(held) + Len(chunk) + Len(wire) = Len(After(sent, d))
  <2>1. held \o (chunk \o wire) = After(sent, d)
    BY <1>3 DEF InRequest
  <2>2. Len(held \o (chunk \o wire)) = Len(held) + Len(chunk \o wire)
    BY <1>1, <1>2, ConcatProperties
  <2>3. Len(held) \in Nat /\ Len(chunk) \in Nat /\ Len(wire) \in Nat
    BY <1>1
  <2> QED BY <1>2, <2>1, <2>2, <2>3
<1>4. ASSUME InRtcp(d)
      PROVE  \E k \in 0..2 :
                /\ Len(sent[d + 1]) = 4 + k
                /\ Len(chunk) + Len(wire)
                      = (IF need = 0 THEN 2 + k ELSE need) + Len(After(sent, d + 1))
  <2>1. PICK k \in Lengths :
           /\ sent[d + 1] = Rtcp(k)
           /\ need = 0 => chunk \o wire = Length(k) \o (Body(k) \o After(sent, d + 1))
           /\ need # 0 => chunk \o wire = Body(need) \o After(sent, d + 1)
    BY <1>4 DEF InRtcp
  <2>2. k \in 0..2 /\ k \in Nat /\ need \in Nat /\ d < Len(sent)
    BY <1>4, RtspInputAssumption DEF InRtcp, TypeInv, TypeOK
  <2>3. Len(Rtcp(k)) = 4 + k
    BY <2>2, RtcpBytes
  <2>4. PICK rest \in Seq(Byte) : rest = After(sent, d + 1)
    BY <2>2, NextMessage, Zenon
  <2>5. Len(rest) \in Nat
    BY <2>4
  <2>6. CASE need = 0
    <3>1. chunk \o wire = Length(k) \o (Body(k) \o rest)
      BY <2>1, <2>4, <2>6
    <3>2. Length(k) \in Seq(Byte) /\ Len(Length(k)) = 2
      BY <2>2, LeadLength
    <3>3. Body(k) \in Seq(Byte) /\ Len(Body(k)) = k
      BY <2>2, BodyBytes
    <3>4. Body(k) \o rest \in Seq(Byte) /\ Len(Body(k) \o rest) = k + Len(rest)
      BY <3>3, ConcatProperties
    <3>5. Len(Length(k) \o (Body(k) \o rest)) = 2 + (k + Len(rest))
      <4>1. PICK p \in Seq(Byte), q \in Seq(Byte) : p = Length(k) /\ q = Body(k) \o rest
        BY <3>2, <3>4, Zenon
      <4>2. Len(p \o q) = Len(p) + Len(q)
        BY ConcatProperties
      <4> QED BY <3>2, <3>4, <4>1, <4>2
    <3>6. Len(chunk) + Len(wire) = 2 + (k + Len(rest))
      BY <1>2, <3>1, <3>5
    <3> QED BY <2>1, <2>2, <2>3, <2>4, <2>5, <2>6, <3>6
  <2>7. CASE need # 0
    <3>1. chunk \o wire = Body(need) \o rest
      BY <2>1, <2>4, <2>7
    <3>2. Body(need) \in Seq(Byte) /\ Len(Body(need)) = need
      BY <2>2, BodyBytes
    <3>3. Len(Body(need) \o rest) = need + Len(rest)
      BY <3>2, ConcatProperties
    <3>4. Len(chunk) + Len(wire) = need + Len(rest)
      BY <1>2, <3>1, <3>3
    <3> QED BY <2>1, <2>2, <2>3, <2>4, <2>7, <3>4
  <2> QED BY <2>6, <2>7
<1> QED BY <1>1, <1>2, <1>3, <1>4

(* When all is received and parsed, all is done.                           *)
LEMMA Exhausted ==
  ASSUME TypeInv, ParseInv, open, tidy, wire = << >>, l = 0
  PROVE  type = 0 /\ held = << >> /\ need = 0 /\ got = Requests(sent)
<1>1. PICK d \in 0..Len(sent) : Place(d)
  BY DEF ParseInv
<1>2. Len(chunk) = 0 /\ Len(wire) = 0 /\ chunk \o wire = << >>
  <2>1. InStep /\ chunk \in Seq(Byte) /\ Len(wire) = 0
    BY DEF ParseInv, TypeInv
  <2>2. Len(chunk) = 0 /\ chunk = << >>
    BY <2>1, EmptySeq DEF InStep
  <2> QED BY <2>1, <2>2
<1>3. ~InRequest(d)
  <2> SUFFICES ASSUME InRequest(d) PROVE FALSE
    OBVIOUS
  <2>1. /\ Len(held) + Len(chunk) + Len(wire) = Len(After(sent, d)) /\ Len(held) \in Nat
    BY LeftOver
  <2>2. d < Len(sent) /\ Len(held) < Len(sent[d + 1])
    BY DEF InRequest
  <2>3. /\ Len(After(sent, d)) = Len(sent[d + 1]) + Len(After(sent, d + 1))
        /\ sent[d + 1] \in Seq(Byte) /\ After(sent, d + 1) \in Seq(Byte)
    BY <2>2, NextMessage
  <2>4. Len(sent[d + 1]) \in Nat /\ Len(After(sent, d + 1)) \in Nat
    BY <2>3
  <2>5. Len(chunk) = 0 /\ Len(wire) = 0
    BY <1>2
  <2>6. PICK h \in Nat, n \in Nat, a \in Nat :
           h = Len(held) /\ n = Len(sent[d + 1]) /\ a = Len(After(sent, d + 1))
    BY <2>1, <2>4, Zenon
  <2>7. h + 0 + 0 = n + a
    BY <2>1, <2>3, <2>5, <2>6, Zenon
  <2>8. h < n
    BY <2>2, <2>6
  <2> QED BY <2>7, <2>8
<1>4. ~InRtcp(d)
  <2> SUFFICES ASSUME InRtcp(d) PROVE FALSE
    OBVIOUS
  <2>1. PICK k \in 0..2 : Len(chunk) + Len(wire)
                             = (IF need = 0 THEN 2 + k ELSE need) + Len(After(sent, d + 1))
    BY LeftOver
  <2>2. d < Len(sent) /\ need \in 0..2
    BY DEF InRtcp, TypeInv, TypeOK
  <2>3. After(sent, d + 1) \in Seq(Byte)
    BY <2>2, NextMessage
  <2>4. Len(After(sent, d + 1)) \in Nat
    BY <2>3
  <2>5. (IF need = 0 THEN 2 + k ELSE need) > 0
    BY <2>2
  <2>6. Len(chunk) = 0 /\ Len(wire) = 0
    BY <1>2
  <2>7. (IF need = 0 THEN 2 + k ELSE need) + Len(After(sent, d + 1)) = 0
    BY <2>1, <2>6
  <2> QED BY <2>2, <2>4, <2>7
<1>5. Between(d) /\ got = Done(sent, d)
  BY <1>1, <1>3, <1>4 DEF Place
<1>6. After(sent, d) = << >>
  BY <1>2, <1>5 DEF Between
<1>7. d = Len(sent)
  <2> SUFFICES ASSUME d < Len(sent) PROVE FALSE
    BY NextMessage
  <2>1. /\ Len(After(sent, d)) = Len(sent[d + 1]) + Len(After(sent, d + 1))
        /\ Len(sent[d + 1]) > 0 /\ sent[d + 1] \in Seq(Byte)
        /\ After(sent, d + 1) \in Seq(Byte)
    BY NextMessage
  <2>2. Len(After(sent, d + 1)) \in Nat /\ Len(sent[d + 1]) \in Nat /\ Len(After(sent, d)) = 0
    BY <1>6, <2>1
  <2>3. PICK n \in Nat, a \in Nat : n = Len(sent[d + 1]) /\ a = Len(After(sent, d + 1))
    BY <2>2, Zenon
  <2>4. 0 = n + a
    BY <2>1, <2>2, <2>3, Zenon
  <2>5. n > 0
    BY <2>1, <2>3
  <2> QED BY <2>4, <2>5
<1>8. Done(sent, d) = Requests(sent)
  BY <1>7, DoneStep DEF TypeInv, TypeOK
<1> QED BY <1>5, <1>8 DEF Between

(* Before the first client.                                                *)
LEMMA ParseBegins == Init => ParseInv
  BY DEF Init, ParseInv

(* A client begins where the one before it has left nothing.               *)
LEMMA HandleParse == TypeInv /\ ParseInv /\ Handle => ParseInv'
<1> SUFFICES ASSUME TypeInv, ParseInv, Handle, tidy' PROVE ParseInv'
  BY DEF ParseInv
<1>1. /\ ~open /\ open' /\ tidy /\ wire' = FlattenSeq(sent') /\ got' = << >>
      /\ chunk' = << >> /\ l' = 0 /\ type' = type /\ held' = held /\ need' = need
  BY DEF Handle, parser
<1>2. type' = 0 /\ held' = << >> /\ need' = 0
  BY <1>1 DEF ParseInv
<1>3. sent' \in Seq(Messages) /\ wire' \in Seq(Byte)
  BY HandleTypes DEF TypeInv, TypeOK
<1>4. 0 \in 0..Len(sent')
  BY <1>3
<1>5. Done(sent', 0) = << >> /\ After(sent', 0) = FlattenSeq(sent')
  BY <1>3, <1>4, DoneStep, AfterAll
<1>6. chunk' \o wire' = After(sent', 0)
  <2>1. << >> \o wire' = wire'
    BY <1>3
  <2> QED BY <1>1, <1>5, <2>1
<1>7. Place(0)'
  BY <1>1, <1>2, <1>5, <1>6 DEF Place, Between
<1>8. InStep' /\ Clear(chunk')
  BY <1>1 DEF InStep, Clear
<1> QED BY <1>1, <1>4, <1>7, <1>8 DEF ParseInv

(* What is received moves from the wire to the chunk; an orderly cut       *)
(* leaves pairs together and packets at the end.                           *)
LEMMA RecvParse ==
  ASSUME "pair" \notin Conduct, "follow" \notin Conduct, TypeInv, ParseInv, Recv
  PROVE  ParseInv'
<1>1. /\ wire = chunk' \o wire' /\ chunk' \in Seq(Byte) /\ wire' \in Seq(Byte)
      /\ l' = Len(chunk') /\ l' \in Nat \ {0} /\ Cut(chunk')
      /\ open /\ l = 0 /\ UNCHANGED <<sent, nth, open, tidy, got, type, held, need>>
  BY RecvFacts DEF parser
<1>2. SUFFICES ASSUME tidy PROVE ParseInv'
  BY <1>1 DEF ParseInv
<1>3. Clear(chunk')
  BY <1>1 DEF Cut, Clear, Last
<1>4. chunk \o wire = chunk' \o wire'
  <2>1. InStep /\ chunk \in Seq(Byte) /\ wire \in Seq(Byte)
    BY <1>1, <1>2 DEF ParseInv, TypeInv
  <2>2. chunk = << >>
    BY <1>1, <2>1, EmptySeq DEF InStep
  <2>3. << >> \o wire = wire
    BY <2>1
  <2> QED BY <1>1, <2>2, <2>3
<1>5. chunk' # << >>
  BY <1>1
<1>6. PICK d \in 0..Len(sent) : Place(d)
  BY <1>1, <1>2 DEF ParseInv
<1>7. Place(d)'
  <2>1. CASE Between(d)
    BY <1>1, <1>4, <1>6, <2>1 DEF Place, Between
  <2>2. CASE InRequest(d)
    BY <1>1, <1>4, <1>5, <1>6, <2>2 DEF Place, InRequest
  <2>3. CASE InRtcp(d)
    BY <1>1, <1>4, <1>6, <2>3 DEF Place, InRtcp
  <2> QED BY <1>6, <2>1, <2>2, <2>3 DEF Place
<1>8. InStep' /\ d \in 0..Len(sent')
  BY <1>1, <1>6 DEF InStep
<1> QED BY <1>1, <1>2, <1>3, <1>7, <1>8 DEF ParseInv

(* A client that leaves when all is received has left nothing behind.      *)
LEMMA HangupParse == TypeInv /\ ParseInv /\ Hangup => ParseInv'
<1> SUFFICES ASSUME TypeInv, ParseInv, Hangup, tidy' PROVE ParseInv'
  BY DEF ParseInv, Hangup
<1>1. open /\ l = 0 /\ tidy /\ wire = << >> /\ ~open' /\ UNCHANGED <<type, held, need>>
  BY DEF Hangup, parser
<1>2. type = 0 /\ held = << >> /\ need = 0
  BY <1>1, Exhausted
<1> QED BY <1>1, <1>2 DEF ParseInv

(* The first byte of a chunk is the first of the message that follows.     *)
LEMMA ClassifyParse == TypeInv /\ ParseInv /\ Classify => ParseInv'
<1> SUFFICES ASSUME TypeInv, ParseInv, Classify, tidy PROVE ParseInv'
  BY DEF ParseInv, Classify, Parsing, client
<1>1. Parsing(0) /\ UNCHANGED <<sent, wire, nth, open, tidy, got, held, need>>
  BY DEF Classify, client
<1>2. /\ open /\ type = 0 /\ l = Len(chunk) /\ l \in Nat /\ l > 0
      /\ chunk \in Seq(Byte) /\ chunk # << >> /\ wire \in Seq(Byte)
  BY <1>1, ParsingFacts
<1>3. PICK d \in 0..Len(sent) : Place(d)
  BY <1>2 DEF ParseInv
<1>4. Between(d) /\ got = Done(sent, d) /\ Clear(chunk)
  BY <1>2, <1>3 DEF Place, InRequest, InRtcp, ParseInv
<1>5. held = << >> /\ need = 0 /\ chunk \o wire = After(sent, d)
  BY <1>4 DEF Between
<1>6. /\ chunk \o wire \in Seq(Byte) /\ Len(chunk \o wire) = Len(chunk) + Len(wire)
      /\ Len(wire) \in Nat /\ (chunk \o wire)[1] = chunk[1]
  <2>1. 1 \in 1..Len(chunk) + Len(wire) /\ 1 <= Len(chunk) /\ Len(wire) \in Nat
    BY <1>2
  <2> QED BY <1>2, <2>1, ConcatProperties
<1>7. d < Len(sent)
  <2> SUFFICES ASSUME d = Len(sent) PROVE FALSE
    BY NextMessage
  <2>1. After(sent, d) = << >>
    BY NextMessage
  <2> QED BY <1>2, <1>5, <1>6, <2>1
<1>8. PICK m \in Messages, rest \in Seq(Byte) :
         /\ m = sent[d + 1] /\ rest = After(sent, d + 1)
         /\ m \in Seq(Byte) /\ Len(m) > 0 /\ After(sent, d) = m \o rest
  BY <1>7, NextMessage
<1>9. chunk[1] = m[1]
  <2>3. Len(m) \in Nat /\ Len(rest) \in Nat /\ Len(m) > 0
    BY <1>8
  <2>1. 1 \in 1..Len(m) + Len(rest) /\ 1 <= Len(m)
    BY <2>3
  <2>2. (m \o rest)[1] = m[1]
    BY <1>8, <2>1, ConcatProperties
  <2> QED BY <1>5, <1>6, <1>8, <2>2
<1>10. Head(chunk) = chunk[1]
  BY <1>2
<1>11. CASE Head(chunk) # "$"
  <2>1. type' = 1 /\ chunk' = chunk /\ l' = l
    BY <1>11 DEF Classify
  <2>2. IsRequest(m)
    BY <1>9, <1>10, <1>11 DEF IsRequest
  <2>3. held \o (chunk \o wire) = chunk \o wire /\ Len(held) = 0
    BY <1>5, <1>6
  <2>4. InRequest(d)'
    BY <1>1, <1>2, <1>5, <1>7, <1>8, <2>1, <2>2, <2>3 DEF InRequest
  <2>5. Place(d)'
    BY <1>1, <1>4, <2>4 DEF Place
  <2>6. InStep' /\ Clear(chunk')
    BY <1>2, <1>4, <2>1 DEF InStep
  <2> QED BY <1>1, <1>2, <1>3, <2>5, <2>6 DEF ParseInv
<1>12. CASE Head(chunk) = "$"
  <2>1. type' = 2 /\ chunk' = Beyond(chunk, 2) /\ l' = Minus(l, 2)
    BY <1>12, RestFacts DEF Classify
  <2>2. ~IsRequest(m)
    BY <1>9, <1>10, <1>12 DEF IsRequest
  <2>3. PICK k \in Lengths : k \in 0..2 /\ m = Rtcp(k)
    BY <2>2, MessageKinds
  <2>4. PICK body \in Seq(Byte), size \in Seq(Byte), lead \in Seq(Byte) :
           body = Body(k) /\ size = Length(k) /\ lead = Lead /\ Len(lead) = 2
    <3>1. Length(k) \in Seq(Byte) /\ Lead \in Seq(Byte) /\ Len(Lead) = 2
      BY <2>3, LeadLength
    <3>2. k \in Nat
      BY <2>3
    <3>3. Body(k) \in Seq(Byte)
      BY <3>2, BodyBytes
    <3> QED BY <3>1, <3>3, Zenon
  <2>6. m \o rest = lead \o (size \o (body \o rest))
    <3>1. Rtcp(k) \o rest = Lead \o (Length(k) \o (Body(k) \o rest))
      BY <2>3, PacketThen
    <3> QED BY <2>3, <2>4, <3>1, Zenon
  <2>7. size \o (body \o rest) \in Seq(Byte)
    <3>1. body \o rest \in Seq(Byte)
      BY ConcatProperties
    <3> QED BY <3>1, ConcatProperties
  <2>8. Len(lead) <= Len(chunk)
    <3>1. chunk[Len(chunk)] # "$"
      BY <1>2, <1>4 DEF Clear
    <3>2. Len(chunk) # 1
      BY <1>10, <1>12, <3>1
    <3> QED BY <1>2, <2>4, <3>2
  <2>9. Beyond(chunk, Len(lead)) \o wire = size \o (body \o rest)
    <3>1. chunk \o wire = lead \o (size \o (body \o rest))
      BY <1>5, <1>8, <2>6, Zenon
    <3>2. PICK c \in Seq(Byte), x \in Seq(Byte) : c = chunk /\ x = size \o (body \o rest)
      BY <1>2, <2>7, Zenon
    <3>3. PICK w \in Seq(Byte) : w = wire
      BY <1>2, Zenon
    <3>4. c \o w = lead \o x /\ Len(lead) <= Len(c)
      BY <2>8, <3>1, <3>2, <3>3, Zenon
    <3>5. Beyond(c, Len(lead)) \o w = x
      BY <3>4, DropLead, ZenonT(40)
    <3> QED BY <3>2, <3>3, <3>5, Zenon
  <2>10. chunk' \o wire' = size \o (body \o rest)
    BY <1>1, <2>1, <2>4, <2>9
  <2>11. InRtcp(d)'
    <3>1. /\ type' = 2 /\ held' = << >> /\ need' = 0 /\ sent' = sent /\ d < Len(sent)
          /\ sent'[d + 1] = Rtcp(k)
          /\ chunk' \o wire' = Length(k) \o (Body(k) \o After(sent', d + 1))
      BY <1>1, <1>5, <1>7, <1>8, <2>1, <2>3, <2>4, <2>10
    <3> QED BY <3>1 DEF InRtcp
  <2>12. Place(d)'
    BY <1>1, <1>4, <2>11 DEF Place
  <2>13. Len(chunk') = Len(chunk) - 2 /\ Clear(chunk')
    <3>1. 2 \in Nat /\ 2 <= Len(chunk)
      BY <2>4, <2>8
    <3>2. /\ Len(Beyond(chunk, 2)) = IF 2 <= Len(chunk) THEN Len(chunk) - 2 ELSE 0
          /\ Clear(Beyond(chunk, 2))
      BY <1>2, <1>4, <3>1, RestClear
    <3> QED BY <2>1, <3>1, <3>2
  <2>14. InStep'
    <3>1. l \in 0..Modulus - 1 /\ Modulus \in Nat /\ l - 2 \in 0..Modulus - 1 /\ l \in Int
      BY <1>2, <2>4, <2>8, RtspInputAssumption DEF TypeInv, TypeOK
    <3>2. Minus(l, 2) = l - 2
      BY <3>1, MinusFacts
    <3> QED BY <1>2, <2>1, <2>13, <3>2 DEF InStep
  <2> QED BY <1>1, <1>2, <1>3, <2>12, <2>13, <2>14 DEF ParseInv
<1> QED BY <1>11, <1>12

(* The end that is found is that of the request that is sent, when all of  *)
(* it is there.                                                            *)
LEMMA EndOfRequest ==
  ASSUME NEW n \in Nat \ {0}, NEW end \in {"e", "b"},
         NEW a \in Seq(Byte), NEW b \in Seq(Byte), NEW x \in Seq(Byte),
         a \o b = Request(n, end) \o x
  PROVE  /\ Ended(a) <=> n <= Len(a)
         /\ Ended(a) => End(a) = n /\ a[n] = end
<1>1. PICK m \in Seq(Byte) : m = Request(n, end)
  BY RequestBytes, Zenon
<1>2. Len(m) = n /\ m[n] = end /\ \A i \in 1..n - 1 : m[i] = "r"
  BY <1>1, RequestBytes
<1>3. a \o b = m \o x /\ Len(a) \in Nat /\ DOMAIN a = 1..Len(a)
  BY <1>1
<1>4. ASSUME n <= Len(a) PROVE Ended(a) /\ End(a) = n /\ a[n] = end
  <2>1. Len(m) <= Len(a)
    BY <1>2, <1>4
  <2>2. \A i \in 1..Len(m) : a[i] = m[i]
    BY <1>3, <2>1, LeadSame
  <2>3. n \in 1..Len(a) /\ a[n] = end /\ \A i \in 1..n - 1 : a[i] = "r"
    BY <1>2, <1>3, <1>4, <2>2
  <2>4. Ended(a)
    BY <1>3, <2>3 DEF Ended
  <2>5. /\ End(a) \in 1..Len(a) /\ a[End(a)] \in {"e", "b"}
        /\ \A j \in 1..End(a) - 1 : a[j] \notin {"e", "b"}
    BY <2>4, EndFacts
  <2>6. ~(End(a) < n)
    BY <2>3, <2>5
  <2>7. ~(n < End(a))
    BY <2>3, <2>5
  <2> QED BY <2>3, <2>4, <2>5, <2>6, <2>7
<1>5. ASSUME Len(a) < n PROVE ~Ended(a)
  <2>1. m \o x = a \o b /\ Len(a) <= Len(m)
    BY <1>2, <1>3, <1>5
  <2>2. \A i \in 1..Len(a) : m[i] = a[i]
    BY <2>1, LeadSame, ZenonT(40)
  <2>3. \A i \in 1..Len(a) : a[i] = "r"
    BY <1>2, <1>3, <1>5, <2>2
  <2> QED BY <1>3, <2>3 DEF Ended
<1> QED BY <1>3, <1>4, <1>5

(* What the parser of requests is in: the request that is sent.            *)
LEMMA RequestFacts ==
  ASSUME TypeInv, ParseInv, Parsing(1), tidy, NEW d \in 0..Len(sent), Place(d)
  PROVE  /\ InRequest(d) /\ got = Done(sent, d) /\ Clear(chunk)
         /\ All \in Seq(Byte) /\ Len(All) = Len(held) + Len(chunk)
         /\ Len(held) \in Nat /\ Len(chunk) \in Nat
         /\ sent[d + 1] \in Seq(Byte) /\ After(sent, d + 1) \in Seq(Byte)
         /\ All \o wire = sent[d + 1] \o After(sent, d + 1)
         /\ Ended(All) <=> Len(sent[d + 1]) <= Len(All)
         /\ Ended(All) => End(All) = Len(sent[d + 1])
<1>1. /\ open /\ type = 1 /\ chunk \in Seq(Byte) /\ wire \in Seq(Byte) /\ held \in Seq(Byte)
  BY ParsingFacts
<1>2. InRequest(d) /\ got = Done(sent, d) /\ Clear(chunk)
  BY <1>1 DEF Place, Between, InRtcp, ParseInv
<1>3. All \in Seq(Byte) /\ Len(All) = Len(held) + Len(chunk)
  BY <1>1, AllFacts
<1>4. /\ d < Len(sent) /\ IsRequest(sent[d + 1])
      /\ held \o (chunk \o wire) = After(sent, d)
  BY <1>2 DEF InRequest
<1>5. PICK m \in Messages, rest \in Seq(Byte) :
         /\ m = sent[d + 1] /\ rest = After(sent, d + 1)
         /\ m \in Seq(Byte) /\ After(sent, d) = m \o rest
  BY <1>4, NextMessage
<1>6. All \o wire = m \o rest
  <2>1. (held \o chunk) \o wire = held \o (chunk \o wire)
    BY <1>1, ConcatAssociative, SMTT(40)
  <2> QED BY <1>4, <1>5, <2>1 DEF All
<1>7. PICK n \in Nat \ {0}, end \in {"e", "b"} : m = Request(n, end)
  BY <1>4, <1>5, MessageKinds
<1>8. Len(m) = n
  BY <1>7, RequestBytes
<1>9. (Ended(All) <=> n <= Len(All)) /\ (Ended(All) => End(All) = n)
  <2>1. PICK all \in Seq(Byte), w \in Seq(Byte) : all = All /\ w = wire
    BY <1>1, <1>3
  <2>2. all \o w = Request(n, end) \o rest
    BY <2>1, <1>6, <1>7
  <2> HIDE DEF All
  <2> QED BY <2>1, <2>2, EndOfRequest
<1>10. Len(held) \in Nat /\ Len(chunk) \in Nat
  BY <1>1
<1> QED BY <1>2, <1>3, <1>5, <1>6, <1>8, <1>9, <1>10

(* The request found is the one that was sent, and what is left of the     *)
(* chunk begins what is behind it.                                         *)
LEMMA RequestOkParse == TypeInv /\ ParseInv /\ RequestOk => ParseInv'
<1> SUFFICES ASSUME TypeInv, ParseInv, RequestOk, tidy PROVE ParseInv'
  BY DEF ParseInv, RequestOk, Parsing, client
<1>1. /\ Parsing(1) /\ Ended(All) /\ UNCHANGED <<sent, wire, nth, open, tidy, need>>
      /\ got' = Append(got, SubSeq(All, 1, End(All)))
      /\ held' = << >> /\ type' = 0 /\ chunk' = Rest(Used) /\ l' = Minus(l, Used)
  BY DEF RequestOk, Taken, client
<1>2. /\ open /\ l = Len(chunk) /\ l \in Nat /\ l <= MaxChunk
      /\ chunk \in Seq(Byte) /\ wire \in Seq(Byte) /\ held \in Seq(Byte)
  BY <1>1, ParsingFacts
<1>3. PICK d \in 0..Len(sent) : Place(d)
  BY <1>2 DEF ParseInv
<1>4. PICK m \in Seq(Byte), rest \in Seq(Byte), all \in Seq(Byte) :
         m = sent[d + 1] /\ rest = After(sent, d + 1) /\ all = All
  BY <1>1, <1>3, RequestFacts
<1>5. /\ InRequest(d) /\ got = Done(sent, d) /\ Clear(chunk)
      /\ Len(all) = Len(held) + Len(chunk) /\ Len(held) \in Nat /\ Len(chunk) \in Nat
      /\ all \o wire = m \o rest
      /\ Len(m) <= Len(all) /\ End(All) = Len(m)
  BY <1>1, <1>3, <1>4, RequestFacts
<1>6. /\ d < Len(sent) /\ IsRequest(m) /\ Len(held) < Len(m) /\ need = 0
  BY <1>4, <1>5 DEF InRequest
<1>7. SubSeq(all, 1, Len(m)) = m
  BY <1>2, <1>5, LeadFirst
<1>8. Beyond(all, Len(m)) \o wire = rest
  BY <1>2, <1>5, DropLead
<1>9. /\ Len(m) \in Nat /\ Len(m) - Len(held) \in 1..Len(chunk)
      /\ Len(m) - Len(held) \in 0..Modulus - 1 /\ Modulus \in Nat
  BY <1>2, <1>5, <1>6, RtspInputAssumption
<1>10. Used = Len(m) - Len(held)
  <2>1. Len(m) \in Int /\ Len(held) \in Int
    BY <1>5, <1>9
  <2> QED BY <1>5, <1>9, <2>1, MinusFacts DEF Used
<1>11. chunk' = Beyond(chunk, Len(m) - Len(held))
  <2>1. Used \in Nat
    BY <1>9, <1>10
  <2> QED BY <1>1, <1>10, <2>1, RestFacts
<1>12. chunk' = Beyond(all, Len(m))
  <2>1. Beyond(held \o chunk, Len(m)) = Beyond(chunk, Len(m) - Len(held))
    BY <1>2, <1>5, <1>6, <1>9, RestOfTwo
  <2> QED BY <1>4, <1>11, <2>1 DEF All
<1>13. Len(chunk') = Len(chunk) - (Len(m) - Len(held)) /\ Clear(chunk')
  <2>1. PICK k \in Nat : k = Len(m) - Len(held) /\ k <= Len(chunk)
    <3>1. Len(m) - Len(held) \in Nat /\ Len(m) - Len(held) <= Len(chunk)
      BY <1>5, <1>9
    <3> QED BY <3>1, Zenon
  <2>2. /\ Len(Beyond(chunk, k)) = IF k <= Len(chunk) THEN Len(chunk) - k ELSE 0
        /\ Clear(Beyond(chunk, k))
    BY <1>2, <1>5, RestClear
  <2> QED BY <1>11, <2>1, <2>2
<1>14. l' = Len(chunk')
  <2>1. l \in 0..Modulus - 1 /\ Used \in Int /\ l \in Int
    BY <1>2, <1>9, <1>10 DEF TypeInv, TypeOK
  <2>2. l - Used \in 0..Modulus - 1 /\ l - Used = Len(chunk')
    BY <1>2, <1>9, <1>10, <1>13, <2>1
  <2>3. Minus(l, Used) = l - Used
    BY <2>1, <2>2, MinusFacts
  <2> QED BY <1>1, <2>2, <2>3
<1>15. d + 1 \in 0..Len(sent) /\ sent \in Seq(Messages)
  BY <1>6, NextMessage
<1>16. got' = Done(sent, d + 1)
  <2>1. Done(sent, d + 1) = Append(Done(sent, d), m)
    BY <1>4, <1>6, <1>15, DoneStep
  <2>2. SubSeq(All, 1, End(All)) = m
    BY <1>4, <1>5, <1>7
  <2> QED BY <1>1, <1>5, <2>1, <2>2
<1>17. Between(d + 1)'
  BY <1>1, <1>4, <1>6, <1>8, <1>12 DEF Between
<1>18. Place(d + 1)'
  BY <1>1, <1>16, <1>17 DEF Place
<1>19. InStep'
  BY <1>14 DEF InStep
<1> QED BY <1>1, <1>2, <1>13, <1>15, <1>18, <1>19 DEF ParseInv

(* Without an end, what is held and what is to come are still the request. *)
LEMMA RequestContinuesParse == TypeInv /\ ParseInv /\ RequestContinues => ParseInv'
<1> SUFFICES ASSUME TypeInv, ParseInv, RequestContinues, tidy PROVE ParseInv'
  BY DEF ParseInv, RequestContinues, Parsing, client
<1>1. /\ Parsing(1) /\ ~Ended(All)
      /\ UNCHANGED <<sent, wire, nth, open, tidy, got, type, need>>
      /\ held' = All /\ chunk' = << >> /\ l' = 0
  BY DEF RequestContinues, client
<1>2. /\ open /\ type = 1 /\ chunk \in Seq(Byte) /\ chunk # << >> /\ wire \in Seq(Byte)
      /\ held \in Seq(Byte)
  BY <1>1, ParsingFacts
<1>3. PICK d \in 0..Len(sent) : Place(d)
  BY <1>2 DEF ParseInv
<1>4. /\ InRequest(d) /\ got = Done(sent, d)
      /\ All \in Seq(Byte) /\ Len(All) = Len(held) + Len(chunk)
      /\ Len(held) \in Nat /\ Len(chunk) \in Nat /\ sent[d + 1] \in Seq(Byte)
      /\ All \o wire = sent[d + 1] \o After(sent, d + 1)
      /\ ~(Len(sent[d + 1]) <= Len(All))
  BY <1>1, <1>3, RequestFacts
<1>5. /\ d < Len(sent) /\ IsRequest(sent[d + 1]) /\ need = 0
  BY <1>4 DEF InRequest
<1>6. All \o wire = After(sent, d)
  BY <1>4, <1>5, NextMessage
<1>7. Len(held') < Len(sent'[d + 1])
  <2>1. Len(sent[d + 1]) \in Nat /\ Len(All) \in Nat
    BY <1>4
  <2> QED BY <1>1, <1>4, <2>1
<1>8. held' # << >>
  <2>1. Len(chunk) > 0
    BY <1>2, EmptySeq
  <2>2. Len(All) > 0
    BY <1>4, <2>1
  <2> QED BY <1>1, <2>2
<1>9. held' \o (chunk' \o wire') = After(sent', d)
  <2>1. << >> \o wire = wire
    BY <1>2
  <2> QED BY <1>1, <1>6, <2>1
<1>10. InRequest(d)'
  BY <1>1, <1>2, <1>5, <1>7, <1>8, <1>9 DEF InRequest
<1>11. Place(d)'
  BY <1>1, <1>4, <1>10 DEF Place
<1>12. InStep' /\ Clear(chunk')
  BY <1>1 DEF InStep, Clear
<1> QED BY <1>1, <1>2, <1>3, <1>11, <1>12 DEF ParseInv

(* What is read of an RTCP packet: its length, when it is not read yet,    *)
(* and the body that the chunk has, all of it or to the end of the chunk.  *)
LEMMA RtcpFacts ==
  ASSUME TypeInv, ParseInv, Parsing(2), Whole, Wanted > 0,
         tidy, NEW d \in 0..Len(sent), Place(d)
  PROVE  /\ got = Done(sent, d) /\ held = << >> /\ d < Len(sent)
         /\ \E k \in Lengths : sent[d + 1] = Rtcp(k)
         /\ ~IsRequest(sent[d + 1])
         /\ Header + Eaten = l
         /\ Eaten = Wanted => wire = After(sent, d + 1)
         /\ Eaten # Wanted => wire = Body(Wanted - Eaten) \o After(sent, d + 1)
<1>1. /\ open /\ type = 2 /\ l = Len(chunk) /\ l \in Nat
      /\ chunk \in Seq(Byte) /\ chunk # << >> /\ wire \in Seq(Byte) /\ need \in 0..2
  BY ParsingFacts
<1>2. InRtcp(d) /\ got = Done(sent, d) /\ Clear(chunk)
  BY <1>1 DEF Place, Between, InRequest, ParseInv
<1>3. d < Len(sent) /\ held = << >>
  BY <1>2 DEF InRtcp
<1>4. PICK k \in Lengths :
         /\ sent[d + 1] = Rtcp(k)
         /\ need = 0 => chunk \o wire = Length(k) \o (Body(k) \o After(sent, d + 1))
         /\ need # 0 => chunk \o wire = Body(need) \o After(sent, d + 1)
  BY <1>2 DEF InRtcp
<1>5. k \in 0..2 /\ k \in Nat
  BY RtspInputAssumption
<1>6. ~IsRequest(sent[d + 1])
  BY <1>4, <1>5, RtcpBytes
<1>7. PICK rest \in Seq(Byte) : rest = After(sent, d + 1)
  BY <1>3, NextMessage, Zenon
<1>8. /\ Wanted \in 0..2 /\ Header \in 0..2 /\ Header <= l /\ Wanted \in Nat \ {0}
      /\ Eaten = IF Wanted <= l - Header THEN Wanted ELSE l - Header
  BY WantedFacts
<1>9. PICK p \in Seq(Byte) : Len(p) = Header /\ chunk \o wire = p \o (Body(Wanted) \o rest)
  <2>1. CASE Fresh
    <3>1. PICK size \in Seq(Byte), body \in Seq(Byte) : size = Length(k) /\ body = Body(k)
      <4>1. Length(k) \in Seq(Byte)
        BY <1>5, LeadLength
      <4>2. Body(k) \in Seq(Byte)
        BY <1>5, BodyBytes
      <4> QED BY <4>1, <4>2, Zenon
    <3>2. chunk \o wire = size \o (body \o rest) /\ body \o rest \in Seq(Byte)
      <4>1. body \o rest \in Seq(Byte)
        BY ConcatProperties
      <4> QED BY <1>4, <1>7, <2>1, <3>1, <4>1 DEF Fresh
    <3>3. Len(size) = 2 /\ size[2] = Digits[k + 1]
      BY <1>5, <3>1, LeadLength
    <3>4. l >= 2 /\ Header = 2 /\ Wanted = Value(chunk[2])
      BY <2>1 DEF Whole, Header, Wanted
    <3>5. Len(size) <= Len(chunk) /\ 2 \in 1..Len(size)
      BY <1>1, <3>3, <3>4
    <3>6. \A i \in 1..Len(size) : chunk[i] = size[i]
      BY <1>1, <3>2, <3>5, LeadSame
    <3>7. chunk[2] = Digits[k + 1]
      BY <3>3, <3>5, <3>6
    <3>8. Wanted = k
      BY <1>5, <3>4, <3>7, DigitValue
    <3> QED BY <3>1, <3>2, <3>3, <3>4, <3>8
  <2>2. CASE ~Fresh
    <3>1. Wanted = need /\ Header = 0 /\ need # 0
      BY <2>2 DEF Wanted, Header, Fresh
    <3>2. chunk \o wire = Body(Wanted) \o rest
      BY <1>4, <1>7, <3>1
    <3>3. chunk \o wire \in Seq(Byte)
      BY <1>1, ConcatProperties
    <3>4. << >> \o (chunk \o wire) = chunk \o wire
      BY <3>3
    <3>5. << >> \in Seq(Byte) /\ Len(<< >>) = 0
      OBVIOUS
    <3> QED BY <3>1, <3>2, <3>4, <3>5
  <2> QED BY <2>1, <2>2
<1>10. Len(p) <= Len(chunk)
  BY <1>1, <1>8, <1>9
<1>11. PICK n \in Nat \ {0} : n = Wanted
  BY <1>8
<1>12. PICK x \in Seq(Byte) :
          Len(x) = l - Header /\ Clear(x) /\ x \o wire = Body(n) \o rest
  <2>1. PICK body \in Seq(Byte) : body = Body(n)
    BY BodyBytes, Zenon
  <2>2. body \o rest \in Seq(Byte) /\ chunk \o wire = p \o (body \o rest)
    BY <1>9, <1>11, <2>1, ConcatProperties
  <2>3. Beyond(chunk, Len(p)) \o wire = body \o rest
    BY <1>1, <1>10, <2>2, DropLead, Zenon
  <2>4. /\ Beyond(chunk, Len(p)) \in Seq(Byte) /\ Clear(Beyond(chunk, Len(p)))
        /\ Len(Beyond(chunk, Len(p)))
              = IF Len(p) <= Len(chunk) THEN Len(chunk) - Len(p) ELSE 0
    <3>1. Len(p) \in Nat
      OBVIOUS
    <3> QED BY <1>1, <1>2, <3>1, RestClear
  <2>5. Len(Beyond(chunk, Len(p))) = l - Header
    BY <1>1, <1>9, <1>10, <2>4
  <2> QED BY <2>1, <2>3, <2>4, <2>5, Zenon
<1>13. /\ Header + Eaten = l
       /\ Eaten = Wanted => wire = rest
       /\ Eaten # Wanted => wire = Body(Wanted - Eaten) \o rest
  <2>1. PICK w \in Seq(Byte) : w = wire
    BY <1>1
  <2>2. CASE n <= Len(x)
    <3>1. n = Len(x) /\ w = rest
      BY <1>12, <2>1, <2>2, EatAll
    <3>2. Eaten = Wanted /\ Header + Eaten = l
      BY <1>1, <1>8, <1>11, <1>12, <2>2, <3>1
    <3> QED BY <2>1, <3>1, <3>2
  <2>3. CASE ~(n <= Len(x))
    <3>1. w = Body(n - Len(x)) \o rest
      <4>1. n \in Nat /\ Len(x) \in Nat
        OBVIOUS
      <4>2. Len(x) < n
        BY <2>3, <4>1
      <4>3. x \o w = Body(n) \o rest
        BY <1>12, <2>1
      <4> QED BY <4>1, <4>2, <4>3, EatSome
    <3>2. Eaten = Len(x) /\ Eaten # Wanted /\ Header + Eaten = l
      BY <1>1, <1>8, <1>11, <1>12, <2>3
    <3>3. wire = Body(Wanted - Eaten) \o rest
      BY <1>11, <2>1, <3>1, <3>2
    <3> QED BY <3>2, <3>3
  <2> QED BY <2>2, <2>3
<1> QED BY <1>2, <1>3, <1>4, <1>6, <1>7, <1>13

(* The packet ends where the chunk does or goes on in the next one.        *)
LEMMA RtcpParseParse == TypeInv /\ ParseInv /\ RtcpParse => ParseInv'
<1> SUFFICES ASSUME TypeInv, ParseInv, RtcpParse, tidy PROVE ParseInv'
  BY DEF ParseInv, RtcpParse, Parsing, client
<1>1. /\ Parsing(2) /\ Whole /\ Wanted > 0
      /\ UNCHANGED <<sent, wire, nth, open, tidy, got, held>>
      /\ need' = Wanted - Eaten /\ type' = (IF need' = 0 THEN 0 ELSE 2)
      /\ chunk' = << >> /\ l' = Minus(Header + Eaten, l)
  BY DEF RtcpParse, client
<1>2. open /\ l \in Nat /\ wire \in Seq(Byte)
  BY <1>1, ParsingFacts
<1>3. PICK d \in 0..Len(sent) : Place(d)
  BY <1>2 DEF ParseInv
<1>4. /\ got = Done(sent, d) /\ held = << >> /\ d < Len(sent)
      /\ \E k \in Lengths : sent[d + 1] = Rtcp(k)
      /\ ~IsRequest(sent[d + 1])
      /\ Header + Eaten = l
      /\ Eaten = Wanted => wire = After(sent, d + 1)
      /\ Eaten # Wanted => wire = Body(Wanted - Eaten) \o After(sent, d + 1)
  BY <1>1, <1>3, RtcpFacts
<1>5. Wanted \in 0..2 /\ Eaten \in 0..Wanted
  BY <1>1, WantedFacts
<1>6. l' = 0
  <2>1. Modulus \in Nat \ {0} /\ l - l = 0 /\ 0 \in 0..Modulus - 1 /\ l \in Int
    BY <1>2, RtspInputAssumption
  <2>2. Minus(l, l) = 0
    BY <2>1, MinusFacts
  <2> QED BY <1>1, <1>4, <2>2
<1>7. InStep' /\ Clear(chunk')
  BY <1>1, <1>6 DEF InStep, Clear
<1>8. chunk' \o wire' = wire
  <2>1. << >> \o wire = wire
    BY <1>2
  <2> QED BY <1>1, <2>1
<1>9. CASE Eaten = Wanted
  <2>1. need' = 0 /\ type' = 0
    BY <1>1, <1>5, <1>9
  <2>2. Between(d + 1)'
    BY <1>1, <1>4, <1>8, <1>9, <2>1 DEF Between
  <2>3. d + 1 \in 0..Len(sent) /\ sent \in Seq(Messages)
    BY <1>4, NextMessage
  <2>4. Done(sent, d + 1) = Done(sent, d)
    BY <1>4, <2>3, DoneStep
  <2>5. Place(d + 1)'
    BY <1>1, <1>4, <2>2, <2>4 DEF Place
  <2> QED BY <1>1, <1>2, <1>7, <2>3, <2>5 DEF ParseInv
<1>10. CASE Eaten # Wanted
  <2>1. need' # 0 /\ type' = 2
    BY <1>1, <1>5, <1>10
  <2>2. chunk' \o wire' = Body(need') \o After(sent', d + 1)
    BY <1>1, <1>4, <1>8, <1>10
  <2>3. InRtcp(d)'
    BY <1>1, <1>4, <2>1, <2>2 DEF InRtcp
  <2>4. Place(d)'
    BY <1>1, <1>4, <2>3 DEF Place
  <2> QED BY <1>1, <1>2, <1>3, <1>7, <2>4 DEF ParseInv
<1> QED BY <1>9, <1>10

(* The steps keep the parsers where they believe they are.                 *)
LEMMA ParseStep ==
  ASSUME "pair" \notin Conduct, "follow" \notin Conduct,
         TypeInv, ParseInv, [Next]_vars
  PROVE  ParseInv'
<1>1. CASE UNCHANGED vars
  BY <1>1 DEF vars, client, parser, ParseInv, InStep, Place, Between, InRequest, InRtcp
<1>2. CASE RequestRefused
  BY <1>2 DEF RequestRefused, ParseInv
<1> QED BY <1>1, <1>2, HandleParse, RecvParse, HangupParse, ClassifyParse, RequestOkParse,
           RequestContinuesParse, RtcpParseParse DEF Next

(* Where the parsers believe they are is where they are.                   *)
LEMMA InPlace ==
  ASSUME "pair" \notin Conduct, "follow" \notin Conduct
  PROVE  Spec => [](TypeInv /\ ParseInv)
<1>1. TypeInv /\ ParseInv /\ [Next]_vars => (TypeInv /\ ParseInv)'
  BY TypeStep, ParseStep
<1> QED BY <1>1, TypeBegins, ParseBegins, PTL DEF Spec

(* OnRead knows how much of a chunk is left, l, while the network does not *)
(* cut a pair of bytes that is read at once and nothing follows an RTCP    *)
(* packet in its chunk.                                                    *)
THEOREM KnowsWhatIsLeft ==
  ASSUME "pair" \notin Conduct, "follow" \notin Conduct
  PROVE  Spec => []NeverAstray
<1>1. TypeInv /\ ParseInv => NeverAstray
  BY DEF NeverAstray, ParseInv, TypeInv
<1> QED BY <1>1, InPlace, PTL

(* Under the same conduct the requests processed are the requests sent, in *)
(* order and whole, however they are cut, and all of them when all is      *)
(* received: as long as no client before left in the middle of a message.  *)
THEOREM RequestsArrive ==
  ASSUME "pair" \notin Conduct, "follow" \notin Conduct
  PROVE  Spec => []Delivered
<1>1. TypeInv /\ ParseInv => Delivered
  <2> SUFFICES ASSUME TypeInv, ParseInv, open, tidy
               PROVE  IsPrefix(got, Asked) /\ (wire = << >> /\ l = 0 => got = Asked)
    BY DEF Delivered
  <2>1. PICK d \in 0..Len(sent) : got = Done(sent, d)
    BY DEF ParseInv, Place
  <2>2. IsPrefix(Done(sent, d), Requests(sent))
    BY DoneFirst DEF TypeInv, TypeOK
  <2>3. wire = << >> /\ l = 0 => got = Requests(sent)
    BY Exhausted
  <2> QED BY <2>1, <2>2, <2>3 DEF Asked
<1> QED BY <1>1, InPlace, PTL

(* Under the same conduct a session of the pool begins a client with empty *)
(* parsers, though Close resets none of them.                              *)
THEOREM BeginsClean ==
  ASSUME "pair" \notin Conduct, "follow" \notin Conduct
  PROVE  Spec => []CleanStart
<1>1. TypeInv /\ ParseInv => CleanStart
  <2> SUFFICES ASSUME TypeInv, ParseInv, open, tidy, wire = FlattenSeq(sent)
               PROVE  type = 0 /\ held = << >> /\ need = 0
    BY DEF CleanStart
  <2>1. PICK d \in 0..Len(sent) : Place(d)
    BY DEF ParseInv
  <2>2. Len(After(sent, d)) <= Len(wire)
    BY AfterAll DEF TypeInv, TypeOK
  <2>3. Len(chunk) \in Nat /\ Len(wire) \in Nat /\ Len(held) \in Nat
    BY LeftOver
  <2>4. ASSUME InRequest(d) PROVE FALSE
    <3>1. Len(held) + Len(chunk) + Len(wire) = Len(After(sent, d))
      BY <2>4, LeftOver
    <3>2. Len(held) = 0 /\ Len(chunk) = 0
      BY <2>2, <2>3, <3>1
    <3>3. held \in Seq(Byte) /\ chunk \in Seq(Byte)
      BY LeftOver
    <3>4. held = << >> /\ chunk = << >>
      BY <3>2, <3>3, EmptySeq
    <3> QED BY <2>4, <3>4 DEF InRequest
  <2>5. ASSUME InRtcp(d) PROVE FALSE
    <3>1. PICK k \in 0..2 :
             /\ Len(sent[d + 1]) = 4 + k
             /\ Len(chunk) + Len(wire)
                   = (IF need = 0 THEN 2 + k ELSE need) + Len(After(sent, d + 1))
      BY <2>5, LeftOver
    <3>2. d < Len(sent) /\ need \in 0..2
      BY <2>5 DEF InRtcp, TypeInv, TypeOK
    <3>3. /\ Len(After(sent, d)) = Len(sent[d + 1]) + Len(After(sent, d + 1))
          /\ After(sent, d + 1) \in Seq(Byte)
      BY <3>2, NextMessage
    <3>4. PICK x \in Nat, w \in Nat, r \in Nat :
             x = Len(chunk) /\ w = Len(wire) /\ r = Len(After(sent, d + 1))
      <4>1. Len(After(sent, d + 1)) \in Nat
        BY <3>3
      <4> QED BY <2>3, <4>1, Zenon
    <3>5. x + w = (IF need = 0 THEN 2 + k ELSE need) + r
      BY <3>1, <3>4, Zenon
    <3>6. (4 + k) + r <= w
      BY <2>2, <3>1, <3>3, <3>4
    <3>7. (IF need = 0 THEN 2 + k ELSE need) <= 2 + k
      BY <3>2
    <3> QED BY <3>2, <3>5, <3>6, <3>7
  <2> QED BY <2>1, <2>4, <2>5 DEF Place, Between
<1> QED BY <1>1, InPlace, PTL
=============================================================================
