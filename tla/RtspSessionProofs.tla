-------------------------- MODULE RtspSessionProofs --------------------------
(***************************************************************************)
(* Theorems about RtspSession, for every number of sessions, clients and   *)
(* descriptors: what holds of any clients and after any failure, what      *)
(* holds of clients that wait for their answers, and of orderly ones.      *)
(***************************************************************************)
EXTENDS RtspSession, SequenceTheorems, TLAPS

(* The types, of what has to do with connections and of the players.       *)
NetType == /\ conn \in [Fds -> Clients \cup {NoClient}]
           /\ served \subseteq Clients /\ gone \subseteq served
           /\ inbox \in [Clients -> Seq(Requests)]
           /\ owed \in [Clients -> 0..MaxOwed]
           /\ fd \in [Sessions -> Fds \cup {NoFd}]
           /\ interest \in [Sessions -> {"none", "in", "out"}]
           /\ answer \in [Sessions -> {"none", "whole", "rest"}]
           /\ asker \in [Sessions -> Clients \cup {NoClient}]
           /\ reading \in Sessions \cup {NoSession}
           /\ fault \in {"none", "null", "wild", "attach", "subevent", "freed"}

PlayType == /\ told \in [Clients -> {"nothing", "mp4", "live", "playing"}]
            /\ player \in [Sessions -> {"null", "wild", "mp4", "live"}]
            /\ mp4 \in [Sessions -> Mp4]
            /\ live \in [Sessions -> [fd : Fds \cup {NoFd}, on : 0..LiveTracks]]

(* A descriptor is one session's, a client is at one descriptor, and epoll *)
(* watches the connections that sessions have.                             *)
ConnInv == /\ \A s \in Sessions : fd[s] # NoFd => conn[fd[s]] \in Clients
           /\ \A s, t \in Sessions : fd[s] # NoFd /\ fd[s] = fd[t] => s = t
           /\ \A f \in Fds : conn[f] # NoClient => conn[f] \in served
           /\ \A f, g \in Fds : conn[f] # NoClient /\ conn[f] = conn[g] => f = g
           /\ \A s \in Sessions : interest[s] = "none" <=> fd[s] = NoFd
           /\ \A c \in Clients \ served :
                 owed[c] = 0 /\ inbox[c] = << >> /\ told[c] = "nothing"

(* What a client is owed covers what is to be read and to be sent.         *)
Sending(s) == IF interest[s] = "out" THEN 1 ELSE 0
OwedInv == \A s \in Sessions :
   fd[s] # NoFd => owed[Peer(s)] >= Len(inbox[Peer(s)]) + Sending(s)

NetInv == NetType /\ ConnInv /\ OwedInv /\ AnswerToAsker

(* The player of a session in the pool is clean, if it has one.            *)
CleanInv == \A s \in Sessions :
   fd[s] = NoFd =>
      /\ player[s] = "mp4" => Quiet([mp4[s] EXCEPT !.lost = FALSE])
      /\ player[s] = "live" => live[s] = NewLive

AnyInv == NetInv /\ PlayType /\ CleanInv

-----------------------------------------------------------------------------
(* Two sessions with connections have different clients.                   *)
LEMMA Peers ==
  ASSUME NetInv, NEW s \in Sessions, fd[s] # NoFd
  PROVE  /\ fd[s] \in Fds /\ Peer(s) \in Clients /\ Peer(s) \in served
         /\ \A t \in Sessions : t # s /\ fd[t] # NoFd =>
               fd[t] \in Fds /\ fd[t] # fd[s]
               /\ Peer(t) \in Clients /\ Peer(t) # Peer(s)
<1> USE RtspSessionAssumption
<1>1. \A t \in Sessions : fd[t] # NoFd => fd[t] \in Fds /\ Peer(t) \in Clients
  BY DEF NetInv, NetType, ConnInv, Peer
<1>2. Peer(s) \in served
  BY <1>1 DEF NetInv, ConnInv, Peer
<1>3. ASSUME NEW t \in Sessions, t # s, fd[t] # NoFd
      PROVE  fd[t] # fd[s] /\ Peer(t) # Peer(s)
  BY <1>1, <1>3 DEF NetInv, ConnInv, Peer
<1> QED BY <1>1, <1>2, <1>3

(* Steps that touch neither connections nor requests nor answers: the      *)
(* movie timer's.                                                          *)
LEMMA NetKept ==
  ASSUME NetInv, UNCHANGED <<net, sending, fd, told>>,
         reading' \in Sessions \cup {NoSession},
         fault' \in {"none", "null", "wild", "attach", "subevent", "freed"}
  PROVE  NetInv'
BY DEF NetInv, NetType, ConnInv, OwedInv, Sending, AnswerToAsker, Peer, net, sending

(* The next request of a session's client, and what is left of the others. *)
LEMMA TakesOne ==
  ASSUME NetInv, NEW s \in Sessions, NEW v, Takes(s, v)
  PROVE  /\ fault = "none" /\ fd[s] # NoFd /\ Peer(s) \in Clients
         /\ Request(s) \in Requests /\ Request(s).verb = v
         /\ inbox' \in [Clients -> Seq(Requests)]
         /\ Len(inbox'[Peer(s)]) = Len(inbox[Peer(s)]) - 1
         /\ Len(inbox[Peer(s)]) \in Nat
         /\ \A i \in DOMAIN inbox'[Peer(s)] :
               /\ i + 1 \in DOMAIN inbox[Peer(s)]
               /\ inbox'[Peer(s)][i] = inbox[Peer(s)][i + 1]
         /\ \A c \in Clients : c # Peer(s) => inbox'[c] = inbox[c]
<1>1. fault = "none" /\ fd[s] # NoFd /\ inbox[Peer(s)] # << >> /\ Request(s).verb = v
  BY DEF Takes, Asked, InOnRead, Request
<1>2. Peer(s) \in Clients
  BY <1>1, Peers
<1>3. inbox \in [Clients -> Seq(Requests)]
  BY DEF NetInv, NetType
<1>4. inbox' = [inbox EXCEPT ![Peer(s)] = Tail(@)]
  BY DEF Takes
<1> DEFINE q == inbox[Peer(s)]
<1>5. q \in Seq(Requests) /\ q # << >>
  BY <1>1, <1>2, <1>3
<1>6. /\ Head(q) \in Requests /\ Tail(q) \in Seq(Requests)
      /\ Len(Tail(q)) = Len(q) - 1 /\ Len(q) \in Nat
      /\ DOMAIN Tail(q) = 1..Len(q) - 1 /\ DOMAIN q = 1..Len(q)
      /\ \A i \in 1..Len(q) - 1 : Tail(q)[i] = q[i + 1]
  BY <1>5, HeadTailProperties
<1>7. inbox'[Peer(s)] = Tail(q)
  BY <1>2, <1>3, <1>4
<1>8. \A c \in Clients : c # Peer(s) => inbox'[c] = inbox[c]
  BY <1>3, <1>4
<1>9. inbox' \in [Clients -> Seq(Requests)]
  BY <1>3, <1>4, <1>6
<1>10. ASSUME NEW i \in DOMAIN Tail(q)
       PROVE  i + 1 \in DOMAIN q /\ Tail(q)[i] = q[i + 1]
  BY <1>6
<1> QED BY <1>1, <1>2, <1>6, <1>7, <1>8, <1>9, <1>10 DEF Request

(* ProcessRequest: the answer is the peer's, and it is one of those owed.  *)
LEMMA AnswersKeep ==
  ASSUME NetInv, NEW s \in Sessions, NEW v, Takes(s, v), Answers(s),
         \A c \in Clients : c # Peer(s) => told'[c] = told[c]
  PROVE  NetInv'
<1> USE RtspSessionAssumption
<1>1. /\ fault = "none" /\ fd[s] # NoFd /\ Peer(s) \in Clients /\ Peer(s) \in served
      /\ inbox' \in [Clients -> Seq(Requests)]
      /\ Len(inbox'[Peer(s)]) = Len(inbox[Peer(s)]) - 1
      /\ Len(inbox[Peer(s)]) \in Nat
      /\ \A c \in Clients : c # Peer(s) => inbox'[c] = inbox[c]
  BY TakesOne, Peers
<1>2. \A t \in Sessions : Peer(t)' = Peer(t) /\ fd'[t] = fd[t]
  BY DEF Answers, Peer
<1>3. /\ answer'[s] = "whole" /\ asker'[s] = Peer(s) /\ interest'[s] = "out"
      /\ \A t \in Sessions : t # s =>
            /\ answer'[t] = answer[t] /\ asker'[t] = asker[t]
            /\ interest'[t] = interest[t]
  BY DEF Answers, NetInv, NetType
<1>4. NetType'
  BY <1>1 DEF Answers, NetInv, NetType
<1>5. ConnInv'
  <2>1. UNCHANGED <<conn, served, owed, fd>>
    BY DEF Answers
  <2>2. \A t \in Sessions : interest'[t] = "none" <=> fd'[t] = NoFd
    BY <1>1, <1>3, <2>1 DEF NetInv, ConnInv
  <2>3. \A c \in Clients \ served : c # Peer(s)
    BY <1>1
  <2>4. \A c \in Clients \ served' :
           owed'[c] = 0 /\ inbox'[c] = << >> /\ told'[c] = "nothing"
    BY <1>1, <2>1, <2>3 DEF NetInv, ConnInv
  <2> QED BY <2>1, <2>2, <2>4 DEF NetInv, ConnInv
<1>6. OwedInv'
  <2> SUFFICES ASSUME NEW t \in Sessions, fd'[t] # NoFd
               PROVE  owed'[Peer(t)] >= Len(inbox'[Peer(t)]) + Sending(t)'
    BY <1>2 DEF OwedInv
  <2>1. owed' = owed /\ fd'[t] = fd[t]
    BY DEF Answers
  <2>2. owed[Peer(t)] >= Len(inbox[Peer(t)]) + Sending(t)
    BY <2>1 DEF NetInv, OwedInv
  <2>3. CASE t = s
    BY <2>1, <2>2, <2>3, <1>1, <1>3 DEF Sending, NetInv, NetType
  <2>4. CASE t # s
    <3>1. Peer(t) # Peer(s) /\ Peer(t) \in Clients
      BY <2>4, <2>1, <1>1, Peers
    <3> QED BY <2>1, <2>2, <2>4, <3>1, <1>1, <1>3 DEF Sending
  <2> QED BY <2>3, <2>4
<1>7. AnswerToAsker'
  BY <1>2, <1>3 DEF NetInv, AnswerToAsker
<1> QED BY <1>4, <1>5, <1>6, <1>7 DEF NetInv

(* A request on which the process dies.                                    *)
LEMMA DiesKeeps ==
  ASSUME NetInv, NEW s \in Sessions, NEW v, Takes(s, v),
         NEW why \in {"null", "wild", "attach"}, Dies(why)
  PROVE  NetInv'
<1>1. /\ fd[s] # NoFd /\ Peer(s) \in Clients
      /\ Peer(s) \in served
      /\ inbox' \in [Clients -> Seq(Requests)]
      /\ Len(inbox'[Peer(s)]) = Len(inbox[Peer(s)]) - 1
      /\ Len(inbox[Peer(s)]) \in Nat
      /\ \A c \in Clients : c # Peer(s) => inbox'[c] = inbox[c]
  BY TakesOne, Peers
<1>2. UNCHANGED <<conn, served, gone, owed, told, interest, answer, asker, fd, reading>>
  BY DEF Dies, players, sending
<1>3. \A t \in Sessions : Peer(t)' = Peer(t) /\ Sending(t)' = Sending(t)
  BY <1>2 DEF Peer, Sending
<1>4. NetType'
  BY <1>1, <1>2 DEF Dies, NetInv, NetType
<1>5. ConnInv'
  BY <1>1, <1>2 DEF NetInv, ConnInv
<1>6. OwedInv'
  <2> SUFFICES ASSUME NEW t \in Sessions, fd[t] # NoFd
               PROVE  owed[Peer(t)] >= Len(inbox'[Peer(t)]) + Sending(t)
    BY <1>2, <1>3 DEF OwedInv
  <2>1. owed[Peer(t)] >= Len(inbox[Peer(t)]) + Sending(t)
    BY DEF NetInv, OwedInv
  <2>2. CASE t = s
    BY <2>1, <2>2, <1>1 DEF Sending, NetInv, NetType
  <2>3. CASE t # s
    <3>1. Peer(t) # Peer(s) /\ Peer(t) \in Clients
      BY <2>3, <1>1, Peers
    <3> QED BY <2>1, <3>1, <1>1
  <2> QED BY <2>2, <2>3
<1>7. AnswerToAsker'
  BY <1>2, <1>3 DEF NetInv, AnswerToAsker
<1> QED BY <1>4, <1>5, <1>6, <1>7 DEF NetInv

(* Close: the connection is given back and the client forgotten; the other *)
(* sessions keep theirs.                                                   *)
LEMMA ClosedKeeps ==
  ASSUME NetInv, PlayType, NEW s \in Sessions, fd[s] # NoFd, Closed(s)
  PROVE  NetInv' /\ told' \in [Clients -> {"nothing", "mp4", "live", "playing"}]
<1> USE RtspSessionAssumption
<1>1. /\ fd[s] \in Fds /\ Peer(s) \in Clients /\ Peer(s) \in served
      /\ \A t \in Sessions : t # s /\ fd[t] # NoFd =>
            fd[t] \in Fds /\ fd[t] # fd[s]
            /\ Peer(t) \in Clients /\ Peer(t) # Peer(s)
  BY Peers
<1>2. /\ fd' = [fd EXCEPT ![s] = NoFd]
      /\ conn' = [conn EXCEPT ![fd[s]] = NoClient]
      /\ inbox' = [inbox EXCEPT ![Peer(s)] = << >>]
      /\ owed' = [owed EXCEPT ![Peer(s)] = 0]
      /\ told' = [told EXCEPT ![Peer(s)] = "nothing"]
      /\ interest' = [interest EXCEPT ![s] = "none"]
      /\ fault' \in {"none", "wild"} /\ reading' = NoSession
      /\ UNCHANGED <<served, gone, answer, asker>>
  BY DEF Closed, Hangup
<1>3. fd'[s] = NoFd /\ interest'[s] = "none" /\ conn'[fd[s]] = NoClient
  BY <1>1, <1>2 DEF NetInv, NetType
<1>4. \A t \in Sessions : t # s => fd'[t] = fd[t] /\ interest'[t] = interest[t]
  BY <1>2 DEF NetInv, NetType
<1>5. \A f \in Fds : f # fd[s] => conn'[f] = conn[f]
  BY <1>2 DEF NetInv, NetType
<1>6. \A t \in Sessions : t # s /\ fd[t] # NoFd => Peer(t)' = Peer(t)
  BY <1>1, <1>4, <1>5 DEF Peer
<1>7. \A c \in Clients : c # Peer(s) =>
         inbox'[c] = inbox[c] /\ owed'[c] = owed[c] /\ told'[c] = told[c]
  BY <1>2 DEF NetInv, NetType, PlayType
<1>8. NetType' /\ told' \in [Clients -> {"nothing", "mp4", "live", "playing"}]
  <2>1. << >> \in Seq(Requests)
    OBVIOUS
  <2> QED BY <1>1, <1>2, <2>1 DEF NetInv, NetType, PlayType
<1>9. ConnInv'
  <2>1. \A t \in Sessions : fd'[t] # NoFd => t # s /\ fd'[t] = fd[t] /\ fd[t] \in Fds
    BY <1>1, <1>3, <1>4
  <2>2. \A t \in Sessions : fd'[t] # NoFd => conn'[fd'[t]] \in Clients
    BY <2>1, <1>1, <1>5 DEF Peer
  <2>3. \A t, u \in Sessions : fd'[t] # NoFd /\ fd'[t] = fd'[u] => t = u
    BY <2>1 DEF NetInv, ConnInv
  <2>4. \A f \in Fds : conn'[f] # NoClient => f # fd[s] /\ conn'[f] = conn[f]
    BY <1>3, <1>5
  <2>5. \A f \in Fds : conn'[f] # NoClient => conn'[f] \in served'
    BY <2>4, <1>2 DEF NetInv, ConnInv
  <2>6. \A f, g \in Fds : conn'[f] # NoClient /\ conn'[f] = conn'[g] => f = g
    BY <2>4 DEF NetInv, ConnInv
  <2>7. \A t \in Sessions : interest'[t] = "none" <=> fd'[t] = NoFd
    BY <1>3, <1>4 DEF NetInv, ConnInv
  <2>8. \A c \in Clients \ served' :
           owed'[c] = 0 /\ inbox'[c] = << >> /\ told'[c] = "nothing"
    BY <1>1, <1>2, <1>7 DEF NetInv, ConnInv
  <2> QED BY <2>2, <2>3, <2>5, <2>6, <2>7, <2>8 DEF ConnInv
<1>10. OwedInv'
  <2> SUFFICES ASSUME NEW t \in Sessions, fd'[t] # NoFd
               PROVE  owed'[Peer(t)'] >= Len(inbox'[Peer(t)']) + Sending(t)'
    BY DEF OwedInv
  <2>1. t # s /\ fd[t] # NoFd
    BY <1>3, <1>4
  <2>2. Peer(t)' = Peer(t) /\ Peer(t) \in Clients /\ Peer(t) # Peer(s)
    BY <2>1, <1>1, <1>6
  <2>3. Sending(t)' = Sending(t)
    BY <2>1, <1>4 DEF Sending
  <2> QED BY <2>1, <2>2, <2>3, <1>7 DEF NetInv, OwedInv
<1>11. AnswerToAsker'
  BY <1>2, <1>3, <1>4, <1>6 DEF NetInv, AnswerToAsker
<1> QED BY <1>8, <1>9, <1>10, <1>11 DEF NetInv

(* What a step of a session leaves alone of the players.                   *)
PlaysOnly(s) == \A t \in Sessions \ {s} :
   player'[t] = player[t] /\ mp4'[t] = mp4[t] /\ live'[t] = live[t]

Quits(s) == Refuse(s) \/ ReadEnd(s) \/ WriteFails(s) \/ OnError(s)

Replies(s) == \/ DescribeLive(s) \/ DescribeMovie(s) \/ DescribeDamaged(s)
              \/ DescribeMissing(s) \/ Setup(s) \/ PlayMovie(s) \/ PlayLive(s)
              \/ Pause(s) \/ Teardown(s) \/ Other(s)

Crashes(s) == Strays(s) \/ PlayAttached(s) \/ TeardownStrays(s)

(* The operations of a movie player keep its record a movie player's.      *)
LEMMA Mp4Operations ==
  ASSUME NEW m \in Mp4
  PROVE  /\ NewMp4 \in Mp4 /\ Torndown(m) \in Mp4
         /\ \A f \in Movies : Opened(m, f) \in Mp4
         /\ \A f \in Movies : [Opened(m, f) EXCEPT !.tables = m.tables] \in Mp4
         /\ \A f \in Fds, got \in SUBSET Tracks : Played(m, f, got) \in Mp4
         /\ \A t \in Tracks : [m EXCEPT !.channels = @ \cup {t}] \in Mp4
         /\ [m EXCEPT !.paced = FALSE] \in Mp4
         /\ [m EXCEPT !.timer = "off"] \in Mp4
         /\ \A w \in SUBSET m.samples : [m EXCEPT !.samples = w] \in Mp4
<1>1. NewMp4 \in Mp4 /\ Torndown(m) \in Mp4
  BY DEF NewMp4, Torndown, Mp4
<1>2. ASSUME NEW f \in Movies
      PROVE  /\ Opened(m, f) \in Mp4
             /\ [Opened(m, f) EXCEPT !.tables = m.tables] \in Mp4
  BY DEF Opened, Mp4
<1>3. ASSUME NEW f \in Fds, NEW got \in SUBSET Tracks
      PROVE  Played(m, f, got) \in Mp4
  <2> DEFINE a == [m EXCEPT !.rtsp = IF @ = NoFd THEN f ELSE @, !.samples = {}]
  <2>1. a \in Mp4
    BY DEF Mp4
  <2>2. [a EXCEPT !.samples = got, !.paced = TRUE, !.timer = "set"] \in Mp4
    BY <2>1 DEF Mp4
  <2> QED BY <2>1, <2>2 DEF Played
<1>4. ASSUME NEW t \in Tracks
      PROVE  [m EXCEPT !.channels = @ \cup {t}] \in Mp4
  BY DEF Mp4
<1>5. /\ [m EXCEPT !.paced = FALSE] \in Mp4
      /\ [m EXCEPT !.timer = "off"] \in Mp4
      /\ \A w \in SUBSET m.samples : [m EXCEPT !.samples = w] \in Mp4
  BY DEF Mp4
<1> QED BY <1>1, <1>2, <1>3, <1>4, <1>5

(* A request that is answered.                                             *)
LEMMA RepliesKeep ==
  ASSUME NetInv, PlayType, NEW s \in Sessions, Replies(s)
  PROVE  /\ NetInv' /\ PlayType' /\ PlaysOnly(s)
         /\ \E v : Takes(s, v)
         /\ Answers(s)
         /\ \A c \in Clients : c # Peer(s) => told'[c] = told[c]
<1>1. PICK v : Takes(s, v)
  BY DEF Replies, DescribeLive, DescribeMovie, DescribeDamaged, DescribeMissing,
         Setup, PlayMovie, PlayLive, Pause, Teardown, Other
<1>2. Answers(s)
  BY DEF Replies, DescribeLive, DescribeMovie, DescribeDamaged, DescribeMissing,
         Setup, PlayMovie, PlayLive, Pause, Teardown, Other
<1>3. /\ fd[s] # NoFd /\ fd[s] \in Fds /\ Peer(s) \in Clients
      /\ Request(s) \in Requests /\ Request(s).verb = v
  BY <1>1, TakesOne, Peers
<1> DEFINE m == mp4[s]
<1>4. m \in Mp4
  BY DEF PlayType
<1>5. told' = told \/ \E w \in {"nothing", "mp4", "live", "playing"} :
                          told' = [told EXCEPT ![Peer(s)] = w]
  BY DEF Replies, DescribeLive, DescribeMovie, DescribeDamaged, DescribeMissing,
         Setup, PlayMovie, PlayLive, Pause, Teardown, Other, Tells, players
<1>6. player' = player \/ \E w \in {"mp4", "live"} :
                              player' = [player EXCEPT ![s] = w]
  BY DEF Replies, DescribeLive, DescribeMovie, DescribeDamaged, DescribeMissing,
         Setup, PlayMovie, PlayLive, Pause, Teardown, Other, players
<1>7. live' = live \/ \E w \in [fd : Fds \cup {NoFd}, on : 0..LiveTracks] :
                          live' = [live EXCEPT ![s] = w]
  <2>1. CASE PlayLive(s)
    BY <2>1, <1>3 DEF PlayLive
  <2>2. CASE Teardown(s)
    <3>1. NewLive \in [fd : Fds \cup {NoFd}, on : 0..LiveTracks]
      BY RtspSessionAssumption DEF NewLive
    <3> QED BY <2>2, <3>1 DEF Teardown
  <2>3. CASE ~PlayLive(s) /\ ~Teardown(s)
    BY <2>3 DEF Replies, DescribeLive, DescribeMovie, DescribeDamaged,
                DescribeMissing, Setup, PlayMovie, Pause, Other, players
  <2> QED BY <2>1, <2>2, <2>3
<1>8. mp4' = mp4 \/ \E w \in Mp4 : mp4' = [mp4 EXCEPT ![s] = w]
  <2>1. CASE DescribeLive(s) \/ PlayLive(s) \/ Other(s)
    BY <2>1 DEF DescribeLive, PlayLive, Other, players
  <2>2. CASE DescribeMovie(s)
    BY <2>2, <1>4, Mp4Operations DEF DescribeMovie
  <2>3. CASE DescribeDamaged(s)
    BY <2>3, <1>4, Mp4Operations DEF DescribeDamaged
  <2>4. CASE DescribeMissing(s)
    <3>1. mp4' = [mp4 EXCEPT ![s] = [m EXCEPT !.paced = FALSE]]
      BY <2>4 DEF DescribeMissing
    <3> QED BY <3>1, <1>4, Mp4Operations
  <2>5. CASE Setup(s)
    <3>1. CASE player[s] = "live"
      BY <2>5, <3>1 DEF Setup
    <3>2. CASE player[s] # "live"
      <4>1. mp4' = [mp4 EXCEPT ![s] = [m EXCEPT !.channels = @ \cup {Request(s).track}]]
        BY <2>5, <3>2 DEF Setup
      <4>2. Request(s).verb = "SETUP"
        BY <2>5 DEF Setup, Takes, Asked, Request
      <4>3. Request(s).track \in Tracks
        BY <4>2, <1>3 DEF Requests, Verbs
      <4> QED BY <4>1, <4>3, <1>4, Mp4Operations
    <3> QED BY <3>1, <3>2
  <2>6. CASE PlayMovie(s)
    BY <2>6, <1>3, <1>4, Mp4Operations DEF PlayMovie
  <2>7. CASE Pause(s)
    <3>1. mp4' = mp4 \/ mp4' = [mp4 EXCEPT ![s] = [m EXCEPT !.timer = "off"]]
      BY <2>7 DEF Pause
    <3> QED BY <3>1, <1>4, Mp4Operations
  <2>8. CASE Teardown(s)
    BY <2>8, <1>4, Mp4Operations DEF Teardown
  <2> QED BY <2>1, <2>2, <2>3, <2>4, <2>5, <2>6, <2>7, <2>8 DEF Replies
<1>9. \A c \in Clients : c # Peer(s) => told'[c] = told[c]
  BY <1>5 DEF PlayType
<1>10. NetInv'
  BY <1>1, <1>2, <1>9, AnswersKeep
<1>11. PlaysOnly(s)
  BY <1>6, <1>7, <1>8 DEF PlayType, PlaysOnly
<1>12. PlayType'
  <2>1. told' \in [Clients -> {"nothing", "mp4", "live", "playing"}]
    BY <1>5 DEF PlayType
  <2>2. player' \in [Sessions -> {"null", "wild", "mp4", "live"}]
    BY <1>6 DEF PlayType
  <2>3. mp4' \in [Sessions -> Mp4]
    BY <1>8 DEF PlayType
  <2>4. live' \in [Sessions -> [fd : Fds \cup {NoFd}, on : 0..LiveTracks]]
    BY <1>7 DEF PlayType
  <2> QED BY <2>1, <2>2, <2>3, <2>4 DEF PlayType
<1> QED BY <1>1, <1>2, <1>9, <1>10, <1>11, <1>12

(* One that kills the process.                                             *)
LEMMA CrashesKeep ==
  ASSUME NetInv, PlayType, NEW s \in Sessions, Crashes(s)
  PROVE  /\ NetInv' /\ fault' # "none" /\ \E v : Takes(s, v)
         /\ UNCHANGED <<conn, owed, interest, fd, player, mp4, live, told>>
<1>1. \E why \in {"null", "wild", "attach"} : Dies(why) /\ \E v : Takes(s, v)
  BY DEF Crashes, Strays, PlayAttached, TeardownStrays
<1>2. /\ fault' # "none" /\ \E w : Takes(s, w)
      /\ UNCHANGED <<conn, owed, interest, fd, player, mp4, live, told>>
  BY <1>1 DEF Dies, players, sending
<1> QED BY <1>1, <1>2, DiesKeeps

(* The end of a connection.                                                *)
LEMMA QuitsKeep ==
  ASSUME NetInv, PlayType, NEW s \in Sessions, Quits(s)
  PROVE  /\ fd[s] # NoFd /\ Closed(s) /\ NetInv' /\ PlayType' /\ PlaysOnly(s)
<1>1. fd[s] # NoFd /\ Closed(s)
  BY DEF Quits, Refuse, ReadEnd, WriteFails, OnError, Asked, InOnRead, InOnWrite
<1>2. NetInv' /\ told' \in [Clients -> {"nothing", "mp4", "live", "playing"}]
  BY <1>1, ClosedKeeps
<1>3. /\ mp4' = mp4 \/ mp4' = [mp4 EXCEPT ![s] = Torndown(mp4[s])]
      /\ live' = live \/ live' = [live EXCEPT ![s] = NewLive]
      /\ player' = player
  BY <1>1 DEF Closed
<1>4. Torndown(mp4[s]) \in Mp4
  BY Mp4Operations DEF PlayType
<1>5. NewLive \in [fd : Fds \cup {NoFd}, on : 0..LiveTracks]
  BY RtspSessionAssumption DEF NewLive
<1>6. PlayType' /\ PlaysOnly(s)
  BY <1>2, <1>3, <1>4, <1>5 DEF PlayType, PlaysOnly
<1> QED BY <1>1, <1>2, <1>6

(* The movie timer.                                                        *)
LEMMA TimerKeeps ==
  ASSUME NetInv, PlayType, NEW s \in Sessions, OnTimer(s)
  PROVE  /\ NetInv' /\ PlayType' /\ PlaysOnly(s)
         /\ UNCHANGED <<net, sending, fd, told, player, live>>
         /\ mp4[s].timer = "set"
         /\ \/ mp4' = mp4 /\ fault' # "none"
            \/ \E w \in SUBSET mp4[s].samples :
                  mp4' = [mp4 EXCEPT ![s].samples = w]
            \/ mp4' = [mp4 EXCEPT ![s] = Torndown(mp4[s])]
<1>1. /\ UNCHANGED <<net, sending, fd, told, player, live, reading>>
      /\ mp4[s].timer = "set"
  BY DEF OnTimer, Tick, TickEnd, TickSendFails, TickReadFails, TickFreed, Expires,
         Dry
<1>2. fault' \in {"none", "null", "wild", "attach", "subevent", "freed"}
  BY DEF OnTimer, Tick, TickEnd, TickSendFails, TickReadFails, TickFreed, Expires
<1>3. reading' \in Sessions \cup {NoSession}
  BY <1>1 DEF NetInv, NetType
<1>4. NetInv'
  BY <1>1, <1>2, <1>3, NetKept
<1>5. \/ mp4' = mp4 /\ fault' # "none"
      \/ \E w \in SUBSET mp4[s].samples :
            mp4' = [mp4 EXCEPT ![s].samples = w]
      \/ mp4' = [mp4 EXCEPT ![s] = Torndown(mp4[s])]
  <2>1. CASE Tick(s)
    BY <2>1 DEF Tick
  <2>2. CASE ~Tick(s)
    BY <2>2 DEF OnTimer, TickEnd, TickSendFails, TickReadFails, TickFreed
  <2> QED BY <2>1, <2>2
<1>6. mp4[s] \in Mp4
  BY DEF PlayType
<1>7. mp4' = mp4 \/ \E w \in Mp4 : mp4' = [mp4 EXCEPT ![s] = w]
  BY <1>5, <1>6, Mp4Operations
<1>8. PlayType' /\ PlaysOnly(s)
  BY <1>1, <1>7 DEF PlayType, PlaysOnly
<1> QED BY <1>1, <1>4, <1>5, <1>8

(* What goes on without a request: a connection, and the answer sent.      *)
LEMMA WritesKeep ==
  ASSUME NetInv, NEW s \in Sessions, Write(s)
  PROVE  /\ NetInv' /\ UNCHANGED <<conn, inbox, fd, fault, players>>
         /\ fd[s] # NoFd /\ interest[s] = "out" /\ interest'[s] = "in"
         /\ owed'[Peer(s)] = owed[Peer(s)] - 1
         /\ owed[Peer(s)] \in Nat
         /\ \A c \in Clients : c # Peer(s) => owed'[c] = owed[c]
         /\ \A t \in Sessions : t # s => interest'[t] = interest[t]
<1> USE RtspSessionAssumption
<1>1. /\ fd[s] # NoFd /\ fd[s] \in Fds /\ Peer(s) \in Clients /\ Peer(s) \in served
      /\ \A t \in Sessions : t # s /\ fd[t] # NoFd =>
            fd[t] \in Fds /\ fd[t] # fd[s]
            /\ Peer(t) \in Clients /\ Peer(t) # Peer(s)
  BY Peers DEF Write, InOnWrite
<1>2. /\ owed' = [owed EXCEPT ![Peer(s)] = @ - 1]
      /\ interest' = [interest EXCEPT ![s] = "in"]
      /\ answer' = [answer EXCEPT ![s] = "none"]
      /\ interest[s] = "out"
      /\ UNCHANGED <<conn, served, gone, inbox, players, asker, fd, reading, fault>>
  BY DEF Write, InOnWrite
<1>3. /\ owed'[Peer(s)] = owed[Peer(s)] - 1 /\ interest'[s] = "in"
      /\ \A c \in Clients : c # Peer(s) => owed'[c] = owed[c]
      /\ \A t \in Sessions : t # s => interest'[t] = interest[t] /\ answer'[t] = answer[t]
  BY <1>1, <1>2 DEF NetInv, NetType
<1>4. /\ inbox[Peer(s)] \in Seq(Requests) /\ Len(inbox[Peer(s)]) \in Nat
      /\ owed[Peer(s)] \in 0..MaxOwed
  BY <1>1, LenProperties DEF NetInv, NetType
<1>5. owed[Peer(s)] >= Len(inbox[Peer(s)]) + 1
  BY <1>1, <1>2 DEF NetInv, OwedInv, Sending
<1>6. owed[Peer(s)] - 1 \in 0..MaxOwed
  BY <1>4, <1>5
<1>7. NetType'
  BY <1>1, <1>2, <1>6 DEF NetInv, NetType
<1>8. \A t \in Sessions : Peer(t)' = Peer(t)
  BY <1>2 DEF Peer
<1>9. ConnInv'
  <2>1. \A t \in Sessions : interest'[t] = "none" <=> fd'[t] = NoFd
    BY <1>1, <1>2, <1>3 DEF NetInv, ConnInv
  <2>2. told' = told
    BY <1>2 DEF players
  <2>3. \A c \in Clients \ served : c # Peer(s)
    BY <1>1
  <2>4. \A c \in Clients \ served' :
           owed'[c] = 0 /\ inbox'[c] = << >> /\ told'[c] = "nothing"
    BY <1>2, <1>3, <2>2, <2>3 DEF NetInv, ConnInv
  <2> QED BY <1>2, <2>1, <2>4 DEF NetInv, ConnInv
<1>10. OwedInv'
  <2> SUFFICES ASSUME NEW t \in Sessions, fd[t] # NoFd
               PROVE  owed'[Peer(t)] >= Len(inbox[Peer(t)]) + Sending(t)'
    BY <1>2, <1>8 DEF OwedInv
  <2>1. CASE t = s
    BY <2>1, <1>3, <1>4, <1>5 DEF Sending
  <2>2. CASE t # s
    BY <2>2, <1>1, <1>3 DEF NetInv, OwedInv, Sending
  <2> QED BY <2>1, <2>2
<1>11. AnswerToAsker'
  BY <1>2, <1>3, <1>8 DEF NetInv, AnswerToAsker
<1> QED BY <1>1, <1>2, <1>3, <1>4, <1>7, <1>9, <1>10, <1>11 DEF NetInv

(* A client asks.                                                          *)
LEMMA AsksKeep ==
  ASSUME NetInv, NEW c \in Clients, NEW r \in Requests, Ask(c, r)
  PROVE  /\ NetInv' /\ c \in served
         /\ UNCHANGED <<conn, players, sending, fd, reading, fault>>
         /\ owed[c] \in Nat /\ owed'[c] = owed[c] + 1
         /\ inbox[c] \in Seq(Requests) /\ inbox'[c] = Append(inbox[c], r)
         /\ \A d \in Clients : d # c => owed'[d] = owed[d] /\ inbox'[d] = inbox[d]
<1> USE RtspSessionAssumption
<1>1. /\ c \in served /\ owed[c] < MaxOwed
      /\ inbox' = [inbox EXCEPT ![c] = Append(@, r)]
      /\ owed' = [owed EXCEPT ![c] = @ + 1]
      /\ UNCHANGED <<conn, served, gone, players, sending, fd, reading, fault>>
  BY DEF Ask, Connected
<1>2. /\ owed[c] \in 0..MaxOwed /\ inbox[c] \in Seq(Requests)
      /\ owed'[c] = owed[c] + 1 /\ inbox'[c] = Append(inbox[c], r)
      /\ \A d \in Clients : d # c => owed'[d] = owed[d] /\ inbox'[d] = inbox[d]
  BY <1>1 DEF NetInv, NetType
<1>3. /\ Append(inbox[c], r) \in Seq(Requests)
      /\ Len(Append(inbox[c], r)) = Len(inbox[c]) + 1 /\ Len(inbox[c]) \in Nat
  BY <1>2, AppendProperties
<1>4. /\ told' = told /\ UNCHANGED <<interest, answer, asker>>
  BY <1>1 DEF players, sending
<1>5. NetType'
  <2>1. owed[c] + 1 \in 0..MaxOwed
    BY <1>1, <1>2
  <2> QED BY <1>1, <1>3, <1>4, <2>1 DEF NetInv, NetType
<1>6. ConnInv'
  BY <1>1, <1>2, <1>4 DEF NetInv, ConnInv
<1>7. OwedInv'
  <2> SUFFICES ASSUME NEW s \in Sessions, fd[s] # NoFd
               PROVE  owed'[Peer(s)] >= Len(inbox'[Peer(s)]) + Sending(s)
    BY <1>1, <1>4 DEF OwedInv, Peer, Sending
  <2>1. Peer(s) \in Clients /\ owed[Peer(s)] >= Len(inbox[Peer(s)]) + Sending(s)
    BY Peers DEF NetInv, OwedInv
  <2>2. CASE Peer(s) = c
    <3>1. /\ owed'[Peer(s)] = owed[c] + 1 /\ Len(inbox'[Peer(s)]) = Len(inbox[c]) + 1
          /\ owed[c] >= Len(inbox[c]) + Sending(s)
      BY <2>1, <2>2, <1>2, <1>3
    <3>2. Sending(s) \in Nat
      BY DEF Sending
    <3> QED BY <3>1, <3>2, <1>2, <1>3
  <2>3. CASE Peer(s) # c
    BY <2>1, <2>3, <1>2
  <2> QED BY <2>2, <2>3
<1>8. AnswerToAsker'
  BY <1>1, <1>4 DEF NetInv, AnswerToAsker, Peer
<1> QED BY <1>1, <1>2, <1>5, <1>6, <1>7, <1>8 DEF NetInv

(* A client is accepted.                                                   *)
LEMMA HandlesKeep ==
  ASSUME NetInv, NEW s \in Sessions, NEW c \in Clients, Handle(s, c)
  PROVE  /\ NetInv' /\ UNCHANGED <<players, inbox, owed, fault>>
         /\ c \notin served /\ fd[s] = NoFd /\ fd'[s] # NoFd /\ Peer(s)' = c
         /\ interest'[s] = "in"
         /\ \A t \in Sessions \ {s} : fd'[t] = fd[t] /\ interest'[t] = interest[t]
         /\ \A t \in Sessions \ {s} : fd[t] # NoFd => Peer(t)' = Peer(t)
<1> USE RtspSessionAssumption
<1>1. PICK f \in Fds : /\ conn[f] = NoClient
                       /\ conn' = [conn EXCEPT ![f] = c]
                       /\ fd' = [fd EXCEPT ![s] = f]
  BY DEF Handle
<1>2. /\ fd[s] = NoFd /\ c \notin served /\ served' = served \cup {c}
      /\ interest' = [interest EXCEPT ![s] = "in"]
      /\ UNCHANGED <<gone, inbox, owed, players, answer, asker, reading, fault>>
  BY DEF Handle
<1>3. /\ fd'[s] = f /\ f # NoFd /\ conn'[f] = c /\ interest'[s] = "in"
      /\ \A t \in Sessions \ {s} : fd'[t] = fd[t] /\ interest'[t] = interest[t]
      /\ \A g \in Fds \ {f} : conn'[g] = conn[g]
  BY <1>1, <1>2 DEF NetInv, NetType
<1>4. \A t \in Sessions : fd[t] # NoFd => t # s /\ fd[t] \in Fds /\ fd[t] # f
                                          /\ Peer(t) \in Clients
                                          /\ Peer(t) \in served
  BY <1>1, <1>2, Peers DEF Peer
<1>5. \A t \in Sessions \ {s} : fd[t] # NoFd => Peer(t)' = Peer(t)
  BY <1>3, <1>4 DEF Peer
<1>6. Peer(s)' = c
  BY <1>3 DEF Peer
<1>7. NetType'
  BY <1>1, <1>2 DEF NetInv, NetType
<1>8. ConnInv'
  <2>1. \A t \in Sessions : fd'[t] # NoFd => conn'[fd'[t]] \in Clients
    BY <1>3, <1>4 DEF Peer
  <2>2. \A t, u \in Sessions : fd'[t] # NoFd /\ fd'[t] = fd'[u] => t = u
    BY <1>3, <1>4 DEF NetInv, ConnInv
  <2>3. \A g \in Fds : conn'[g] # NoClient => conn'[g] \in served'
    BY <1>2, <1>3 DEF NetInv, ConnInv
  <2>4. \A g, h \in Fds : conn'[g] # NoClient /\ conn'[g] = conn'[h] => g = h
    <3>1. \A g \in Fds \ {f} : conn'[g] # NoClient => conn'[g] # c
      BY <1>2, <1>3 DEF NetInv, ConnInv
    <3> QED BY <3>1, <1>3 DEF NetInv, ConnInv
  <2>5. \A t \in Sessions : interest'[t] = "none" <=> fd'[t] = NoFd
    BY <1>3 DEF NetInv, ConnInv
  <2>6. told' = told
    BY <1>2 DEF players
  <2>7. \A d \in Clients \ served' :
           owed'[d] = 0 /\ inbox'[d] = << >> /\ told'[d] = "nothing"
    BY <1>2, <2>6 DEF NetInv, ConnInv
  <2> QED BY <2>1, <2>2, <2>3, <2>4, <2>5, <2>7 DEF ConnInv
<1>9. OwedInv'
  <2> SUFFICES ASSUME NEW t \in Sessions, fd'[t] # NoFd
               PROVE  owed[Peer(t)'] >= Len(inbox[Peer(t)']) + Sending(t)'
    BY <1>2 DEF OwedInv
  <2>1. CASE t = s
    <3>1. owed[c] = 0 /\ inbox[c] = << >>
      BY <1>2 DEF NetInv, ConnInv
    <3>2. Len(<< >>) = 0
      OBVIOUS
    <3> QED BY <2>1, <3>1, <3>2, <1>3, <1>6 DEF Sending
  <2>2. CASE t # s
    BY <2>2, <1>3, <1>5 DEF NetInv, OwedInv, Sending
  <2> QED BY <2>1, <2>2
<1>10. AnswerToAsker'
  BY <1>2, <1>3, <1>5 DEF NetInv, AnswerToAsker
<1> QED BY <1>2, <1>3, <1>5, <1>6, <1>7, <1>8, <1>9, <1>10 DEF NetInv

(* The steps that change little.                                           *)
Rests(s) == ReadAll(s) \/ WriteSome(s)

(* Reading is over, or the connection took a part of the answer.           *)
LEMMA RestsKeep ==
  ASSUME NetInv, NEW s \in Sessions, Rests(s)
  PROVE  NetInv' /\ UNCHANGED <<net, players, interest, fd, fault>>
<1>1. /\ UNCHANGED <<net, players, interest, asker, fd, fault>>
      /\ reading' \in {reading, NoSession}
      /\ answer' = answer \/ answer' = [answer EXCEPT ![s] = "rest"]
  BY DEF Rests, ReadAll, WriteSome, sending
<1>2. UNCHANGED <<conn, served, gone, inbox, owed, told>>
  BY <1>1 DEF net, players
<1>3. \A t \in Sessions : answer'[t] \in {answer[t], "rest"}
  BY <1>1 DEF NetInv, NetType
<1>4. NetType'
  BY <1>1, <1>2 DEF NetInv, NetType
<1>5. ConnInv' /\ OwedInv'
  BY <1>1, <1>2 DEF NetInv, ConnInv, OwedInv, Peer, Sending
<1>6. AnswerToAsker'
  BY <1>1, <1>2, <1>3 DEF NetInv, AnswerToAsker, Peer
<1> QED BY <1>1, <1>4, <1>5, <1>6 DEF NetInv

(* A client leaves.                                                        *)
LEMMA LeavesKeep ==
  ASSUME NetInv, NEW c \in Clients, Leave(c)
  PROVE  /\ NetInv'
         /\ UNCHANGED <<conn, inbox, owed, players, interest, fd, fault>>
<1>1. /\ c \in served /\ gone' = gone \cup {c}
      /\ UNCHANGED <<conn, served, inbox, owed, told, players, interest, answer,
                     asker, fd, reading, fault>>
  BY DEF Leave, players, sending
<1> QED BY <1>1 DEF NetInv, NetType, ConnInv, OwedInv, Sending, AnswerToAsker, Peer

(* The steps of the specification, by what they do to the connections.     *)
Steps(s) == \/ Replies(s) \/ Crashes(s) \/ Quits(s) \/ Rests(s) \/ Write(s)
            \/ OnTimer(s) \/ \E c \in Clients : Handle(s, c)

(* Every step is a client's or a session's.                                *)
LEMMA NextSteps ==
  ASSUME Next
  PROVE  \/ \E c \in Clients : Leave(c) \/ \E r \in Requests : Ask(c, r)
         \/ \E s \in Sessions : Steps(s)
<1>1. CASE Client
  BY <1>1 DEF Client
<1>2. ASSUME NEW s \in Sessions, Session(s)
      PROVE  Steps(s)
  BY <1>2 DEF Session, OnRead, OnWrite, Steps, Replies, Crashes, Quits, Rests
<1>3. ASSUME NEW s \in Sessions, OnTimer(s) \/ \E c \in Clients : Handle(s, c)
      PROVE  Steps(s)
  BY <1>3 DEF Steps
<1> QED BY <1>1, <1>2, <1>3 DEF Next

(* A movie player is what its fields are.                                  *)
LEMMA SameMp4 ==
  ASSUME NEW m \in Mp4, NEW n \in Mp4,
         m.file = n.file, m.tables = n.tables, m.lost = n.lost, m.rtsp = n.rtsp,
         m.paced = n.paced, m.timer = n.timer, m.channels = n.channels,
         m.samples = n.samples
  PROVE  m = n
BY DEF Mp4

(* Quiet, by the fields.                                                   *)
LEMMA QuietFields ==
  ASSUME NEW m \in Mp4
  PROVE  Quiet(m) <=> /\ m.file = NoFile /\ m.tables = NoFile /\ ~m.lost
                      /\ m.rtsp = NoFd /\ m.timer = "off"
                      /\ m.channels = {} /\ m.samples = {}
<1> DEFINE n == [m EXCEPT !.paced = FALSE]
<1>1. /\ n \in Mp4 /\ n.file = m.file /\ n.tables = m.tables /\ n.lost = m.lost
      /\ n.rtsp = m.rtsp /\ n.paced = FALSE /\ n.timer = m.timer
      /\ n.channels = m.channels /\ n.samples = m.samples
  BY DEF Mp4
<1>2. /\ NewMp4 \in Mp4 /\ NewMp4.file = NoFile /\ NewMp4.tables = NoFile
      /\ NewMp4.lost = FALSE /\ NewMp4.rtsp = NoFd /\ NewMp4.paced = FALSE
      /\ NewMp4.timer = "off" /\ NewMp4.channels = {} /\ NewMp4.samples = {}
  BY DEF NewMp4, Mp4
<1>3. m.lost \in BOOLEAN
  BY DEF Mp4
<1>4. Quiet(m) <=> n = NewMp4
  BY DEF Quiet
<1> HIDE DEF n
<1>5. n = NewMp4 => /\ m.file = NoFile /\ m.tables = NoFile /\ ~m.lost
                      /\ m.rtsp = NoFd /\ m.timer = "off"
                      /\ m.channels = {} /\ m.samples = {}
  BY <1>1, <1>2
<1>6. /\ m.file = NoFile /\ m.tables = NoFile /\ ~m.lost
      /\ m.rtsp = NoFd /\ m.timer = "off"
      /\ m.channels = {} /\ m.samples = {}
      => n = NewMp4
  BY <1>1, <1>2, <1>3, SameMp4
<1> QED BY <1>4, <1>5, <1>6

(* The player that Close tears down is clean.                              *)
LEMMA TorndownClean ==
  ASSUME NEW m \in Mp4
  PROVE  /\ Quiet([Torndown(m) EXCEPT !.lost = FALSE])
         /\ ~m.lost => Quiet(Torndown(m))
<1> DEFINE t == Torndown(m)
<1>1. /\ t \in Mp4 /\ t.file = NoFile /\ t.tables = NoFile /\ t.lost = m.lost
      /\ t.rtsp = NoFd /\ t.timer = "off"
      /\ t.channels = {} /\ t.samples = {}
  BY DEF Mp4, Torndown
<1> DEFINE u == [t EXCEPT !.lost = FALSE]
<1> HIDE DEF t
<1>2. /\ u \in Mp4 /\ u.file = NoFile /\ u.tables = NoFile /\ ~u.lost
      /\ u.rtsp = NoFd /\ u.timer = "off"
      /\ u.channels = {} /\ u.samples = {}
  BY <1>1 DEF Mp4
<1> HIDE DEF u
<1>3. Quiet(u)
  BY <1>2, QuietFields
<1>4. ~m.lost => Quiet(t)
  BY <1>1, QuietFields
<1> QED BY <1>3, <1>4 DEF u, t

(* No step leaves the player of an idle session unclean.                   *)
LEMMA CleanKept ==
  ASSUME NetInv, PlayType, CleanInv, NEW s \in Sessions, Steps(s)
  PROVE  NetInv' /\ PlayType' /\ CleanInv'
<1>1. CASE Replies(s)
  <2>1. fd' = fd /\ fd[s] # NoFd /\ PlaysOnly(s) /\ NetInv' /\ PlayType'
    BY <1>1, RepliesKeep, TakesOne DEF Answers
  <2> QED BY <2>1 DEF CleanInv, PlaysOnly
<1>2. CASE Crashes(s)
  BY <1>2, CrashesKeep DEF CleanInv, PlayType
<1>3. CASE Quits(s)
  <2>1. NetInv' /\ PlayType' /\ PlaysOnly(s) /\ Closed(s) /\ fd[s] # NoFd
    BY <1>3, QuitsKeep
  <2>2. \A t \in Sessions \ {s} : fd'[t] = fd[t]
    BY <2>1 DEF Closed, Hangup, NetInv, NetType
  <2>3. player'[s] = "mp4" => Quiet([mp4'[s] EXCEPT !.lost = FALSE])
    <3>1. player'[s] = "mp4" => mp4'[s] = Torndown(mp4[s])
      BY <2>1 DEF Closed, PlayType
    <3> QED BY <3>1, TorndownClean DEF PlayType
  <2>4. player'[s] = "live" => live'[s] = NewLive
    BY <2>1 DEF Closed, PlayType
  <2>5. CleanInv'
    BY <2>1, <2>2, <2>3, <2>4 DEF CleanInv, PlaysOnly
  <2> QED BY <2>1, <2>5
<1>4. CASE Rests(s)
  BY <1>4, RestsKeep DEF players, CleanInv, PlayType
<1>5. CASE Write(s)
  BY <1>5, WritesKeep DEF players, CleanInv, PlayType
<1>6. CASE OnTimer(s)
  <2>1. /\ NetInv' /\ PlayType' /\ PlaysOnly(s) /\ UNCHANGED <<fd, player, live>>
        /\ mp4[s].timer = "set"
    BY <1>6, TimerKeeps
  <2>2. ~Quiet([mp4[s] EXCEPT !.lost = FALSE])
    BY <2>1 DEF Quiet, NewMp4, PlayType, Mp4
  <2> QED BY <2>1, <2>2 DEF CleanInv, PlaysOnly
<1>7. ASSUME NEW c \in Clients, Handle(s, c)
      PROVE  NetInv' /\ PlayType' /\ CleanInv'
  <2>1. /\ NetInv' /\ UNCHANGED players /\ fd'[s] # NoFd
        /\ \A t \in Sessions \ {s} : fd'[t] = fd[t]
    BY <1>7, HandlesKeep
  <2> QED BY <2>1 DEF players, CleanInv, PlayType
<1> QED BY <1>1, <1>2, <1>3, <1>4, <1>5, <1>6, <1>7 DEF Steps

(* The first state is as the invariant says.                               *)
LEMMA Begins == Init => AnyInv
<1> SUFFICES ASSUME Init PROVE AnyInv
  OBVIOUS
<1> USE RtspSessionAssumption DEF Init
<1>1. NewMp4 \in Mp4 /\ NewLive \in [fd : Fds \cup {NoFd}, on : 0..LiveTracks]
  BY DEF NewMp4, Mp4, NewLive
<1>2. PlayType
  BY <1>1 DEF PlayType
<1>3. << >> \in Seq(Requests) /\ 0 \in 0..MaxOwed
  OBVIOUS
<1>4. NetType
  BY <1>3 DEF NetType
<1>5. ConnInv /\ OwedInv /\ AnswerToAsker
  BY DEF ConnInv, OwedInv, AnswerToAsker
<1>6. CleanInv
  <2>1. \A s \in Sessions : player[s] \notin {"mp4", "live"}
    OBVIOUS
  <2> QED BY <2>1 DEF CleanInv
<1> QED BY <1>2, <1>4, <1>5, <1>6 DEF AnyInv, NetInv

(* Every step keeps the invariant.                                         *)
LEMMA AnyStep == AnyInv /\ [Next]_vars => AnyInv'
<1> SUFFICES ASSUME AnyInv, [Next]_vars PROVE AnyInv'
  OBVIOUS
<1>1. CASE UNCHANGED vars
  <2>1. /\ UNCHANGED <<conn, served, gone, inbox, owed, told, player, mp4, live>>
        /\ UNCHANGED <<interest, answer, asker, fd, reading, fault>>
    BY <1>1 DEF vars, net, players, sending
  <2>2. NetType' /\ ConnInv'
    BY <2>1 DEF AnyInv, NetInv, NetType, ConnInv
  <2>3. OwedInv' /\ AnswerToAsker'
    BY <2>1 DEF AnyInv, NetInv, OwedInv, Sending, AnswerToAsker, Peer
  <2>4. PlayType' /\ CleanInv'
    BY <2>1 DEF AnyInv, PlayType, CleanInv
  <2> QED BY <2>2, <2>3, <2>4 DEF AnyInv, NetInv
<1>2. ASSUME NEW c \in Clients, Leave(c)
      PROVE  AnyInv'
  BY <1>2, LeavesKeep DEF AnyInv, players, PlayType, CleanInv
<1>3. ASSUME NEW c \in Clients, NEW r \in Requests, Ask(c, r)
      PROVE  AnyInv'
  BY <1>3, AsksKeep DEF AnyInv, players, PlayType, CleanInv
<1>4. ASSUME NEW s \in Sessions, Steps(s)
      PROVE  AnyInv'
  BY <1>4, CleanKept DEF AnyInv
<1> QED BY <1>1, <1>2, <1>3, <1>4, NextSteps

(* The types, the connections and the players of any clients.              *)
THEOREM AnyInvariance == Spec => []AnyInv
BY Begins, AnyStep, PTL DEF Spec

(* Whatever clients do, the player a session used last is clean when the   *)
(* session is back in the pool (RtspSession.cpp:303-311).                  *)
THEOREM CurrentIsClean == Spec => []CurrentClean
<1>1. AnyInv => CurrentClean
  BY DEF AnyInv, NetInv, NetType, PlayType, CleanInv, CurrentClean, TypeOK
<1> QED BY <1>1, AnyInvariance, PTL

(* Whatever clients do, an answer that is being sent is there and is the   *)
(* peer's, also after Close left an old one in m_Response.                 *)
THEOREM AnswersGoToAskers == Spec => []AnswerToAsker
<1>1. AnyInv => AnswerToAsker
  BY DEF AnyInv, NetInv
<1> QED BY <1>1, AnyInvariance, PTL

-----------------------------------------------------------------------------
(* Clients that wait for their answers.                                    *)
OneOwed == \A c \in Clients : owed[c] <= 1

OneInv == AnyInv /\ OneOwed

(* What a step of one session leaves of another with a connection.         *)
OthersKept(s) == \A t \in Sessions \ {s} :
   /\ fd'[t] = fd[t] /\ interest'[t] = interest[t]
   /\ fd[t] # NoFd => /\ Peer(t)' = Peer(t) /\ Peer(t) \in Clients
                      /\ told'[Peer(t)] = told[Peer(t)]
                      /\ inbox'[Peer(t)] = inbox[Peer(t)]
                      /\ owed'[Peer(t)] = owed[Peer(t)]

(* A step of one session leaves the others theirs.                         *)
LEMMA OthersAreKept ==
  ASSUME NetInv, PlayType, NEW s \in Sessions, Steps(s)
  PROVE  OthersKept(s) /\ PlaysOnly(s)
<1> DEFINE Apart == fd[s] # NoFd => \A t \in Sessions : t # s /\ fd[t] # NoFd =>
                       fd[t] # fd[s] /\ Peer(t) # Peer(s)
<1>1. Apart
  BY Peers
<1>2. \A t \in Sessions : fd[t] # NoFd => fd[t] \in Fds /\ Peer(t) \in Clients
  BY Peers
<1>3. CASE Replies(s)
  <2>1. /\ fd[s] # NoFd /\ PlaysOnly(s)
        /\ \A c \in Clients : c # Peer(s) => inbox'[c] = inbox[c]
        /\ \A c \in Clients : c # Peer(s) => told'[c] = told[c]
    BY <1>3, RepliesKeep, TakesOne
  <2>2. /\ interest' = [interest EXCEPT ![s] = "out"]
        /\ UNCHANGED <<conn, owed, fd>>
    BY <1>3, RepliesKeep DEF Answers
  <2>3. \A t \in Sessions \ {s} : interest'[t] = interest[t]
    BY <2>2 DEF NetInv, NetType
  <2> QED BY <1>1, <1>2, <2>1, <2>2, <2>3 DEF OthersKept, Peer
<1>4. CASE Crashes(s)
  <2>1. /\ fd[s] # NoFd /\ UNCHANGED <<conn, owed, interest, fd, player, mp4, live, told>>
        /\ \A c \in Clients : c # Peer(s) => inbox'[c] = inbox[c]
    BY <1>4, CrashesKeep, TakesOne
  <2> QED BY <1>1, <1>2, <2>1 DEF OthersKept, PlaysOnly, Peer
<1>5. CASE Quits(s)
  <2>1. fd[s] # NoFd /\ Hangup(s) /\ PlaysOnly(s) /\ interest' = [interest EXCEPT ![s] = "none"]
    BY <1>5, QuitsKeep DEF Closed
  <2>2. \A t \in Sessions \ {s} : fd'[t] = fd[t] /\ interest'[t] = interest[t]
    BY <2>1 DEF Hangup, NetInv, NetType
  <2>3. \A f \in Fds : f # fd[s] => conn'[f] = conn[f]
    BY <2>1 DEF Hangup, NetInv, NetType
  <2>4. \A c \in Clients : c # Peer(s) =>
           inbox'[c] = inbox[c] /\ owed'[c] = owed[c] /\ told'[c] = told[c]
    BY <2>1 DEF Hangup, NetInv, NetType, PlayType
  <2> QED BY <1>1, <1>2, <2>1, <2>2, <2>3, <2>4 DEF OthersKept, Peer
<1>6. CASE Rests(s)
  <2>1. UNCHANGED <<conn, inbox, owed, fd, interest, told, player, mp4, live>>
    BY <1>6, RestsKeep DEF net, players
  <2> QED BY <1>2, <2>1 DEF OthersKept, PlaysOnly, Peer
<1>7. CASE Write(s)
  <2>1. /\ UNCHANGED <<conn, inbox, fd, told, player, mp4, live>> /\ fd[s] # NoFd
        /\ \A c \in Clients : c # Peer(s) => owed'[c] = owed[c]
        /\ \A t \in Sessions : t # s => interest'[t] = interest[t]
    BY <1>7, WritesKeep DEF players
  <2> QED BY <1>1, <1>2, <2>1 DEF OthersKept, PlaysOnly, Peer
<1>8. CASE OnTimer(s)
  <2>1. /\ UNCHANGED <<net, sending, fd, told>> /\ PlaysOnly(s)
    BY <1>8, TimerKeeps
  <2>2. UNCHANGED <<conn, inbox, owed, interest>>
    BY <2>1 DEF net, sending
  <2> QED BY <1>2, <2>1, <2>2 DEF OthersKept, Peer
<1>9. ASSUME NEW c \in Clients, Handle(s, c)
      PROVE  OthersKept(s) /\ PlaysOnly(s)
  <2>1. /\ UNCHANGED <<told, player, mp4, live, inbox, owed>>
        /\ \A t \in Sessions \ {s} : fd'[t] = fd[t] /\ interest'[t] = interest[t]
        /\ \A t \in Sessions \ {s} : fd[t] # NoFd => Peer(t)' = Peer(t)
    BY <1>9, HandlesKeep DEF players
  <2> QED BY <1>2, <2>1 DEF OthersKept, PlaysOnly
<1> QED BY <1>3, <1>4, <1>5, <1>6, <1>7, <1>8, <1>9 DEF Steps

(* Clients that wait are never owed more than one answer.                  *)
LEMMA OneStep ==
  ASSUME "pipelines" \notin Conduct
  PROVE  OneInv /\ [Next]_vars => OneInv'
<1> SUFFICES ASSUME OneInv, [Next]_vars PROVE OneInv'
  OBVIOUS
<1>1. AnyInv /\ AnyInv' /\ NetInv /\ PlayType
  BY AnyStep DEF OneInv, AnyInv
<1>2. OneOwed /\ owed \in [Clients -> 0..MaxOwed]
  BY <1>1 DEF OneInv, NetInv, NetType
<1>3. CASE UNCHANGED owed
  BY <1>1, <1>2, <1>3 DEF OneInv, OneOwed
<1>4. ASSUME NEW c \in Clients, NEW r \in Requests, Ask(c, r)
      PROVE  OneInv'
  <2>1. owed[c] = 0
    BY <1>4 DEF Ask, Permitted
  <2>2. owed'[c] = 1 /\ \A d \in Clients : d # c => owed'[d] = owed[d]
    BY <1>1, <1>4, <2>1, AsksKeep
  <2> QED BY <1>1, <1>2, <2>2 DEF OneInv, OneOwed
<1>5. ASSUME NEW c \in Clients, Leave(c)
      PROVE  UNCHANGED owed
  BY <1>5 DEF Leave
<1>6. ASSUME NEW s \in Sessions, Steps(s)
      PROVE  OneInv'
  <2>1. CASE Write(s)
    <3>1. /\ owed'[Peer(s)] = owed[Peer(s)] - 1 /\ owed[Peer(s)] \in Nat
          /\ Peer(s) \in Clients
          /\ \A c \in Clients : c # Peer(s) => owed'[c] = owed[c]
      BY <1>1, <2>1, WritesKeep, Peers
    <3>2. \A c \in Clients : owed'[c] <= 1
      BY <3>1, <1>2 DEF OneOwed
    <3> QED BY <1>1, <3>2 DEF OneInv, OneOwed
  <2>2. CASE Quits(s)
    <3>1. owed' = [owed EXCEPT ![Peer(s)] = 0]
      BY <1>1, <2>2, QuitsKeep DEF Closed, Hangup
    <3>2. \A c \in Clients : owed'[c] \in {0, owed[c]}
      BY <3>1, <1>2
    <3> QED BY <1>1, <1>2, <3>2 DEF OneInv, OneOwed
  <2>3. CASE ~Write(s) /\ ~Quits(s)
    <3>1. Replies(s) => UNCHANGED owed
      BY <1>1, RepliesKeep DEF Answers
    <3>2. Crashes(s) => UNCHANGED owed
      BY <1>1, CrashesKeep
    <3>3. Rests(s) => UNCHANGED owed
      BY <1>1, RestsKeep DEF net
    <3>4. OnTimer(s) => UNCHANGED owed
      BY <1>1, TimerKeeps DEF net
    <3>5. (\E c \in Clients : Handle(s, c)) => UNCHANGED owed
      BY DEF Handle
    <3> QED BY <1>3, <1>6, <2>3, <3>1, <3>2, <3>3, <3>4, <3>5 DEF Steps
  <2> QED BY <2>1, <2>2, <2>3
<1>7. CASE UNCHANGED vars
  BY <1>3, <1>7 DEF vars, net
<1> QED BY <1>3, <1>4, <1>5, <1>6, <1>7, NextSteps

(* Of such a client there is one request to read, and no answer to send.   *)
LEMMA TheOnlyRequest ==
  ASSUME OneInv, NEW s \in Sessions, NEW v, Takes(s, v)
  PROVE  /\ fd[s] # NoFd /\ Peer(s) \in Clients
         /\ owed[Peer(s)] = 1 /\ Len(inbox[Peer(s)]) = 1 /\ interest[s] # "out"
         /\ Len(inbox'[Peer(s)]) = 0
<1> DEFINE n == Len(inbox[Peer(s)])
           k == owed[Peer(s)]
<1>1. NetInv /\ OneOwed
  BY DEF OneInv, AnyInv
<1>2. /\ fd[s] # NoFd /\ Peer(s) \in Clients
      /\ Len(inbox'[Peer(s)]) = n - 1 /\ n \in Nat
  BY <1>1, TakesOne
<1>3. inbox[Peer(s)] # << >> /\ inbox[Peer(s)] \in Seq(Requests)
  BY <1>1, <1>2 DEF Takes, Asked, NetInv, NetType
<1>4. n >= 1
  BY <1>2, <1>3, EmptySeq
<1>5. k >= n + Sending(s)
  BY <1>1, <1>2 DEF NetInv, OwedInv
<1>6. k <= 1 /\ k \in Nat
  BY <1>1, <1>2 DEF OneOwed, NetInv, NetType
<1> HIDE DEF n, k
<1>7. CASE interest[s] = "out"
  <2>1. Sending(s) = 1
    BY <1>7 DEF Sending
  <2> QED BY <2>1, <1>2, <1>4, <1>5, <1>6
<1>8. CASE interest[s] # "out"
  <2>1. Sending(s) = 0
    BY <1>8 DEF Sending
  <2>2. k = 1 /\ n = 1
    BY <2>1, <1>2, <1>4, <1>5, <1>6
  <2> QED BY <2>2, <1>2, <1>8 DEF n, k
<1> QED BY <1>7, <1>8

(* Nor are they at first.                                                  *)
LEMMA OneBegins == Init => OneInv
BY Begins DEF OneInv, OneOwed, Init

LostInv == OneInv /\ NothingLost

(* Every step keeps what is owed where it can be read or sent.             *)
LEMMA LostStep ==
  ASSUME "pipelines" \notin Conduct
  PROVE  LostInv /\ [Next]_vars => LostInv'
<1> SUFFICES ASSUME LostInv, [Next]_vars PROVE LostInv'
  OBVIOUS
<1>1. OneInv' /\ OneInv /\ AnyInv /\ NetInv /\ PlayType /\ NothingLost /\ OneOwed
  BY OneStep DEF LostInv, OneInv, AnyInv
<1>2. CASE UNCHANGED <<conn, fd, inbox, owed, interest, fault>>
  BY <1>1, <1>2 DEF LostInv, NothingLost, Peer
<1>3. CASE UNCHANGED vars
  BY <1>2, <1>3 DEF vars, net, sending
<1>4. ASSUME NEW c \in Clients, Leave(c)
      PROVE  LostInv'
  BY <1>1, <1>2, <1>4, LeavesKeep
<1>5. ASSUME NEW c \in Clients, NEW r \in Requests, Ask(c, r)
      PROVE  LostInv'
  <2>1. /\ UNCHANGED <<conn, interest, fd, fault>> /\ fault = "none"
        /\ owed[c] \in Nat /\ owed'[c] = owed[c] + 1
        /\ inbox[c] \in Seq(Requests) /\ inbox'[c] = Append(inbox[c], r)
        /\ \A d \in Clients : d # c => owed'[d] = owed[d] /\ inbox'[d] = inbox[d]
    BY <1>1, <1>5, AsksKeep DEF sending, Ask
  <2>2. Len(inbox'[c]) = Len(inbox[c]) + 1 /\ Len(inbox[c]) \in Nat
    BY <2>1, AppendProperties
  <2>3. ASSUME NEW s \in Sessions, fd[s] # NoFd
        PROVE  owed'[Peer(s)] = Len(inbox'[Peer(s)]) + Sending(s)
    <3>1. Peer(s) \in Clients /\ owed[Peer(s)] = Len(inbox[Peer(s)]) + Sending(s)
      BY <1>1, <2>1, <2>3, Peers DEF NothingLost, Sending
    <3>2. CASE Peer(s) = c
      <4>1. Sending(s) \in Nat
        BY DEF Sending
      <4> QED BY <2>1, <2>2, <3>1, <3>2, <4>1
    <3>3. CASE Peer(s) # c
      BY <2>1, <3>1, <3>3
    <3> QED BY <3>2, <3>3
  <2> QED BY <1>1, <2>1, <2>3 DEF LostInv, NothingLost, Peer, Sending
<1>6. ASSUME NEW s \in Sessions, Steps(s)
      PROVE  LostInv'
  <2> SUFFICES ASSUME fault' = "none",
                      NEW t \in Sessions, fd'[t] # NoFd
               PROVE  owed'[Peer(t)'] = Len(inbox'[Peer(t)']) + Sending(t)'
    BY <1>1 DEF LostInv, NothingLost, Sending
  <2>1. fault = "none"
    BY <1>6 DEF Steps, Replies, DescribeLive, DescribeMovie, DescribeDamaged,
       DescribeMissing, Setup, PlayMovie, PlayLive, Pause, Teardown, Other, Crashes,
       Strays, PlayAttached, TeardownStrays, Quits, Refuse, ReadEnd, WriteFails,
       OnError, Rests, ReadAll, WriteSome, Write, Takes, Asked, InOnRead, InOnWrite,
       OnTimer, Tick, TickEnd, TickSendFails, TickReadFails, TickFreed, Expires,
       Handle
  <2>2. OthersKept(s) /\ PlaysOnly(s)
    BY <1>1, <1>6, OthersAreKept
  <2>3. CASE t # s
    <3>1. /\ fd[t] # NoFd /\ Peer(t)' = Peer(t) /\ Sending(t)' = Sending(t)
          /\ inbox'[Peer(t)] = inbox[Peer(t)] /\ owed'[Peer(t)] = owed[Peer(t)]
      BY <2>2, <2>3 DEF OthersKept, Sending
    <3>2. owed[Peer(t)] = Len(inbox[Peer(t)]) + Sending(t)
      BY <1>1, <2>1, <3>1 DEF NothingLost, Sending
    <3> QED BY <3>1, <3>2
  <2>4. CASE t = s
    <3>1. CASE Replies(s)
      <4>1. /\ fd[s] # NoFd /\ Peer(s) \in Clients
            /\ Len(inbox'[Peer(s)]) = Len(inbox[Peer(s)]) - 1
            /\ Len(inbox[Peer(s)]) \in Nat
        BY <1>1, <3>1, RepliesKeep, TakesOne
      <4>6. owed[Peer(s)] = 1 /\ Len(inbox[Peer(s)]) = 1
        BY <1>1, <3>1, RepliesKeep, TheOnlyRequest
      <4>7. UNCHANGED <<conn, fd, owed>> /\ interest'[s] = "out"
        BY <1>1, <3>1, RepliesKeep DEF Answers, NetInv, NetType
      <4>8. Peer(s)' = Peer(s) /\ Sending(s)' = 1
        BY <4>7 DEF Peer, Sending
      <4> QED BY <2>4, <4>1, <4>6, <4>7, <4>8
    <3>2. ~Crashes(s)
      BY <1>1, CrashesKeep
    <3>3. ~Quits(s)
      <4>1. Quits(s) => fd' = [fd EXCEPT ![s] = NoFd]
        BY <1>1, QuitsKeep DEF Closed, Hangup
      <4> QED BY <4>1, <2>4, <1>1 DEF NetInv, NetType
    <3>4. CASE Rests(s)
      <4>1. UNCHANGED <<conn, fd, owed, inbox, interest>>
        BY <1>1, <3>4, RestsKeep DEF net
      <4> QED BY <1>1, <2>1, <4>1 DEF NothingLost, Sending, Peer
    <3>5. CASE OnTimer(s)
      <4>1. UNCHANGED <<conn, fd, owed, inbox, interest>>
        BY <1>1, <3>5, TimerKeeps DEF net, sending
      <4> QED BY <1>1, <2>1, <4>1 DEF NothingLost, Sending, Peer
    <3>6. CASE Write(s)
      <4>1. /\ UNCHANGED <<conn, inbox, fd>> /\ fd[s] # NoFd
            /\ interest[s] = "out" /\ interest'[s] = "in"
            /\ owed'[Peer(s)] = owed[Peer(s)] - 1
            /\ owed[Peer(s)] \in Nat
        BY <1>1, <3>6, WritesKeep
      <4>2. owed[Peer(s)] = Len(inbox[Peer(s)]) + 1
        BY <1>1, <2>1, <4>1 DEF NothingLost
      <4>3. Peer(s)' = Peer(s) /\ Sending(s)' = 0
        BY <4>1 DEF Peer, Sending
      <4>4. Peer(s) \in Clients /\ inbox[Peer(s)] \in Seq(Requests)
        BY <1>1, <4>1, Peers DEF NetInv, NetType
      <4>5. Len(inbox[Peer(s)]) \in Nat
        BY <4>4, LenProperties
      <4> QED BY <2>4, <4>1, <4>2, <4>3, <4>5
    <3>7. ASSUME NEW c \in Clients, Handle(s, c)
          PROVE  owed'[Peer(s)'] = Len(inbox'[Peer(s)']) + Sending(s)'
      <4>1. /\ UNCHANGED <<inbox, owed>> /\ c \notin served
            /\ Peer(s)' = c /\ interest'[s] = "in"
        BY <1>1, <3>7, HandlesKeep
      <4>2. owed[c] = 0 /\ inbox[c] = << >>
        BY <1>1, <4>1 DEF NetInv, ConnInv
      <4> QED BY <4>1, <4>2 DEF Sending
    <3> QED BY <1>6, <2>4, <3>1, <3>2, <3>3, <3>4, <3>5, <3>6, <3>7 DEF Steps
  <2> QED BY <2>3, <2>4
<1> QED BY <1>3, <1>4, <1>5, <1>6, NextSteps

(* Of a client that does not pipeline, every request is still to be read   *)
(* or its answer still to be sent, whatever else clients do and whatever   *)
(* fails (RtspSession.cpp:81-118, 207-246).                                *)
THEOREM NothingIsLost ==
  ASSUME "pipelines" \notin Conduct
  PROVE  Spec => []NothingLost
<1>1. Init => LostInv
  BY OneBegins DEF LostInv, NothingLost, Init
<1>2. LostInv /\ [Next]_vars => LostInv'
  BY LostStep
<1>3. LostInv => NothingLost
  BY DEF LostInv
<1> QED BY <1>1, <1>2, <1>3, PTL DEF Spec

-----------------------------------------------------------------------------
(* Orderly clients, which may play a channel twice, and movies that parse. *)

(* What of a movie player that is set up the rest depends on.              *)
Playing(m, f) ==
   /\ ~m.lost /\ m.tables = m.file /\ m.rtsp \in {NoFd, f}
   /\ m.timer = "set" => m.rtsp = f /\ m.file # NoFile /\ m.paced

LiveOn(l, f) == l.fd \in {NoFd, f} /\ (l.on > 0 => l.fd # NoFd)

Idle(m, l) == Quiet(m) /\ l = NewLive

(* What a session has, with the connection f, is what its client was told. *)
Stage(p, m, l, f, what) ==
   /\ what = "nothing" => Idle(m, l)
   /\ what = "mp4" => p = "mp4" /\ l = NewLive /\ Playing(m, f)
   /\ what \in {"live", "playing"} => p = "live" /\ Quiet(m) /\ LiveOn(l, f)

Fits(r, what) == /\ r.verb = "DESCRIBE" => what = "nothing"
                 /\ r.verb \in {"SETUP", "PLAY", "PAUSE"} => what # "nothing"

StageInv == \A s \in Sessions :
   /\ fd[s] = NoFd => Idle(mp4[s], live[s])
   /\ fd[s] # NoFd =>
         /\ Stage(player[s], mp4[s], live[s], fd[s], told[Peer(s)])
         /\ \A i \in DOMAIN inbox[Peer(s)] :
               Fits(inbox[Peer(s)][i], told[Peer(s)])

OrderlyInv == OneInv /\ StageInv

(* What the operations do to a movie player.                               *)
LEMMA PlayingKept ==
  ASSUME NEW m \in Mp4, NEW f \in Fds
  PROVE  /\ Quiet(m) => \A g \in Movies : Playing(Opened(m, g), f)
         /\ Quiet(m) => Quiet([m EXCEPT !.paced = FALSE])
         /\ Playing(m, f) =>
               /\ Quiet(Torndown(m)) /\ Playing(Torndown(m), f)
               /\ Playing([m EXCEPT !.timer = "off"], f)
               /\ \A t \in Tracks : Playing([m EXCEPT !.channels = @ \cup {t}], f)
               /\ \A w \in SUBSET m.samples : Playing([m EXCEPT !.samples = w], f)
               /\ \A got \in SUBSET Tracks : Playing(Played(m, f, got), f)
         /\ Quiet(m) => Quiet(Torndown(m)) /\ m.timer # "set"
<1> USE RtspSessionAssumption
<1>1. ASSUME Quiet(m), NEW g \in Movies
      PROVE  Playing(Opened(m, g), f)
  <2>1. m.file = NoFile /\ m.tables = NoFile /\ ~m.lost /\ m.rtsp = NoFd /\ m.timer = "off"
    BY <1>1, QuietFields
  <2> DEFINE n == Opened(m, g)
  <2>2. n.file = g /\ n.tables = g /\ ~n.lost /\ n.rtsp = NoFd /\ n.timer = "off"
    BY <2>1 DEF Opened, Mp4
  <2> QED BY <2>2 DEF Playing
<1>2. ASSUME Quiet(m)
      PROVE  Quiet([m EXCEPT !.paced = FALSE])
  <2> DEFINE n == [m EXCEPT !.paced = FALSE]
  <2>1. /\ n \in Mp4 /\ n.file = m.file /\ n.tables = m.tables /\ n.lost = m.lost
        /\ n.rtsp = m.rtsp /\ n.timer = m.timer
        /\ n.channels = m.channels /\ n.samples = m.samples
    BY DEF Mp4
  <2> HIDE DEF n
  <2>2. Quiet(n)
    BY <2>1, <1>2, QuietFields
  <2> QED BY <2>2 DEF n
<1>3. Quiet(m) => ~m.lost /\ m.timer # "set"
  BY QuietFields
<1>4. Playing(m, f) => ~m.lost
  BY DEF Playing
<1>5. ASSUME Playing(m, f)
      PROVE  Playing(Torndown(m), f)
  <2> DEFINE n == Torndown(m)
  <2>1. n.file = NoFile /\ n.tables = NoFile /\ n.lost = m.lost /\ n.rtsp = NoFd /\ n.timer = "off"
    BY DEF Torndown, Mp4
  <2> QED BY <1>5, <2>1 DEF Playing
<1>6. ASSUME Playing(m, f)
      PROVE  /\ Playing([m EXCEPT !.timer = "off"], f)
             /\ \A t \in Tracks : Playing([m EXCEPT !.channels = @ \cup {t}], f)
             /\ \A w \in SUBSET m.samples : Playing([m EXCEPT !.samples = w], f)
  BY <1>6 DEF Playing, Mp4
<1>7. ASSUME Playing(m, f), NEW got \in SUBSET Tracks
      PROVE  Playing(Played(m, f, got), f)
  <2> DEFINE a == [m EXCEPT !.rtsp = IF @ = NoFd THEN f ELSE @, !.samples = {}]
             n == [a EXCEPT !.samples = got, !.paced = TRUE, !.timer = "set"]
  <2>1. /\ a \in Mp4 /\ a.file = m.file /\ a.tables = m.tables /\ a.lost = m.lost
        /\ a.rtsp = f /\ a.timer = m.timer /\ a.paced = m.paced
    BY <1>7 DEF Playing, Mp4
  <2>2. n.file = m.file /\ n.tables = m.tables /\ n.lost = m.lost
        /\ n.rtsp = f /\ n.timer = "set" /\ n.paced
    BY <2>1 DEF Mp4
  <2>3. Played(m, f, got) = IF m.tables = NoFile THEN a ELSE n
    BY DEF Played
  <2> HIDE DEF a, n
  <2>4. CASE m.tables = NoFile
    BY <1>7, <2>1, <2>3, <2>4 DEF Playing
  <2>5. CASE m.tables # NoFile
    BY <1>7, <2>2, <2>3, <2>5 DEF Playing
  <2> QED BY <2>4, <2>5
<1> QED BY <1>1, <1>2, <1>3, <1>4, <1>5, <1>6, <1>7, TorndownClean

(* A request that is answered leaves the session as its client is told.    *)
LEMMA RepliesStage ==
  ASSUME Conduct \subseteq {"replays"}, "parse" \notin Faults,
         OrderlyInv, NEW s \in Sessions, Replies(s)
  PROVE  Stage(player'[s], mp4'[s], live'[s], fd[s], told'[Peer(s)])
<1> USE RtspSessionAssumption
<1> DEFINE m == mp4[s]
           f == fd[s]
           c == Peer(s)
<1>1. NetInv /\ PlayType /\ OneInv
  BY DEF OrderlyInv, OneInv, AnyInv
<1>2. PICK v : Takes(s, v)
  BY <1>1, RepliesKeep
<1>3. /\ fd[s] # NoFd /\ f \in Fds /\ c \in Clients
      /\ Request(s) \in Requests /\ m \in Mp4
  BY <1>1, <1>2, TakesOne, Peers DEF PlayType
<1>4. told[c] \in {"nothing", "mp4", "live", "playing"}
  BY <1>1, <1>3 DEF PlayType
<1>5. Stage(player[s], m, live[s], f, told[c])
  BY <1>3 DEF OrderlyInv, StageInv
<1>6. Fits(Request(s), told[c])
  <2>1. inbox[c] \in Seq(Requests) /\ inbox[c] # << >>
    BY <1>1, <1>2, <1>3 DEF Takes, Asked, NetInv, NetType
  <2>2. 1 \in DOMAIN inbox[c] /\ Request(s) = inbox[c][1]
    BY <2>1, EmptySeq, LenProperties DEF Request
  <2> QED BY <1>3, <2>2 DEF OrderlyInv, StageInv
<1>7. \A what : told' = [told EXCEPT ![c] = what] => told'[c] = what
  BY <1>1, <1>3 DEF PlayType
<1>8. \A n : mp4' = [mp4 EXCEPT ![s] = n] => mp4'[s] = n
  BY <1>1 DEF PlayType
<1>9. \A n : live' = [live EXCEPT ![s] = n] => live'[s] = n
  BY <1>1 DEF PlayType
<1>10. \A n : player' = [player EXCEPT ![s] = n] => player'[s] = n
  BY <1>1 DEF PlayType
<1>11. told[c] # "nothing" => /\ player[s] = "mp4" <=> told[c] = "mp4"
                              /\ player[s] = "live" <=> told[c] \in {"live", "playing"}
  BY <1>4, <1>5 DEF Stage
<1> HIDE DEF m, f
<1>12. CASE DescribeLive(s)
  <2>1. told[c] = "nothing" /\ told'[c] = "live"
    BY <1>6, <1>7, <1>12 DEF DescribeLive, Takes, Asked, Request, Fits, Tells
  <2>2. player'[s] = "live" /\ mp4'[s] = m /\ live'[s] = NewLive /\ Quiet(m)
    BY <1>5, <1>10, <1>12, <2>1 DEF DescribeLive, Stage, Idle, m
  <2>3. LiveOn(NewLive, f)
    BY DEF LiveOn, NewLive
  <2> QED BY <2>1, <2>2, <2>3 DEF Stage, f
<1>13. CASE DescribeMovie(s)
  <2>1. told[c] = "nothing" /\ told'[c] = "mp4"
    BY <1>6, <1>7, <1>13 DEF DescribeMovie, Takes, Asked, Request, Fits, Tells
  <2>2. /\ player'[s] = "mp4" /\ mp4'[s] = Opened(m, Request(s).file)
        /\ Request(s).file \in Movies /\ live'[s] = NewLive /\ Quiet(m)
    BY <1>5, <1>8, <1>10, <1>13, <2>1 DEF DescribeMovie, Stage, Idle, m
  <2>3. Playing(Opened(m, Request(s).file), f)
    BY <1>3, <2>2, PlayingKept
  <2> QED BY <2>1, <2>2, <2>3 DEF Stage, f
<1>14. ~DescribeDamaged(s)
  BY DEF DescribeDamaged
<1>15. CASE DescribeMissing(s)
  <2>1. told[c] = "nothing" /\ told'[c] = "nothing"
    BY <1>6, <1>15 DEF DescribeMissing, Takes, Asked, Request, Fits
  <2>2. mp4'[s] = [m EXCEPT !.paced = FALSE] /\ live'[s] = NewLive /\ Quiet(m)
    <3>1. mp4' = [mp4 EXCEPT ![s] = [m EXCEPT !.paced = FALSE]]
      BY <1>15 DEF DescribeMissing, m
    <3> QED BY <1>5, <1>8, <1>15, <2>1, <3>1 DEF DescribeMissing, Stage, Idle
  <2>3. Quiet([m EXCEPT !.paced = FALSE])
    BY <1>3, <2>2, PlayingKept
  <2> QED BY <2>1, <2>2, <2>3 DEF Stage, Idle
<1>16. CASE Setup(s)
  <2>1. /\ told[c] # "nothing" /\ told' = told /\ player' = player /\ live' = live
        /\ Request(s).track \in Tracks
    <3>1. Request(s).verb = "SETUP"
      BY <1>16 DEF Setup, Takes, Asked, Request
    <3>2. Request(s).track \in Tracks
      BY <1>3, <3>1 DEF Requests, Verbs
    <3> QED BY <1>6, <1>16, <3>1, <3>2 DEF Setup, Fits
  <2>2. CASE told[c] = "mp4"
    <3>1. mp4'[s] = [m EXCEPT !.channels = @ \cup {Request(s).track}]
      BY <1>8, <1>11, <1>16, <2>2 DEF Setup, m
    <3>2. Playing(m, f)
      BY <1>5, <2>2 DEF Stage
    <3>3. Playing([m EXCEPT !.channels = @ \cup {Request(s).track}], f)
      BY <1>3, <2>1, <3>2, PlayingKept
    <3> QED BY <1>5, <2>1, <2>2, <3>1, <3>3 DEF Stage, f
  <2>3. CASE told[c] # "mp4"
    <3>1. mp4' = mp4
      BY <1>4, <1>11, <1>16, <2>1, <2>3 DEF Setup
    <3> QED BY <1>5, <2>1, <3>1 DEF m, f
  <2> QED BY <2>2, <2>3
<1>17. CASE PlayMovie(s)
  <2>1. told[c] = "mp4" /\ told' = told /\ player' = player /\ live' = live
    BY <1>6, <1>11, <1>17 DEF PlayMovie, Takes, Asked, Request, Fits
  <2>2. PICK got \in SUBSET Tracks : mp4'[s] = Played(m, f, got)
    BY <1>8, <1>17 DEF PlayMovie, m, f
  <2>3. Playing(m, f)
    BY <1>5, <2>1 DEF Stage
  <2>4. Playing(Played(m, f, got), f)
    BY <1>3, <2>3, PlayingKept
  <2> QED BY <1>5, <2>1, <2>2, <2>4 DEF Stage, f
<1>18. CASE PlayLive(s)
  <2>1. /\ told[c] \in {"live", "playing"} /\ told'[c] = "playing" /\ player' = player
        /\ mp4' = mp4
    BY <1>4, <1>6, <1>7, <1>11, <1>18 DEF PlayLive, Takes, Asked, Request, Fits, Tells
  <2>2. PICK n \in 0..LiveTracks : live'[s] = [fd |-> f, on |-> n]
    BY <1>9, <1>18 DEF PlayLive, f
  <2>3. LiveOn(live'[s], f)
    BY <1>3, <2>2 DEF LiveOn, f
  <2> QED BY <1>5, <2>1, <2>3 DEF Stage, m, f
<1>19. CASE Pause(s)
  <2>1. told[c] # "nothing" /\ told' = told /\ player' = player /\ live' = live
    BY <1>6, <1>19 DEF Pause, Takes, Asked, Request, Fits
  <2>2. CASE told[c] = "mp4"
    <3>1. mp4' = [mp4 EXCEPT ![s] = [m EXCEPT !.timer = "off"]]
      BY <1>11, <1>19, <2>2 DEF Pause, m
    <3>2. Playing(m, f)
      BY <1>5, <2>2 DEF Stage
    <3>3. Playing([m EXCEPT !.timer = "off"], f)
      BY <1>3, <3>2, PlayingKept
    <3>4. mp4'[s] = [m EXCEPT !.timer = "off"]
      BY <1>8, <3>1
    <3> QED BY <1>5, <2>1, <2>2, <3>3, <3>4 DEF Stage, f
  <2>3. CASE told[c] # "mp4"
    <3>1. mp4' = mp4
      BY <1>4, <1>11, <1>19, <2>1, <2>3 DEF Pause
    <3> QED BY <1>5, <2>1, <3>1 DEF m, f
  <2> QED BY <2>2, <2>3
<1>20. CASE Teardown(s)
  <2>1. told'[c] = "nothing"
    BY <1>7, <1>20 DEF Teardown, Tells
  <2>2. live'[s] = NewLive
    <3>1. CASE player[s] = "live"
      BY <1>9, <1>20, <3>1 DEF Teardown
    <3>2. CASE player[s] # "live"
      <4>1. live[s] = NewLive
        BY <1>4, <1>5, <1>11, <3>2 DEF Stage, Idle
      <4> QED BY <1>20, <3>2, <4>1 DEF Teardown
    <3> QED BY <3>1, <3>2
  <2>3. Quiet(mp4'[s])
    <3>1. CASE player[s] = "mp4"
      <4>1. mp4'[s] = Torndown(m)
        BY <1>8, <1>20, <3>1 DEF Teardown, m
      <4>2. Quiet(m) \/ Playing(m, f)
        BY <1>4, <1>5, <1>11, <3>1 DEF Stage, Idle
      <4> QED BY <1>3, <4>1, <4>2, PlayingKept
    <3>2. CASE player[s] # "mp4"
      <4>1. Quiet(m)
        BY <1>4, <1>5, <1>11, <3>2 DEF Stage, Idle
      <4> QED BY <1>20, <3>2, <4>1 DEF Teardown, m
    <3> QED BY <3>1, <3>2
  <2> QED BY <2>1, <2>2, <2>3 DEF Stage, Idle
<1>21. CASE Other(s)
  BY <1>5, <1>21 DEF Other, players, m, f
<1> QED BY <1>12, <1>13, <1>14, <1>15, <1>16, <1>17, <1>18, <1>19, <1>20, <1>21
       DEF Replies, f

(* The end of a connection leaves the session idle.                        *)
LEMMA QuitsStage ==
  ASSUME OrderlyInv, NEW s \in Sessions, Quits(s)
  PROVE  Idle(mp4'[s], live'[s]) /\ fd'[s] = NoFd
<1> USE RtspSessionAssumption
<1> DEFINE m == mp4[s]
           f == fd[s]
           c == Peer(s)
<1>1. NetInv /\ PlayType
  BY DEF OrderlyInv, OneInv, AnyInv
<1>2. fd[s] # NoFd /\ f \in Fds /\ c \in Clients /\ Closed(s)
  BY <1>1, QuitsKeep, Peers
<1>3. Stage(player[s], m, live[s], f, told[c])
  BY <1>2 DEF OrderlyInv, StageInv
<1>4. told[c] \in {"nothing", "mp4", "live", "playing"} /\ m \in Mp4
  BY <1>1, <1>2 DEF PlayType
<1>5. live'[s] = NewLive
  <2>1. CASE player[s] = "live"
    BY <1>1, <1>2, <2>1 DEF Closed, PlayType
  <2>2. CASE player[s] # "live"
    <3>1. live[s] = NewLive
      BY <1>3, <1>4, <2>2 DEF Stage, Idle
    <3> QED BY <1>2, <2>2, <3>1 DEF Closed
  <2> QED BY <2>1, <2>2
<1>6. Quiet(mp4'[s])
  <2>1. CASE player[s] = "mp4"
    <3>1. mp4'[s] = Torndown(m)
      BY <1>1, <1>2, <2>1 DEF Closed, PlayType
    <3>2. Quiet(m) \/ Playing(m, f)
      BY <1>3, <1>4, <2>1 DEF Stage, Idle
    <3> QED BY <1>2, <1>4, <3>1, <3>2, PlayingKept
  <2>2. CASE player[s] # "mp4"
    <3>1. Quiet(m)
      BY <1>3, <1>4, <2>2 DEF Stage, Idle
    <3> QED BY <1>2, <2>2, <3>1 DEF Closed
  <2> QED BY <2>1, <2>2
<1>7. fd'[s] = NoFd
  BY <1>1, <1>2 DEF Closed, Hangup, NetInv, NetType
<1> QED BY <1>5, <1>6, <1>7 DEF Idle

(* The movie timer only runs for a client that was told of a movie.        *)
LEMMA TimerStage ==
  ASSUME OrderlyInv, NEW s \in Sessions, OnTimer(s)
  PROVE  /\ fd[s] # NoFd
         /\ Stage(player'[s], mp4'[s], live'[s], fd[s], told'[Peer(s)])
<1> USE RtspSessionAssumption
<1> DEFINE m == mp4[s]
           f == fd[s]
           c == Peer(s)
<1>1. NetInv /\ PlayType
  BY DEF OrderlyInv, OneInv, AnyInv
<1>2. /\ UNCHANGED <<told, player, live>> /\ m.timer = "set" /\ m \in Mp4
      /\ \/ mp4' = mp4
         \/ \E w \in SUBSET m.samples : mp4' = [mp4 EXCEPT ![s].samples = w]
         \/ mp4' = [mp4 EXCEPT ![s] = Torndown(m)]
  BY <1>1, TimerKeeps DEF PlayType
<1>3. ~Quiet(m)
  BY <1>2, QuietFields
<1>4. f # NoFd
  BY <1>3 DEF OrderlyInv, StageInv, Idle
<1>5. f \in Fds /\ c \in Clients
  BY <1>1, <1>4, Peers
<1>6. told[c] \in {"nothing", "mp4", "live", "playing"}
  BY <1>1, <1>5 DEF PlayType
<1>7. Stage(player[s], m, live[s], f, told[c])
  BY <1>4 DEF OrderlyInv, StageInv
<1>8. told[c] = "mp4" /\ Playing(m, f)
  BY <1>3, <1>6, <1>7 DEF Stage, Idle
<1>9. Playing(mp4'[s], f)
  <2>1. CASE mp4' = mp4
    BY <1>8, <2>1
  <2>2. ASSUME NEW w \in SUBSET m.samples, mp4' = [mp4 EXCEPT ![s].samples = w]
        PROVE  Playing(mp4'[s], f)
    <3>1. mp4'[s] = [m EXCEPT !.samples = w]
      BY <1>1, <2>2 DEF PlayType
    <3>2. Playing([m EXCEPT !.samples = w], f)
      BY <1>2, <1>5, <1>8, PlayingKept
    <3> QED BY <3>1, <3>2
  <2>3. CASE mp4' = [mp4 EXCEPT ![s] = Torndown(m)]
    <3>1. mp4'[s] = Torndown(m)
      BY <1>1, <2>3 DEF PlayType
    <3>2. Playing(Torndown(m), f)
      BY <1>2, <1>5, <1>8, PlayingKept
    <3> QED BY <3>1, <3>2
  <2> QED BY <1>2, <2>1, <2>2, <2>3
<1> QED BY <1>2, <1>4, <1>7, <1>8, <1>9 DEF Stage

(* One step of one session.                                                *)
LEMMA StageKept ==
  ASSUME Conduct \subseteq {"replays"}, "parse" \notin Faults,
         OrderlyInv, OneInv', NEW s \in Sessions, Steps(s)
  PROVE  StageInv'
<1> USE RtspSessionAssumption
<1>1. NetInv /\ PlayType /\ OneInv /\ StageInv
  BY DEF OrderlyInv, OneInv, AnyInv
<1>2. OthersKept(s) /\ PlaysOnly(s)
  BY <1>1, OthersAreKept
<1> DEFINE Good(t) ==
             /\ fd'[t] = NoFd => Idle(mp4'[t], live'[t])
             /\ fd'[t] # NoFd =>
                   /\ Stage(player'[t], mp4'[t], live'[t], fd'[t], told'[Peer(t)'])
                   /\ \A i \in DOMAIN inbox'[Peer(t)'] :
                         Fits(inbox'[Peer(t)'][i], told'[Peer(t)'])
<1>3. ASSUME NEW t \in Sessions \ {s}
      PROVE  Good(t)
  <2>1. /\ fd'[t] = fd[t] /\ player'[t] = player[t] /\ mp4'[t] = mp4[t]
        /\ live'[t] = live[t]
        /\ fd[t] # NoFd => /\ Peer(t)' = Peer(t)
                           /\ told'[Peer(t)] = told[Peer(t)]
                           /\ inbox'[Peer(t)] = inbox[Peer(t)]
    BY <1>2, <1>3 DEF OthersKept, PlaysOnly
  <2>2. /\ fd[t] = NoFd => Idle(mp4[t], live[t])
        /\ fd[t] # NoFd =>
              /\ Stage(player[t], mp4[t], live[t], fd[t], told[Peer(t)])
              /\ \A i \in DOMAIN inbox[Peer(t)] :
                    Fits(inbox[Peer(t)][i], told[Peer(t)])
    BY <1>1 DEF StageInv
  <2>3. CASE fd[t] = NoFd
    BY <2>1, <2>2, <2>3
  <2>4. CASE fd[t] # NoFd
    BY <2>1, <2>2, <2>4
  <2> QED BY <2>3, <2>4
<1>4. Good(s)
  <2>1. \A v : Takes(s, v) => fd[s] # NoFd /\ DOMAIN inbox'[Peer(s)] = {}
    <3>1. ASSUME NEW v, Takes(s, v)
          PROVE  fd[s] # NoFd /\ DOMAIN inbox'[Peer(s)] = {}
      <4>1. fd[s] # NoFd /\ Peer(s) \in Clients /\ Len(inbox'[Peer(s)]) = 0
        BY <1>1, <3>1, TheOnlyRequest
      <4>2. inbox'[Peer(s)] \in Seq(Requests)
        BY <1>1, <3>1, <4>1, TakesOne
      <4>3. DOMAIN inbox'[Peer(s)] = 1..0
        BY <4>1, <4>2, LenProperties
      <4> QED BY <4>1, <4>3
    <3> QED BY <3>1
  <2>2. CASE Replies(s)
    <3>1. Stage(player'[s], mp4'[s], live'[s], fd[s], told'[Peer(s)])
      BY <2>2, RepliesStage
    <3>2. fd' = fd /\ conn' = conn /\ \E v : Takes(s, v)
      BY <1>1, <2>2, RepliesKeep DEF Answers
    <3>3. Peer(s)' = Peer(s)
      BY <3>2 DEF Peer
    <3> QED BY <2>1, <3>1, <3>2, <3>3
  <2>3. CASE Crashes(s)
    <3>1. /\ UNCHANGED <<fd, conn, player, mp4, live, told>> /\ \E v : Takes(s, v)
      BY <1>1, <2>3, CrashesKeep
    <3>2. Peer(s)' = Peer(s)
      BY <3>1 DEF Peer
    <3>3. Stage(player[s], mp4[s], live[s], fd[s], told[Peer(s)])
      BY <1>1, <2>1, <3>1 DEF StageInv
    <3> QED BY <2>1, <3>1, <3>2, <3>3
  <2>4. CASE Quits(s)
    BY <2>4, QuitsStage
  <2>5. ASSUME UNCHANGED <<fd, conn, inbox, player, mp4, live, told>>
        PROVE  Good(s)
    <3>1. Peer(s)' = Peer(s)
      BY <2>5 DEF Peer
    <3> QED BY <1>1, <2>5, <3>1 DEF StageInv
  <2>6. CASE Rests(s)
    BY <1>1, <2>5, <2>6, RestsKeep DEF net, players
  <2>7. CASE Write(s)
    BY <1>1, <2>5, <2>7, WritesKeep DEF players
  <2>8. CASE OnTimer(s)
    <3>1. fd[s] # NoFd /\ Stage(player'[s], mp4'[s], live'[s], fd[s], told'[Peer(s)])
      BY <2>8, TimerStage
    <3>2. UNCHANGED <<conn, inbox, fd, told>>
      BY <1>1, <2>8, TimerKeeps DEF net
    <3>3. Peer(s)' = Peer(s)
      BY <3>2 DEF Peer
    <3>4. \A i \in DOMAIN inbox[Peer(s)] : Fits(inbox[Peer(s)][i], told[Peer(s)])
      BY <1>1, <3>1 DEF StageInv
    <3> QED BY <3>1, <3>2, <3>3, <3>4
  <2>9. ASSUME NEW c \in Clients, Handle(s, c)
        PROVE  Good(s)
    <3>1. /\ UNCHANGED <<player, mp4, live, told, inbox>> /\ c \notin served
          /\ fd[s] = NoFd /\ fd'[s] # NoFd /\ Peer(s)' = c
      BY <1>1, <2>9, HandlesKeep DEF players
    <3>2. inbox[c] = << >> /\ told[c] = "nothing"
      BY <1>1, <3>1 DEF NetInv, ConnInv
    <3>3. Idle(mp4[s], live[s])
      BY <1>1, <3>1 DEF StageInv
    <3>4. Stage(player'[s], mp4'[s], live'[s], fd'[s], told'[Peer(s)'])
      BY <3>1, <3>2, <3>3 DEF Stage
    <3>5. DOMAIN inbox'[Peer(s)'] = {}
      BY <3>1, <3>2
    <3> QED BY <3>1, <3>4, <3>5
  <2> QED BY <2>2, <2>3, <2>4, <2>6, <2>7, <2>8, <2>9 DEF Steps
<1>5. \A t \in Sessions : Good(t)
  BY <1>3, <1>4
<1> QED BY <1>5 DEF StageInv

(* Every step of orderly clients keeps the stages.                         *)
LEMMA OrderlyStep ==
  ASSUME Conduct \subseteq {"replays"}, "parse" \notin Faults
  PROVE  OrderlyInv /\ [Next]_vars => OrderlyInv'
<1> SUFFICES ASSUME OrderlyInv, [Next]_vars PROVE OrderlyInv'
  OBVIOUS
<1>1. NetInv /\ PlayType /\ OneInv /\ StageInv
  BY DEF OrderlyInv, OneInv, AnyInv
<1>2. OneInv'
  BY <1>1, OneStep
<1>3. ASSUME UNCHANGED <<fd, conn, inbox, player, mp4, live, told>>
      PROVE  OrderlyInv'
  BY <1>1, <1>2, <1>3 DEF OrderlyInv, StageInv, Peer
<1>4. CASE UNCHANGED vars
  BY <1>3, <1>4 DEF vars, net, players
<1>5. ASSUME NEW c \in Clients, Leave(c)
      PROVE  OrderlyInv'
  BY <1>1, <1>3, <1>5, LeavesKeep DEF players
<1>6. ASSUME NEW c \in Clients, NEW r \in Requests, Ask(c, r)
      PROVE  OrderlyInv'
  <2>1. /\ UNCHANGED <<conn, fd, player, mp4, live, told>>
        /\ inbox[c] \in Seq(Requests) /\ inbox'[c] = Append(inbox[c], r)
        /\ \A d \in Clients : d # c => inbox'[d] = inbox[d]
    BY <1>1, <1>6, AsksKeep DEF players
  <2>2. owed[c] = 0 /\ Fits(r, told[c])
    BY <1>6 DEF Ask, Permitted, Fits
  <2>3. ASSUME NEW s \in Sessions, fd[s] # NoFd
        PROVE  \A i \in DOMAIN inbox'[Peer(s)] : Fits(inbox'[Peer(s)][i], told[Peer(s)])
    <3>1. Peer(s) \in Clients /\ owed[Peer(s)] >= Len(inbox[Peer(s)]) + Sending(s)
      BY <1>1, <2>3, Peers DEF NetInv, OwedInv
    <3>2. CASE Peer(s) = c
      <4>1. Len(inbox[c]) = 0
        <5>1. Sending(s) \in Nat /\ Len(inbox[c]) \in Nat
          BY <2>1, LenProperties DEF Sending
        <5> QED BY <2>2, <3>1, <3>2, <5>1
      <4>2. /\ Len(Append(inbox[c], r)) = 1
            /\ Append(inbox[c], r)[1] = r
            /\ Append(inbox[c], r) \in Seq(Requests)
        BY <2>1, <4>1, AppendProperties
      <4>3. DOMAIN Append(inbox[c], r) = 1..1
        BY <4>2, LenProperties
      <4> QED BY <2>1, <2>2, <3>2, <4>2, <4>3
    <3>3. CASE Peer(s) # c
      BY <1>1, <2>1, <2>3, <3>1, <3>3 DEF StageInv
    <3> QED BY <3>2, <3>3
  <2>4. \A s \in Sessions : Peer(s)' = Peer(s)
    BY <2>1 DEF Peer
  <2> QED BY <1>1, <1>2, <2>1, <2>3, <2>4 DEF OrderlyInv, StageInv
<1>7. ASSUME NEW s \in Sessions, Steps(s)
      PROVE  OrderlyInv'
  BY <1>2, <1>7, StageKept DEF OrderlyInv
<1> QED BY <1>4, <1>5, <1>6, <1>7, NextSteps

(* All sessions are idle at first.                                         *)
LEMMA OrderlyBegins == Init => OrderlyInv
<1> SUFFICES ASSUME Init PROVE OrderlyInv
  OBVIOUS
<1>1. NewMp4 \in Mp4 /\ PlayType
  BY Begins DEF AnyInv, NewMp4, Mp4
<1>2. Quiet(NewMp4)
  <2>1. /\ NewMp4.file = NoFile /\ NewMp4.tables = NoFile /\ ~NewMp4.lost
        /\ NewMp4.rtsp = NoFd /\ NewMp4.timer = "off"
        /\ NewMp4.channels = {} /\ NewMp4.samples = {}
    BY DEF NewMp4
  <2> QED BY <1>1, <2>1, QuietFields
<1>3. \A s \in Sessions : fd[s] = NoFd /\ mp4[s] = NewMp4 /\ live[s] = NewLive
  BY DEF Init
<1> QED BY <1>2, <1>3, OneBegins DEF OrderlyInv, StageInv, Idle

(* So the stages hold for ever.                                            *)
LEMMA OrderlyInvariance ==
  ASSUME Conduct \subseteq {"replays"}, "parse" \notin Faults
  PROVE  Spec => []OrderlyInv
BY OrderlyBegins, OrderlyStep, PTL DEF Spec

(* What plays in a session plays into the connection it has now: nothing   *)
(* attached outlives Close, so none is the next client's, who may be given *)
(* the same descriptor (Mp4Player.cpp:70, 134; RtspSession.cpp:303-311).   *)
THEOREM StreamsGoToOwners ==
  ASSUME Conduct \subseteq {"replays"}, "parse" \notin Faults
  PROVE  Spec => []StreamsToOwner
<1>1. OrderlyInv => StreamsToOwner
  <2> SUFFICES ASSUME OrderlyInv, NEW s \in Sessions
               PROVE  /\ mp4[s].rtsp \in {NoFd, fd[s]}
                      /\ mp4[s].timer = "set" => mp4[s].rtsp # NoFd
                      /\ live[s].fd \in {NoFd, fd[s]}
                      /\ live[s].on > 0 => live[s].fd # NoFd
    BY DEF StreamsToOwner
  <2>1. NetInv /\ PlayType /\ StageInv /\ mp4[s] \in Mp4
    BY DEF OrderlyInv, OneInv, AnyInv, PlayType
  <2>2. Quiet(mp4[s]) => mp4[s].rtsp = NoFd /\ mp4[s].timer = "off"
    BY <2>1, QuietFields
  <2>3. NewLive.fd = NoFd /\ ~(NewLive.on > 0)
    BY DEF NewLive
  <2>4. CASE fd[s] = NoFd
    BY <2>1, <2>2, <2>3, <2>4 DEF StageInv, Idle
  <2>5. CASE fd[s] # NoFd
    <3>1. Stage(player[s], mp4[s], live[s], fd[s], told[Peer(s)])
      BY <2>1, <2>5 DEF StageInv
    <3>2. told[Peer(s)] \in {"nothing", "mp4", "live", "playing"}
      BY <2>1, <2>5, Peers DEF PlayType
    <3> QED BY <2>2, <2>3, <2>5, <3>1, <3>2 DEF Stage, Idle, Playing, LiveOn
  <2> QED BY <2>4, <2>5
<1> QED BY <1>1, OrderlyInvariance, PTL

(* A session in the pool has nothing of its last client, and a client that *)
(* was told of nothing is sent nothing (RtspSession.cpp:174-183).          *)
THEOREM IdleIsClean ==
  ASSUME Conduct \subseteq {"replays"}, "parse" \notin Faults
  PROVE  Spec => []IdleClean
<1>1. OrderlyInv => IdleClean
  <2> SUFFICES ASSUME OrderlyInv, NEW s \in Sessions
               PROVE  /\ fd[s] = NoFd => Quiet(mp4[s]) /\ live[s] = NewLive
                      /\ fd[s] # NoFd /\ told[Peer(s)] = "nothing" =>
                            mp4[s].timer = "off" /\ live[s].on = 0
    BY DEF IdleClean
  <2>1. StageInv /\ mp4[s] \in Mp4
    BY DEF OrderlyInv, OneInv, AnyInv, PlayType
  <2>2. Quiet(mp4[s]) => mp4[s].timer = "off"
    BY <2>1, QuietFields
  <2>3. NewLive.on = 0
    BY DEF NewLive
  <2> QED BY <2>1, <2>2, <2>3 DEF StageInv, Stage, Idle
<1> QED BY <1>1, OrderlyInvariance, PTL

(* A movie that plays is read with the tables of the file that is open, at *)
(* its pace, and no other file was left open (Mp4.cpp:78-99).              *)
THEOREM TablesAreTheFiles ==
  ASSUME Conduct \subseteq {"replays"}, "parse" \notin Faults
  PROVE  Spec => []TablesMatch
<1>1. OrderlyInv => TablesMatch
  <2> SUFFICES ASSUME OrderlyInv, NEW s \in Sessions, mp4[s].timer = "set"
               PROVE  /\ mp4[s].file # NoFile /\ mp4[s].tables = mp4[s].file
                      /\ mp4[s].paced /\ ~mp4[s].lost
    BY DEF TablesMatch
  <2>1. NetInv /\ PlayType /\ StageInv /\ mp4[s] \in Mp4
    BY DEF OrderlyInv, OneInv, AnyInv, PlayType
  <2>2. ~Quiet(mp4[s])
    BY <2>1, QuietFields
  <2>3. fd[s] # NoFd
    BY <2>1, <2>2 DEF StageInv, Idle
  <2>4. Stage(player[s], mp4[s], live[s], fd[s], told[Peer(s)])
    BY <2>1, <2>3 DEF StageInv
  <2>5. told[Peer(s)] \in {"nothing", "mp4", "live", "playing"}
    BY <2>1, <2>3, Peers DEF PlayType
  <2> QED BY <2>2, <2>4, <2>5 DEF Stage, Idle, Playing
<1> QED BY <1>1, OrderlyInvariance, PTL
=============================================================================
