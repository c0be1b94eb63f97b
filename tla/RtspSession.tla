----------------------------- MODULE RtspSession -----------------------------
(***************************************************************************)
(* The sessions of one engine (src/src/RtspSession.cpp) with the players   *)
(* inside them (src/src/Mp4Player.cpp, src/src/LivePlayer.cpp): the        *)
(* requests of an RTSP client, the answer being sent, the movie timer and  *)
(* the multicast tracks that push RTP into the client's connection, and    *)
(* the return of the session to the pool, which gives the same object, and *)
(* soon the same fd number, to the next client.                            *)
(*                                                                         *)
(* Everything runs in the engine's thread, one handler at a time; only     *)
(* OnRead handles several requests in one call, so reading names the       *)
(* session inside it.  Requests arrive whole (RtspInput has the bytes).    *)
(* fault says why the process has died; nothing happens after it.          *)
(***************************************************************************)
EXTENDS Naturals, FiniteSets, Sequences

CONSTANTS Sessions,    \* the session objects of the pool
          Clients,     \* each connects once
          Fds,         \* the numbers the kernel gives to connections
          Movies,      \* files m_Mp4.Setup opens
          Channels,    \* names m_Live.Setup finds
          Tracks,      \* the hint tracks of every movie
          LiveTracks,  \* the number of CLiveTrack in a CLivePlayer
          MaxOwed,     \* bound: requests a client has unanswered
          Conduct,     \* what clients do beyond the orderly: see Permitted
          Faults,      \* what else may go wrong
          NoSession, NoClient, NoFd, NoFile

Kinds == {"pipelines", "replays", "redescribes", "presumes"}
FaultKinds == {"send", "read", "parse", "bind", "freed", "heap", "partial"}

ASSUME RtspSessionAssumption ==
   /\ NoSession \notin Sessions /\ NoClient \notin Clients
   /\ NoFd \notin Fds /\ NoFile \notin Movies
   /\ Movies \cap Channels = {}
   /\ LiveTracks \in Nat \ {0} /\ MaxOwed \in Nat \ {0}
   /\ Conduct \subseteq Kinds /\ Faults \subseteq FaultKinds

VARIABLES conn,      \* conn[f]: the client at the other end of fd f
          served, gone,  \* the clients accepted so far, and those that left
          inbox,     \* inbox[c]: the requests c has sent, not yet read
          owed,      \* owed[c]: requests sent less answers received whole
          told,      \* told[c]: what c has set up, as the answers told it
          fd,        \* m_Connect
          interest,  \* what epoll watches m_Connect for
          player,    \* m_Player
          mp4,       \* m_Mp4, a record
          live,      \* m_Live, a record
          answer,    \* what of the answer (m_Response, m_Body) is to be sent
          asker,     \* history: who asked for it
          reading,   \* the session inside OnRead
          fault

net == <<conn, served, gone, inbox, owed>>
players == <<player, mp4, live, told>>
sending == <<interest, answer, asker>>
vars == <<net, players, sending, fd, reading, fault>>

Verbs == {"SETUP", "PLAY", "PAUSE", "TEARDOWN", "OTHER", "BAD"}
Missing == "missing"
Requests == [verb : {"DESCRIBE"}, file : Movies \cup Channels \cup {Missing}]
            \cup [verb : {"SETUP"}, track : Tracks]
            \cup [verb : Verbs \ {"SETUP"}]

(* file: the open file; tables: the one m_Tracks was read from; lost: an   *)
(* open file is no longer known; paced: m_StartTime is set.                *)
NewMp4 == [file |-> NoFile, tables |-> NoFile, lost |-> FALSE,
           rtsp |-> NoFd, paced |-> FALSE, timer |-> "off",
           channels |-> {}, samples |-> {}]

(* fd: every attached track's m_Rtsp; on: how many tracks, the first ones, *)
(* are in epoll.                                                           *)
NewLive == [fd |-> NoFd, on |-> 0]

Init == /\ conn = [f \in Fds |-> NoClient]
        /\ served = {} /\ gone = {}
        /\ inbox = [c \in Clients |-> << >>]
        /\ owed = [c \in Clients |-> 0]
        /\ told = [c \in Clients |-> "nothing"]
        /\ fd = [s \in Sessions |-> NoFd]
        /\ interest = [s \in Sessions |-> "none"]
        /\ player \in [Sessions -> IF "heap" \in Faults THEN {"null", "wild"}
                                                        ELSE {"null"}]
        /\ mp4 = [s \in Sessions |-> NewMp4]
        /\ live = [s \in Sessions |-> NewLive]
        /\ answer = [s \in Sessions |-> "none"]
        /\ asker = [s \in Sessions |-> NoClient]
        /\ reading = NoSession
        /\ fault = "none"

Peer(s) == conn[fd[s]]
Connected(c) == c \in served /\ \E f \in Fds : conn[f] = c

-----------------------------------------------------------------------------
(* Clients.  An orderly one waits for the answer before it asks again,     *)
(* describes one thing at a time, sets up and plays only what it has       *)
(* described, and plays a live channel once.                               *)
Permitted(c, r) ==
   /\ owed[c] = 0 \/ "pipelines" \in Conduct
   /\ r.verb = "DESCRIBE" => told[c] = "nothing" \/ "redescribes" \in Conduct
   /\ r.verb \in {"SETUP", "PLAY", "PAUSE"} =>
         told[c] # "nothing" \/ "presumes" \in Conduct
   /\ r.verb = "PLAY" => told[c] # "playing" \/ "replays" \in Conduct

Ask(c, r) == /\ fault = "none"
             /\ Connected(c) /\ c \notin gone
             /\ owed[c] < MaxOwed
             /\ Permitted(c, r)
             /\ inbox' = [inbox EXCEPT ![c] = Append(@, r)]
             /\ owed' = [owed EXCEPT ![c] = @ + 1]
             /\ UNCHANGED <<conn, served, gone, players, sending, fd, reading,
                            fault>>

Leave(c) == /\ fault = "none"
            /\ c \in served \ gone
            /\ gone' = gone \cup {c}
            /\ UNCHANGED <<conn, served, inbox, owed, players, sending, fd,
                           reading, fault>>

-----------------------------------------------------------------------------
(* The players.                                                            *)

(* CMp4Player::Setup, CMp4Demuxer::Parse: the file is opened whatever is   *)
(* open already, and tracks already known are kept.                        *)
Opened(m, f) == [m EXCEPT !.file = f, !.lost = @ \/ m.file # NoFile,
                          !.tables = IF @ = NoFile THEN f ELSE @,
                          !.paced = FALSE]

(* Variant: Detach is forgotten.                                           *)
TorndownAttached(m) == [m EXCEPT !.file = NoFile, !.tables = NoFile,
                                 !.timer = "off",
                                 !.channels = {}, !.samples = {}]

(* Variant: the file is not closed.                                        *)
TorndownOpen(m) == [m EXCEPT !.rtsp = NoFd, !.timer = "off",
                             !.channels = {}, !.samples = {}]

(* CMp4Player::Teardown.                                                   *)
Torndown(m) == [m EXCEPT !.file = NoFile, !.tables = NoFile,
                         !.rtsp = NoFd, !.timer = "off",
                         !.channels = {}, !.samples = {}]

(* CMp4Player::Seek and Play(f): attach first, then fail without tracks.   *)
Played(m, f, got) ==
   LET a == [m EXCEPT !.rtsp = IF @ = NoFd THEN f ELSE @, !.samples = {}]
   IN IF m.tables = NoFile THEN a
      ELSE [a EXCEPT !.samples = got, !.paced = TRUE, !.timer = "set"]

-----------------------------------------------------------------------------
(* CRtspSession.                                                           *)

(* Variant: Handle asks for room to write at once.                         *)
HandleWrites(s, c) == /\ fault = "none" /\ reading = NoSession
                      /\ fd[s] = NoFd /\ c \notin served
                      /\ \E f \in Fds : /\ conn[f] = NoClient
                                        /\ conn' = [conn EXCEPT ![f] = c]
                                        /\ fd' = [fd EXCEPT ![s] = f]
                      /\ served' = served \cup {c}
                      /\ interest' = [interest EXCEPT ![s] = "out"]
                      /\ UNCHANGED <<gone, inbox, owed, players, answer, asker,
                                     reading, fault>>

(* Handle(fd).                                                             *)
Handle(s, c) == /\ fault = "none" /\ reading = NoSession
                /\ fd[s] = NoFd /\ c \notin served
                /\ \E f \in Fds : /\ conn[f] = NoClient
                                  /\ conn' = [conn EXCEPT ![f] = c]
                                  /\ fd' = [fd EXCEPT ![s] = f]
                /\ served' = served \cup {c}
                /\ interest' = [interest EXCEPT ![s] = "in"]
                /\ UNCHANGED <<gone, inbox, owed, players, answer, asker,
                               reading, fault>>

Hangup(s) == /\ fd' = [fd EXCEPT ![s] = NoFd]
             /\ conn' = [conn EXCEPT ![fd[s]] = NoClient]
             /\ inbox' = [inbox EXCEPT ![Peer(s)] = << >>]
             /\ owed' = [owed EXCEPT ![Peer(s)] = 0]
             /\ told' = [told EXCEPT ![Peer(s)] = "nothing"]

(* Variant: Close tears nothing down.                                      *)
ClosedPlaying(s) == /\ Hangup(s)
                    /\ interest' = [interest EXCEPT ![s] = "none"]
                    /\ fault' = IF player[s] = "wild" THEN "wild" ELSE "none"
                    /\ reading' = NoSession
                    /\ UNCHANGED <<served, gone, player, mp4, live, answer, asker>>

(* Close: out of epoll, the connection closed, the current player torn     *)
(* down, the session back in the pool; what is unread is lost.  Nothing    *)
(* else is reset.                                                          *)
Closed(s) == /\ Hangup(s)
             /\ interest' = [interest EXCEPT ![s] = "none"]
             /\ mp4' = IF player[s] = "mp4"
                       THEN [mp4 EXCEPT ![s] = Torndown(@)] ELSE mp4
             /\ live' = IF player[s] = "live"
                        THEN [live EXCEPT ![s] = NewLive] ELSE live
             /\ fault' = IF player[s] = "wild" THEN "wild" ELSE "none"
             /\ reading' = NoSession
             /\ UNCHANGED <<served, gone, player, answer, asker>>

(* OnRead takes the next request; it goes on until there is none.          *)
InOnRead(s) == /\ fault = "none" /\ fd[s] # NoFd
               /\ \/ reading = s
                  \/ reading = NoSession /\ interest[s] = "in"

Asked(s, verb) == /\ InOnRead(s)
                  /\ inbox[Peer(s)] # << >>
                  /\ Head(inbox[Peer(s)]).verb = verb

Takes(s, verb) == /\ Asked(s, verb)
                  /\ inbox' = [inbox EXCEPT ![Peer(s)] = Tail(@)]

Request(s) == Head(inbox[Peer(s)])

(* ProcessRequest: a new answer replaces whatever was left of the last.    *)
Answers(s) == /\ answer' = [answer EXCEPT ![s] = "whole"]
              /\ asker' = [asker EXCEPT ![s] = Peer(s)]
              /\ interest' = [interest EXCEPT ![s] = "out"]
              /\ reading' = s
              /\ UNCHANGED <<conn, served, gone, owed, fd, fault>>

Dies(why) == /\ fault' = why
             /\ UNCHANGED <<conn, served, gone, owed, players, sending, fd,
                            reading>>

Tells(s, what) == told' = [told EXCEPT ![Peer(s)] = what]

(* OnDescribe, m_Live.Setup: the file is a live channel's name.            *)
DescribeLive(s) == /\ Takes(s, "DESCRIBE")
                   /\ Request(s).file \in Channels
                   /\ player' = [player EXCEPT ![s] = "live"]
                   /\ Tells(s, "live")
                   /\ Answers(s)
                   /\ UNCHANGED <<mp4, live>>

(* m_Mp4.Setup: the movie is opened and its tables read ...                *)
DescribeMovie(s) == /\ Takes(s, "DESCRIBE")
                    /\ Request(s).file \in Movies
                    /\ player' = [player EXCEPT ![s] = "mp4"]
                    /\ mp4' = [mp4 EXCEPT ![s] = Opened(@, Request(s).file)]
                    /\ Tells(s, "mp4")
                    /\ Answers(s)
                    /\ UNCHANGED live

(* ... or opened and found damaged: it stays open, m_Player stays ...      *)
DescribeDamaged(s) ==
   /\ "parse" \in Faults
   /\ Takes(s, "DESCRIBE")
   /\ Request(s).file \in Movies
   /\ LET m == Opened(mp4[s], Request(s).file)
      IN mp4' \in {[mp4 EXCEPT ![s] = m],
                   [mp4 EXCEPT ![s] = [m EXCEPT !.tables = mp4[s].tables]]}
   /\ Answers(s)
   /\ UNCHANGED <<player, live, told>>

(* Variant: a missing file is not answered.                                *)
DescribeMissingSilent(s) ==
   /\ Takes(s, "DESCRIBE")
   /\ Request(s).file = Missing
   /\ reading' = s
   /\ UNCHANGED <<conn, served, gone, owed, players, sending, fd, fault>>

(* ... or not there.                                                       *)
DescribeMissing(s) == /\ Takes(s, "DESCRIBE")
                      /\ Request(s).file = Missing
                      /\ mp4' = [mp4 EXCEPT ![s].paced = FALSE]
                      /\ Answers(s)
                      /\ UNCHANGED <<player, live, told>>

(* OnSetup, OnPlay and OnPause use m_Player without looking at it.         *)
Strays(s) == /\ player[s] \in {"null", "wild"}
             /\ \E v \in {"SETUP", "PLAY", "PAUSE"} : Takes(s, v)
             /\ Dies(player[s])

(* OnSetup, SetInterleaved.                                                *)
Setup(s) == /\ Takes(s, "SETUP")
            /\ player[s] \in {"mp4", "live"}
            /\ mp4' = IF player[s] = "live" THEN mp4
                      ELSE [mp4 EXCEPT ![s].channels = @ \cup {Request(s).track}]
            /\ Answers(s)
            /\ UNCHANGED <<player, live, told>>

(* OnPlay of a movie; a sample that cannot be read is left out.            *)
PlayMovie(s) == /\ Takes(s, "PLAY")
                /\ player[s] = "mp4"
                /\ \E got \in SUBSET Tracks :
                      /\ got = Tracks \/ "read" \in Faults
                      /\ mp4' = [mp4 EXCEPT ![s] = Played(@, fd[s], got)]
                /\ Answers(s)
                /\ UNCHANGED <<player, live, told>>

(* OnPlay of a live channel: attach and run one track after the other; the *)
(* first that cannot be bound ends it.                                     *)
PlayLive(s) == /\ Takes(s, "PLAY")
               /\ player[s] = "live"
               /\ live[s].fd = NoFd
               /\ \E n \in 0..LiveTracks :
                     /\ n = LiveTracks \/ "bind" \in Faults
                     /\ live' = [live EXCEPT ![s] = [fd |-> fd[s], on |-> n]]
               /\ Tells(s, "playing")
               /\ Answers(s)
               /\ UNCHANGED <<player, mp4>>

(* The track is attached already: the assertion of Socket.cpp:70.          *)
PlayAttached(s) == /\ Takes(s, "PLAY")
                   /\ player[s] = "live"
                   /\ live[s].fd # NoFd
                   /\ Dies("attach")

(* OnPause: a live channel plays on.                                       *)
Pause(s) == /\ Takes(s, "PAUSE")
            /\ player[s] \in {"mp4", "live"}
            /\ mp4' = IF player[s] = "live" THEN mp4
                      ELSE [mp4 EXCEPT ![s].timer = "off"]
            /\ Answers(s)
            /\ UNCHANGED <<player, live, told>>

Teardown(s) == /\ Takes(s, "TEARDOWN")
               /\ player[s] # "wild"
               /\ mp4' = IF player[s] = "mp4"
                         THEN [mp4 EXCEPT ![s] = Torndown(@)] ELSE mp4
               /\ live' = IF player[s] = "live"
                          THEN [live EXCEPT ![s] = NewLive] ELSE live
               /\ Tells(s, "nothing")
               /\ Answers(s)
               /\ UNCHANGED player

TeardownStrays(s) == /\ Takes(s, "TEARDOWN")
                     /\ player[s] = "wild"
                     /\ Dies("wild")

(* OPTIONS, GET_PARAMETER and every method the code does not know.         *)
Other(s) == /\ Takes(s, "OTHER")
            /\ Answers(s)
            /\ UNCHANGED players

(* What Parse refuses ends the connection (SendError).                     *)
Refuse(s) == Asked(s, "BAD") /\ Closed(s)

(* recv: nothing more (EAGAIN) ...                                         *)
ReadAll(s) == /\ InOnRead(s) /\ reading = s
              /\ inbox[Peer(s)] = << >> /\ Peer(s) \notin gone
              /\ reading' = NoSession
              /\ UNCHANGED <<net, players, sending, fd, fault>>

(* ... or the end of the connection.                                       *)
ReadEnd(s) == /\ InOnRead(s)
              /\ inbox[Peer(s)] = << >> /\ Peer(s) \in gone
              /\ Closed(s)

-----------------------------------------------------------------------------
(* OnWrite and OnError.                                                    *)
InOnWrite(s) == /\ fault = "none" /\ reading = NoSession
                /\ fd[s] # NoFd /\ interest[s] = "out"

(* The rest of the answer goes out; then requests are read again.          *)
Write(s) == /\ InOnWrite(s)
            /\ answer' = [answer EXCEPT ![s] = "none"]
            /\ owed' = [owed EXCEPT ![Peer(s)] = @ - 1]
            /\ interest' = [interest EXCEPT ![s] = "in"]
            /\ UNCHANGED <<conn, served, gone, inbox, players, asker, fd,
                           reading, fault>>

(* Variant: on EAGAIN, too, requests are read again.                       *)
WriteSomeReads(s) == /\ InOnWrite(s) /\ "partial" \in Faults
                     /\ answer[s] = "whole"
                     /\ answer' = [answer EXCEPT ![s] = "rest"]
                     /\ interest' = [interest EXCEPT ![s] = "in"]
                     /\ UNCHANGED <<net, players, asker, fd, reading, fault>>

(* The connection takes a part of it only.                                 *)
WriteSome(s) == /\ InOnWrite(s) /\ "partial" \in Faults
                /\ answer[s] = "whole"
                /\ answer' = [answer EXCEPT ![s] = "rest"]
                /\ UNCHANGED <<net, players, interest, asker, fd, reading,
                               fault>>

WriteFails(s) == /\ InOnWrite(s)
                 /\ Peer(s) \in gone \/ "send" \in Faults
                 /\ Closed(s)

OnError(s) == /\ fault = "none" /\ reading = NoSession
              /\ fd[s] # NoFd /\ Peer(s) \in gone
              /\ Closed(s)

-----------------------------------------------------------------------------
(* CMp4Player::OnTimer.  Each track with a sample sends what is due; it is *)
(* erased when it was not set up or has no more, and otherwise sets the    *)
(* timer for its next.                                                     *)
Expires(s) == /\ fault = "none" /\ reading = NoSession
              /\ mp4[s].timer = "set"

Dry(s) == UNCHANGED <<net, player, live, told, sending, fd, reading>>

Tick(s) == /\ Expires(s)
           /\ \E wait \in (SUBSET (mp4[s].samples \cap mp4[s].channels)) \ {{}} :
                 mp4' = [mp4 EXCEPT ![s].samples = wait]
           /\ Dry(s) /\ UNCHANGED fault

(* No track has a sample left: the end of the movie.                       *)
TickEnd(s) == /\ Expires(s)
              /\ mp4' = [mp4 EXCEPT ![s] = Torndown(@)]
              /\ Dry(s) /\ UNCHANGED fault

(* A packet is not sent: E_ERROR goes to CRtspSession, which has no        *)
(* OnSubEvent of its own, so to the assertion of Event.cpp:135.            *)
TickSendFails(s) == /\ Expires(s)
                    /\ mp4[s].samples \cap mp4[s].channels # {}
                    /\ LET c == conn[mp4[s].rtsp]
                       IN c = NoClient \/ c \in gone \/ "send" \in Faults
                    /\ fault' = "subevent"
                    /\ Dry(s) /\ UNCHANGED mp4

(* A sample is not read: the same after Teardown.                          *)
TickReadFails(s) == /\ Expires(s) /\ "read" \in Faults
                    /\ mp4[s].samples \cap mp4[s].channels # {}
                    /\ mp4' = [mp4 EXCEPT ![s] = Torndown(@)]
                    /\ fault' = "subevent"
                    /\ Dry(s)

(* m_Samples.erase(iter) and then iter++ (Mp4Player.cpp:158, 166, 203).    *)
TickFreed(s) == /\ Expires(s) /\ "freed" \in Faults
                /\ mp4[s].samples # {}
                /\ fault' = "freed"
                /\ Dry(s) /\ UNCHANGED mp4

-----------------------------------------------------------------------------
Client == \E c \in Clients : Leave(c) \/ \E r \in Requests : Ask(c, r)

OnRead(s) == \/ DescribeLive(s) \/ DescribeMovie(s) \/ DescribeDamaged(s)
             \/ DescribeMissing(s) \/ Strays(s) \/ Setup(s) \/ PlayMovie(s)
             \/ PlayLive(s) \/ PlayAttached(s) \/ Pause(s) \/ Teardown(s)
             \/ TeardownStrays(s) \/ Other(s) \/ Refuse(s) \/ ReadAll(s)
             \/ ReadEnd(s)

OnWrite(s) == Write(s) \/ WriteSome(s) \/ WriteFails(s)

OnTimer(s) == \/ Tick(s) \/ TickEnd(s) \/ TickSendFails(s)
              \/ TickReadFails(s) \/ TickFreed(s)

Session(s) == OnRead(s) \/ OnWrite(s) \/ OnError(s)

Next == \/ Client
        \/ \E s \in Sessions : Session(s) \/ OnTimer(s)
                               \/ \E c \in Clients : Handle(s, c)

Spec == Init /\ [][Next]_vars

(* The engine calls every session that again and again has something to    *)
(* read or to write (EventEngin!EveryReportServed).                        *)
FairSpec == Spec /\ \A s \in Sessions : SF_vars(Session(s))

-----------------------------------------------------------------------------
Mp4 == [file : Movies \cup {NoFile}, tables : Movies \cup {NoFile},
        lost : BOOLEAN, rtsp : Fds \cup {NoFd}, paced : BOOLEAN,
        timer : {"off", "set"}, channels : SUBSET Tracks,
        samples : SUBSET Tracks]

TypeOK == /\ conn \in [Fds -> Clients \cup {NoClient}]
          /\ served \subseteq Clients /\ gone \subseteq served
          /\ inbox \in [Clients -> Seq(Requests)]
          /\ owed \in [Clients -> 0..MaxOwed]
          /\ told \in [Clients -> {"nothing", "mp4", "live", "playing"}]
          /\ fd \in [Sessions -> Fds \cup {NoFd}]
          /\ interest \in [Sessions -> {"none", "in", "out"}]
          /\ player \in [Sessions -> {"null", "wild", "mp4", "live"}]
          /\ mp4 \in [Sessions -> Mp4]
          /\ live \in [Sessions -> [fd : Fds \cup {NoFd}, on : 0..LiveTracks]]
          /\ answer \in [Sessions -> {"none", "whole", "rest"}]
          /\ asker \in [Sessions -> Clients \cup {NoClient}]
          /\ reading \in Sessions \cup {NoSession}
          /\ fault \in {"none", "null", "wild", "attach", "subevent", "freed"}

(* What plays in a session plays into the connection the session has now:  *)
(* a descriptor kept beyond Close would be the next client's               *)
(* (Mp4Player.cpp:70, 134; LivePlayer.cpp:24; RtspSession.cpp:303-311).    *)
StreamsToOwner == \A s \in Sessions :
   /\ mp4[s].rtsp \in {NoFd, fd[s]}
   /\ mp4[s].timer = "set" => mp4[s].rtsp # NoFd
   /\ live[s].fd \in {NoFd, fd[s]}
   /\ live[s].on > 0 => live[s].fd # NoFd

(* A session in the pool has nothing of its last client: no connection to  *)
(* write to, no timer, no track in epoll, no open file, no samples; and a  *)
(* client that has set up nothing, or was told that all is torn down, is   *)
(* sent no stream (RtspSession.cpp:174-183).                               *)
Quiet(m) == [m EXCEPT !.paced = FALSE] = NewMp4
IdleClean == \A s \in Sessions :
   /\ fd[s] = NoFd => Quiet(mp4[s]) /\ live[s] = NewLive
   /\ fd[s] # NoFd /\ told[Peer(s)] = "nothing" =>
         mp4[s].timer = "off" /\ live[s].on = 0

(* Whatever clients do, the player the session used last is clean when it  *)
(* is back in the pool; only the other one may still run.                  *)
CurrentClean == TypeOK /\ \A s \in Sessions :
   fd[s] = NoFd =>
      /\ player[s] = "mp4" => Quiet([mp4[s] EXCEPT !.lost = FALSE])
      /\ player[s] = "live" => live[s] = NewLive

(* Whatever clients do, an answer goes to the client that asked, and only  *)
(* an answer that is there is sent, although Close leaves the last one in  *)
(* m_Response (RtspSession.cpp:76-79, 303-311).                            *)
AnswerToAsker == \A s \in Sessions :
   fd[s] # NoFd /\ interest[s] = "out" =>
      answer[s] # "none" /\ asker[s] = Peer(s)

(* Of a client that asks one thing at a time no request goes unanswered:   *)
(* what it is owed is still to be read or still to be sent.                *)
NothingLost == fault = "none" => \A s \in Sessions :
   fd[s] # NoFd =>
      owed[Peer(s)] = Len(inbox[Peer(s)])
                      + (IF interest[s] = "out" THEN 1 ELSE 0)

(* A movie that plays is read with the sample tables of the file that is   *)
(* open, at its pace, and no other file was left open (Mp4.cpp:78-99).     *)
TablesMatch == \A s \in Sessions :
   mp4[s].timer = "set" => /\ mp4[s].file # NoFile
                           /\ mp4[s].tables = mp4[s].file
                           /\ mp4[s].paced /\ ~mp4[s].lost

(* The assertion of the code: CEvent::OnSubEvent always has an             *)
(* implementation (Event.cpp:132-136).                                     *)
NoDefaultHandler == fault # "subevent"

(* Every request of a client that stays is answered.                       *)
Over(c) == fault # "none" \/ ~Connected(c)
Answered == \A c \in Clients : owed[c] > 0 ~> owed[c] = 0 \/ Over(c)
=============================================================================
