# A TLA+ model of the RTSP server

The repository is a small RTSP server in C++ (`src/src/`): it accepts TCP
clients, answers RTSP requests, and pushes RTP packets, read from the hint
tracks of an MP4 file or copied from a multicast group, into the connection the
client made.  It has no documentation and no tests; the models below are
translated from the code, line by line, and `PROJECT.json` names the lines each
definition stands for.  All paths below are relative to `src/src/`.

## The system

| Component | Code | State | Operations | Model |
| --- | --- | --- | --- | --- |
| Acceptors | `Server.cpp` | static `m_Mutex`, and per engine the listener, the timer, `m_Sessions`, `m_Free` | `Run`, `OnTimer`, `OnRead`, `OnSubEvent`, destructor | `Engin`, `SessionPool` |
| Event engine | `core/Event.cpp`, `core/Thread.cpp` | epoll set, `m_Events`, `m_Delete`, `m_Doing`, `m_Priority`, `m_Run`, each event's `m_Added` | register, unregister, one batch of reports, stop | `EventEngin` |
| RTSP session | `RtspSession.cpp` | connection, request, answer, `m_Player`, `m_Type` | `Handle`, `OnRead`, `OnWrite`, `OnError`, `Close`, one handler per method | `RtspSession` |
| Parsers | `Http.cpp`, `Rtcp.cpp` | `m_Request`, `m_Len` | `Parse`, `Initialize` | `RtspInput` |
| Players | `Mp4Player.cpp`, `LivePlayer.cpp` | open file, tables, attached descriptors, timer, channels, samples | `Setup`, `SetInterleaved`, `Seek`, `Play`, `Pause`, `Teardown`, `OnTimer` | inside `RtspSession`; over time `MoviePlayer` |
| Demuxer | `Mp4.cpp` | the open file and its position, tracks with their sample tables, read positions | `Parse` and the parsers of boxes, `Seek`, `GetRtpSample`, `Close` | `Mp4Demuxer`, `Mp4Format`; the tables `SampleTable`; seeking `MoviePlayer` |
| Live channels | `LiveServer.cpp`, lookups in `LivePlayer.cpp` | `m_Channels` | directory scan, channel start and stop, lookups, `Uninitialize` | `LiveServer` |
| Daemon | `Daemon.cpp`, `Main.cpp` | worker pid, `m_Run` of two processes | fork, wait, restart, signals | `Daemon` |
| Disk I/O | `io/Disk.cpp`, `io/IO.cpp` | file, context, eventfd, buffer | `AsyncRead`, `OnRead`, `Close` | `Disk` (the server only sets its paths) |

How they meet.  An engine is a thread that waits in epoll and calls handlers;
sessions, timers, tracks and the engine's own listener are its events.  A
session returns to its engine by `ReturnEvent`/`OnSubEvent`; a movie player
returns errors to its session the same way.  All engines share the listening
socket and one static mutex; the engine that locks it watches the listener,
accepts as many connections as it has free sessions, unlocks, and hands the
connections to sessions of its own.  The live channels follow the directories
below one path, in a thread of their own, and are looked up by sessions without
a lock.  All of this is one process, the worker; another one, the keeper, starts
it again when a signal kills it.  The build is a debug build, so
every `assert` is live: an assertion that fails ends the process.

What is hard here: the mutex is locked in one handler and released in another;
handlers unregister events that the batch being worked off still names; a
session object, and a descriptor number, are used by one client after the
other; everything that arrives does so in pieces chosen by the network; channels
are deleted while they are looked up; the worker dies at any of these points and
comes back with nothing of what it had; and a movie is a file somebody else
wrote.

## Modules

* `SessionPool` - what the acceptors promise, with no engines' mutex, timers or
  lists in it: clients wait in a queue, are taken in order by an engine that has
  a free place, and served by one session each.
* `Engin` - the acceptors.  One action per handler step at the grain at which
  another thread can see a difference: `TryLock`/`Register` are `OnTimer`,
  `OnRead`/`Accept`/`StopAccept`/`Rearm`/`HandOut`/`HandedOut` are `OnRead` (the
  unlock, the timer and the unregistration are steps of their own),
  `SessionEnds` is `Close` with `OnSubEvent`, `Run`, `RunFails` and `Stop` are
  the owner's.  `Engin` implements `SessionPool` (`PoolSpec`).
* `EventEngin` - the reactor.  epoll is modelled by its list of ready events:
  edge-triggered events leave the list when reported, the level-triggered
  listener goes to its end.  A handler is a sequence of steps between the
  dispatch and its return, each of which may drain its fd, register, watch the
  listener or unregister any event.
* `RtspSession` - sessions with their players.  The thread runs one handler at a
  time, so a handler is one action, except `OnRead`, which handles request after
  request until there are no more.  `told` is what the client knows it has set
  up; it makes precise what an orderly client does (`Permitted`).
* `RtspInput` - the bytes.  The loop of `OnRead` over a chunk, with `l` kept as
  an unsigned number that wraps, and both parsers; clients follow one another in
  the same session, whose parsers keep their state.
* `SampleTable` - how `ParseStts`, `ParseStsz`, `ParseStsc`, `ParseStco` and
  `ParseTrak` turn the run-length coded tables of a track into one sample after
  the other, one entry and one sample a step.  The tables are any tables: the
  code does not look whether they fit together, and a read behind a vector's end
  returns a value of `Heap`.  `Meaning` is the reference: what the format says
  of tables that do fit (`Legal`).
* `MoviePlayer` - `CMp4Player` over time. All tracks share one timer, which each of
  them sets to its own next sample; requests come at any moment, and time goes on
  within `OnTimer`, whose loops are taken apart. `Play` gives each track its first
  sample, and leaves out, without a word, one whose sample cannot be read. `sent`,
  `missed`, `dropped` and `real` are history: what the client got since the last
  PLAY, which tracks that left out, which were not set up when their turn came, and
  how far the client may expect the movie to be.
* `Mp4Format` - what the format says of a file: where its boxes may be (`Layout`),
  what they must hold (`Complete`, `Described`), which tracks they describe
  (`Movie`) and which packets a sample is made of (`PacketsOf`).  A file is a
  sequence of four-byte cells, with the places where its author put the boxes;
  nothing in this module walks from box to box, and it has no state.
* `Mp4Demuxer` - the walk through the boxes of a file, a recursion kept as a
  `stack` of its calls over one file position, and the making of RTP packets
  from hint samples, entry by entry.  The files are any files; of those that are
  `Legal` the properties compare what was parsed with `Mp4Format`.  What the code
  does not guard against (a null pointer, the end of an array, an `assert`)
  leads to `undefined`, where the model ends.
* `LiveServer` - the scan, step by step, against a session that describes a
  channel: every lookup is two steps, what `find` returned (`ptr`) and its use,
  so that the channel may be deleted between them.  `desc` is whose sdp the player
  has, which is what the client is told; `ids` and `ports` say of each of its tracks
  whose id and port it has, which may be another's.
* `Daemon` - the two processes around it, with what each loses when it dies;
  `EXTENDS LiveServer`, whose steps are those of a living worker.  The keeper may be
  killed as well (`KeeperDies`): only `SIGINT` has a handler.  Its worker serves on
  without it, and is waited for by `init` (`Reaped`).
* `Disk` - objects that read asynchronously, call by call, and the contexts of
  the kernel they share: a handle that an object destroys, because it was left
  over in `m_Ctx`, may be another object's by now.
* `EnginProofs`, `EventEnginProofs`, `RtspSessionProofs`, `RtspInputProofs`,
  `SampleTableProofs`, `MoviePlayerProofs`, `DaemonProofs`, `Mp4DemuxerProofs` -
  proofs, see below; each begins with the facts about sequences or numbers that
  it needs.
* `MC...` - values for TLC: faults, conduct of clients, tables, movies.  No run uses
  symmetry, which liveness would forbid.

Definitions that begin with "Variant:" are not part of any specification: each
is one action or operator with one plausible bug, and shows that the property
named beside it in `PROJECT.json` can fail.

## Runs

| Run | Question | Bounds |
| --- | --- | --- |
| `EnginTwo` | exclusion among acceptors, accounting of the pool, refinement of `SessionPool`, and that waiting clients are accepted, when every call that may fail does and engines are destroyed | two engines with two sessions each, three clients |
| `EventEngin` | only live events are called, the priority one first and once; silence after `Stop`; every report is served, `Stop` returns | three events, one of them added by another thread, two reports at a time |
| `SessionOrderly` | streams, files and answers of orderly clients, and that each request is answered | one session, two clients, two descriptors, a movie and a channel of two tracks |
| `SessionAny` | what is true of any client and after any failure | one session, two clients, one descriptor, two requests at a time |
| `InputPieces` | requests arrive whole and in order, however they are cut, and the next client starts afresh | two clients, two messages each, chunks of three bytes |
| `SampleTable` | samples are those the format means, when the tables fit together | up to two runs, two capacities, three chunks, four sizes: 65,940 sets of tables |
| `MoviePlayer` | no gap, nothing early, no standstill, an end; whatever PLAY did not leave out is played out first | two tracks of four and three samples, the second with keys; positions 0 and 3; a movie of 5 ms |
| `Daemon` | never two workers, one without a keeper only where that was killed; the id and the port of a player's track are of one channel; the channels follow the directories again, however often the worker died; what a race left under another sdp is mended by describing again; those that live end when told | two directories of one track or none, one of which may lack its sdp; one session, whose player has one track; signals, deaths of either process and failures without limit |
| `Mp4Demuxer` | tracks say what their boxes say, legal movies are not refused and are accepted whole, samples become the packets that were meant, calls return | three legal movies and 26 damaged files, opened one after the other without limit, with reads that fail |
| `Disk` | the right bytes, no buffer written behind its answer, every request answered | two objects, two handles, blocks of two bytes, a file of three or none |

The bounds are small because the interesting cases are: two engines are enough for
a race, two clients for a session's second life, two descriptors for the wrong one,
a limit of one or two for "at the limit", a chunk shorter than a message and
messages shorter than a chunk for every way to cut them.  In `RtspInput` the limits
stand to each other as 1024 and 2048 do in the code.  Two capacities are enough for
a gap between them, for a first chunk that is missing, 0 or out of order; three
chunks for tables too short and too long.  Two tracks that are due at the same and
at different moments, one of which ends before the other, show everything the
shared timer can do to either. One track of a channel, which may fail to run, is
enough for a port that is left over from the channel described before, two
directories for a scan that removes one only, two handles for one that is somebody
else's. In the run of `Daemon` channels have tracks only where a process is its own
worker (`MCNext`): what a lookup finds does not depend on who started the process,
and no other step looks at tracks. The damaged files are one for each thing the
parser tells apart.  In none of these are steps counted: signals, deaths, files
opened and requests made are as many as there can be. Deadlock is checked by no
run: clients end, engines and threads stop, processes die, tracks are done.

Fairness.  `Engin!FairSpec`: an engine's thread runs on, its timer, which has an
interval, fires again, and epoll reports a listener that stays readable (weak
fairness of `Handler`); `RegisterRD` and `accept`, when they are tried again and
again, succeed in the end (strong fairness of `Register` and `Accept`: without
it the system may run out of memory for ever).  No engine is promised the mutex.
Clients and sessions owe nothing, so `Accepted` asks that sessions become free
again and again, and that no engine was destroyed or lost its timer; `Wakeable`
says what is true of the others.
`EventEngin!FairSpec`: the thread and the stopping owner run on; a handler
returns.  `RtspSession!FairSpec`: a session for which epoll has something is
called in the end, which is what `EventEngin!EveryReportServed` says; clients
owe nothing, and one that does not read leaves with an error in the end.
`MoviePlayer!FairSpec`: time goes on, an expired timer is reported, `OnTimer`
runs on; nothing has to fail, and `Ends` asks nothing of a client that goes on
making requests.
`Daemon!FairSpec`: processes and threads run on, `wait` and `sleep` return, the
timer of the scan fires again and again, a lookup goes on, and `init` waits for
orphans; nobody has to send a signal or a request.  `Recovers` asks that
directories, signals and failures come to rest, and that there is a keeper or a
worker that lives; `Heals` asks also that the client describes channels again and
again.
`Mp4Demuxer!FairSpec`: a call that began goes on.  `Disk!FairSpec`: threads go
on, and the kernel ends what it began.

### Runs that show a disagreement

* `SessionAborts`: an orderly client leaves while its movie plays.  The packet
  cannot be sent, `CMp4Player::OnTimer` returns `E_ERROR` to its session, and
  `CRtspSession` has no `OnSubEvent` of its own: the default one asserts.
* `InputFollow`: `CRtcp::Parse` returns the length it used, `OnRead` takes it
  for what is left: anything behind an RTCP packet in the same chunk makes `l`
  wrap round.

## Proofs

`EnginProofs` proves, for any number of engines, sessions and clients and any
set of faults, that `Engin` keeps its invariants and implements `SessionPool`.
The inductive invariant `IInv` has three parts: the types; `WakeInv`, which says
of each place of the thread what its timer and its interest in the listener are
and ties the mutex to them - needed because exclusion alone is not inductive:
the engine that has just unlocked still has its listener registered, and only
its place (`rearm`) tells it from the new owner; and `PoolInv`, which ties
`m_Free` to the length of the list, the list to the sessions that serve nobody,
and has no session in the list twice.  The lists are sequences, so the facts
about appending to, taking from and counting a sequence without duplicates are
lemmas of their own.  From `IInv` follow `TypeOK`,
`OneAcceptor`, `BatonInUse`, `Wakeable` and `PoolConsistent`; with it every step
maps to a step of the pool or to none (`ImplementsPool`).

`EventEnginProofs` proves of the reactor, for any number of events and any size of
the array of reports, that no handler runs once `Stop` has returned, that the
priority event is served first and once, and that a handler is called of live
events only.  Its invariant `Inv` says that epoll's list has an event once and
only with something to report (`KernelInv`); that the listener is watched only
when there is a priority event - otherwise a batch could hold it before the loop
looks for it (`RegistryInv`); that a batch has an event once and that `m_Delete`
is what was unregistered of it since (`BatchInv`); and which of the locals of
`Run` mean something at each place of it (`PlaceInv`).  `DispatchesLive` has one
hypothesis, that no event asks for both kinds of report: the code has
`RegisterRW`, which nobody calls, and with it the property fails.

`RtspSessionProofs` comes in three parts, for any number of sessions, clients and
descriptors.  Whatever clients do and whatever fails, `AnyInv` holds: a
descriptor is one session's and a client is at one descriptor; what a client is
owed covers the requests to be read and the answer to be sent, so that the count
never runs below zero; an answer that waits has the session's client as its asker
(which is `AnswerToAsker` itself); and the player of a session in the pool is
clean but for an object it may have lost (`CleanInv`).
From it follow `AnswerToAsker` and `CurrentClean`.  Of clients that wait for
their answers `OneInv` adds that at most one is owed, and with it `NothingLost` is
inductive.  Of clients that keep the order of requests - they may replay and
leave at any moment - `StageInv` ties what the session has to what its client was
told: nothing, a movie set up or playing into this very connection, or a channel.
`told` would be of no use without the requests that are still under way, which
must fit it (`Fits`).  From it follow `StreamsToOwner`, `IdleClean` and
`TablesMatch`; they need, as the runs do, that no movie is damaged (`"parse"`).

`RtspInputProofs` proves, for requests and chunks of any length and any number of
messages and clients (the bodies of RTCP packets have up to two bytes, as in the
model), that requests arrive whole, in order and once.  `ParseInv` puts the bytes
together again: what is held, what is left of the chunk and what is still to come
are, one behind the other, the messages that are not done yet - from their
beginning (`Between`), from within a request of which a part is held
(`InRequest`), or from within a packet, before its length or in its body
(`InRtcp`).  That the chunk is as long as `l` says (`InStep`) is part of it, and is
where both hypotheses come in: a pair of bytes cut by a chunk, or anything behind
a packet, and `l` wraps (run `InputFollow`).  The types hold without them.

`SampleTableProofs` proves `SamplesContiguous` for any set of tables and any heap.
`Contiguous`, a fact no run checks, relates neighbours in the list of samples: each
begins where the one before ends, in time and, within a chunk, in the file.  What
makes it inductive is `Link`, which ties the variables of the loop to the sample
pushed last: `ts` is where it ends, and `base + offset` is behind it or, when the
chunk was complete, at the next chunk.  It also proves `MatchesFormat`: tables of
any length that fit together become the samples the format means.  The reference
definitions are sums over the tables (`SumTo`), the code's are counters; `Fits`
says at each place what the counters are sums of: the durations and capacities are
those of the entries read so far (`Expanded`, `Filled`), and in the loop of
`ParseTrak` the locals place the next sample in its chunk (`Place`).

`MoviePlayerProofs` proves, for any movie, any conduct of the client and any
failure: what a client hears of a track has no gap (`NoGap`), from `SentInv`, by
which the sample held is the one behind the last sent; of a movie that closes
itself every track has been sent to its end, but for those that the last PLAY left
out and those that were not set up when their turn came, of which nothing was sent
(`PlayedOut`), from `OverInv`: while it plays, a track that holds no sample is
complete or one of these (`FirstSamplesFacts` says which tracks PLAY gives a
sample); the shared timer is armed while samples wait (`NeverStalls`), from
`LoopInv`: a track that waits behind the one `OnTimer` looks at has armed it, which
must hold also where the loop goes on from an erased node, to an earlier track; and
`GoesOn`, a fact about one step: a PLAY that resumes takes up the first track that
waits where it was, or at an earlier key, unless that cannot be read.  Unless a
client describes the movie while it plays, nothing is sent early (`OnTime`), from
`ClockInv`: the clock of the player is not ahead of the client's.

`DaemonProofs` proves `OneWorker` and `OwnStreams` for any set of directories, any
number of tracks and, as in the model, any signals, deaths and failures, those of
the keeper included.  There is never more than one worker, and while there is one
the keeper waits for it, is it, or was killed: a keeper that returns leaves none.
This says little about the keeper at the head of its loop; the invariant adds that
there the last worker has been waited for and `pidWorker` is -1, and that a process
which has just been forked, or is dead, has no channels (`ProcInv`).  `OwnStreams`
speaks of a player between two requests.  That a port goes with its id or is none
holds always (`Whole`); in a lookup under way the ids set so far are those of the
channel looked for (`OwnUpTo`), which is the one whose sdp the player has
(`LookupInv`).  The steps are dealt with in one lemma per thread: the scan,
`Uninitialize`, the lookup, the keeper, the worker.

`Mp4DemuxerProofs` proves every safety property of the demuxer for any set of
files, legal or not, opened in any order, with reads that fail at any place.  The
one assumption is that a file is shorter than half the range of `size_t`
(`FileAssumption`); what a legal file means is `Mp4Format`'s, which knows nothing
of the walk.  The inductive invariant `Inv` has four parts.
`TypeInv` holds of any file: the numbers of a call stay in `size_t`, although they
wrap, and there are as many drafts of tracks as calls of `ParseTrak`
(`DemuxerTypes`).
`WalkInv` holds of the walk through a legal file.  `LegalParses` alone is not
inductive: that the next header is one depends on where the calls that return
leave the position.  `Layers` says that the calls are the boxes around the
position, each once and one inside the other, with nothing left out (`Around`,
`AroundCalls`), and that the position is at a box or where the innermost ends
(`Place`); `Current`, that the draft of a track is what the boxes of it in front of
the position say, and nothing of those behind it (`Drafted`); `Passed`, that the
tracks in front of the position have been inserted.  Each step has its lemma:
entering a box, passing one, reading one of a track, leaving one.  `LegalParses`
and `AllTracks` follow.
`Written` says that a track found in a legal file is one of its movie; it must
survive the walks through other files, which keep the tracks there are.
`HintInv` is about a sample in the making (`Assembled`): the packets in `out` are the
first of those meant, the position is where the next begins or behind as many
entries as have been copied, and the packet is the header with the data of just
those (`Gathered`).  With it `PacketsAsHinted` is a fact about `SampleMade`.  Its
hypothesis, that the track hinted at is of the same file, is about
`m_Tracks.insert`, which keeps a track that another movie has left.

Sums and concatenations are recursive functions of a length, so some of these
proofs are inductions.  They take the least length for which the fact fails and
refute it (`Least`, from the library's theorem on well-founded relations); a lemma
of the kind has its base and its step in one proof.

The hypotheses of a theorem are those under which its run checks the property;
those on `Conduct` are about clients and the network, not about the server, and
what happens without them is said under Abstractions.

Only model-checked: liveness (`Accepted`, `EveryReportServed`, `StopReturns`,
`Ends`, `Heals`, `Recovers`, `EndsWhenTold`, `Returns` and both `Answered`), which is
beyond the prover, and `RightBytes` of `Disk`, which is within its reach, but about
a component the server does not use yet.  That `Legal` has members, and that
`Movie` and `PacketsOf` are what one expects of them, is what the assumptions of
`MCMp4Demuxer` check of three movies written down by hand: there the boxes are
found by a recursive operator, which keeps them from the prover.

## Abstractions and what is left out

* Removing a registered descriptor from epoll is taken not to fail.
* `RegisterRW` is never called; with a mask of both kinds `OnWrite` would follow
  `OnRead` without a second look at `m_Delete` (`core/Event.cpp:434-438`) and
  `DispatchesLive` would fail.
* `CServer::Run` creates one engine whatever it is asked for
  (`Server.cpp:205-206`); `Engin` allows any number, as its mutex does.
* Descriptors of files are counted apart from those of connections.
* A damaged movie stays open after a refused DESCRIBE (`DescribeDamaged`): no
  property of orderly clients holds with it, so it is in `SessionAny` only.
* A client that describes another kind of file while one is set up makes the
  first player outlive the connection; `StreamsToOwner` and `IdleClean` hold of
  clients that do not.  The same goes for pipelined requests and `NothingLost`,
  and for pairs of bytes cut by a chunk and `NeverAstray`.
* `m_Player` is not initialised: a fresh session has it null or, with the fault
  "heap", wild.  After `erase(iter)` the loop of `OnTimer` goes on as if nothing
  had happened or, with "freed", the process dies.
* A PLAY leaves out a track whose sample cannot be read (`Mp4Player.cpp:81-86`):
  it is answered as if nothing had happened, the position of that track is not
  moved, and the movie closes itself without it.  No comment says it should be
  otherwise; `PlayedOut` and `GoesOn` except such a track and say what is left.
* `MoviePlayer` leaves out the reading of RTP packets: a sample is sent or it is
  not, and none is empty but the one behind the last.  The first sample of each
  track is a key due at 0: `CTrack::Seek` counts an unsigned index down and would
  not end on a track that begins later.  Times are those of `GetRtpSample`, in
  ms.  From the end of the movie on the clock stands still (`Horizon`).
* A client that describes the movie while it plays resets `m_StartTime`, and the
  rest is sent at once; with "redescribes" `OnTime` fails.
* `SampleTable` has the tables in one order; each box fills a vector of its own,
  so the order of the boxes does not matter.  A chunk's capacity of 0 and the
  subtraction it wraps in, a first chunk of 0 and empty tables are in.
* The run of `EventEngin` has reports of reading only: all but a session that
  waits for room ask for no other, and the two kinds do not meet in one event.
* `m_Channels` is a set of names: the order in which the scan walks it, and so
  which of several channels goes first, is left open.  `readdir` returns what was
  there at `opendir`.  A directory that is removed and made again between two
  scans is the same one to the code and to the model.
* The client is told the sdp of the first lookup, `GetSdp`, and gets the tracks of
  later ones (`LivePlayer.cpp:64-80`).  When the channel goes in between there are
  no ids, `Setup` returns true, and the player keeps ids and ports of the channel
  described before under the new sdp.  No document says otherwise, and no
  invariant excludes it; `OwnStreams` holds of the tracks for which ids were found,
  and `Heals` says that the next DESCRIBE of a channel that stays mends it.  A track
  the new channel has not keeps what it had.
* A lookup that uses a deleted channel goes on as if it had found none, or kills
  the worker (`Crashes`).  `daemon()` forks the keeper at each restart, and a
  signal sent to the process it leaves is lost: `EndsWhenTold` speaks of
  processes whose handler has run.  A signal that tells a process to end is
  `SIGINT`; any other, and `SIGKILL`, which cannot be caught although
  `Daemon.cpp:15` asks for it, kills the worker (`Aborts`) or the keeper
  (`KeeperDies`).  The worker it leaves serves on; a second start of the program
  beside it is not modelled.
* `Mp4Demuxer` has 12 bytes of data in an entry of a packet, not 14, so that it is
  made of whole cells, and one sample in a chunk.  In a legal movie `stts` has
  one entry, which is `SampleTable`'s matter, and packets have no flags: the code
  looks for the flag of extra data in the wrong byte (`Skips`, `Mp4.cpp:203`), so
  that a movie with extra data is misread.  The position of the file is
  forgotten between two calls, which all begin with a seek.  An empty box of size
  0 makes the walk loop; `Returns` speaks of files without.  Offsets of packet data
  are kept in a `UInt32` (`Mp4.cpp:255,272,277`), which wraps at 4 GiB; the model
  adds them as naturals and has no file that long.
* `Disk`: a user asks an object for one thing at a time, and not while the kernel
  still writes for the last one; a file that is shrunk below the offset and a
  failing disk are answered with success (`Disk.cpp:203`) and excused, with the
  objects whose context another one destroyed.

## Not modelled

* The fields of requests, the text of responses and of the sdp, session ids,
  titles, options, logging and scheduling parameters of threads: formatting and
  string handling, without a state that another step depends on.
* The duration of a movie, which goes into an answer only.  It is multiplied by
  1000 in 32 bits (`Mp4.cpp:607`) and wrong for movies of more than 71 minutes at
  a timescale of 1000.
* The datagrams of live channels (`LiveServer.cpp:8-72`, `LivePlayer.cpp:12-60`):
  a track copies what it receives to the connection and keeps nothing.
* The system calls of `core/Socket.cpp`, beyond what can fail where they are used.
* `src/include/log4cplus`, 11,700 of the 17,500 lines of the repository, are the
  headers of a library.  Of the server's own 5,100 lines, headers included, about
  half are translated; a larger share of the whole is not to be had, unless
  declarations are modelled.

## Plan

1. Done: `Engin`, `SessionPool`; `EventEngin`; `RtspSession`; `RtspInput`;
   `SampleTable`; `MoviePlayer`; `LiveServer` and `Daemon`; `Mp4Demuxer`; `Disk`.
2. Proofs.  Done: all safety properties of all but `Disk`.  Left: its `RightBytes`.
3. The byte stream of a connection: answers, RTP packets and what is sent in part
   (`RtspSession.cpp`, `Mp4Player.cpp:183`).
