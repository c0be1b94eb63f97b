\* Orderly clients, two descriptors, anything but a damaged movie may happen.
SPECIFICATION FairSpec
CONSTANTS
  Sessions = {s1}
  Clients = {c1, c2}
  Fds = {f1, f2}
  Movies = {mov}
  Channels = {chan}
  Tracks = {1, 2}
  LiveTracks = 2
  MaxOwed = 1
  Conduct <- Orderly
  Faults <- AllButParse
  NoSession = NoSession
  NoClient = NoClient
  NoFd = NoFd
  NoFile = NoFile
CHECK_DEADLOCK FALSE
INVARIANTS StreamsToOwner IdleClean TablesMatch NothingLost
PROPERTIES Answered
