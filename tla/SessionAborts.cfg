\* An orderly client of a healthy server.
SPECIFICATION Spec
CONSTANTS
  Sessions = {s1}
  Clients = {c1}
  Fds = {f1}
  Movies = {mov}
  Channels = {chan}
  Tracks = {1, 2}
  LiveTracks = 2
  MaxOwed = 1
  Conduct <- Orderly
  Faults <- Unfailing
  NoSession = NoSession
  NoClient = NoClient
  NoFd = NoFd
  NoFile = NoFile
CHECK_DEADLOCK FALSE
INVARIANTS NoDefaultHandler
