\* Clients that do anything, one session for two of them.
SPECIFICATION Spec
CONSTANTS
  Sessions = {s1}
  Clients = {c1, c2}
  Fds = {f1}
  Movies = {mov}
  Channels = {chan}
  Tracks = {1}
  LiveTracks = 2
  MaxOwed = 2
  Conduct <- Kinds
  Faults <- FaultKinds
  NoSession = NoSession
  NoClient = NoClient
  NoFd = NoFd
  NoFile = NoFile
CHECK_DEADLOCK FALSE
INVARIANTS CurrentClean AnswerToAsker
