\* Two directories, one of which may lack its sdp, of one track or none; everything
\* that may fail or be told.
SPECIFICATION MCSpec
CHECK_DEADLOCK FALSE
CONSTANTS
  Names = {a, b}
  NoName = NoName
  Unfinished = {b}
  Tracks = 1
  LiveTracks = 1
INVARIANTS OneWorker OwnStreams
PROPERTIES Recovers Heals EndsWhenTold
