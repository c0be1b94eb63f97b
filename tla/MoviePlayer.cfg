\* Two tracks of a few ms; positions 0 and 3.
SPECIFICATION FairSpec
CONSTANTS
  NTracks = 2
  Stamps <- MCStamps
  Keys <- MCKeys
  Ranges <- MCRanges
  FirstTick = 2
  Faults <- MCFaults
CHECK_DEADLOCK FALSE
INVARIANTS NoGap
PROPERTIES PlayedOut OnTime NeverStalls GoesOn Ends
