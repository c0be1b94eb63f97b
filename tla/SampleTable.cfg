\* Any tables: up to two runs, two capacities, three chunks and four sizes.
SPECIFICATION Spec
CONSTANTS
  Boxes <- MCBoxes
  Heap <- MCHeap
CHECK_DEADLOCK FALSE
INVARIANT MatchesFormat
