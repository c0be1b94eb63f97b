\* Two engines share the listener; every call that may fail does; engines may
\* be destroyed.
SPECIFICATION FairSpec
CONSTANTS
  Engins = {e1, e2}
  SessionCount = 2
  Conns = {c1, c2, c3}
  NoEngin = NoEngin
  NoConn = NoConn
  Faults <- AllFaults
CHECK_DEADLOCK FALSE
INVARIANTS
  OneAcceptor
  BatonInUse
  Wakeable
  PoolConsistent
PROPERTIES
  PoolSpec
  Accepted
