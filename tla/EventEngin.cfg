\* A listener, a session's connection and an event another thread adds, two
\* reports per epoll_wait.
SPECIFICATION FairSpec
CHECK_DEADLOCK FALSE
CONSTANTS
  Events = {l, s, t}
  Listener = l
  External = {t}
  Connections = {s}
  Masks <- ReadOnly
  MaxEvents = 2
  NoEvent = NoEvent
INVARIANTS
  QuietAfterStop
PROPERTIES
  DispatchesLive
  PriorityFirst
  EveryReportServed
  StopReturns
