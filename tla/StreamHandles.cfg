\* Two threads and the restart thread; a stream is closed once, and an address
\* is not reused before its counter is erased.
SPECIFICATION Spec
CONSTANTS
  Clients = {c1, c2}
  Ssr = ssr
  Streams = {s1, s2, s3}
  Addresses = {a1, a2}
  None = None
  MaxWalks = 1
  ConcurrentClose = FALSE
  EarlyReuse = FALSE
INVARIANTS TypeOK PinnedLive CountExact NeverBlocksLocked IteratorValid HandleUsable
PROPERTIES ClosedIsFreed
