\* The allocator hands an address out again before its counter is erased.
SPECIFICATION Spec
CONSTANTS
  Clients = {c1, c2}
  Ssr = ssr
  Streams = {s1, s2}
  Addresses = {a1}
  None = None
  MaxWalks = 1
  ConcurrentClose = FALSE
  EarlyReuse = TRUE
INVARIANTS HandleUsable
