\* An output and an input on one device, two clients, two restarts, the second
\* at any time. Calls other than open and resume do not overlap a walk.
SPECIFICATION Spec
CONSTANTS
  Streams = {s1, s2}
  Input = {s2}
  Clients = {c1, c2}
  Ssr = ssr
  None = None
  MaxQueue = 3
  MaxRestarts = 2
  Overlap = {"open", "resume", "dsp"}
  Reentrant = FALSE
  PauseIdle = FALSE
SYMMETRY SymmetricClients
INVARIANTS TypeOK CountsExact RegisteredExact NothingLeft StartedRuns NeverWaitsForItself
