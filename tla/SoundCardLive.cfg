\* An output and an input, one client, two restarts one after the other.
SPECIFICATION Spec
CONSTANTS
  Streams = {s1, s2}
  Input = {s2}
  Clients = {c1}
  Ssr = ssr
  None = None
  MaxQueue = 3
  MaxRestarts = 2
  Overlap = {"open", "resume"}
  Reentrant = FALSE
  PauseIdle = FALSE
PROPERTIES PlaysAgain
