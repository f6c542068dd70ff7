\* A client pauses a stream while the restart thread has it in hand.
SPECIFICATION Spec
CONSTANTS
  Streams = {s1}
  Input = {}
  Clients = {c1}
  Ssr = ssr
  None = None
  MaxQueue = 3
  MaxRestarts = 1
  Overlap = {"pause"}
  Reentrant = FALSE
  PauseIdle = FALSE
INVARIANTS NeverWaitsForItself
