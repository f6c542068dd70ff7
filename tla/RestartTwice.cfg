\* The DSP goes down again while the first restart is handled.
SPECIFICATION Spec
CONSTANTS
  Streams = {s1}
  Input = {}
  Clients = {c1}
  Ssr = ssr
  None = None
  MaxQueue = 3
  MaxRestarts = 2
  Overlap = {"dsp"}
  Reentrant = FALSE
  PauseIdle = FALSE
PROPERTIES PlaysAgain
