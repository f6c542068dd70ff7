CONSTANTS
  Client = Client
  Server = Server
  Timer = Timer
  Gsl = Gsl
  Kwd = Kwd
  Uv = Uv
  None = None
  Engines = {Kwd, Uv}
  Configs <- MCConfigs
  Overlap = {}
SPECIFICATION Spec
INVARIANTS
  TypeOK
  PowerExact
  MicExact
  StartedListens
  NeverStopsActive
  PendingStopTimed
  BothVerdicts
  NeverStuck
