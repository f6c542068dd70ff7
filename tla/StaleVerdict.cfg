CONSTANTS
  Client = Client
  Server = Server
  Timer = Timer
  Gsl = Gsl
  Kwd = Kwd
  Uv = Uv
  None = None
  Engines = {Kwd, Uv}
  Configs <- TwoEngines
  Overlap = {"verdict"}
SPECIFICATION Spec
INVARIANT BothVerdicts
CHECK_DEADLOCK FALSE
