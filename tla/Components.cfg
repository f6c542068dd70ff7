\* Every component that is checked by itself, one to a behaviour.
SPECIFICATION Spec
CONSTANTS
  Scenes = {"Compress", "Headset", "Feedback", "Echo", "Speaker", "Acoustic", "Pcm", "Voice",
            "InCall", "Hardware", "Software", "Config", "Context", "Hostless", "Common", "Detection",
            "Charger", "Lifecycle", "Signals"}
  Hasty = FALSE
INVARIANTS
  TypeOK CountsExact RoutesRight NoOrphan CallbacksRight PauseKept NeverBlocks Adapts
  PromisesKept NeverReadsPast
\* the processes that call the server may all have died, for good
CHECK_DEADLOCK FALSE
