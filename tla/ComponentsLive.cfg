\* The components whose threads wait for one another.
SPECIFICATION LiveSpec
CONSTANTS
  Scenes = {"Speaker", "Context", "Hostless"}
  Hasty = FALSE
PROPERTIES WaitsEnd
