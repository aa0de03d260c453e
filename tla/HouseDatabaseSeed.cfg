SPECIFICATION Spec
CONSTANTS
  Procs = {a, b, c}
  Runs <- MCRuns
  Texts = {"built"}
  Spoilt = "spoilt"
  Window = "window"
  LateSeeds = TRUE
  MaxJobs = 3
SYMMETRY Symmetry
PROPERTIES ImplementsHouseSwitch
CHECK_DEADLOCK FALSE
