SPECIFICATION Spec
CONSTANTS
  Procs = {a, b, c}
  Runs <- MCRuns
  Texts = {"built"}
  Spoilt = "spoilt"
  Window = "window"
  LateSeeds = FALSE
  MaxJobs = 3
INVARIANTS SchemaHoldsStill SeededWithItsSchema FileIsWhole
PROPERTY ImplementsHouseSwitch
SYMMETRY Symmetry
CHECK_DEADLOCK FALSE
