SPECIFICATION Spec
CONSTANTS
  Jobs <- AllJobs
  Boundary <- Outer
  AttrOf <- MCAttrOf
  BrigadeLimit = 3
  MaxCuts = 2
INVARIANTS EndDecides SpoolFileWhole ChunkingIrrelevant FormRecovered
CHECK_DEADLOCK FALSE
