SPECIFICATION Spec
CONSTANTS
  Jobs <- FoldedJobs
  Boundary <- Outer
  AttrOf <- MCAttrOf
  BrigadeLimit = 3
  MaxCuts = 0
INVARIANT NeverAborts
CHECK_DEADLOCK FALSE
