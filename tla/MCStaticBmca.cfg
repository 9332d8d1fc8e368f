CONSTANTS
  Trees <- MCTrees
  Modules <- Nodes
  Grandmasters <- MCGrandmasters
  TransparentClockEnabled = TRUE
  CorrectionFieldSupport = TRUE
SPECIFICATION BmcaSpec
CHECK_DEADLOCK FALSE
INVARIANT RolesAsConfigured
