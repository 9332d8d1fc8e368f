CONSTANTS
  Trees <- TreesInPlaceOrNone
  Modules <- Nodes
  Grandmasters <- MCGrandmasters
  TransparentClockEnabled = TRUE
  CorrectionFieldSupport = TRUE
SPECIFICATION BmcaSpec
CHECK_DEADLOCK FALSE
INVARIANTS
  RolesAsConfigured
  BridgeIsTransparent
  OneMasterEstablished
