CONSTANTS
  SeqSpace = 8
  Dscps <- MCDscps
  FrerStreams <- MCFrerStreams
  ReplicaDscp = 8
  WindowSize = 2
  WindowTimeout = 2
  UEs <- TwoUEs
  MaxSent = 2
SPECIFICATION UplinkSpec
CHECK_DEADLOCK FALSE
PROPERTY UplinkSeamless
