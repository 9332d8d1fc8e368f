CONSTANTS
  SeqSpace = 6
  Dscps <- MCDscps
  FrerStreams <- MCFrerStreams
  ReplicaDscp = 8
  WindowSize = 2
  WindowTimeout = 2
SPECIFICATION RecoveryFairSpec
INVARIANTS
  RecoveryTypeOK
  ActiveIffArmed
  NewestSlotTaken
PROPERTY OverrunsEndInAccept
