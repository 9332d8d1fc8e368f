CONSTANTS
  SeqSpace = 8
  Dscps <- OneStreamDscps
  FrerStreams <- OneStream
  ReplicaDscp = 8
  WindowSize = 2
  WindowTimeout = 2
  EthernetFramed = TRUE
  PathDiverse = TRUE
  AppDscps <- OneStream
  AppOversize <- OnlyFitting
  AppIds <- SomeIds
  FragmentMay = TRUE
  TrimMay = TRUE
  MaxDelay = 1
  Pace = 1
  MaxSent = 4
SPECIFICATION ChainSpec
CHECK_DEADLOCK FALSE
INVARIANTS
  OneMemberStream
  OriginalDscp
PROPERTY KeepsPromise
