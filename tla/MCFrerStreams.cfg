CONSTANTS
  SeqSpace = 8
  Dscps <- TwoStreamsDscps
  FrerStreams <- TwoStreams
  ReplicaDscp = 8
  WindowSize = 1
  WindowTimeout = 2
  EthernetFramed = FALSE
  PathDiverse = FALSE
  AppDscps <- TwoStreams
  AppOversize <- OnlyFitting
  AppIds <- SomeIds
  FragmentMay = FALSE
  TrimMay = FALSE
  MaxDelay = 1
  Pace = 1
  MaxSent = 2
SPECIFICATION ChainSpec
CHECK_DEADLOCK FALSE
INVARIANTS
  ChainInv
  OriginalDscp
PROPERTY KeepsPromise
