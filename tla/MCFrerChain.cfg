CONSTANTS
  SeqSpace = 12
  Dscps <- OneStreamDscps
  FrerStreams <- OneStream
  ReplicaDscp = 8
  WindowSize = 2
  WindowTimeout = 3
  EthernetFramed = FALSE
  PathDiverse = FALSE
  AppDscps <- OneStream
  AppOversize <- OnlyFitting
  AppIds <- SomeIds
  FragmentMay = FALSE
  TrimMay = FALSE
  MaxDelay = 2
  Pace = 1
  MaxSent = 14
SPECIFICATION ChainSpec
CHECK_DEADLOCK FALSE
INVARIANTS
  ChainTypeOK
  OneMemberStream
  ForwardedAreGuarded
  SlotsTellForwarded
PROPERTIES
  DuplicatesWereForwarded
  OverrunsAreLate
  KeepsPromise
