CONSTANTS
  SeqSpace = 12
  Dscps <- OneStreamDscps
  FrerStreams <- OneStream
  ReplicaDscp = 8
  WindowSize = 3
  WindowTimeout = 3
  EthernetFramed = FALSE
  PathDiverse = TRUE
  AppDscps <- OneStream
  AppOversize <- OnlyFitting
  AppIds <- SomeIds
  FragmentMay = FALSE
  TrimMay = FALSE
  MaxDelay = 2
  Pace = 1
  MaxSent = 3
  MinSnr = 0
  SafeSnr = 15
  ImpairedDirection <- UplinkAndDownlink
  InheritedSinr <- GoodAndPoor
  Offsets <- SomeOffsets
  ExtraPers <- SomePers
  MaxAttempts = 2
SPECIFICATION LegsFairSpec
CHECK_DEADLOCK FALSE
INVARIANTS
  LegsInv
PROPERTIES
  NothingMissed
  EveryDatagramHandedOn
