CONSTANTS
  SeqSpace = 16
  Dscps <- MCDscps
  FrerStreams <- GptpReplicated
  ReplicaDscp = 8
  WindowSize = 4
  WindowTimeout = 2
  EthernetFramed = FALSE
  PathDiverse = TRUE
  TsnDevices <- Devices
  UeOf <- MCUeOf
  NrUes <- MCNrUes
  MappedPcps <- MCMappedPcps
  GptpPort = "gptp"
  SimtimeMax = 99
  MsPerUnit = 2
  StreamReservations <- MCReservations
  Here = "tsnDeviceB1"
  TransportModes <- GtpuMode
  SidebandDelay = 1
  DataPcps <- MCDataPcps
  DataDscps <- MCDataDscps
  OversizeTo <- LargeData
  MaxDelay = 1
  MaxGptp = 2
  MaxData = 0
  Pace = 2
SPECIFICATION BridgeSpec
CHECK_DEADLOCK FALSE
INVARIANT FollowUpCarriesSyncResidence
