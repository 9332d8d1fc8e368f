CONSTANTS
  Maps <- MCMaps
  Streams <- MCStreams
  GateLists <- MCGateLists
  PcpCount = 3
  AnyQfi <- MCAnyQfi
SPECIFICATION CncSpec
CHECK_DEADLOCK FALSE
INVARIANT ReservationsTranslate
