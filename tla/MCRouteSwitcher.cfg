CONSTANTS
  Tables <- MCTables
  Addresses <- MCAddresses
  AddressOf <- MCAddressOf
  Interfaces <- MCInterfaces
  NoInterface = ""
SPECIFICATION RouteSpec
CHECK_DEADLOCK FALSE
INVARIANTS
  NextPacketTakesGateway
  NeighboursStayDirect
  RouteInv
