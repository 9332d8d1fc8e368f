-------------------------- MODULE MCRouteSwitcher --------------------------
(* A device with a link of its own, routes to one device and to a network  *)
(* behind the two legs, and a default route.  Scripts write addresses or   *)
(* names; the switch has no address.                                       *)
EXTENDS RouteSwitcher

DeviceA == "10.0.1.1"
Server == "10.0.2.1"
Elsewhere == "10.7.0.1"
Ue0 == "192.168.3.1"
Ue1 == "192.168.3.2"

MCAddresses == {DeviceA, Server, Elsewhere, Ue0, Ue1, Unspecified}
MCAddressOf == [tsnDeviceA |-> DeviceA, ue1 |-> Ue1, tsnSwitch |-> Unspecified]
MCTables ==
  [tsnDeviceB |->
    <<[prefix |-> {DeviceA}, gateway |-> Ue0, interface |-> "eth0"],
      [prefix |-> {DeviceA, Server}, gateway |-> Ue1, interface |-> "eth0"],
      [prefix |-> {Ue0, Ue1}, gateway |-> Unspecified, interface |-> "eth0"],
      [prefix |-> MCAddresses, gateway |-> Ue0, interface |-> "eth0"]>>]
MCInterfaces == {"eth0", "eth1"}

ASSUME LinksNarrowHere == LinksAreNarrow
=============================================================================
