---------------------------- MODULE RouteSwitcher ----------------------------
(***************************************************************************)
(* RouteSwitcher: the <set-route> command that a scenario script uses to   *)
(* move the routes of a host to another next hop while the simulation      *)
(* runs.                                                                   *)
(*                                                                         *)
(* A route is a record of the addresses it covers, its gateway and its     *)
(* interface; the routing table (external: INET) sends a packet by the     *)
(* route that covers its destination with the longest prefix, that is, by  *)
(* the smallest covering set.                                              *)
(***************************************************************************)
EXTENDS Integers, Sequences, FiniteSets

CONSTANTS
  Tables,      \* initial routing table of each host
  Addresses,   \* IPv4 addresses, 0.0.0.0 among them
  AddressOf,   \* names that lead to a module, with its IPv4 address or 0.0.0.0
  Interfaces,  \* names of the interfaces of every host
  NoInterface  \* the command has no interface attribute

Unspecified == "0.0.0.0"

Route == [prefix : SUBSET Addresses, gateway : Addresses, interface : Interfaces]

Nested(P, Q) == P \subseteq Q \/ Q \subseteq P \/ P \cap Q = {}

(* A name is nothing that could be read as an address.  A netmask is a     *)
(* number of leading bits, so of two prefixes one contains the other or    *)
(* they have no address in common.                                         *)
ASSUME RoutesAssumption ==
  /\ IsFiniteSet(Addresses) /\ Unspecified \in Addresses
  /\ DOMAIN AddressOf \cap Addresses = {}
  /\ \A name \in DOMAIN AddressOf : AddressOf[name] \in Addresses
  /\ NoInterface \notin Interfaces
  /\ \A h \in DOMAIN Tables :
       /\ Tables[h] \in Seq(Route)
       /\ \A i, j \in DOMAIN Tables[h] : Nested(Tables[h][i].prefix, Tables[h][j].prefix)

Missing == ""

VARIABLES
  tables,   \* routing table of each host
  stopped,  \* did a command end the simulation with a cRuntimeError?
  done      \* the last command that was carried out, or NoCommand

routeVars == <<tables, stopped, done>>

NoCommand == [host |-> "none"]

Hosts == DOMAIN Tables

RouteInit == tables = Tables /\ stopped = FALSE /\ done = NoCommand

(* Mutated: the default route only; directly connected routes as well. *)
RetargetedDefault(host, destination) ==
  {i \in DOMAIN tables[host] : tables[host][i].prefix = Addresses}
RetargetedAll(host, destination) ==
  {i \in DOMAIN tables[host] : destination \in tables[host][i].prefix}

(* Directly connected routes, which have no gateway, are left alone. *)
Retargeted(host, destination) ==
  {i \in DOMAIN tables[host] : /\ tables[host][i].gateway # Unspecified
                               /\ destination \in tables[host][i].prefix}

Known(interface) == interface \in Interfaces \cup {NoInterface}

(* resolveAddress takes a literal address as it is, 0.0.0.0 included.  It  *)
(* throws for an attribute that is missing or empty and for a name that    *)
(* leads to nothing with an IPv4 address.                                  *)
Resolves(spec) ==
  \/ spec \in Addresses
  \/ spec \in DOMAIN AddressOf /\ AddressOf[spec] # Unspecified

Resolved(spec) == IF spec \in Addresses THEN spec ELSE AddressOf[spec]

(* Every attribute is there and some route covers the destination.  All of *)
(* it is found out before a route is changed.                              *)
Applicable(host, destination, gateway, interface) ==
  /\ host \in Hosts
  /\ Resolves(destination) /\ Resolves(gateway) /\ Known(interface)
  /\ Retargeted(host, Resolved(destination)) # {}

Moved(route, gateway, interface) ==
  [route EXCEPT !.gateway = gateway,
                !.interface = IF interface = NoInterface THEN @ ELSE interface]

SetRoute(host, destination, gateway, interface) ==
  LET to == Resolved(destination)
      via == Resolved(gateway)
  IN  /\ ~stopped
      /\ Applicable(host, destination, gateway, interface)
      /\ tables' = [tables EXCEPT ![host] =
           [i \in DOMAIN @ |-> IF i \in Retargeted(host, to)
                               THEN Moved(@[i], via, interface) ELSE @[i]]]
      /\ done' = [host |-> host, destination |-> to, gateway |-> via]
      /\ UNCHANGED stopped

(* A cRuntimeError ends the simulation. *)
Throw(host, destination, gateway, interface) ==
  /\ ~stopped
  /\ ~Applicable(host, destination, gateway, interface)
  /\ stopped' = TRUE
  /\ done' = NoCommand
  /\ UNCHANGED tables

RouteNext ==
  \E host \in Hosts \cup {Missing},
     destination, gateway \in Addresses \cup DOMAIN AddressOf \cup {Missing},
     interface \in Interfaces \cup {NoInterface, "none"} :
    \/ SetRoute(host, destination, gateway, interface)
    \/ Throw(host, destination, gateway, interface)

RouteSpec == RouteInit /\ [][RouteNext]_routeVars

Covering(table, destination) == {i \in DOMAIN table : destination \in table[i].prefix}

(* The route the next packet to destination takes. *)
BestRoute(table, destination) ==
  CHOOSE i \in Covering(table, destination) : \A j \in Covering(table, destination) :
    Cardinality(table[i].prefix) <= Cardinality(table[j].prefix)

-----------------------------------------------------------------------------
Direct(table, destination) == table[BestRoute(table, destination)].gateway = Unspecified

OnLink(table, destination) ==
  \E i \in Covering(table, destination) : table[i].gateway = Unspecified

(* A deployment in which the route of a link is narrower than any other    *)
(* that covers one of its addresses.                                       *)
LinksAreNarrow ==
  \A h \in Hosts, d \in Addresses : OnLink(Tables[h], d) => Direct(Tables[h], d)

(* A command that was carried out has its effect: the next packet to its   *)
(* destination takes the new next hop, however many routes cover it and    *)
(* whatever earlier commands did, those with gateway 0.0.0.0 included:     *)
(* they leave routes that no later command will move, but never one that   *)
(* hides a route which is moved.  A destination on the host's own link is  *)
(* the exception: the command moves the routes behind the link's and says  *)
(* nothing.                                                                *)
NextPacketTakesGateway ==
  done # NoCommand /\ ~Direct(Tables[done.host], done.destination) =>
    tables[done.host][BestRoute(tables[done.host], done.destination)].gateway = done.gateway

(* No series of commands takes the neighbours of a host off its link.      *)
NeighboursStayDirect ==
  \A h \in Hosts, d \in Addresses : OnLink(Tables[h], d) => Direct(tables[h], d)

(* Commands change gateways and interfaces only, and give no link a        *)
(* gateway.                                                                *)
RoutesInPlace ==
  /\ DOMAIN tables = Hosts
  /\ \A h \in Hosts :
       /\ tables[h] \in Seq(Route)
       /\ Len(tables[h]) = Len(Tables[h])
       /\ \A i \in DOMAIN Tables[h] :
            /\ tables[h][i].prefix = Tables[h][i].prefix
            /\ Tables[h][i].gateway = Unspecified => tables[h][i].gateway = Unspecified

(* A route that has lost its gateway to 0.0.0.0.  It is never moved again. *)
Cleared(h, i) == Tables[h][i].gateway # Unspecified /\ tables[h][i].gateway = Unspecified

(* Whatever clears a route clears all that contain it.                     *)
ClearedUpwards ==
  \A h \in Hosts : \A i, j \in DOMAIN Tables[h] :
    Cleared(h, i) /\ Tables[h][i].prefix \subseteq Tables[h][j].prefix
      => tables[h][j].gateway = Unspecified

(* The last command has moved some route, and every route to its           *)
(* destination that has a gateway leads to that of the command.            *)
LastCommandHolds ==
  done # NoCommand =>
    /\ done.host \in Hosts
    /\ \E i \in Covering(tables[done.host], done.destination) :
         tables[done.host][i].gateway = done.gateway
    /\ \A i \in Covering(tables[done.host], done.destination) :
         tables[done.host][i].gateway \in {Unspecified, done.gateway}

(* The inductive invariant. *)
RouteInv == RoutesInPlace /\ ClearedUpwards /\ LastCommandHolds
=============================================================================
