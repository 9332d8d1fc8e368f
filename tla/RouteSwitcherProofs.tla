------------------------ MODULE RouteSwitcherProofs ------------------------
(***************************************************************************)
(* RouteSwitcher for every set of routing tables and every series of       *)
(* commands.  Which route is best depends on prefixes alone, and commands  *)
(* leave prefixes as they are; so what is said of a route stays said of    *)
(* it.  A command moves every route to its destination but those that have *)
(* no gateway: links, and routes that an earlier command with gateway      *)
(* 0.0.0.0 has cleared.  Prefixes nest, so such a command has cleared all  *)
(* wider routes too, and a cleared route hides none that is still moved.   *)
(***************************************************************************)
EXTENDS RouteSwitcher, TLAPS, FiniteSetTheorems, WellFoundedInduction

(* A set of natural numbers that is not empty has a least element. *)
LEMMA LeastNatural ==
  ASSUME NEW T \in SUBSET Nat, T # {}
  PROVE  \E n \in T : \A m \in T : n <= m
<1>1. PICK n \in T : \A m \in T : ~(<<m, n>> \in OpToRel(<, Nat))
  BY NatLessThanWellFounded, WFMin
<1>2. \A m \in T : ~(m < n)
  BY <1>1 DEF OpToRel
<1> QED BY <1>2

(* If any route covers the destination, the best one does. *)
LEMMA BestCovers ==
  ASSUME NEW table \in Seq(Route), NEW d, Covering(table, d) # {}
  PROVE  /\ BestRoute(table, d) \in Covering(table, d)
         /\ \A j \in Covering(table, d) :
              Cardinality(table[BestRoute(table, d)].prefix) <= Cardinality(table[j].prefix)
<1> DEFINE size(i) == Cardinality(table[i].prefix)
           sizes == {size(i) : i \in Covering(table, d)}
<1>1. \A i \in Covering(table, d) : size(i) \in Nat
  <2> SUFFICES ASSUME NEW i \in Covering(table, d) PROVE size(i) \in Nat
    OBVIOUS
  <2>1. i \in DOMAIN table
    BY DEF Covering
  <2>2. table[i] \in Route
    BY <2>1
  <2>3. table[i].prefix \in SUBSET Addresses
    BY <2>2 DEF Route
  <2>4. IsFiniteSet(table[i].prefix)
    BY <2>3, RoutesAssumption, FS_Subset
  <2> QED BY <2>4, FS_CardinalityType
<1>2. sizes \in SUBSET Nat /\ sizes # {}
  BY <1>1
<1>3. PICK n \in sizes : \A m \in sizes : n <= m
  BY <1>2, LeastNatural
<1>4. PICK i \in Covering(table, d) : n = size(i)
  BY <1>3
<1>5. \A j \in Covering(table, d) : size(i) <= size(j)
  BY <1>3, <1>4
<1> QED BY <1>5 DEF BestRoute

(* The best route is contained in every other that covers the destination. *)
LEMMA BestIsInnermost ==
  ASSUME NEW h \in Hosts, NEW d, NEW j \in Covering(Tables[h], d)
  PROVE  Tables[h][BestRoute(Tables[h], d)].prefix \subseteq Tables[h][j].prefix
<1> DEFINE b == BestRoute(Tables[h], d)
           P == Tables[h][b].prefix
           Q == Tables[h][j].prefix
<1>1. Tables[h] \in Seq(Route)
  BY RoutesAssumption DEF Hosts
<1>2. b \in Covering(Tables[h], d) /\ Cardinality(P) <= Cardinality(Q)
  BY <1>1, BestCovers
<1>3. b \in DOMAIN Tables[h] /\ j \in DOMAIN Tables[h] /\ d \in P /\ d \in Q
  BY <1>2 DEF Covering
<1>4. P \subseteq Q \/ Q \subseteq P
  BY <1>3, RoutesAssumption DEF Nested, Hosts
<1>5. Tables[h][b] \in Route
  BY <1>1, <1>3
<1>6. IsFiniteSet(P)
  BY <1>5, RoutesAssumption, FS_Subset DEF Route
<1>7. CASE Q \subseteq P
  <2>1. Cardinality(Q) <= Cardinality(P) /\ (Cardinality(Q) = Cardinality(P) => Q = P)
    BY <1>6, <1>7, FS_Subset
  <2>2. IsFiniteSet(Q)
    BY <1>6, <1>7, FS_Subset
  <2>3. Cardinality(P) \in Nat /\ Cardinality(Q) \in Nat
    BY <1>6, <2>2, FS_CardinalityType
  <2> QED BY <1>2, <2>1, <2>3
<1> QED BY <1>4, <1>7

(* Tables with the same prefixes send a packet by the same route. *)
LEMMA SameBest ==
  ASSUME NEW table \in Seq(Route), NEW other \in Seq(Route), NEW d,
         Len(table) = Len(other),
         \A i \in DOMAIN table : table[i].prefix = other[i].prefix
  PROVE  /\ Covering(table, d) = Covering(other, d)
         /\ BestRoute(table, d) = BestRoute(other, d)
<1>1. DOMAIN table = DOMAIN other
  OBVIOUS
<1>2. Covering(table, d) = Covering(other, d)
  BY <1>1 DEF Covering
<1>3. \A i \in Covering(table, d) : table[i].prefix = other[i].prefix
  BY DEF Covering
<1>4. \A i \in Covering(table, d) :
        (\A j \in Covering(table, d) : Cardinality(table[i].prefix) <= Cardinality(table[j].prefix))
          <=> (\A j \in Covering(other, d) : Cardinality(other[i].prefix) <= Cardinality(other[j].prefix))
  BY <1>2, <1>3
<1>5. BestRoute(table, d) = BestRoute(other, d)
  BY <1>2, <1>4 DEF BestRoute
<1> QED BY <1>2, <1>5

LEMMA RouteInitInv == RouteInit => RouteInv
<1> SUFFICES ASSUME RouteInit PROVE RouteInv
  OBVIOUS
<1> USE DEF RouteInit
<1>1. RoutesInPlace
  BY RoutesAssumption DEF RoutesInPlace, Hosts
<1>2. LastCommandHolds
  BY DEF LastCommandHolds
<1>3. ClearedUpwards
  BY DEF ClearedUpwards, Cleared
<1> QED BY <1>1, <1>2, <1>3 DEF RouteInv

(* A command that is carried out leaves each route of its host with the    *)
(* prefix it had, and with a gateway only where one was.  With gateway     *)
(* 0.0.0.0 it clears every route that contains one it clears.              *)
LEMMA SetRouteStep ==
  ASSUME RouteInv,
         NEW host \in Hosts \cup {Missing},
         NEW destination, NEW gateway,
         NEW interface \in Interfaces \cup {NoInterface, "none"},
         SetRoute(host, destination, gateway, interface)
  PROVE  RouteInv'
<1> DEFINE table == tables[host]
           to == Resolved(destination)
           via == Resolved(gateway)
<1>1. host \in Hosts /\ via \in Addresses
  BY RoutesAssumption DEF SetRoute, Applicable, Resolves, Resolved
<1>2. interface = NoInterface \/ interface \in Interfaces
  BY DEF SetRoute, Applicable, Known
<1>3. table \in Seq(Route) /\ DOMAIN tables = Hosts
  BY <1>1 DEF RouteInv, RoutesInPlace
<1>4. \A i \in DOMAIN table : table[i] \in Route
  BY <1>3
<1> DEFINE new == [i \in DOMAIN table |-> IF i \in Retargeted(host, to)
                                          THEN Moved(table[i], via, interface) ELSE table[i]]
<1>5. /\ DOMAIN tables' = Hosts
      /\ \A h \in Hosts \ {host} : tables'[h] = tables[h]
      /\ tables'[host] = new
  <2>1. tables' = [tables EXCEPT ![host] = new]
    BY DEF SetRoute
  <2> HIDE DEF new
  <2> QED BY <1>1, <1>3, <2>1
<1>6. ASSUME NEW i \in DOMAIN table
      PROVE  /\ tables'[host][i] \in Route
             /\ tables'[host][i].prefix = table[i].prefix
             /\ i \in Retargeted(host, to) => tables'[host][i].gateway = via
             /\ i \notin Retargeted(host, to) => tables'[host][i] = table[i]
  <2>1. CASE i \in Retargeted(host, to)
    <3>1. tables'[host][i] = Moved(table[i], via, interface)
      BY <1>5, <2>1
    <3>2. table[i] \in Route
      BY <1>4
    <3> QED BY <1>1, <1>2, <2>1, <3>1, <3>2 DEF Route, Moved
  <2>2. CASE i \notin Retargeted(host, to)
    <3>1. tables'[host][i] = table[i]
      BY <1>5, <2>2
    <3> QED BY <1>4, <2>2, <3>1
  <2> QED BY <2>1, <2>2
<1>7. tables'[host] \in Seq(Route) /\ Len(tables'[host]) = Len(table)
  <2>1. DOMAIN new = DOMAIN table
    OBVIOUS
  <2>2. DOMAIN table = 1 .. Len(table) /\ Len(table) \in Nat
    BY <1>3
  <2>3. \A i \in 1 .. Len(table) : new[i] \in Route
    BY <1>5, <1>6, <2>2
  <2>4. new \in [1 .. Len(table) -> Route]
    BY <2>1, <2>2, <2>3
  <2> HIDE DEF new
  <2> QED BY <1>5, <2>2, <2>4
<1> HIDE DEF new
<1>8. /\ table \in Seq(Route) /\ Len(table) = Len(Tables[host])
      /\ DOMAIN Tables[host] = DOMAIN table
      /\ \A i \in DOMAIN table : /\ table[i].prefix = Tables[host][i].prefix
                                 /\ Tables[host][i].gateway = Unspecified
                                      => table[i].gateway = Unspecified
  <2>1. Len(table) = Len(Tables[host]) /\ Tables[host] \in Seq(Route)
    BY <1>1, RoutesAssumption DEF RouteInv, RoutesInPlace, Hosts
  <2>2. DOMAIN Tables[host] = DOMAIN table
    BY <1>3, <2>1
  <2> QED BY <1>1, <1>3, <2>1, <2>2 DEF RouteInv, RoutesInPlace
<1>9. \A i \in DOMAIN table :
        i \in Retargeted(host, to) <=> table[i].gateway # Unspecified /\ to \in table[i].prefix
  BY DEF Retargeted
<1> HIDE DEF table, to, via
<1>10. RoutesInPlace'
  <2> SUFFICES ASSUME NEW h \in Hosts
               PROVE  /\ tables'[h] \in Seq(Route)
                      /\ Len(tables'[h]) = Len(Tables[h])
                      /\ \A i \in DOMAIN Tables[h] :
                           /\ tables'[h][i].prefix = Tables[h][i].prefix
                           /\ Tables[h][i].gateway = Unspecified
                                => tables'[h][i].gateway = Unspecified
    BY <1>5 DEF RoutesInPlace
  <2>1. CASE h # host
    <3>1. tables'[h] = tables[h]
      BY <1>5, <2>1
    <3> QED BY <3>1 DEF RouteInv, RoutesInPlace
  <2>2. CASE h = host
    BY <1>6, <1>7, <1>8, <1>9, <2>2
  <2> QED BY <2>1, <2>2
<1>11. ClearedUpwards'
  <2> SUFFICES ASSUME NEW h \in Hosts, NEW i \in DOMAIN Tables[h], NEW j \in DOMAIN Tables[h],
                      Tables[h][i].gateway # Unspecified, tables'[h][i].gateway = Unspecified,
                      Tables[h][i].prefix \subseteq Tables[h][j].prefix
               PROVE  tables'[h][j].gateway = Unspecified
    BY DEF ClearedUpwards, Cleared
  <2>1. tables[h][i].gateway = Unspecified => tables[h][j].gateway = Unspecified
    BY DEF RouteInv, ClearedUpwards, Cleared
  <2>2. CASE h # host
    <3>1. tables'[h] = tables[h]
      BY <1>5, <2>2
    <3> QED BY <2>1, <3>1
  <2>3. CASE h = host
    <3>1. i \in DOMAIN table /\ j \in DOMAIN table /\ table = tables[h]
      BY <1>8, <2>3 DEF table
    <3>2. CASE table[i].gateway = Unspecified
      <4>1. table[j].gateway = Unspecified
        BY <2>1, <3>1, <3>2
      <4>2. j \notin Retargeted(host, to)
        BY <1>9, <3>1, <4>1
      <4> QED BY <1>6, <2>3, <3>1, <4>1, <4>2
    <3>3. CASE table[i].gateway # Unspecified
      <4>1. i \in Retargeted(host, to) /\ via = Unspecified
        BY <1>6, <2>3, <3>1, <3>3
      <4>2. to \in table[j].prefix
        BY <1>8, <1>9, <2>3, <3>1, <4>1
      <4>3. CASE j \in Retargeted(host, to)
        BY <1>6, <2>3, <3>1, <4>1, <4>3
      <4>4. CASE j \notin Retargeted(host, to)
        BY <1>6, <1>9, <2>3, <3>1, <4>2, <4>4
      <4> QED BY <4>3, <4>4
    <3> QED BY <3>2, <3>3
  <2> QED BY <2>2, <2>3
<1>12. LastCommandHolds'
  <2>1. done'.host = host /\ done'.destination = to /\ done'.gateway = via
    BY DEF SetRoute, to, via
  <2>2. Covering(tables'[host], to) = Covering(table, to)
    BY <1>6, <1>7, <1>8, SameBest
  <2>3. PICK i \in Retargeted(host, to) : TRUE
    BY DEF SetRoute, Applicable, to
  <2>4. i \in Covering(table, to) /\ i \in DOMAIN table
    BY <2>3 DEF Retargeted, Covering, table
  <2>5. tables'[host][i].gateway = via
    BY <1>6, <2>3, <2>4
  <2>6. ASSUME NEW j \in Covering(table, to)
        PROVE  tables'[host][j].gateway \in {Unspecified, via}
    <3>1. j \in DOMAIN table /\ to \in table[j].prefix
      BY DEF Covering
    <3> QED BY <1>6, <1>9, <3>1
  <2> QED BY <1>1, <2>1, <2>2, <2>4, <2>5, <2>6 DEF LastCommandHolds
<1> QED BY <1>10, <1>11, <1>12 DEF RouteInv

LEMMA RouteNextInv ==
  ASSUME RouteInv, [RouteNext]_routeVars
  PROVE  RouteInv'
<1>1. CASE RouteNext
  <2>1. PICK host \in Hosts \cup {Missing},
             destination \in Addresses \cup DOMAIN AddressOf \cup {Missing},
             gateway \in Addresses \cup DOMAIN AddressOf \cup {Missing},
             interface \in Interfaces \cup {NoInterface, "none"} :
               \/ SetRoute(host, destination, gateway, interface)
               \/ Throw(host, destination, gateway, interface)
    BY <1>1 DEF RouteNext
  <2>2. CASE SetRoute(host, destination, gateway, interface)
    BY <2>2, SetRouteStep
  <2>3. CASE Throw(host, destination, gateway, interface)
    <3>1. RoutesInPlace'
      BY <2>3 DEF Throw, RouteInv, RoutesInPlace
    <3>2. LastCommandHolds'
      BY <2>3 DEF Throw, LastCommandHolds
    <3>3. ClearedUpwards'
      BY <2>3 DEF Throw, RouteInv, ClearedUpwards, Cleared
    <3> QED BY <3>1, <3>2, <3>3 DEF RouteInv
  <2> QED BY <2>1, <2>2, <2>3
<1>2. CASE UNCHANGED routeVars
  BY <1>2 DEF routeVars, RouteInv, RoutesInPlace, ClearedUpwards, Cleared, LastCommandHolds
<1> QED BY <1>1, <1>2

(* Whatever the commands, also those with gateway 0.0.0.0, routes keep     *)
(* their prefixes, links stay without gateways, a cleared route is inside  *)
(* cleared routes and links only, and every route to the destination of    *)
(* the last command that has a gateway leads to that of the command.       *)
THEOREM RouteInvariant == RouteSpec => []RouteInv
<1> QED BY RouteInitInv, RouteNextInv, PTL DEF RouteSpec

(* For every routing table and every series of commands, the next packet   *)
(* to the destination of the last command takes its gateway, but for       *)
(* destinations that were on a link to begin with.                         *)
THEOREM LastCommandWins == RouteSpec => []NextPacketTakesGateway
<1>1. RouteInv => NextPacketTakesGateway
  <2> DEFINE h == done.host
             d == done.destination
             b == BestRoute(tables[h], d)
  <2> SUFFICES ASSUME RouteInv, done # NoCommand, ~Direct(Tables[h], d)
               PROVE  tables[h][b].gateway = done.gateway
    BY DEF NextPacketTakesGateway
  <2>1. h \in Hosts
    BY DEF RouteInv, LastCommandHolds
  <2>2. PICK i \in Covering(tables[h], d) : tables[h][i].gateway = done.gateway
    BY DEF RouteInv, LastCommandHolds
  <2>3. /\ tables[h] \in Seq(Route) /\ Tables[h] \in Seq(Route)
        /\ Len(tables[h]) = Len(Tables[h])
    BY <2>1, RoutesAssumption DEF RouteInv, RoutesInPlace, Hosts
  <2>4. \A j \in DOMAIN tables[h] : tables[h][j].prefix = Tables[h][j].prefix
    BY <2>1, <2>3 DEF RouteInv, RoutesInPlace
  <2>5. b = BestRoute(Tables[h], d) /\ Covering(tables[h], d) = Covering(Tables[h], d)
    BY <2>3, <2>4, SameBest
  <2>6. b \in Covering(tables[h], d)
    BY <2>2, <2>3, BestCovers
  <2>7. tables[h][b].gateway \in {Unspecified, done.gateway}
    BY <2>6 DEF RouteInv, LastCommandHolds
  <2>8. CASE tables[h][b].gateway = Unspecified
    <3>1. b \in DOMAIN Tables[h] /\ i \in DOMAIN Tables[h]
      BY <2>2, <2>5, <2>6 DEF Covering
    <3>2. Cleared(h, b)
      BY <2>5, <2>8 DEF Direct, Cleared
    <3>3. Tables[h][b].prefix \subseteq Tables[h][i].prefix
      BY <2>1, <2>2, <2>5, BestIsInnermost
    <3>4. tables[h][i].gateway = Unspecified
      BY <2>1, <3>1, <3>2, <3>3 DEF RouteInv, ClearedUpwards
    <3> QED BY <2>2, <2>8, <3>4
  <2> QED BY <2>7, <2>8
<1> QED BY <1>1, RouteInvariant, PTL

(* If the initial tables reach their links directly, no series of commands *)
(* takes a neighbour off its link.                                         *)
THEOREM LinksAreLeftAlone == LinksAreNarrow /\ RouteSpec => []NeighboursStayDirect
<1>1. LinksAreNarrow /\ RouteInv => NeighboursStayDirect
  <2> SUFFICES ASSUME LinksAreNarrow, RouteInv, NEW h \in Hosts, NEW d \in Addresses,
                      OnLink(Tables[h], d)
               PROVE  Direct(tables[h], d)
    BY DEF NeighboursStayDirect
  <2>1. Tables[h] \in Seq(Route) /\ tables[h] \in Seq(Route) /\ Len(tables[h]) = Len(Tables[h])
    BY RoutesAssumption DEF RouteInv, RoutesInPlace, Hosts
  <2>2. \A i \in DOMAIN tables[h] : tables[h][i].prefix = Tables[h][i].prefix
    BY <2>1 DEF RouteInv, RoutesInPlace
  <2>3. BestRoute(tables[h], d) = BestRoute(Tables[h], d)
    BY <2>1, <2>2, SameBest
  <2>4. BestRoute(Tables[h], d) \in DOMAIN Tables[h]
    BY <2>1, BestCovers DEF OnLink, Covering
  <2>5. Direct(Tables[h], d)
    BY DEF LinksAreNarrow
  <2> QED BY <2>3, <2>4, <2>5 DEF Direct, RouteInv, RoutesInPlace
<1>2. LinksAreNarrow /\ RouteSpec => [](LinksAreNarrow /\ RouteInv)
  <2>1. LinksAreNarrow => LinksAreNarrow'
    BY DEF LinksAreNarrow, Hosts
  <2> QED BY <2>1, RouteInvariant, PTL
<1> QED BY <1>1, <1>2, PTL
=============================================================================
