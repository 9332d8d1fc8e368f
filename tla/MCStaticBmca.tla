---------------------------- MODULE MCStaticBmca ----------------------------
(* StaticBmca for trees of none to four nodes, and for all trees of three. *)
EXTENDS StaticBmca

Nodes == {"tsnDeviceA", "tsnSwitch", "tsnDeviceB0", "tsnDeviceB1"}
MCGrandmasters == {"tsnDeviceA", "tsnDeviceC", NoModule}

Entry(name, role) == [moduleName |-> name, role |-> role]

MCTrees ==
  {<<>>,
   <<Entry("tsnDeviceA", "MASTER"), Entry("tsnDeviceB0", "SLAVE")>>,
   <<Entry("tsnDeviceA", "MASTER"), Entry("tsnSwitch", "BRIDGE"),
     Entry("tsnDeviceB0", "SLAVE")>>,
   <<Entry("tsnDeviceA", "MASTER"), Entry("tsnSwitch", "BRIDGE"),
     Entry("tsnDeviceB0", "SLAVE"), Entry("tsnDeviceB1", "SLAVE")>>}

(* A vector of three has room for a fourth entry: the tree stays in place. *)
Names3 == {<<"tsnDeviceA", "tsnSwitch", "tsnDeviceB0">>,
           <<"tsnDeviceA", "tsnDeviceA", "tsnDeviceB0">>,
           <<"tsnDeviceA", Bridge5gs, "tsnDeviceB0">>}

TreesInPlace == {[i \in 1 .. 3 |-> Entry(names[i], roles[i])] :
                   names \in Names3, roles \in [1 .. 3 -> Roles]}

TreesInPlaceOrNone == TreesInPlace \cup {<<>>}
=============================================================================
