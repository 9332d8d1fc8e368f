----------------------------- MODULE StaticBmca -----------------------------
(***************************************************************************)
(* StaticBmca: the gPTP clock hierarchy, read from the configuration when  *)
(* the network is initialised, validated, and looked up by other modules.  *)
(*                                                                         *)
(* nodeRoleMap holds pointers into the vector spanningTree.  A pointer is  *)
(* modelled as the buffer it points into and an index; the vector moves to *)
(* a new buffer when it grows beyond its capacity (external: the vector of *)
(* the C++ library, which doubles it).  Reading through a pointer into a   *)
(* buffer that was left may give any role.                                 *)
(***************************************************************************)
EXTENDS Naturals, Sequences, FiniteSets

CONSTANTS
  Trees,                    \* configured spanning trees: sequences of entries
  Modules,                  \* paths of the modules that exist in the network
  Grandmasters,             \* configured grandmasters, NoModule for none
  TransparentClockEnabled,  \* transparentClockEnabled
  CorrectionFieldSupport    \* correctionFieldSupport

Roles == {"MASTER", "BRIDGE", "SLAVE", "TRANSPARENT"}
NoModule == ""
Bridge5gs == "5gs_bridge"

(* parseRole knows no other role, so every entry of a tree has one of them. *)
ASSUME BmcaAssumption ==
  /\ \A tree \in Trees : tree \in Seq([moduleName : STRING, role : Roles])
  /\ {TransparentClockEnabled, CorrectionFieldSupport} \subseteq BOOLEAN

VARIABLES
  config, grandmaster,  \* the configuration, chosen once
  spanningTree,         \* std::vector<SpanningTreeEntry>
  capacity, buffer,     \* its capacity and the number of its buffer
  nodeRoleMap,          \* module name -> pointer into spanningTree
  errors,               \* codes of the bmcaValidationError signals emitted
  phase,                \* what initialize() does next
  answer                \* last look-up: what was asked, of whom, and the answer

bmcaVars == <<config, grandmaster, spanningTree, capacity, buffer, nodeRoleMap,
              errors, phase, answer>>

NoAnswer == [query |-> "NONE", module |-> NoModule]

Count(role) == Cardinality({i \in DOMAIN spanningTree : spanningTree[i].role = role})

BmcaInit ==
  /\ config \in Trees
  /\ grandmaster \in Grandmasters
  /\ spanningTree = <<>> /\ capacity = 0 /\ buffer = 0
  /\ nodeRoleMap = << >>
  /\ errors = {}
  /\ phase = IF config = <<>> THEN "validate" ELSE "load"
  /\ answer = NoAnswer

(* spanningTree.push_back(ste) *)
PushBack(ste) ==
  /\ spanningTree' = Append(spanningTree, ste)
  /\ \/ /\ Len(spanningTree) < capacity
        /\ UNCHANGED <<capacity, buffer>>
     \/ /\ Len(spanningTree) = capacity
        /\ capacity' = IF capacity = 0 THEN 1 ELSE 2 * capacity
        /\ buffer' = buffer + 1

LoadEntry ==
  /\ phase = "load"
  /\ PushBack(config[Len(spanningTree) + 1])
  /\ phase' = IF Len(spanningTree') = Len(config) THEN "map" ELSE "load"
  /\ UNCHANGED <<config, grandmaster, nodeRoleMap, errors, answer>>

(* Mutated: pointers to the copies of the loop, not to the entries. *)
BuildMapOfCopies ==
  /\ phase = "map"
  /\ nodeRoleMap' =
       [name \in {spanningTree[i].moduleName : i \in DOMAIN spanningTree} |->
          [buffer |-> buffer + 1, index |-> 1]]
  /\ phase' = IF TransparentClockEnabled THEN "bridge" ELSE "validate"
  /\ UNCHANGED <<config, grandmaster, spanningTree, capacity, buffer, errors, answer>>

(* A later entry of the same name replaces an earlier one. *)
BuildMap ==
  /\ phase = "map"
  /\ nodeRoleMap' =
       [name \in {spanningTree[i].moduleName : i \in DOMAIN spanningTree} |->
          [buffer |-> buffer,
           index |-> CHOOSE i \in DOMAIN spanningTree :
                       /\ spanningTree[i].moduleName = name
                       /\ \A j \in DOMAIN spanningTree :
                            spanningTree[j].moduleName = name => j <= i]]
  /\ phase' = IF TransparentClockEnabled THEN "bridge" ELSE "validate"
  /\ UNCHANGED <<config, grandmaster, spanningTree, capacity, buffer, errors, answer>>

(* Mutated: the pointer to the last element is taken before push_back. *)
AddBridgeBefore ==
  /\ phase = "bridge"
  /\ PushBack([moduleName |-> Bridge5gs, role |-> "TRANSPARENT"])
  /\ nodeRoleMap' =
       [name \in DOMAIN nodeRoleMap \cup {Bridge5gs} |->
          IF name = Bridge5gs THEN [buffer |-> buffer, index |-> Len(spanningTree)]
          ELSE nodeRoleMap[name]]
  /\ phase' = "validate"
  /\ UNCHANGED <<config, grandmaster, errors, answer>>

(* The 5GS bridge takes the place of a configured node of its name. *)
AddBridge ==
  /\ phase = "bridge"
  /\ PushBack([moduleName |-> Bridge5gs, role |-> "TRANSPARENT"])
  /\ nodeRoleMap' =
       [name \in DOMAIN nodeRoleMap \cup {Bridge5gs} |->
          IF name = Bridge5gs THEN [buffer |-> buffer', index |-> Len(spanningTree')]
          ELSE nodeRoleMap[name]]
  /\ phase' = "validate"
  /\ UNCHANGED <<config, grandmaster, errors, answer>>

(* Mutated: several masters are counted and not reported. *)
ValidateTopologyLax ==
  /\ phase = "validate"
  /\ errors' =
       {c \in 1 .. 6 :
          \/ c = 1 /\ grandmaster = NoModule
          \/ c = 2 /\ grandmaster \notin Modules \cup {NoModule}
          \/ c = 3 /\ Count("MASTER") = 0 /\ spanningTree # <<>>
          \/ c = 5 /\ Count("SLAVE") = 0 /\ spanningTree # <<>>
          \/ c = 6 /\ Count("TRANSPARENT") > 0 /\ ~CorrectionFieldSupport}
  /\ phase' = IF errors' = {} THEN "established" ELSE "failed"
  /\ UNCHANGED <<config, grandmaster, spanningTree, capacity, buffer, nodeRoleMap, answer>>

ValidateTopology ==
  /\ phase = "validate"
  /\ errors' =
       {c \in 1 .. 6 :
          \/ c = 1 /\ grandmaster = NoModule
          \/ c = 2 /\ grandmaster \notin Modules \cup {NoModule}
          \/ c = 3 /\ Count("MASTER") = 0 /\ spanningTree # <<>>
          \/ c = 4 /\ Count("MASTER") > 1
          \/ c = 5 /\ Count("SLAVE") = 0 /\ spanningTree # <<>>
          \/ c = 6 /\ Count("TRANSPARENT") > 0 /\ ~CorrectionFieldSupport}
  /\ phase' = IF errors' = {} THEN "established" ELSE "failed"
  /\ UNCHANGED <<config, grandmaster, spanningTree, capacity, buffer, nodeRoleMap, answer>>

Initialised == phase \in {"established", "failed"}

(* What a look-up may read through the pointer of a node: in a buffer that *)
(* was left, anything.                                                     *)
Read(name) ==
  IF nodeRoleMap[name].buffer # buffer THEN Roles
  ELSE {spanningTree[nodeRoleMap[name].index].role}

RolesOf(name) == IF name \in DOMAIN nodeRoleMap THEN Read(name) ELSE {"SLAVE"}

TransparencyOf(name) ==
  IF name \in DOMAIN nodeRoleMap THEN {role = "TRANSPARENT" : role \in Read(name)} ELSE {FALSE}

Answer(query, name, values) ==
  /\ Initialised
  /\ \E value \in values : answer' = [query |-> query, module |-> name, value |-> value]
  /\ UNCHANGED <<config, grandmaster, spanningTree, capacity, buffer, nodeRoleMap, errors, phase>>

(* The look-ups are answered whatever the validation said. *)
GetNodeRole(name) == Answer("getNodeRole", name, RolesOf(name))
IsTransparentClock(name) == Answer("isTransparentClock", name, TransparencyOf(name))

BmcaNext ==
  \/ LoadEntry \/ BuildMap \/ AddBridge \/ ValidateTopology
  \/ \E name \in Modules \cup {Bridge5gs} : GetNodeRole(name) \/ IsTransparentClock(name)

BmcaSpec == BmcaInit /\ [][BmcaNext]_bmcaVars

-----------------------------------------------------------------------------
Entries(tree) == {tree[i] : i \in DOMAIN tree}

(* In an established hierarchy a node is told the role that the            *)
(* configuration gives it, whatever the number of nodes.                   *)
RolesAsConfigured ==
  phase = "established" /\ answer.query = "getNodeRole" =>
    \A e \in Entries(config) :
      e.moduleName = answer.module /\ answer.module # Bridge5gs =>
        [moduleName |-> answer.module, role |-> answer.value] \in
          {[moduleName |-> f.moduleName, role |-> f.role] : f \in Entries(config)}

(* The 5G bridge is a transparent clock for whoever asks, although the     *)
(* vector may just have moved and whatever node the configuration gives    *)
(* that name.  Without a tree nothing is registered.                       *)
BridgeIsTransparent ==
  TransparentClockEnabled /\ config # <<>> /\ answer.module = Bridge5gs =>
    answer.value = (IF answer.query = "getNodeRole" THEN "TRANSPARENT" ELSE TRUE)

NamesDistinct ==
  /\ \A i, j \in DOMAIN config : config[i].moduleName = config[j].moduleName => i = j
  /\ \A e \in Entries(config) : e.moduleName # Bridge5gs

(* An established hierarchy that names each node once has one node that    *)
(* look-ups call MASTER, and one or more that they call SLAVE.             *)
OneMasterEstablished ==
  phase = "established" /\ config # <<>> /\ NamesDistinct =>
    /\ Cardinality({name \in DOMAIN nodeRoleMap : RolesOf(name) = {"MASTER"}}) = 1
    /\ \E name \in DOMAIN nodeRoleMap : RolesOf(name) = {"SLAVE"}
=============================================================================
