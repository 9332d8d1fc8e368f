-------------------------- MODULE StaticBmcaProofs --------------------------
(***************************************************************************)
(* What the clock hierarchy answers, for trees of any length and shape.    *)
(*                                                                         *)
(* The bridge is told to be transparent whatever the configuration.  The   *)
(* roles of the other nodes are read through pointers that adding the      *)
(* bridge may leave behind: the theorems about them assume that it does    *)
(* not (TreesStayInPlace), which the run bmca_roles shows to be needed.    *)
(***************************************************************************)
EXTENDS StaticBmca, TLAPS, FiniteSetTheorems, WellFoundedInduction

(* The capacities a vector goes through: 1, 2, 4, 8, ... *)
Capacities ==
  {c \in Nat : \A D \in SUBSET Nat : (1 \in D /\ \A d \in D : 2 * d \in D) => c \in D}

(* No tree fills its vector, so that adding the bridge does not move it. *)
TreesStayInPlace == TransparentClockEnabled => \A tree \in Trees : Len(tree) \notin Capacities

Entry == [moduleName : STRING, role : Roles]

BridgeEntry == [moduleName |-> Bridge5gs, role |-> "TRANSPARENT"]

WithBridge == TransparentClockEnabled /\ config # <<>>

(* initialize() has read the tree, built the map, added the bridge. *)
Registered == phase \in {"validate", "established", "failed"}

BridgeAdded == Registered /\ WithBridge

(* The tree is that of the configuration, as far as it has been read. *)
TreeInv ==
  /\ config \in Trees /\ buffer \in Nat
  /\ phase \in {"load", "map", "bridge", "validate", "established", "failed"}
  /\ phase \in {"load", "map", "bridge"} => config # <<>>
  /\ phase = "bridge" => TransparentClockEnabled
  /\ phase = "load" =>
       /\ spanningTree \in Seq(Entry)
       /\ Len(spanningTree) < Len(config)
       /\ \A i \in 1 .. Len(spanningTree) : spanningTree[i] = config[i]
  /\ phase \in {"map", "bridge"} => spanningTree = config
  /\ Registered => spanningTree = IF WithBridge THEN Append(config, BridgeEntry) ELSE config

(* The bridge has a pointer to the last entry, and answers come from it. *)
BridgeEntryInv ==
  /\ BridgeAdded =>
       /\ Bridge5gs \in DOMAIN nodeRoleMap
       /\ nodeRoleMap[Bridge5gs] = [buffer |-> buffer, index |-> Len(spanningTree)]
  /\ BridgeIsTransparent

(* The pointer of a node leads to an entry of its name. *)
Leads(name) ==
  /\ nodeRoleMap[name].buffer = buffer
  /\ nodeRoleMap[name].index \in DOMAIN config
  /\ config[nodeRoleMap[name].index].moduleName = name

NamesOf(tree) == {tree[i].moduleName : i \in DOMAIN tree}

(* Where the tree stays in place, every other pointer leads to its node,   *)
(* and every answer is one of the roles the configuration gives it.        *)
PointerInv ==
  /\ capacity \in Capacities \cup {0}
  /\ config # <<>> /\ (phase = "bridge" \/ Registered) =>
       /\ DOMAIN nodeRoleMap = NamesOf(config) \cup (IF BridgeAdded THEN {Bridge5gs} ELSE {})
       /\ \A name \in NamesOf(config) : (BridgeAdded /\ name = Bridge5gs) \/ Leads(name)
  /\ ~Initialised => answer = NoAnswer
  /\ RolesAsConfigured
  /\ phase = "established" /\ config # <<>> => Count("MASTER") = 1 /\ Count("SLAVE") # 0

BmcaInv == TreeInv /\ BridgeEntryInv

-----------------------------------------------------------------------------
LEMMA CapacitiesDouble ==
  /\ 1 \in Capacities
  /\ \A c \in Capacities : c \in Nat /\ 2 * c \in Capacities
<1>1. 1 \in Capacities
  BY DEF Capacities
<1>2. ASSUME NEW c \in Capacities PROVE c \in Nat /\ 2 * c \in Capacities
  <2>1. c \in Nat /\ 2 * c \in Nat
    BY DEF Capacities
  <2>2. ASSUME NEW D \in SUBSET Nat, 1 \in D, \A d \in D : 2 * d \in D
        PROVE  2 * c \in D
    <3>1. c \in D
      BY <2>2 DEF Capacities
    <3> QED BY <2>2, <3>1
  <2> QED BY <2>1, <2>2 DEF Capacities
<1> QED BY <1>1, <1>2

LEMMA ConfigType ==
  ASSUME TreeInv
  PROVE  /\ config \in Seq(Entry) /\ Len(config) \in Nat /\ DOMAIN config = 1 .. Len(config)
         /\ config # <<>> => Len(config) > 0
<1>1. config \in Seq(Entry)
  BY BmcaAssumption DEF TreeInv, Entry
<1>2. Len(config) \in Nat /\ DOMAIN config = 1 .. Len(config)
  BY <1>1
<1>3. config # <<>> => Len(config) > 0
  BY <1>1
<1> QED BY <1>1, <1>2, <1>3

(* A set of integers that is not empty and bounded has a greatest element. *)
LEMMA BoundedHasMax ==
  ASSUME NEW S \in SUBSET Int, S # {}, NEW b \in Int, \A i \in S : i <= b
  PROVE  \E i \in S : \A j \in S : j <= i
<1> DEFINE D == {b - i : i \in S}
<1>1. D \in SUBSET Nat /\ D # {}
  <2>1. \A i \in S : b - i \in Nat
    OBVIOUS
  <2>2. PICK i \in S : TRUE
    OBVIOUS
  <2>3. b - i \in D
    BY <2>2
  <2> QED BY <2>1, <2>3
<1>2. PICK d \in D : \A e \in D : d <= e
  <2> HIDE DEF D
  <2>1. PICK d \in D : \A e \in D : ~(<<e, d>> \in OpToRel(<, Nat))
    BY <1>1, NatLessThanWellFounded, WFMin
  <2>2. \A e \in D : ~(e < d)
    BY <1>1, <2>1 DEF OpToRel
  <2> QED BY <1>1, <2>2
<1>3. PICK i \in S : d = b - i
  BY <1>2
<1>4. \A j \in S : j <= i
  BY <1>2, <1>3
<1> QED BY <1>4

(* The entries that are in the vector stay where they are in it. *)
LEMMA PushBackFields ==
  ASSUME NEW ste, PushBack(ste), buffer \in Nat
  PROVE  spanningTree' = Append(spanningTree, ste) /\ buffer' \in Nat
BY DEF PushBack

LEMMA BmcaInitInv ==
  ASSUME BmcaInit
  PROVE  BmcaInv
<1>1. config # <<>> => Len(config) > 0
  BY BmcaAssumption DEF BmcaInit
<1>2. TreeInv
  BY <1>1 DEF BmcaInit, TreeInv, Registered, WithBridge
<1>3. BridgeEntryInv
  BY DEF BmcaInit, BridgeEntryInv, BridgeIsTransparent, BridgeAdded, Registered, WithBridge, NoAnswer,
         NoModule, Bridge5gs
<1> QED BY <1>2, <1>3 DEF BmcaInv

LEMMA LoadEntryStep ==
  ASSUME BmcaInv, LoadEntry
  PROVE  BmcaInv'
<1> DEFINE n == Len(spanningTree)
<1>1. /\ phase = "load" /\ spanningTree \in Seq(Entry) /\ n \in Nat /\ n < Len(config)
      /\ \A i \in 1 .. n : spanningTree[i] = config[i]
      /\ config # <<>> /\ config \in Trees
  BY DEF BmcaInv, TreeInv, LoadEntry
<1>2. config \in Seq(Entry) /\ Len(config) \in Nat /\ config[n + 1] \in Entry
  BY <1>1, ConfigType DEF BmcaInv
<1>3. spanningTree' = Append(spanningTree, config[n + 1]) /\ buffer' \in Nat
  BY PushBackFields DEF LoadEntry, BmcaInv, TreeInv
<1>4. /\ spanningTree' \in Seq(Entry) /\ Len(spanningTree') = n + 1
      /\ \A i \in 1 .. n + 1 : spanningTree'[i] = config[i]
  BY <1>1, <1>2, <1>3
<1>5. /\ phase' = IF n + 1 = Len(config) THEN "map" ELSE "load"
      /\ UNCHANGED <<config, answer>>
  BY <1>4 DEF LoadEntry
<1>6. n + 1 = Len(config) => spanningTree' = config
  BY <1>2, <1>4
<1> HIDE DEF n
<1>7. TreeInv'
  BY <1>1, <1>2, <1>3, <1>4, <1>5, <1>6 DEF TreeInv, Registered
<1>8. BridgeEntryInv'
  BY <1>5 DEF BmcaInv, BridgeEntryInv, BridgeIsTransparent, BridgeAdded, Registered
<1> QED BY <1>7, <1>8 DEF BmcaInv

LEMMA BuildMapStep ==
  ASSUME BmcaInv, BuildMap
  PROVE  BmcaInv'
<1>1. /\ phase = "map" /\ phase' = IF TransparentClockEnabled THEN "bridge" ELSE "validate"
      /\ UNCHANGED <<config, spanningTree, buffer, answer>>
  BY DEF BuildMap
<1>2. TreeInv'
  BY <1>1 DEF BmcaInv, TreeInv, Registered, WithBridge
<1>3. BridgeEntryInv'
  BY <1>1 DEF BmcaInv, BridgeEntryInv, BridgeIsTransparent, BridgeAdded, Registered, WithBridge
<1> QED BY <1>2, <1>3 DEF BmcaInv

LEMMA AddBridgeStep ==
  ASSUME BmcaInv, AddBridge
  PROVE  BmcaInv'
<1>1. /\ phase = "bridge" /\ phase' = "validate" /\ UNCHANGED <<config, answer>>
      /\ spanningTree = config /\ config # <<>> /\ TransparentClockEnabled
  BY DEF AddBridge, BmcaInv, TreeInv
<1>2. spanningTree' = Append(config, BridgeEntry) /\ buffer' \in Nat
  BY <1>1, PushBackFields DEF AddBridge, BmcaInv, TreeInv, BridgeEntry
<1>3. /\ Bridge5gs \in DOMAIN nodeRoleMap'
      /\ nodeRoleMap'[Bridge5gs] = [buffer |-> buffer', index |-> Len(spanningTree')]
  BY DEF AddBridge
<1>4. TreeInv'
  BY <1>1, <1>2 DEF BmcaInv, TreeInv, Registered, WithBridge
<1>5. BridgeEntryInv'
  BY <1>1, <1>3 DEF BmcaInv, BridgeEntryInv, BridgeIsTransparent, BridgeAdded, Registered, WithBridge
<1> QED BY <1>4, <1>5 DEF BmcaInv

LEMMA ValidateStep ==
  ASSUME BmcaInv, ValidateTopology
  PROVE  BmcaInv'
<1>1. /\ phase = "validate" /\ phase' \in {"established", "failed"}
      /\ UNCHANGED <<config, spanningTree, buffer, nodeRoleMap, answer>>
  BY DEF ValidateTopology
<1>2. TreeInv'
  BY <1>1 DEF BmcaInv, TreeInv, Registered, WithBridge
<1>3. BridgeEntryInv'
  BY <1>1 DEF BmcaInv, BridgeEntryInv, BridgeIsTransparent, BridgeAdded, Registered, WithBridge
<1> QED BY <1>2, <1>3 DEF BmcaInv

(* What is read through the pointer of the bridge is the entry behind the  *)
(* configured ones.                                                        *)
LEMMA RolesOfBridge ==
  ASSUME BmcaInv, Initialised, WithBridge
  PROVE  RolesOf(Bridge5gs) = {"TRANSPARENT"} /\ TransparencyOf(Bridge5gs) = {TRUE}
<1>1. BridgeAdded
  BY DEF Initialised, BridgeAdded, Registered
<1>2. spanningTree = Append(config, BridgeEntry)
  BY <1>1 DEF BmcaInv, TreeInv, BridgeAdded
<1>3. spanningTree[Len(spanningTree)].role = "TRANSPARENT"
  BY <1>2, ConfigType DEF BmcaInv, BridgeEntry
<1>4. Read(Bridge5gs) = {"TRANSPARENT"}
  BY <1>1, <1>3 DEF BmcaInv, BridgeEntryInv, Read
<1> QED BY <1>1, <1>4 DEF BmcaInv, BridgeEntryInv, RolesOf, TransparencyOf

LEMMA AnswerStep ==
  ASSUME BmcaInv, NEW name, GetNodeRole(name) \/ IsTransparentClock(name)
  PROVE  BmcaInv'
<1>1. Initialised
      /\ UNCHANGED <<config, spanningTree, buffer, nodeRoleMap, phase>>
  BY DEF GetNodeRole, IsTransparentClock, Answer
<1>2. TreeInv'
  BY <1>1 DEF BmcaInv, TreeInv, Registered, WithBridge
<1>3. BridgeIsTransparent'
  <2> SUFFICES ASSUME WithBridge, answer'.module = Bridge5gs
               PROVE  answer'.value = (IF answer'.query = "getNodeRole" THEN "TRANSPARENT" ELSE TRUE)
    BY <1>1 DEF BridgeIsTransparent, WithBridge
  <2>1. RolesOf(Bridge5gs) = {"TRANSPARENT"} /\ TransparencyOf(Bridge5gs) = {TRUE}
    BY <1>1, RolesOfBridge
  <2>2. CASE GetNodeRole(name)
    <3>1. PICK value \in RolesOf(name) :
            answer' = [query |-> "getNodeRole", module |-> name, value |-> value]
      BY <2>2 DEF GetNodeRole, Answer
    <3> QED BY <2>1, <3>1
  <2>3. CASE IsTransparentClock(name)
    <3>1. PICK value \in TransparencyOf(name) :
            answer' = [query |-> "isTransparentClock", module |-> name, value |-> value]
      BY <2>3 DEF IsTransparentClock, Answer
    <3> QED BY <2>1, <3>1
  <2> QED BY <2>2, <2>3
<1> QED BY <1>1, <1>2, <1>3 DEF BmcaInv, BridgeEntryInv, BridgeAdded, Registered, WithBridge

LEMMA BmcaStep ==
  ASSUME BmcaInv, [BmcaNext]_bmcaVars
  PROVE  BmcaInv'
<1>1. CASE UNCHANGED bmcaVars
  BY <1>1 DEF bmcaVars, BmcaInv, TreeInv, BridgeEntryInv, BridgeIsTransparent, BridgeAdded,
              Registered, WithBridge
<1> QED BY <1>1, LoadEntryStep, BuildMapStep, AddBridgeStep, ValidateStep, AnswerStep DEF BmcaNext

-----------------------------------------------------------------------------
(* The pointers, where the tree stays in place. *)
LEMMA NamesOfConfig ==
  ASSUME BmcaInv
  PROVE  {e.moduleName : e \in Entries(config)} = NamesOf(config)
BY DEF Entries, NamesOf

LEMMA PointersInit ==
  ASSUME BmcaInit
  PROVE  PointerInv
BY DEF BmcaInit, PointerInv, Registered, Initialised, RolesAsConfigured, NoAnswer

(* Doubling leads from one capacity to the next. *)
LEMMA PushBackCapacity ==
  ASSUME NEW ste, PushBack(ste), capacity \in Capacities \cup {0}
  PROVE  capacity' \in Capacities \cup {0}
BY CapacitiesDouble DEF PushBack

LEMMA LoadEntryPointers ==
  ASSUME BmcaInv, PointerInv, LoadEntry
  PROVE  PointerInv'
<1>1. /\ phase = "load" /\ phase' \in {"map", "load"} /\ UNCHANGED answer
  BY DEF LoadEntry
<1>2. capacity' \in Capacities \cup {0}
  BY PushBackCapacity DEF PointerInv, LoadEntry
<1> QED BY <1>1, <1>2 DEF PointerInv, Registered, Initialised, RolesAsConfigured

LEMMA BuildMapPointers ==
  ASSUME BmcaInv, PointerInv, BuildMap
  PROVE  PointerInv'
<1> DEFINE Of(name) == {i \in DOMAIN config : config[i].moduleName = name}
           Last(name) == CHOOSE i \in DOMAIN config :
                           /\ config[i].moduleName = name
                           /\ \A j \in DOMAIN config : config[j].moduleName = name => j <= i
<1>1. /\ phase = "map" /\ phase' = (IF TransparentClockEnabled THEN "bridge" ELSE "validate")
      /\ spanningTree = config /\ config # <<>>
      /\ UNCHANGED <<config, spanningTree, capacity, buffer, answer>>
  BY DEF BuildMap, BmcaInv, TreeInv
<1>2. nodeRoleMap' = [name \in NamesOf(config) |-> [buffer |-> buffer, index |-> Last(name)]]
  BY <1>1 DEF BuildMap, NamesOf
<1>3. ASSUME NEW name \in NamesOf(config)
      PROVE  Last(name) \in DOMAIN config /\ config[Last(name)].moduleName = name
  <2>1. DOMAIN config = 1 .. Len(config) /\ Len(config) \in Nat
    BY ConfigType DEF BmcaInv
  <2>2. Of(name) \in SUBSET Int /\ Of(name) # {} /\ \A i \in Of(name) : i <= Len(config)
    BY <1>3, <2>1 DEF NamesOf
  <2>3. \E i \in Of(name) : \A j \in Of(name) : j <= i
    <3> DEFINE S == Of(name)
    <3> HIDE DEF S
    <3>1. S \in SUBSET Int /\ S # {} /\ \A i \in S : i <= Len(config)
      BY <2>2 DEF S
    <3>2. Len(config) \in Int
      BY <2>1
    <3>3. \E i \in S : \A j \in S : j <= i
      BY <3>1, <3>2, BoundedHasMax
    <3> QED BY <3>3 DEF S
  <2>4. \E i \in DOMAIN config :
          /\ config[i].moduleName = name
          /\ \A j \in DOMAIN config : config[j].moduleName = name => j <= i
    BY <2>3
  <2> QED BY <2>4
<1> HIDE DEF Last, Of
<1>4. DOMAIN nodeRoleMap' = NamesOf(config) /\ \A name \in NamesOf(config) : Leads(name)'
  BY <1>1, <1>2, <1>3 DEF Leads
<1>5. (DOMAIN nodeRoleMap = NamesOf(config) \cup (IF BridgeAdded THEN {Bridge5gs} ELSE {}))'
  <2>1. ~BridgeAdded'
    BY <1>1 DEF BridgeAdded, WithBridge, Registered
  <2>2. NamesOf(config)' = NamesOf(config)
    BY <1>1 DEF NamesOf
  <2> QED BY <1>4, <2>1, <2>2
<1>6. (\A name \in NamesOf(config) : (BridgeAdded /\ name = Bridge5gs) \/ Leads(name))'
  BY <1>1, <1>4 DEF NamesOf
<1> QED BY <1>1, <1>5, <1>6 DEF PointerInv, Initialised, RolesAsConfigured

(* There is room for the bridge, so the pointers into the buffer remain.   *)
LEMMA AddBridgePointers ==
  ASSUME TreesStayInPlace, BmcaInv, PointerInv, AddBridge
  PROVE  PointerInv'
<1>1. /\ phase = "bridge" /\ phase' = "validate" /\ UNCHANGED <<config, answer>>
      /\ spanningTree = config /\ config # <<>> /\ TransparentClockEnabled /\ config \in Trees
  BY DEF AddBridge, BmcaInv, TreeInv
<1>2. Len(config) \in Nat /\ Len(config) > 0 /\ DOMAIN config = 1 .. Len(config)
  BY <1>1, ConfigType DEF BmcaInv
<1>3. Len(spanningTree) # capacity
  BY <1>1, <1>2 DEF TreesStayInPlace, PointerInv
<1>4. UNCHANGED <<capacity, buffer>>
  BY <1>3 DEF AddBridge, PushBack
<1>5. /\ DOMAIN nodeRoleMap' = DOMAIN nodeRoleMap \cup {Bridge5gs}
      /\ \A name \in DOMAIN nodeRoleMap :
           name # Bridge5gs => nodeRoleMap'[name] = nodeRoleMap[name]
  BY DEF AddBridge
<1>6. ~BridgeAdded /\ BridgeAdded'
  BY <1>1 DEF BridgeAdded, Registered, WithBridge
<1>7. DOMAIN nodeRoleMap = NamesOf(config) /\ \A name \in NamesOf(config) : Leads(name)
  BY <1>1, <1>6 DEF PointerInv
<1>8. ASSUME NEW name \in NamesOf(config), name # Bridge5gs PROVE Leads(name)'
  BY <1>1, <1>4, <1>5, <1>7, <1>8 DEF Leads
<1>9. NamesOf(config)' = NamesOf(config)
  BY <1>1 DEF NamesOf
<1> QED BY <1>1, <1>4, <1>5, <1>6, <1>7, <1>8, <1>9 DEF PointerInv, Initialised, RolesAsConfigured

LEMMA CountType ==
  ASSUME BmcaInv, Registered, NEW role
  PROVE  /\ IsFiniteSet({i \in DOMAIN spanningTree : spanningTree[i].role = role})
         /\ Count(role) \in Nat
         /\ DOMAIN spanningTree = 1 .. Len(spanningTree) /\ Len(spanningTree) \in Nat
<1>1. config \in Seq(Entry)
  BY ConfigType DEF BmcaInv
<1>2. spanningTree \in Seq(Entry \cup {BridgeEntry})
  <2>1. ASSUME NEW e PROVE config \in Seq(Entry \cup {e}) /\ Append(config, e) \in Seq(Entry \cup {e})
    BY <1>1
  <2> QED BY <2>1 DEF BmcaInv, TreeInv
<1>3. DOMAIN spanningTree = 1 .. Len(spanningTree) /\ Len(spanningTree) \in Nat
  BY <1>2
<1>4. IsFiniteSet(DOMAIN spanningTree)
  BY <1>3, FS_Interval
<1>5. IsFiniteSet({i \in DOMAIN spanningTree : spanningTree[i].role = role})
  BY <1>4, FS_Subset
<1> QED BY <1>3, <1>5, FS_CardinalityType DEF Count

LEMMA TreeNotEmpty ==
  ASSUME BmcaInv, Registered, config # <<>>
  PROVE  spanningTree # <<>>
<1>1. config \in Seq(Entry)
  BY ConfigType DEF BmcaInv
<1>2. Append(config, BridgeEntry) # <<>>
  <2>1. Len(Append(config, BridgeEntry)) = Len(config) + 1 /\ Len(config) \in Nat
    BY <1>1
  <2>2. Len(<<>>) = 0
    OBVIOUS
  <2> HIDE DEF BridgeEntry
  <2> QED BY <2>1, <2>2
<1> QED BY <1>2 DEF BmcaInv, TreeInv

LEMMA ValidatePointers ==
  ASSUME BmcaInv, PointerInv, ValidateTopology
  PROVE  PointerInv'
<1>1. /\ phase = "validate" /\ phase' = (IF errors' = {} THEN "established" ELSE "failed")
      /\ UNCHANGED <<config, spanningTree, capacity, buffer, nodeRoleMap, answer>>
  BY DEF ValidateTopology
<1>2. ASSUME phase' = "established", config # <<>>
      PROVE  Count("MASTER") = 1 /\ Count("SLAVE") # 0
  <2>1. spanningTree # <<>>
    <3>1. Registered
      BY <1>1 DEF Registered
    <3> QED BY <1>2, <3>1, TreeNotEmpty
  <2>2. 3 \notin errors' /\ 4 \notin errors' /\ 5 \notin errors'
    BY <1>1, <1>2
  <2>3. Count("MASTER") # 0 /\ ~(Count("MASTER") > 1) /\ Count("SLAVE") # 0
    BY <2>1, <2>2 DEF ValidateTopology
  <2>4. Count("MASTER") \in Nat
    BY <1>1, CountType DEF Registered
  <2> QED BY <2>3, <2>4
<1>3. Count("MASTER")' = Count("MASTER") /\ Count("SLAVE")' = Count("SLAVE")
  BY <1>1 DEF Count
<1>4. (config # <<>> /\ (phase = "bridge" \/ Registered) =>
       /\ DOMAIN nodeRoleMap = NamesOf(config) \cup (IF BridgeAdded THEN {Bridge5gs} ELSE {})
       /\ \A name \in NamesOf(config) : (BridgeAdded /\ name = Bridge5gs) \/ Leads(name))'
  BY <1>1 DEF PointerInv, Registered, BridgeAdded, WithBridge, NamesOf, Leads
<1>5. (capacity \in Capacities \cup {0})' /\ (~Initialised => answer = NoAnswer)'
  BY <1>1 DEF PointerInv, Initialised
<1>6. RolesAsConfigured'
  <2>1. answer = NoAnswer
    BY <1>1 DEF PointerInv, Initialised
  <2> QED BY <1>1, <2>1 DEF RolesAsConfigured, NoAnswer
<1> QED BY <1>1, <1>2, <1>3, <1>4, <1>5, <1>6 DEF PointerInv

(* A node is told the role of an entry of its name. *)
LEMMA RolesOfNode ==
  ASSUME BmcaInv, PointerInv, Initialised,
         NEW name \in NamesOf(config), name # Bridge5gs
  PROVE  \E i \in DOMAIN config :
           config[i].moduleName = name /\ RolesOf(name) = {config[i].role}
<1> DEFINE i == nodeRoleMap[name].index
<1>1. Registered /\ config # <<>>
  BY DEF Initialised, Registered, NamesOf
<1>2. /\ name \in DOMAIN nodeRoleMap
      /\ nodeRoleMap[name].buffer = buffer
      /\ i \in DOMAIN config /\ config[i].moduleName = name
  BY <1>1 DEF PointerInv, Leads
<1>3. spanningTree[i] = config[i]
  <2>1. config \in Seq(Entry) /\ i \in 1 .. Len(config)
    BY <1>2, ConfigType DEF BmcaInv
  <2>2. Append(config, BridgeEntry)[i] = config[i]
    BY <2>1
  <2> QED BY <1>1, <2>2 DEF BmcaInv, TreeInv
<1>4. RolesOf(name) = {config[i].role}
  BY <1>2, <1>3 DEF RolesOf, Read
<1> QED BY <1>2, <1>4

LEMMA AnswerPointers ==
  ASSUME BmcaInv, PointerInv, NEW name, GetNodeRole(name) \/ IsTransparentClock(name)
  PROVE  PointerInv'
<1>1. Initialised
      /\ UNCHANGED <<config, spanningTree, capacity, buffer, nodeRoleMap, phase>>
  BY DEF GetNodeRole, IsTransparentClock, Answer
<1>2. RolesAsConfigured'
  <2>1. CASE GetNodeRole(name)
    <3>1. PICK value \in RolesOf(name) :
            answer' = [query |-> "getNodeRole", module |-> name, value |-> value]
      BY <2>1 DEF GetNodeRole, Answer
    <3>2. ASSUME NEW e \in Entries(config), e.moduleName = name, name # Bridge5gs
          PROVE  \E f \in Entries(config) : f.moduleName = name /\ f.role = value
      <4>1. name \in NamesOf(config)
        BY <3>2 DEF Entries, NamesOf
      <4>2. PICK i \in DOMAIN config :
              config[i].moduleName = name /\ RolesOf(name) = {config[i].role}
        BY <1>1, <3>2, <4>1, RolesOfNode
      <4> QED BY <3>1, <4>2 DEF Entries
    <3>3. answer'.module = name /\ answer'.value = value
      BY <3>1
    <3>4. Entries(config)' = Entries(config)
      BY <1>1 DEF Entries
    <3> QED BY <3>2, <3>3, <3>4 DEF RolesAsConfigured
  <2>2. CASE IsTransparentClock(name)
    <3>1. answer'.query = "isTransparentClock"
      BY <2>2 DEF IsTransparentClock, Answer
    <3> QED BY <3>1 DEF RolesAsConfigured
  <2> QED BY <2>1, <2>2
<1>3. Count("MASTER")' = Count("MASTER") /\ Count("SLAVE")' = Count("SLAVE")
  BY <1>1 DEF Count
<1>4. (config # <<>> /\ (phase = "bridge" \/ Registered) =>
       /\ DOMAIN nodeRoleMap = NamesOf(config) \cup (IF BridgeAdded THEN {Bridge5gs} ELSE {})
       /\ \A n \in NamesOf(config) : (BridgeAdded /\ n = Bridge5gs) \/ Leads(n))'
  BY <1>1 DEF PointerInv, Registered, BridgeAdded, WithBridge, NamesOf, Leads
<1> QED BY <1>1, <1>2, <1>3, <1>4 DEF PointerInv, Initialised

LEMMA PointersStep ==
  ASSUME TreesStayInPlace, BmcaInv, PointerInv, [BmcaNext]_bmcaVars
  PROVE  PointerInv'
<1>1. CASE UNCHANGED bmcaVars
  <2>1. (config # <<>> /\ (phase = "bridge" \/ Registered) =>
         /\ DOMAIN nodeRoleMap = NamesOf(config) \cup (IF BridgeAdded THEN {Bridge5gs} ELSE {})
         /\ \A n \in NamesOf(config) : (BridgeAdded /\ n = Bridge5gs) \/ Leads(n))'
    BY <1>1 DEF bmcaVars, PointerInv, Registered, BridgeAdded, WithBridge, NamesOf, Leads
  <2>2. RolesAsConfigured' /\ Count("MASTER")' = Count("MASTER") /\ Count("SLAVE")' = Count("SLAVE")
    BY <1>1 DEF bmcaVars, PointerInv, RolesAsConfigured, Entries, Count
  <2> QED BY <1>1, <2>1, <2>2 DEF bmcaVars, PointerInv, Initialised
<1> QED BY <1>1, LoadEntryPointers, BuildMapPointers, AddBridgePointers, ValidatePointers,
           AnswerPointers DEF BmcaNext

(* Validation has counted one master, and names tell the entries apart. *)
LEMMA OneMaster ==
  ASSUME BmcaInv, PointerInv
  PROVE  OneMasterEstablished
<1> SUFFICES ASSUME phase = "established", config # <<>>, NamesDistinct
             PROVE  /\ Cardinality({n \in DOMAIN nodeRoleMap : RolesOf(n) = {"MASTER"}}) = 1
                    /\ \E n \in DOMAIN nodeRoleMap : RolesOf(n) = {"SLAVE"}
  BY DEF OneMasterEstablished
<1> DEFINE I(role) == {i \in DOMAIN spanningTree : spanningTree[i].role = role}
           M == {n \in DOMAIN nodeRoleMap : RolesOf(n) = {"MASTER"}}
<1>1. Registered /\ Initialised
  BY DEF Registered, Initialised
<1>2. config \in Seq(Entry) /\ DOMAIN config = 1 .. Len(config) /\ Len(config) \in Nat
  BY ConfigType DEF BmcaInv
<1>3. DOMAIN nodeRoleMap = NamesOf(config) \cup (IF BridgeAdded THEN {Bridge5gs} ELSE {})
  BY <1>1 DEF PointerInv
<1>4. spanningTree = IF WithBridge THEN Append(config, BridgeEntry) ELSE config
  BY <1>1 DEF BmcaInv, TreeInv
<1>5. ASSUME NEW role \in {"MASTER", "SLAVE"}
      PROVE  I(role) = {i \in DOMAIN config : config[i].role = role}
  <2>1. CASE WithBridge
    <3>1. /\ DOMAIN spanningTree = 1 .. Len(config) + 1
          /\ \A i \in DOMAIN config : spanningTree[i] = config[i]
          /\ spanningTree[Len(config) + 1] = BridgeEntry
      BY <1>2, <1>4, <2>1
    <3>2. BridgeEntry.role # role
      BY DEF BridgeEntry
    <3> QED BY <1>2, <3>1, <3>2
  <2>2. CASE ~WithBridge
    BY <1>4, <2>2
  <2> QED BY <2>1, <2>2
<1>6. \A i \in DOMAIN config : config[i].moduleName # Bridge5gs
  BY DEF NamesDistinct, Entries
<1>7. ASSUME NEW i \in DOMAIN config
      PROVE  /\ config[i].moduleName \in DOMAIN nodeRoleMap
             /\ RolesOf(config[i].moduleName) = {config[i].role}
  <2>1. config[i].moduleName \in NamesOf(config)
    BY DEF NamesOf
  <2>2. PICK j \in DOMAIN config : /\ config[j].moduleName = config[i].moduleName
                                   /\ RolesOf(config[i].moduleName) = {config[j].role}
    BY <1>1, <1>6, <2>1, RolesOfNode
  <2>3. j = i
    BY <2>2 DEF NamesDistinct
  <2> QED BY <1>3, <2>1, <2>2, <2>3
<1>8. Count("MASTER") = 1 /\ Count("SLAVE") # 0
  BY DEF PointerInv
<1>9. PICK i : I("MASTER") = {i}
  <2>1. IsFiniteSet(I("MASTER")) /\ Cardinality(I("MASTER")) = 1
    BY <1>1, <1>8, CountType DEF Count
  <2> HIDE DEF I
  <2> QED BY <2>1, FS_Singleton
<1>10. i \in DOMAIN config /\ \A j \in DOMAIN config : config[j].role = "MASTER" <=> j = i
  BY <1>5, <1>9
<1>11. M = {config[i].moduleName}
  <2>1. config[i].moduleName \in M
    BY <1>7, <1>10
  <2>2. ASSUME NEW n \in M PROVE n = config[i].moduleName
    <3>1. CASE n \in NamesOf(config)
      <4>1. PICK j \in DOMAIN config : n = config[j].moduleName
        BY <3>1 DEF NamesOf
      <4>2. {config[j].role} = {"MASTER"}
        BY <1>7, <4>1
      <4> QED BY <1>10, <4>1, <4>2
    <3>2. CASE n \notin NamesOf(config)
      <4>1. n = Bridge5gs /\ WithBridge
        BY <1>3, <3>2 DEF BridgeAdded
      <4>2. RolesOf(n) = {"TRANSPARENT"}
        BY <1>1, <4>1, RolesOfBridge
      <4> QED BY <4>2
    <3> QED BY <3>1, <3>2
  <2> QED BY <2>1, <2>2
<1>12. Cardinality(M) = 1
  BY <1>11, FS_Singleton
<1>13. \E n \in DOMAIN nodeRoleMap : RolesOf(n) = {"SLAVE"}
  <2>1. I("SLAVE") # {}
    BY <1>8, FS_EmptySet DEF Count
  <2>2. PICK j \in DOMAIN config : config[j].role = "SLAVE"
    BY <1>5, <2>1
  <2> QED BY <1>7, <2>2
<1> QED BY <1>12, <1>13

-----------------------------------------------------------------------------
(* Whoever asks for the 5G bridge is told that it is transparent, whatever *)
(* tree was configured, also where the vector moved when it was added.     *)
THEOREM BridgeToldTransparent == BmcaSpec => []BridgeIsTransparent
<1>1. BmcaInit => BmcaInv
  BY BmcaInitInv
<1>2. BmcaInv /\ [BmcaNext]_bmcaVars => BmcaInv'
  BY BmcaStep
<1>3. BmcaInv => BridgeIsTransparent
  BY DEF BmcaInv, BridgeEntryInv
<1> QED BY <1>1, <1>2, <1>3, PTL DEF BmcaSpec

LEMMA PointersInvariant == TreesStayInPlace /\ BmcaSpec => [](BmcaInv /\ PointerInv)
<1>1. TreesStayInPlace /\ BmcaInit => TreesStayInPlace /\ BmcaInv /\ PointerInv
  BY BmcaInitInv, PointersInit
<1>2. (TreesStayInPlace /\ BmcaInv /\ PointerInv) /\ [BmcaNext]_bmcaVars
        => (TreesStayInPlace /\ BmcaInv /\ PointerInv)'
  <2> SUFFICES ASSUME TreesStayInPlace, BmcaInv, PointerInv, [BmcaNext]_bmcaVars
               PROVE  TreesStayInPlace' /\ BmcaInv' /\ PointerInv'
    OBVIOUS
  <2>1. BmcaInv' /\ PointerInv'
    BY BmcaStep, PointersStep
  <2>2. TreesStayInPlace'
    BY DEF TreesStayInPlace
  <2> QED BY <2>1, <2>2
<1> QED BY <1>1, <1>2, PTL DEF BmcaSpec

(* Where no tree fills the vector it is kept in, every node is told a role *)
(* that the configuration gives it, however many nodes there are.          *)
THEOREM RolesTold == TreesStayInPlace /\ BmcaSpec => []RolesAsConfigured
<1>1. BmcaInv /\ PointerInv => RolesAsConfigured
  BY DEF PointerInv
<1> QED BY <1>1, PointersInvariant, PTL

(* And what validateTopology counted is what look-ups tell: one node is    *)
(* the master, some node a slave.                                          *)
THEOREM MasterTold == TreesStayInPlace /\ BmcaSpec => []OneMasterEstablished
<1>1. BmcaInv /\ PointerInv => OneMasterEstablished
  BY OneMaster
<1> QED BY <1>1, PointersInvariant, PTL
=============================================================================
