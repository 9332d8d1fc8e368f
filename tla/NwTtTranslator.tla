--------------------------- MODULE NwTtTranslator ---------------------------
(***************************************************************************)
(* NwTtTranslator: the network-side port of the bridge.  An Ethernet frame *)
(* from the TSN side becomes one IPv4 packet (data) or one per registered  *)
(* endpoint (gPTP, in "gtpu" mode).  The handler keeps no state between    *)
(* frames but the map built when the network is initialised.               *)
(*                                                                         *)
(* A frame is a record with at least                                       *)
(*   kind   "DATA" or the type of a gPTP message                           *)
(*   pcp    PCP of its 802.1Q tag, or NoVlan                               *)
(*   dscp   DSCP of the IPv4 header inside (of a data frame)               *)
(* Out of scope: a tagged frame whose PCP is not mapped.  It keeps its tag *)
(* and is sent as IPv4 all the same; what the IPv4 modules behind then do  *)
(* is decided by INET.                                                     *)
(***************************************************************************)
EXTENDS Integers, SequencesExt

CONSTANTS
  TsnDevices,  \* addresses listed in tsnDeviceBAddresses
  UeOf,        \* the UE listed with each of them
  NrUes,       \* UEs for which the binder knows an NR node id
  MappedPcps,  \* mappedPcpSet
  GptpPort     \* gptpEncapUdpPort

ASSUME TranslatorAssumption == TsnDevices \subseteq DOMAIN UeOf /\ MappedPcps \subseteq Nat

NoVlan == -1
GptpDscp == 5
GptpTypes == {"SYNC", "FOLLOW_UP", "PDELAY"}

(* Only devices behind a UE that is known to the 5G core are registered.   *)
(* Without a list, tsnDeviceBAddress alone is, behind ue[0].               *)
tsnToUeMap == [d \in {x \in TsnDevices : UeOf[x] \in NrUes} |-> UeOf[d]]

IsGptp(f) == f.kind \in GptpTypes

(* L2-in-GTP-U: the whole frame behind IPv4, UDP and residence header. *)
Wrapped(f, d) == [dscp |-> GptpDscp, port |-> GptpPort, dest |-> d, frame |-> f]

(* One packet per registered endpoint, in the order of the map. *)
WrappedForAll(f) ==
  LET devices == SetToSeq(DOMAIN tsnToUeMap)
  IN  [i \in DOMAIN devices |-> Wrapped(f, devices[i])]

(* Mutated: the tag is stripped before its PCP is read. *)
QosMappedNot(f) == IF f.pcp \in MappedPcps THEN [f EXCEPT !.pcp = NoVlan] ELSE f

(* Mutated: the PCP goes into the three upper bits of the DSCP. *)
QosMappedShifted(f) ==
  IF f.pcp \in MappedPcps THEN [f EXCEPT !.pcp = NoVlan, !.dscp = 8 * f.pcp] ELSE f

(* The 802.1Q tag of a mapped PCP is stripped; the DSCP takes its place. *)
QosMapped(f) ==
  IF f.pcp \in MappedPcps THEN [f EXCEPT !.pcp = NoVlan, !.dscp = f.pcp] ELSE f

(* What is left of a data frame: its IPv4 datagram. *)
Unframed(f) ==
  [dscp |-> QosMapped(f).dscp, port |-> f.port, dest |-> f.dest, frame |-> QosMapped(f)]

(* handleEthernetFrame, behind the sideband branch. *)
Translated(f) == IF IsGptp(f) THEN WrappedForAll(f) ELSE <<Unframed(f)>>
=============================================================================
