----------------------------- MODULE CncConfig -----------------------------
(***************************************************************************)
(* TsnAf before the simulation runs: the PCP-to-QFI table is built in the  *)
(* local stage, the CNC file is read in the application-layer stage, and   *)
(* both are looked up by other modules from then on.  Reservations and     *)
(* gate control lists are logged and not applied to any other module.      *)
(*                                                                         *)
(* Reading the table in front of its first element may give any QFI.       *)
(***************************************************************************)
EXTENDS Integers, Sequences, Functions

CONSTANTS
  Maps,      \* values of pcpToQfiMap: sequences of QFIs
  Streams,   \* values of <streams>: sequences of [id, pcp, maxLatencyMs]
  GateLists, \* values of <gateControlList>: [cycleTime, entries], or NoGates
  PcpCount,  \* entries the table has at least (8)
  AnyQfi     \* what memory in front of the table may hold

NoGates == [cycleTime |-> "", entries |-> <<>>]

ASSUME CncAssumption ==
  /\ PcpCount \in Nat /\ AnyQfi \subseteq Int
  /\ Maps \subseteq Seq(Int)
  /\ Streams \subseteq Seq([id : Int, pcp : Int, maxLatencyMs : Int])

VARIABLES
  given,               \* the configuration, chosen once
  stage,               \* initialisation stages that have run
  pcpToQfi,            \* std::vector<int>, from 0
  streamReservations,  \* std::vector<StreamReservation>
  gateControlList, gateCycleTime

cncVars == <<given, stage, pcpToQfi, streamReservations, gateControlList, gateCycleTime>>

CncInit ==
  /\ given \in [map : Maps, streams : Streams, gates : GateLists]
  /\ stage = "none"
  /\ pcpToQfi = << >>
  /\ streamReservations = <<>>
  /\ gateControlList = <<>> /\ gateCycleTime = "0s"

(* Mutated: what is not given is best effort. *)
PaddedFlat(map) ==
  [pcp \in 0 .. (IF Len(map) > PcpCount THEN Len(map) ELSE PcpCount) - 1 |->
     IF pcp < Len(map) THEN map[pcp + 1] ELSE 0]

(* A table that is too short is continued with PCP = QFI. *)
Padded(map) ==
  [pcp \in 0 .. (IF Len(map) > PcpCount THEN Len(map) ELSE PcpCount) - 1 |->
     IF pcp < Len(map) THEN map[pcp + 1] ELSE pcp]

InitLocal ==
  /\ stage = "none"
  /\ pcpToQfi' = Padded(given.map)
  /\ stage' = "local"
  /\ UNCHANGED <<given, streamReservations, gateControlList, gateCycleTime>>

(* The table is checked at its end only. *)
QfisReserved(pcp) ==
  CASE pcp \in DOMAIN pcpToQfi -> {pcpToQfi[pcp]}
    [] pcp < 0                 -> AnyQfi
    [] OTHER                   -> {pcp}

Reserved(streams, qfis) ==
  [i \in DOMAIN streams |->
     [streamId |-> streams[i].id, pcp |-> streams[i].pcp, qfi |-> qfis[i],
      maxLatencyMs |-> streams[i].maxLatencyMs]]

(* The bit mask of the gates is cut to a uint8_t. *)
GateEntries(entries) == [i \in DOMAIN entries |-> [entries[i] EXCEPT !.gates = @ % 256]]

LoadCncConfig ==
  /\ stage = "local"
  /\ \E qfis \in [DOMAIN given.streams -> UNION {QfisReserved(given.streams[i].pcp) :
                                                   i \in DOMAIN given.streams}] :
       /\ \A i \in DOMAIN qfis : qfis[i] \in QfisReserved(given.streams[i].pcp)
       /\ streamReservations' = Reserved(given.streams, qfis)
  /\ gateControlList' = GateEntries(given.gates.entries)
  /\ gateCycleTime' = CASE given.gates = NoGates             -> gateCycleTime
                        [] given.gates # NoGates /\ given.gates.cycleTime = "" -> "1ms"
                        [] OTHER                             -> given.gates.cycleTime
  /\ stage' = "application"
  /\ UNCHANGED <<given, pcpToQfi>>

CncNext == InitLocal \/ LoadCncConfig

CncSpec == CncInit /\ [][CncNext]_cncVars

(* The look-ups for other modules. *)
GetQfiForPcp(pcp) == IF pcp \in DOMAIN pcpToQfi THEN pcpToQfi[pcp] ELSE pcp

PcpsOf(qfi) == {pcp \in DOMAIN pcpToQfi : pcpToQfi[pcp] = qfi}

(* The first PCP that has the QFI. *)
GetPcpForQfi(qfi) ==
  IF PcpsOf(qfi) = {} THEN qfi
  ELSE CHOOSE pcp \in PcpsOf(qfi) : \A other \in PcpsOf(qfi) : pcp <= other

-----------------------------------------------------------------------------
(* The configured table gives each of its PCPs a QFI of its own, and none  *)
(* that is left to a PCP behind it.                                        *)
MapUnambiguous ==
  /\ IsInjective(given.map)
  /\ Range(given.map) \cap (Len(given.map) .. PcpCount - 1) = {}

(* The QFI that a reservation is configured with is the one that the table *)
(* gives its PCP, and translates back to that PCP: the flow that is        *)
(* reserved is the one that carries the priority, with tables that are     *)
(* too short or too long as well.                                          *)
ReservationsTranslate ==
  \A i \in DOMAIN streamReservations :
    LET r == streamReservations[i]
    IN  r.pcp >= 0 =>
          /\ r.qfi = GetQfiForPcp(r.pcp)
          /\ MapUnambiguous /\ r.pcp < PcpCount => GetPcpForQfi(r.qfi) = r.pcp
=============================================================================
