----------------------------- MODULE TsnBridge -----------------------------
(***************************************************************************)
(* The 5G system as a TSN bridge, downlink: NW-TT translator, replication  *)
(* point, 5G transport, and at one endpoint Here the elimination point,    *)
(* DS-TT translator and the application function that listens to it.       *)
(*                                                                         *)
(* The DS-TTs of other endpoints share no state with Here; what is sent to *)
(* them only uses up sequence numbers, which all endpoints share.  A       *)
(* packet's residence time simTime() - ingressTime is kept as its age.     *)
(* The history variables, and the fields stream and n of a copy in transit,*)
(* follow the numbers of the replication point before they wrap; no guard  *)
(* reads them.                                                             *)
(***************************************************************************)
EXTENDS FrerReplicator, FrerRecovery, DsTtTranslator, TsnAf

CONSTANTS
  Here,            \* the TSN device observed
  TransportModes,  \* values of gptpTransportMode: "gtpu", "sideband"
  SidebandDelay,   \* sidebandDelay of GptpSideband
  DataPcps,        \* PCPs of data frames, NoVlan for untagged ones
  DataDscps,       \* DSCPs that the senders of data frames set
  OversizeTo,      \* devices that are sent data too large to be replicated
  MaxDelay,        \* longest stay of a packet in the 5G system
  MaxGptp,         \* bound: gPTP frames in a behaviour
  MaxData,         \* bound: data frames in a behaviour
  Pace             \* packets leaving the NW-TT translator per time unit

ASSUME BridgeAssumption ==
  /\ Here \in DOMAIN tsnToUeMap
  /\ TransportModes \subseteq {"gtpu", "sideband"}
  /\ {MaxDelay, MaxGptp, MaxData, Pace, SidebandDelay} \subseteq Nat

VARIABLES
  mode,       \* gptpTransportMode, chosen with the configuration
  entered,    \* frames that came in at the NW-TT so far
  budget,     \* packets the translator may still send in this time unit
  pending,    \* packets on their way from the translator to the replicator
  net,        \* copies for Here in the 5G system
  sideband,   \* frames held by GptpSideband
  delivered,  \* history: frames that left the DS-TT and their residence time
  numbered,   \* history: per stream, packets that were given a number
  newest      \* history: per stream, the number behind highestSeqSeen, or None

historyVars == <<numbered, newest>>

bridgeVars == <<sequenceCounters, sent, streams, timeoutMsg, out, tsnOut, afVars,
                mode, entered, budget, pending, net, sideband, delivered, historyVars>>

nwttVars == <<sequenceCounters, sent, entered, budget, pending, numbered>>

None == -1

FramesOf(kinds) == {f \in entered : f.kind \in kinds}

(* The last Sync sent before FollowUp f. *)
SyncOf(f) == CHOOSE s \in FramesOf({"SYNC"}) :
               s.n < f.n /\ \A t \in FramesOf({"SYNC"}) : t.n < f.n => t.n <= s.n

Gptp(kind) == [kind |-> kind, n |-> Cardinality(entered), correction |-> 0]

Data(pcp, dscp, d) ==
  [kind |-> "DATA", n |-> Cardinality(entered), pcp |-> pcp, origPcp |-> pcp,
   dscp |-> dscp, port |-> "app", dest |-> d]

(* The packet for the replicator: what FrerPacket needs is added. *)
AsPacket(p) ==
  [dscp |-> p.dscp, port |-> p.port, dest |-> p.dest, frame |-> p.frame,
   identification |-> 0, fragment |-> FALSE, rtag |-> NoTag,
   oversize |-> p.frame.kind = "DATA" /\ p.dest \in OversizeTo,
   framed |-> EthernetFramed, interface |-> DefaultInterface]

(* The copies of p that the replicator has sent, with its number. *)
CopiesOf(p) ==
  {[pkt |-> sent'[i], copy |-> i, age |-> 0, stream |-> p.dscp,
    n |-> IF IsFrerEligible(p) THEN numbered[p.dscp] ELSE None] : i \in DOMAIN sent'}

-----------------------------------------------------------------------------

BridgeInit ==
  /\ ReplicatorInit /\ RecoveryInit /\ AfInit
  /\ tsnOut = NoFrame
  /\ mode \in TransportModes
  /\ entered = {} /\ pending = <<>> /\ net = {} /\ sideband = {} /\ delivered = {}
  /\ budget = Pace
  /\ numbered = [s \in FrerStreams |-> 0]
  /\ newest = [s \in StreamIds |-> None]

(* Nothing takes time between translator, replicator and the lower layers: *)
(* the next frame is handled when what the last one caused has been sent.  *)
Enter(f) ==
  /\ pending = <<>>
  /\ Len(Translated(f)) <= budget
  /\ entered' = entered \cup {f}
  /\ out' = NoPacket /\ sent' = <<>> /\ tsnOut' = NoFrame
  /\ UNCHANGED <<sequenceCounters, streams, timeoutMsg, afVars, mode, net, delivered, historyVars>>

EnterGptu(kind) ==
  /\ Cardinality(FramesOf(GptpTypes)) < MaxGptp
  /\ mode = "gtpu"
  /\ Enter(Gptp(kind))
  /\ pending' = Translated(Gptp(kind))
  /\ budget' = budget - Len(pending')
  /\ UNCHANGED sideband

EnterSideband(kind) ==
  /\ Cardinality(FramesOf(GptpTypes)) < MaxGptp
  /\ mode = "sideband"
  /\ Enter(Gptp(kind))
  /\ sideband' = sideband \cup {[frame |-> Gptp(kind), wait |-> SidebandDelay]}
  /\ budget' = budget - 1
  /\ UNCHANGED pending

EnterData(pcp, dscp, d) ==
  /\ Cardinality(FramesOf({"DATA"})) < MaxData
  /\ Enter(Data(pcp, dscp, d))
  /\ pending' = Translated(Data(pcp, dscp, d))
  /\ budget' = budget - 1
  /\ UNCHANGED sideband

(* The replication point handles the next packet of the translator. *)
Copy ==
  /\ pending # <<>>
  /\ LET p == AsPacket(Head(pending))
     IN  /\ ReplicatorHandle(p)
         /\ net' = IF p.dest = Here THEN net \cup CopiesOf(p) ELSE net
         /\ numbered' = IF IsFrerEligible(p) /\ ~p.oversize
                        THEN [numbered EXCEPT ![p.dscp] = @ + 1] ELSE numbered
  /\ pending' = Tail(pending)
  /\ out' = NoPacket /\ tsnOut' = NoFrame
  /\ UNCHANGED <<streams, timeoutMsg, afVars, mode, entered, budget, sideband, delivered, newest>>

Lose(m) ==
  /\ m.age = 0
  /\ net' = net \ {m}
  /\ out' = NoPacket /\ tsnOut' = NoFrame /\ sent' = <<>>
  /\ UNCHANGED <<sequenceCounters, streams, timeoutMsg, afVars, mode, entered, budget,
                 pending, sideband, delivered, historyVars>>

(* Elimination point and translator, one behind the other. *)
Forward(m) ==
  /\ \/ /\ Accept(m.pkt)
        /\ newest' = [newest EXCEPT ![StreamOf(m.pkt)] =
                        IF Advances(streams[StreamOf(m.pkt)], SeqNum(m.pkt)) THEN m.n ELSE @]
     \/ PassThrough(m.pkt) /\ UNCHANGED newest
  /\ \/ ForwardGptp(out'.pkt, m.age) /\ ReceiveSignal(m.age)
     \/ ForwardData(out'.pkt) /\ UNCHANGED afVars
  /\ delivered' = delivered \cup {[frame |-> m.pkt.frame.n, residence |-> m.age]}
  /\ net' = net \ {m}
  /\ UNCHANGED <<nwttVars, mode, sideband>>

Eliminate(m) ==
  /\ Drop(m.pkt)
  /\ net' = net \ {m}
  /\ tsnOut' = NoFrame
  /\ UNCHANGED <<nwttVars, mode, sideband, afVars, delivered, newest>>

ForwardFromSideband(b) ==
  /\ b.wait = 0
  /\ ForwardSideband(b.frame)
  /\ sideband' = sideband \ {b}
  /\ out' = NoPacket
  /\ UNCHANGED <<nwttVars, mode, net, streams, timeoutMsg, afVars, delivered, newest>>

Forget(s) ==
  /\ HandleTimeout(s)
  /\ newest' = [newest EXCEPT ![s] = None]
  /\ tsnOut' = NoFrame
  /\ UNCHANGED <<nwttVars, mode, net, sideband, afVars, delivered>>

Tick ==
  /\ pending = <<>>
  /\ \A m \in net : m.age < MaxDelay
  /\ \A b \in sideband : b.wait > 0
  /\ TimersRun
  /\ net' = {[m EXCEPT !.age = @ + 1] : m \in net}
  /\ sideband' = {[b EXCEPT !.wait = @ - 1] : b \in sideband}
  /\ budget' = Pace
  /\ tsnOut' = NoFrame /\ sent' = <<>>
  /\ UNCHANGED <<sequenceCounters, mode, entered, pending, afVars, delivered, historyVars>>

BridgeNext ==
  \/ \E kind \in GptpTypes : EnterGptu(kind) \/ EnterSideband(kind)
  \/ \E pcp \in DataPcps, dscp \in DataDscps, d \in DOMAIN tsnToUeMap : EnterData(pcp, dscp, d)
  \/ Copy
  \/ \E m \in net : Lose(m) \/ Forward(m) \/ Eliminate(m)
  \/ \E b \in sideband : ForwardFromSideband(b)
  \/ \E s \in StreamIds : Forget(s)
  \/ Tick

BridgeSpec == BridgeInit /\ [][BridgeNext]_bridgeVars
-----------------------------------------------------------------------------
(* What a deployment has to see to: every PCP that occurs is mapped (see   *)
(* NwTtTranslator), and to a DSCP other than the one that marks replicas;  *)
(* no data goes to the UDP port of gPTP (see DsTtTranslator).              *)
BridgeDeployment ==
  /\ DataPcps \subseteq MappedPcps \cup {NoVlan}
  /\ MappedPcps \cup DataDscps \cup {GptpDscp} \subseteq Dscps
  /\ ReplicaDscp \notin MappedPcps
  /\ GptpPort # "app"
  /\ IsFiniteSet(DOMAIN tsnToUeMap)

(* What a deployment has to see to for the elimination point to be right:  *)
(* slots keep in step with numbers when these wrap; a copy is gone from    *)
(* the 5G system before an idle window is forgotten; neither half the      *)
(* sequence space nor, while a copy is on its way, a whole window is used  *)
(* up; nothing but a replica has the replica DSCP; nothing too large to be *)
(* replicated is sent to Here; a delay is a simulation time; stream        *)
(* reservations have ids of their own.                                     *)
BridgeTiming ==
  /\ SeqSpace % WindowSize = 0
  /\ MaxDelay < WindowTimeout
  /\ Pace * (MaxDelay + WindowTimeout + 1) <= HalfSpace
  /\ Pace * (MaxDelay + 1) <= WindowSize
  /\ ReplicaDscp \notin FrerStreams \cup DataDscps \cup {GptpDscp}
  /\ Here \notin OversizeTo
  /\ MaxDelay <= SimtimeMax
  /\ \A sr, tr \in StreamReservations : sr.streamId = tr.streamId => sr = tr

-----------------------------------------------------------------------------
(* Type invariant of the bridge: what is where, and that no counter or     *)
(* delay leaves its range.                                                 *)
BridgeTypeOK ==
  /\ RecoveryTypeOK
  /\ sequenceCounters \in [FrerStreams -> Seqs]
  /\ budget \in 0 .. Pace
  /\ \A m \in net : m.age \in 0 .. MaxDelay /\ m.pkt.dest = Here /\ m.pkt.dscp \in Dscps
  /\ \A b \in sideband : b.wait \in 0 .. SidebandDelay
  /\ delivered \subseteq [frame : {f.n : f \in entered}, residence : 0 .. MaxDelay]
  /\ delayMax \in 0 .. MaxDelay

(* The gPTP frames whose residence time the application function was told. *)
Measured == {x \in delivered : \E f \in FramesOf(GptpTypes) : f.n = x.frame}

(* The delays the application function publishes are those of the gPTP     *)
(* frames that left the bridge here, each counted once however many copies *)
(* FRER made of it, and of no data frame; a stream is reported as violated *)
(* only if the published maximum exceeds the latency it reserved.          *)
DelayFiguresExact ==
  /\ \A x, y \in delivered : x.frame = y.frame => x = y
  /\ delaySamples = Cardinality(Measured)
  /\ delaySamples > 0 =>
       /\ delayMin = Min({x.residence : x \in Measured})
       /\ delayMax = Max({x.residence : x \in Measured})
       /\ bridgeDelayAvg \in delayMin .. delayMax
  /\ \A sr \in StreamReservations :
       sr.streamId \in qosViolations => sr.maxLatencyMs > 0 /\ delayMax * MsPerUnit > sr.maxLatencyMs

(* Every endpoint sees only some of the numbers of a stream, the others    *)
(* went to other endpoints, and data frames of the same DSCP are numbered  *)
(* with the gPTP frames.  Still the copy that is eliminated here is always *)
(* one of a frame that has left the bridge.                                *)
NoFreshFrameDropped ==
  [][out'.verdict \in {"DUPLICATE", "WINDOW_OVERRUN"} =>
       \A m \in net \ net' : \E x \in delivered : x.frame = m.pkt.frame.n]_bridgeVars

(* The PCP a data frame came with is the DSCP it leaves with: it survives  *)
(* the mapping, the marking of the replica and the restoring of its DSCP.  *)
PriorityInDscp ==
  tsnOut.kind = "DATA" /\ tsnOut.origPcp # NoVlan => tsnOut.dscp = tsnOut.origPcp

(* A FollowUp tells the receiver how long its Sync was in the bridge.      *)
FollowUpCarriesSyncResidence ==
  mode = "gtpu" /\ tsnOut.kind = "FOLLOW_UP" =>
    \A x \in delivered :
      (\E s \in FramesOf({"SYNC"}) : s.n < tsnOut.n /\ x.frame = SyncOf(tsnOut).n)
        => tsnOut.correction = x.residence
=============================================================================
