----------------------------- MODULE FrerUplink -----------------------------
(***************************************************************************)
(* The uplink with several endpoints: every DS-TT has a replication point  *)
(* of its own (dsTt[*].frerReplicatorUl), counting from 0, and all of them *)
(* feed the one elimination point of the NW-TT (nwTt.frerRecoveryUl),      *)
(* which keeps its windows by DSCP.                                        *)
(* Datagrams fit below the MTU.  The transport may lose and reorder copies;*)
(* it is left untimed.                                                     *)
(***************************************************************************)
EXTENDS FrerRecovery, Sequences

CONSTANTS
  UEs,     \* the endpoints
  MaxSent  \* bound: datagrams of one endpoint and DSCP in a behaviour

VARIABLES
  counters,  \* per endpoint: sequenceCounters of its replicator
  sent,      \* per endpoint: what its replicator sent last
  net,       \* copies in transit
  handedOn   \* history: datagrams handed on by the elimination point

uplinkVars == <<streams, timeoutMsg, out, counters, sent, net, handedOn>>

ReplicatorUl(u) == INSTANCE FrerReplicator
  WITH sequenceCounters <- counters[u], sent <- sent[u],
       EthernetFramed <- TRUE, PathDiverse <- FALSE

(* The n-th datagram of endpoint u with DSCP s, as forwardToUe hands it to *)
(* the replicator: out of the frame of the TSN side, in a new one.         *)
Datagram(u, s) ==
  [dscp |-> s, identification |-> 0, fragment |-> FALSE, rtag |-> NoTag,
   oversize |-> FALSE, framed |-> TRUE, interface |-> "",
   dgram |-> [ue |-> u, stream |-> s, n |-> counters[u][s]]]

UplinkInit ==
  /\ RecoveryInit
  /\ counters = [u \in UEs |-> [s \in FrerStreams |-> 0]]
  /\ sent = [u \in UEs |-> <<>>]
  /\ net = {}
  /\ handedOn = {}

UplinkSend(u, s) ==
  /\ counters[u][s] < MaxSent
  /\ LET p == Datagram(u, s)
         seq == counters[u][s]
         copies == <<ReplicatorUl(u)!Primary(p, seq), ReplicatorUl(u)!Replica(p, seq)>>
     IN  /\ sent' = [sent EXCEPT ![u] = copies]
         /\ net' = net \cup {copies[1], copies[2]}
         /\ counters' = [counters EXCEPT ![u][s] = ReplicatorUl(u)!NextSequenceNumber(@)]
  /\ out' = NoPacket
  /\ UNCHANGED <<streams, timeoutMsg, handedOn>>

UplinkDeliver(p) ==
  /\ HandlePacket(p)
  /\ net' = net \ {p}
  /\ handedOn' = IF out'.verdict = "ACCEPT" THEN handedOn \cup {p.dgram} ELSE handedOn
  /\ UNCHANGED <<counters, sent>>

UplinkLose(p) ==
  /\ net' = net \ {p}
  /\ out' = NoPacket
  /\ UNCHANGED <<streams, timeoutMsg, counters, sent, handedOn>>

UplinkTime ==
  /\ TimersRun \/ \E s \in StreamIds : HandleTimeout(s)
  /\ UNCHANGED <<counters, sent, net, handedOn>>

UplinkNext ==
  \/ \E u \in UEs, s \in FrerStreams : UplinkSend(u, s)
  \/ \E p \in net : UplinkDeliver(p) \/ UplinkLose(p)
  \/ UplinkTime

UplinkSpec == UplinkInit /\ [][UplinkNext]_uplinkVars

(* A copy is eliminated as DUPLICATE only if its datagram was handed on,   *)
(* in the uplink as in the downlink: replication and elimination are       *)
(* seamless for the datagrams of every endpoint.                           *)
UplinkSeamless ==
  [][out'.verdict = "DUPLICATE" => \A p \in net \ net' : p.dgram \in handedOn]_uplinkVars
=============================================================================
