--------------------------- MODULE FrerReplicator ---------------------------
(***************************************************************************)
(* FrerReplicator: the replication point of a FRER compound stream (in the *)
(* NW-TT for the downlink, in the DS-TT for the uplink).  Every packet is  *)
(* handled at once; what the handler sends is the sequence sent.           *)
(*                                                                         *)
(* Beside the fields of FrerPacket a packet has                            *)
(*   oversize   does it exceed the MTU once 4 bytes of R-TAG are added?    *)
(*   framed     does it carry Ethernet framing around the IPv4 header?     *)
(*   interface  its InterfaceReq tag: DefaultInterface or the second leg   *)
(***************************************************************************)
EXTENDS FrerPacket

CONSTANTS
  EthernetFramed,  \* ethernetFramed: TRUE in a DS-TT, FALSE in the NW-TT
  PathDiverse      \* transportBinding # "drb"

ASSUME ReplicatorAssumption == EthernetFramed \in BOOLEAN /\ PathDiverse \in BOOLEAN

VARIABLES
  sequenceCounters,  \* std::map<int, uint16_t>: next number of each stream
  sent               \* packets sent by the last step, in order

replicatorVars == <<sequenceCounters, sent>>

DefaultInterface == "ppp"
ReplicaInterface == "pppIf2"

-----------------------------------------------------------------------------

IsFrerEligible(p) == p.dscp \in FrerStreams

(* Mutated: the counter starts again one number early. *)
NextSequenceNumberShort(n) == (n + 1) % (SeqSpace - 1)

(* nextSequenceNumber: uint16_t, so it wraps. *)
NextSequenceNumber(n) == (n + 1) % SeqSpace

(* Mutated: the number goes into the R-TAG only. *)
PrimaryTagOnly(p, seq) ==
  [p EXCEPT !.rtag = [streamId |-> p.dscp, sequenceNumber |-> seq]]

(* Both encodings of the sequence number: R-TAG and IPv4 Identification. *)
Primary(p, seq) ==
  [p EXCEPT !.rtag = [streamId |-> p.dscp, sequenceNumber |-> seq],
            !.identification = seq]

(* Mutated: both copies keep the primary DSCP. *)
PrepareMemberStreamsNot(replica) ==
  [replica EXCEPT !.interface = IF PathDiverse THEN ReplicaInterface ELSE @]

(* prepareMemberStreams of the configured transport binding. *)
PrepareMemberStreams(replica) ==
  [replica EXCEPT !.dscp = ReplicaDscp,
                  !.interface = IF PathDiverse THEN ReplicaInterface ELSE @]

Replica(p, seq) == PrepareMemberStreams(Primary(p, seq))

-----------------------------------------------------------------------------

ReplicatorInit ==
  /\ sequenceCounters = [s \in FrerStreams |-> 0]
  /\ sent = <<>>

PassIneligible(p) ==
  /\ ~IsFrerEligible(p)
  /\ sent' = <<p>>
  /\ UNCHANGED sequenceCounters

(* The MTU guard.  The framing was popped before it and is put back only  *)
(* after it.                                                              *)
PassOversize(p) ==
  /\ IsFrerEligible(p)
  /\ p.oversize
  /\ sent' = <<[p EXCEPT !.framed = FALSE]>>
  /\ UNCHANGED sequenceCounters

Replicate(p) ==
  /\ IsFrerEligible(p)
  /\ ~p.oversize
  /\ LET seq == sequenceCounters[p.dscp]
     IN  /\ sent' = <<Primary(p, seq), Replica(p, seq)>>
         /\ sequenceCounters' = [sequenceCounters EXCEPT ![p.dscp] = NextSequenceNumber(@)]

ReplicatorHandle(p) == PassIneligible(p) \/ PassOversize(p) \/ Replicate(p)
=============================================================================
