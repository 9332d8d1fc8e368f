----------------------------- MODULE FrerPacket -----------------------------
(***************************************************************************)
(* What the FRER modules of nascTime share: the parameters that must agree *)
(* between FrerReplicator and FrerRecovery, and the fields of a packet     *)
(* that either of them reads or writes.                                    *)
(*                                                                         *)
(* A packet is a record with at least                                      *)
(*   dscp            the DSCP of its IPv4 header                           *)
(*   identification  the Identification field of its IPv4 header           *)
(*   fragment        is it an IPv4 fragment (More Fragments, or offset>0)? *)
(*   rtag            the FrerSequenceHeader at its back, or NoTag          *)
(* The composed models add fields of their own to follow a datagram; no    *)
(* handler looks at those.                                                 *)
(***************************************************************************)
EXTENDS Integers

CONSTANTS
  SeqSpace,      \* size of a uint16_t in the code; any even number here
  Dscps,         \* the values of the DSCP field that occur
  FrerStreams,   \* frerStreamDscpSet: DSCPs of the primary streams
  ReplicaDscp    \* replicaDscp: DSCP that marks the replica member stream

(* A DSCP is a small natural number; the code orders and compares them. *)
ASSUME SeqSpaceAssumption == SeqSpace \in Nat \ {0} /\ SeqSpace % 2 = 0
ASSUME DscpAssumption ==
  Dscps \subseteq Nat /\ FrerStreams \subseteq Dscps /\ ReplicaDscp \in Dscps

Seqs == 0 .. SeqSpace - 1

HalfSpace == SeqSpace \div 2

(* No stream or sequence number is negative, so this is no R-TAG. *)
NoTag == [streamId |-> -1, sequenceNumber |-> -1]

(* FrerSequenceHeader: only the replicator makes one, from an eligible DSCP.*)
RTag == [streamId : FrerStreams, sequenceNumber : Seqs]

Packet == [dscp : Dscps, identification : Seqs, fragment : BOOLEAN,
           rtag : RTag \cup {NoTag}]
=============================================================================
