----------------------------- MODULE FrerChain -----------------------------
(***************************************************************************)
(* A replication point, the two member streams through the 5G system, and  *)
(* the elimination point at the other edge: FrerReplicator and             *)
(* FrerRecovery composed with the transport between them, in one direction *)
(* and for one pair of edges.                                              *)
(*                                                                         *)
(* The transport (external: INET, Simu5G) may lose, delay and reorder      *)
(* copies, cut a copy into two IPv4 fragments and trim the R-TAG, which    *)
(* lies behind the length the IPv4 header states.  It does not repeat a    *)
(* copy and keeps none for more than MaxDelay time units; a stream sends   *)
(* at most Pace datagrams in a time unit.                                  *)
(*                                                                         *)
(* Datagrams carry their absolute number in a field no handler reads.      *)
(***************************************************************************)
EXTENDS FrerReplicator, FrerRecovery, Sequences

CONSTANTS
  AppDscps,     \* DSCPs of the packets that reach the replication point
  AppOversize,  \* which of TRUE and FALSE their field oversize takes
  AppIds,       \* IPv4 Identifications their senders gave them
  FragmentMay,  \* may the transport fragment a copy?
  TrimMay,      \* may the transport trim the R-TAG?
  MaxDelay,     \* longest stay of a copy in the transport
  Pace,         \* datagrams of one DSCP per time unit
  MaxSent       \* bound: datagrams of one DSCP in a behaviour

ASSUME ChainAssumption ==
  /\ AppDscps \subseteq Dscps
  /\ AppOversize \subseteq BOOLEAN /\ AppIds \subseteq Seqs
  /\ {FragmentMay, TrimMay} \subseteq BOOLEAN
  /\ MaxDelay \in Nat /\ Pace \in Nat \ {0} /\ MaxSent \in Nat

VARIABLES
  net,        \* copies in transit
  produced,   \* per DSCP: datagrams produced so far
  budget,     \* per DSCP: datagrams it may still produce in this time unit
  forwarded,  \* history: which copy handed on a datagram still in transit
  newest      \* history: datagram number behind highestSeqSeen, or None

chainVars == <<sequenceCounters, sent, streams, timeoutMsg, out,
               net, produced, budget, forwarded, newest>>

historyVars == <<forwarded, newest>>

None == -1

Datagrams == [stream : AppDscps, n : 0 .. MaxSent - 1]

Messages ==
  [pkt : [dscp : Dscps, identification : Seqs, fragment : BOOLEAN,
          rtag : RTag \cup {NoTag}, oversize : BOOLEAN, framed : BOOLEAN,
          interface : {DefaultInterface, ReplicaInterface}, dgram : Datagrams],
   copy : 1 .. 2,
   part : 0 .. 2,
   age : 0 .. MaxDelay]

(* The packet of datagram d, as the application hands it in. *)
AppPacket(d, oversize, id) ==
  [dscp |-> d.stream, identification |-> id, fragment |-> FALSE, rtag |-> NoTag,
   oversize |-> oversize, framed |-> EthernetFramed,
   interface |-> DefaultInterface, dgram |-> d]

(* A copy in transit, whole (part 0) or one of two fragments; copy says     *)
(* which of the packets sent for its datagram it is.  Whether it is cut or  *)
(* trimmed is settled while its age is 0: neither edge can tell when in its *)
(* time in transit that happens.                                            *)
Message(p, i) == [pkt |-> p, copy |-> i, part |-> 0, age |-> 0]

InTransit == {m.pkt.dgram : m \in net}

Known == {f \in forwarded : f.dgram \in InTransit}

-----------------------------------------------------------------------------

ChainInit ==
  /\ ReplicatorInit
  /\ RecoveryInit
  /\ net = {}
  /\ produced = [s \in AppDscps |-> 0]
  /\ budget = [s \in AppDscps |-> Pace]
  /\ forwarded = {}
  /\ newest = [s \in StreamIds |-> None]

Send(s, oversize, id) ==
  /\ budget[s] > 0
  /\ produced[s] < MaxSent
  /\ ReplicatorHandle(AppPacket([stream |-> s, n |-> produced[s]], oversize, id))
  /\ net' = net \cup {Message(sent'[i], i) : i \in DOMAIN sent'}
  /\ produced' = [produced EXCEPT ![s] = @ + 1]
  /\ budget' = [budget EXCEPT ![s] = @ - 1]
  /\ out' = NoPacket
  /\ UNCHANGED <<streams, timeoutMsg, historyVars>>

Quiet == sent' = <<>> /\ UNCHANGED <<sequenceCounters, produced>>

Lose(m) ==
  /\ net' = net \ {m}
  /\ out' = NoPacket
  /\ Quiet
  /\ UNCHANGED <<streams, timeoutMsg, budget, historyVars>>

(* The R-TAG, at the back, stays with the last fragment. *)
Fragment(m) ==
  /\ FragmentMay
  /\ m.age = 0 /\ m.part = 0
  /\ net' = (net \ {m}) \cup
              {[m EXCEPT !.part = 1, !.pkt = [@ EXCEPT !.fragment = TRUE, !.rtag = NoTag]],
               [m EXCEPT !.part = 2, !.pkt = [@ EXCEPT !.fragment = TRUE]]}
  /\ out' = NoPacket
  /\ Quiet
  /\ UNCHANGED <<streams, timeoutMsg, budget, historyVars>>

Trim(m) ==
  /\ TrimMay
  /\ m.age = 0
  /\ m.pkt.rtag # NoTag
  /\ net' = (net \ {m}) \cup {[m EXCEPT !.pkt = [@ EXCEPT !.rtag = NoTag]]}
  /\ out' = NoPacket
  /\ Quiet
  /\ UNCHANGED <<streams, timeoutMsg, budget, historyVars>>

(* The copy arrives and is handed on, from its member stream. *)
DeliverAccepted(m) ==
  /\ Accept(m.pkt)
  /\ net' = net \ {m}
  /\ forwarded' = Known \cup {[dgram |-> m.pkt.dgram, copy |-> m.copy]}
  /\ newest' = [newest EXCEPT ![StreamOf(m.pkt)] =
                  IF Advances(streams[StreamOf(m.pkt)], SeqNum(m.pkt))
                  THEN m.pkt.dgram.n ELSE @]
  /\ Quiet
  /\ UNCHANGED budget

DeliverOther(m) ==
  /\ Drop(m.pkt) \/ PassThrough(m.pkt)
  /\ net' = net \ {m}
  /\ Quiet
  /\ UNCHANGED <<budget, historyVars>>

Expire(s) ==
  /\ HandleTimeout(s)
  /\ newest' = [newest EXCEPT ![s] = None]
  /\ Quiet
  /\ UNCHANGED <<net, budget, forwarded>>

(* One unit of time, once everything due in this one has happened. *)
Tick ==
  /\ TimersRun
  /\ \A m \in net : m.age < MaxDelay
  /\ net' = {[m EXCEPT !.age = @ + 1] : m \in net}
  /\ budget' = [s \in AppDscps |-> Pace]
  /\ Quiet
  /\ UNCHANGED historyVars

ChainNext ==
  \/ \E s \in AppDscps, oversize \in AppOversize, id \in AppIds : Send(s, oversize, id)
  \/ \E m \in net : Lose(m) \/ Fragment(m) \/ Trim(m)
  \/ \E m \in net : DeliverAccepted(m) \/ DeliverOther(m)
  \/ \E s \in StreamIds : Expire(s)
  \/ Tick

ChainSpec == ChainInit /\ [][ChainNext]_chainVars

-----------------------------------------------------------------------------
(* Assumptions on a deployment under which the properties below hold.      *)

(* Slots stay in step with sequence numbers when these wrap. *)
WindowDivides == SeqSpace % WindowSize = 0

(* A copy is gone from the transport before an idle window is forgotten. *)
DelayBelowTimeout == MaxDelay < WindowTimeout

(* No stream uses up half the sequence space while its window can be active *)
(* without hearing of it.                                                   *)
PacedBelowHalf == Pace * (MaxDelay + WindowTimeout + 1) <= HalfSpace

(* The stream of a copy without an R-TAG is found only if it is the only one. *)
FallbackIsSafe == FragmentMay \/ TrimMay => \A s \in FrerStreams : s = Min(FrerStreams)

(* Applications use neither the replica DSCP nor oversize packets. *)
TrafficFits == ReplicaDscp \notin AppDscps \cup FrerStreams /\ TRUE \notin AppOversize

Deployment == /\ WindowDivides /\ DelayBelowTimeout /\ PacedBelowHalf
              /\ FallbackIsSafe /\ TrafficFits

-----------------------------------------------------------------------------
(* Type invariant of the composition. *)
ChainTypeOK ==
  /\ RecoveryTypeOK
  /\ sequenceCounters \in [FrerStreams -> Seqs]
  /\ net \subseteq Messages
  /\ produced \in [AppDscps -> 0 .. MaxSent]
  /\ budget \in [AppDscps -> 0 .. Pace]
  /\ forwarded \subseteq [dgram : Datagrams, copy : 1 .. 2]
  /\ newest \in [StreamIds -> Nat \cup {None}]

(* The streams that are replicated and that an application sends on. *)
Carried == FrerStreams \cap AppDscps

(* The counter of a stream has counted its datagrams, modulo its width. *)
CountersInStep ==
  \A s \in Carried : sequenceCounters[s] = produced[s] % SeqSpace

(* The DSCP of each of the two copies of a datagram of stream s. *)
MemberDscp(s, copy) == IF copy = 1 THEN s ELSE ReplicaDscp

(* What a copy in transit still says about its datagram. *)
Carries(m) ==
  LET d == m.pkt.dgram
      q == d.n % SeqSpace
  IN  IF d.stream \in FrerStreams
      THEN /\ m.pkt.dscp = MemberDscp(d.stream, m.copy)
           /\ m.pkt.identification = q
           /\ m.pkt.rtag \in {NoTag, [streamId |-> d.stream, sequenceNumber |-> q]}
           /\ RTagFound(m.pkt) \/ FragmentMay \/ TrimMay
      ELSE m.pkt.dscp = d.stream

(* Every copy in transit names its datagram, and is not much older than    *)
(* the newest one its stream has produced.                                 *)
CopiesInStep ==
  \A m \in net :
    LET d == m.pkt.dgram
    IN  /\ Carries(m)
        /\ d.n < produced[d.stream]
        /\ produced[d.stream] - 1 - d.n + budget[d.stream] < Pace * (m.age + 1)

(* The window of an active stream stands at a datagram of that stream, and *)
(* cannot have fallen far behind the newest one produced.                  *)
WindowInStep ==
  \A s \in StreamIds :
    IF streams[s].active
    THEN /\ s \in Carried
         /\ newest[s] \in 0 .. produced[s] - 1
         /\ streams[s].highestSeqSeen = newest[s] % SeqSpace
         /\ produced[s] - 1 - newest[s] + budget[s]
              < Pace * (MaxDelay + 1 + WindowTimeout - timeoutMsg[s])
    ELSE newest[s] = None

(* While a copy of a datagram that was handed on is still in transit, the  *)
(* window has not moved back behind it and will not be reset before the    *)
(* copy has arrived.                                                       *)
ForwardedAreGuarded ==
  \A f \in forwarded, m \in net :
    LET s == f.dgram.stream
    IN  m.pkt.dgram = f.dgram =>
          /\ streams[s].active
          /\ f.dgram.n <= newest[s]
          /\ MaxDelay - m.age < timeoutMsg[s]

(* For a datagram in the window with a copy still in transit, its slot     *)
(* tells who handed it on, if anyone did: no slot is shared with another   *)
(* datagram, forgotten too early or left over from an older one.           *)
SlotsTellForwarded ==
  \A m \in net :
    LET d == m.pkt.dgram
        s == d.stream
    IN  s \in FrerStreams /\ streams[s].active /\ d.n \in newest[s] - WindowSize + 1 .. newest[s]
          => /\ streams[s].accepted[Slot(d.n)] \in {NotSeen, s, ReplicaDscp}
             /\ \A c \in 1 .. 2 :
                  streams[s].accepted[Slot(d.n)] = MemberDscp(s, c)
                    <=> [dgram |-> d, copy |-> c] \in forwarded

(* All the frames handed on for a datagram come from one of its copies:    *)
(* no datagram is delivered twice, whatever is lost, reordered, fragmented *)
(* or trimmed on the way, and across wraps and resets of the window.       *)
OneMemberStream ==
  \A f, g \in forwarded : f.dgram = g.dgram => f.copy = g.copy

(* Nothing is handed on that was not sent. *)
ForwardedWereProduced ==
  \A f \in forwarded : f.dgram.n < produced[f.dgram.stream]

(* The inductive invariant of the composition. *)
ChainInv ==
  /\ ChainTypeOK /\ ActiveIffArmed /\ NewestSlotTaken
  /\ CountersInStep /\ CopiesInStep /\ WindowInStep /\ ForwardedWereProduced
  /\ ForwardedAreGuarded /\ SlotsTellForwarded /\ OneMemberStream

(* A copy is dropped as DUPLICATE only if its datagram was handed on from  *)
(* the other member stream.                                                *)
DuplicatesWereForwarded ==
  [][out'.verdict = "DUPLICATE" =>
       \A m \in net \ net' :
         \E f \in forwarded : f.dgram = m.pkt.dgram /\ f.copy # m.copy]_chainVars

(* A copy is dropped as WINDOW_OVERRUN only if it is at least a window     *)
(* behind the newest datagram of its own stream.                           *)
OverrunsAreLate ==
  [][out'.verdict = "WINDOW_OVERRUN" =>
       \A m \in net \ net' :
         m.pkt.dgram.n + WindowSize <= newest[m.pkt.dgram.stream]]_chainVars

(* Whatever is handed on has the DSCP its datagram had before replication. *)
OriginalDscp ==
  out.verdict \in {"ACCEPT", "PASSED"} => out.pkt.dscp = out.pkt.dgram.stream

(* The elimination point keeps the abstract promise of FrerElimination. *)
Elimination == INSTANCE FrerElimination
  WITH Streams <- StreamIds,
       Copies <- 1 .. 2,
       Window <- WindowSize,
       open <- InTransit,
       verdict <- IF out.verdict = "PASSED" THEN "NONE" ELSE out.verdict

KeepsPromise == Elimination!ElimSpec
=============================================================================
