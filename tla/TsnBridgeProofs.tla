-------------------------- MODULE TsnBridgeProofs --------------------------
(***************************************************************************)
(* Types and priorities in the downlink bridge, for any set of endpoints,  *)
(* mapped PCPs and bounds.                                                 *)
(*                                                                         *)
(* The priority of a tagged frame changes its place on the way: PCP, DSCP, *)
(* and, in a replica, the stream id of the R-TAG.  The invariant says for  *)
(* each packet between the two translators where it is.                    *)
(***************************************************************************)
EXTENDS TsnBridge, FrerRecoveryProofs, FiniteSetTheorems

Numbers == {f.n : f \in entered}

GptpFrames(numbers) == [kind : GptpTypes, n : numbers, correction : {0}]

DataFrames(numbers) ==
  [kind : {"DATA"}, n : numbers, pcp : {NoVlan}, origPcp : MappedPcps \cup {NoVlan},
   dscp : Dscps, port : {"app"}, dest : DOMAIN tsnToUeMap]

GptpPackets(numbers) ==
  [dscp : {GptpDscp}, port : {GptpPort}, dest : DOMAIN tsnToUeMap, frame : GptpFrames(numbers)]

DataPackets(numbers) ==
  [dscp : MappedPcps \cup DataDscps, port : {"app"}, dest : DOMAIN tsnToUeMap, frame : DataFrames(numbers)]

Tagged(p) == p.frame.kind = "DATA" /\ p.frame.origPcp # NoVlan

(* Between translator and replicator the priority is in the DSCP. *)
Marked(p) == Tagged(p) => p.dscp = p.frame.origPcp

PendingPackets(numbers) ==
  {p \in GptpPackets(numbers) \cup DataPackets(numbers) : Marked(p)}

(* Behind the replicator a replica has it in its R-TAG. *)
Carried(p) ==
  Tagged(p) => \/ p.dscp = p.frame.origPcp
               \/ p.dscp = ReplicaDscp /\ p.rtag \in RTag /\ p.rtag.streamId = p.frame.origPcp

PortTells(p) == p.port = IF p.frame.kind = "DATA" THEN "app" ELSE GptpPort

NetPackets(numbers) ==
  {p \in [dscp : Dscps, port : {GptpPort, "app"}, dest : DOMAIN tsnToUeMap,
          frame : GptpFrames(numbers) \cup DataFrames(numbers),
          identification : Seqs, fragment : {FALSE}, rtag : RTag \cup {NoTag},
          oversize : BOOLEAN, framed : BOOLEAN,
          interface : {DefaultInterface, ReplicaInterface}] :
     Carried(p) /\ PortTells(p)}

CopiesHere(numbers) ==
  {m \in [pkt : NetPackets(numbers), copy : Nat, age : 0 .. MaxDelay,
          stream : Dscps, n : Nat \cup {None}] : m.pkt.dest = Here}

(* The inductive invariant. *)
BridgeInv ==
  /\ RecoveryInv
  /\ sequenceCounters \in [FrerStreams -> Seqs]
  /\ numbered \in [FrerStreams -> Nat]
  /\ newest \in [StreamIds -> Nat \cup {None}]
  /\ budget \in 0 .. Pace
  /\ pending \in Seq(PendingPackets(Numbers))
  /\ net \subseteq CopiesHere(Numbers)
  /\ sideband \subseteq [frame : GptpFrames(Numbers), wait : 0 .. SidebandDelay]
  /\ delivered \subseteq [frame : Numbers, residence : 0 .. MaxDelay]
  /\ delayMax \in 0 .. MaxDelay
  /\ PriorityInDscp

-----------------------------------------------------------------------------
(* Frames that come in later take nothing from what is on its way. *)
LEMMA NumbersGrow ==
  ASSUME NEW numbers, NEW more, numbers \subseteq more
  PROVE  /\ GptpFrames(numbers) \subseteq GptpFrames(more)
         /\ NetPackets(numbers) \subseteq NetPackets(more)
         /\ CopiesHere(numbers) \subseteq CopiesHere(more)
<1>1. GptpFrames(numbers) \subseteq GptpFrames(more)
  BY DEF GptpFrames
<1>2. DataFrames(numbers) \subseteq DataFrames(more)
  BY DEF DataFrames
<1>3. NetPackets(numbers) \subseteq NetPackets(more)
  BY <1>1, <1>2 DEF NetPackets
<1>4. CopiesHere(numbers) \subseteq CopiesHere(more)
  BY <1>3 DEF CopiesHere
<1> QED BY <1>1, <1>3, <1>4

(* A finite set can be put in a sequence. *)
LEMMA SetToSeqType ==
  ASSUME NEW S, IsFiniteSet(S)
  PROVE  /\ SetToSeq(S) \in [1 .. Cardinality(S) -> S] /\ Cardinality(S) \in Nat
         /\ \A i, j \in 1 .. Cardinality(S) : SetToSeq(S)[i] = SetToSeq(S)[j] => i = j
<1>1. Cardinality(S) \in Nat /\ ExistsBijection(1 .. Cardinality(S), S)
  BY FS_CardinalityType
<1>2. PICK f : f \in Bijection(1 .. Cardinality(S), S)
  BY <1>1 DEF ExistsBijection
<1>3. f \in [1 .. Cardinality(S) -> S] /\ IsInjective(f)
  BY <1>2 DEF Bijection, Injection
<1>4. SetToSeq(S) \in [1 .. Cardinality(S) -> S] /\ IsInjective(SetToSeq(S))
  BY <1>3 DEF SetToSeq
<1> QED BY <1>1, <1>4 DEF IsInjective

(* A gPTP frame becomes one packet or more, all of them on the gPTP port. *)
LEMMA TranslatedGptp ==
  ASSUME BridgeDeployment, NEW numbers, NEW f \in GptpFrames(numbers)
  PROVE  /\ Translated(f) \in Seq(PendingPackets(numbers))
         /\ Len(Translated(f)) \in Nat \ {0}
         /\ \A i \in DOMAIN Translated(f) : Translated(f)[i].frame = f
         /\ \A i, j \in DOMAIN Translated(f) :
              Translated(f)[i].dest = Translated(f)[j].dest => i = j
<1> DEFINE D == DOMAIN tsnToUeMap
           ds == SetToSeq(D)
<1>1. /\ ds \in [1 .. Cardinality(D) -> D] /\ Cardinality(D) \in Nat
      /\ \A i, j \in 1 .. Cardinality(D) : ds[i] = ds[j] => i = j
  BY SetToSeqType DEF BridgeDeployment
<1>2. Cardinality(D) # 0
  BY FS_EmptySet, BridgeAssumption DEF BridgeDeployment
<1>3. Translated(f) = [i \in 1 .. Cardinality(D) |-> Wrapped(f, ds[i])]
  BY <1>1 DEF Translated, IsGptp, GptpFrames, WrappedForAll
<1>4. \A d \in D : Wrapped(f, d) \in PendingPackets(numbers)
  <2> SUFFICES ASSUME NEW d \in D PROVE Wrapped(f, d) \in PendingPackets(numbers)
    OBVIOUS
  <2>1. Wrapped(f, d) \in GptpPackets(numbers)
    BY DEF Wrapped, GptpPackets
  <2>2. ~Tagged(Wrapped(f, d))
    BY DEF Wrapped, GptpFrames, GptpTypes, Tagged
  <2> QED BY <2>1, <2>2 DEF PendingPackets, Marked
<1> HIDE DEF ds
<1>5. /\ DOMAIN Translated(f) = 1 .. Cardinality(D)
      /\ \A i \in 1 .. Cardinality(D) : /\ Translated(f)[i].frame = f
                                       /\ Translated(f)[i].dest = ds[i]
  BY <1>3 DEF Wrapped
<1> QED BY <1>1, <1>2, <1>3, <1>4, <1>5

(* A data frame becomes one packet, marked with the PCP of its tag. *)
LEMMA TranslatedData ==
  ASSUME BridgeDeployment, NEW numbers, NEW n \in numbers,
         NEW pcp \in DataPcps, NEW dscp \in DataDscps, NEW d \in DOMAIN tsnToUeMap,
         NEW f, f = [kind |-> "DATA", n |-> n, pcp |-> pcp, origPcp |-> pcp,
                     dscp |-> dscp, port |-> "app", dest |-> d]
  PROVE  /\ Translated(f) \in Seq(PendingPackets(numbers))
         /\ Len(Translated(f)) = 1
         /\ \A i \in DOMAIN Translated(f) : /\ i = 1
                                            /\ Translated(f)[i].frame.n = n
                                            /\ Translated(f)[i].frame.kind = "DATA"
<1>1. Translated(f) = <<Unframed(f)>>
  BY DEF Translated, IsGptp, GptpTypes
<1>2. QosMapped(f) \in DataFrames(numbers) /\ QosMapped(f).origPcp = pcp
  <2>1. CASE pcp \in MappedPcps
    BY <2>1, TranslatorAssumption DEF QosMapped, DataFrames, BridgeDeployment
  <2>2. CASE pcp = NoVlan
    BY <2>2, TranslatorAssumption DEF QosMapped, DataFrames, BridgeDeployment, NoVlan
  <2> QED BY <2>1, <2>2 DEF BridgeDeployment
<1>3. QosMapped(f).dscp \in MappedPcps \cup DataDscps
  BY TranslatorAssumption DEF QosMapped
<1>4. pcp # NoVlan => QosMapped(f).dscp = pcp
  BY DEF QosMapped, BridgeDeployment
<1>5. Unframed(f) \in DataPackets(numbers)
  BY <1>2, <1>3 DEF Unframed, DataPackets
<1>6. Marked(Unframed(f))
  BY <1>2, <1>4 DEF Unframed, Marked, Tagged
<1>7. Unframed(f) \in PendingPackets(numbers)
  BY <1>5, <1>6 DEF PendingPackets
<1>8. ASSUME NEW u \in PendingPackets(numbers)
      PROVE  <<u>> \in Seq(PendingPackets(numbers)) /\ Len(<<u>>) = 1
  OBVIOUS
<1>9. DOMAIN <<Unframed(f)>> = {1} /\ <<Unframed(f)>>[1] = Unframed(f)
  OBVIOUS
<1>10. Unframed(f).frame = QosMapped(f) /\ QosMapped(f).n = n /\ QosMapped(f).kind = "DATA"
  BY DEF Unframed, QosMapped
<1> QED BY <1>1, <1>7, <1>8, <1>9, <1>10

(* AsPacket adds fields and changes none. *)
LEMMA AsPacketFields ==
  ASSUME BridgeDeployment, NEW numbers, NEW p \in PendingPackets(numbers)
  PROVE  /\ AsPacket(p) \in NetPackets(numbers)
         /\ AsPacket(p).dest = p.dest
         /\ Tagged(p) => AsPacket(p).dscp = p.frame.origPcp
         /\ AsPacket(p).frame = p.frame
<1>1. /\ p.dscp \in Dscps /\ p.port \in {GptpPort, "app"} /\ p.dest \in DOMAIN tsnToUeMap
      /\ p.frame \in GptpFrames(numbers) \cup DataFrames(numbers)
      /\ PortTells(p)
      /\ Tagged(p) => p.dscp = p.frame.origPcp
  BY DEF PendingPackets, GptpPackets, DataPackets, GptpFrames, GptpTypes, DataFrames,
         Marked, PortTells, Tagged, BridgeDeployment
<1>2. 0 \in Seqs
  BY SeqSpaceAssumption DEF Seqs
<1>3. (p.frame.kind = "DATA" /\ p.dest \in OversizeTo) \in BOOLEAN
  OBVIOUS
<1> DEFINE q == AsPacket(p)
<1>4. /\ q = [dscp |-> p.dscp, port |-> p.port, dest |-> p.dest, frame |-> p.frame,
              identification |-> 0, fragment |-> FALSE, rtag |-> NoTag,
              oversize |-> p.frame.kind = "DATA" /\ p.dest \in OversizeTo,
              framed |-> EthernetFramed, interface |-> DefaultInterface]
  BY DEF AsPacket
<1>5. /\ q.dscp = p.dscp /\ q.port = p.port /\ q.dest = p.dest /\ q.frame = p.frame
  BY <1>4
<1>6. Carried(q) /\ PortTells(q)
  BY <1>1, <1>5 DEF Carried, PortTells, Tagged
<1>7. q \in [dscp : Dscps, port : {GptpPort, "app"}, dest : DOMAIN tsnToUeMap,
             frame : GptpFrames(numbers) \cup DataFrames(numbers),
             identification : Seqs, fragment : {FALSE}, rtag : RTag \cup {NoTag},
             oversize : BOOLEAN, framed : BOOLEAN,
             interface : {DefaultInterface, ReplicaInterface}]
  BY <1>1, <1>2, <1>3, <1>4, ReplicatorAssumption
<1> HIDE DEF q
<1>8. q \in NetPackets(numbers)
  BY <1>6, <1>7 DEF NetPackets
<1> QED BY <1>1, <1>5, <1>8 DEF q

(* The replicator leaves the priority with each packet it sends. *)
LEMMA ReplicatorStep ==
  ASSUME BridgeDeployment, NEW numbers, NEW p \in NetPackets(numbers),
         Tagged(p) => p.dscp = p.frame.origPcp,
         sequenceCounters \in [FrerStreams -> Seqs], ReplicatorHandle(p)
  PROVE  /\ sequenceCounters' \in [FrerStreams -> Seqs]
         /\ DOMAIN sent' \subseteq Nat
         /\ \A i \in DOMAIN sent' : sent'[i] \in NetPackets(numbers) /\ sent'[i].dest = p.dest
<1> DEFINE Fields == [dscp : Dscps, port : {GptpPort, "app"}, dest : DOMAIN tsnToUeMap,
                      frame : GptpFrames(numbers) \cup DataFrames(numbers),
                      identification : Seqs, fragment : {FALSE}, rtag : RTag \cup {NoTag},
                      oversize : BOOLEAN, framed : BOOLEAN,
                      interface : {DefaultInterface, ReplicaInterface}]
<1>1. p \in Fields /\ Carried(p) /\ PortTells(p)
  BY DEF NetPackets
<1>2. CASE PassIneligible(p)
  BY <1>2 DEF PassIneligible
<1>3. CASE PassOversize(p)
  <2> DEFINE q == [p EXCEPT !.framed = FALSE]
  <2>1. q \in Fields /\ q.dest = p.dest /\ q.frame = p.frame /\ q.port = p.port
          /\ q.dscp = p.dscp
    BY <1>1
  <2> HIDE DEF q
  <2>2. q \in NetPackets(numbers)
    <3>1. Carried(q) /\ PortTells(q)
      BY <1>1, <2>1 DEF Carried, PortTells, Tagged
    <3> QED BY <2>1, <3>1 DEF NetPackets
  <2>3. sent' = <<q>> /\ UNCHANGED sequenceCounters
    BY <1>3 DEF PassOversize, q
  <2> QED BY <2>1, <2>2, <2>3
<1>4. CASE Replicate(p)
  <2> DEFINE seq == sequenceCounters[p.dscp]
             a == Primary(p, seq)
             b == Replica(p, seq)
  <2>1. p.dscp \in FrerStreams /\ seq \in Seqs
    BY <1>4 DEF Replicate, IsFrerEligible
  <2>2. [streamId |-> p.dscp, sequenceNumber |-> seq] \in RTag
    BY <2>1 DEF RTag
  <2>3. /\ a \in Fields /\ a.dest = p.dest /\ a.frame = p.frame /\ a.port = p.port
        /\ a.dscp = p.dscp
    BY <1>1, <2>1, <2>2 DEF Primary
  <2>4. a.rtag = [streamId |-> p.dscp, sequenceNumber |-> seq]
    BY <1>1 DEF Primary
  <2>5. /\ b \in Fields /\ b.dest = p.dest /\ b.frame = p.frame /\ b.port = p.port
        /\ b.dscp = ReplicaDscp /\ b.rtag = a.rtag
    BY <2>3, DscpAssumption DEF Replica, PrepareMemberStreams
  <2>6. NextSequenceNumber(seq) \in Seqs
    <3>1. seq + 1 \in Int
      BY <2>1, SeqSpaceAssumption DEF Seqs
    <3> QED BY <3>1, ModRange, SeqSpaceAssumption DEF NextSequenceNumber, Seqs
  <2>7. sent' = <<a, b>> /\ sequenceCounters' = [sequenceCounters EXCEPT ![p.dscp] = NextSequenceNumber(@)]
    BY <1>4 DEF Replicate
  <2> HIDE DEF seq, a, b
  <2>8. a \in NetPackets(numbers)
    <3>1. Carried(a) /\ PortTells(a)
      BY <1>1, <2>3 DEF Carried, PortTells, Tagged
    <3> QED BY <2>3, <3>1 DEF NetPackets
  <2>9. b \in NetPackets(numbers)
    <3>1. b.rtag \in RTag /\ b.rtag.streamId = p.dscp
      BY <2>2, <2>4, <2>5
    <3>2. Carried(b) /\ PortTells(b)
      BY <1>1, <2>5, <3>1 DEF Carried, PortTells, Tagged
    <3> QED BY <2>5, <3>2 DEF NetPackets
  <2>10. sequenceCounters' \in [FrerStreams -> Seqs]
    BY <2>1, <2>6, <2>7 DEF seq
  <2> QED BY <2>3, <2>5, <2>7, <2>8, <2>9, <2>10
<1> QED BY <1>2, <1>3, <1>4 DEF ReplicatorHandle

(* The handler of the elimination point can read what is in transit. *)
LEMMA NetReadable ==
  ASSUME NEW numbers, NEW p \in NetPackets(numbers)
  PROVE  Readable(p)
BY DEF NetPackets, Readable

(* What is handed on has the priority in its DSCP again, and its frame. *)
LEMMA RestoredPriority ==
  ASSUME BridgeDeployment, NEW numbers, NEW p \in NetPackets(numbers)
  PROVE  /\ Restored(p).frame = p.frame
         /\ Restored(p).port = p.port /\ Restored(p).fragment = FALSE
         /\ Tagged(p) => Restored(p).dscp = p.frame.origPcp
<1> DEFINE Fields == [dscp : Nat, port : {GptpPort, "app"}, dest : DOMAIN tsnToUeMap,
                      frame : GptpFrames(numbers) \cup DataFrames(numbers),
                      identification : Seqs, fragment : {FALSE}, rtag : RTag \cup {NoTag},
                      oversize : BOOLEAN, framed : BOOLEAN,
                      interface : {DefaultInterface, ReplicaInterface}]
           q == Stripped(p)
<1>1. p \in Fields /\ Carried(p)
  BY DscpAssumption DEF NetPackets
<1>2. /\ q \in Fields /\ q.frame = p.frame /\ q.port = p.port /\ q.dscp = p.dscp
      /\ q.fragment = FALSE
  BY <1>1 DEF Stripped
<1> HIDE DEF q
<1>3. CASE IsReplica(p)
  <2>1. Restored(p) = [q EXCEPT !.dscp = StreamOf(p)]
    BY <1>3 DEF Restored, q
  <2>2. Tagged(p) => StreamOf(p) = p.frame.origPcp
    <3> SUFFICES ASSUME Tagged(p) PROVE StreamOf(p) = p.frame.origPcp
      OBVIOUS
    <3>1. p.frame.origPcp \in MappedPcps
      BY <1>1 DEF Tagged, DataFrames, GptpFrames, GptpTypes
    <3>2. p.rtag \in RTag /\ p.rtag.streamId = p.frame.origPcp
      BY <1>1, <1>3, <3>1 DEF Carried, IsReplica, BridgeDeployment
    <3>3. p.rtag # NoTag
      <4>1. p.rtag.streamId \in FrerStreams
        BY <3>2 DEF RTag
      <4>2. NoTag.streamId \notin FrerStreams
        BY DscpAssumption DEF NoTag
      <4> QED BY <4>1, <4>2
    <3>4. p.fragment = FALSE
      BY <1>1
    <3>5. RTagFound(p)
      BY <3>3, <3>4 DEF RTagFound
    <3> QED BY <3>2, <3>5 DEF StreamOf
  <2> QED BY <1>2, <2>1, <2>2
<1>4. CASE ~IsReplica(p)
  BY <1>1, <1>2, <1>4 DEF Restored, IsReplica, Carried, q
<1> QED BY <1>3, <1>4

(* So have packets that FRER does not handle. *)
LEMMA PassedPriority ==
  ASSUME BridgeDeployment, NEW numbers, NEW p \in NetPackets(numbers), PassThrough(p)
  PROVE  Tagged(p) => p.dscp = p.frame.origPcp
BY DEF NetPackets, PassThrough, IsFrer, Carried

(* What the DS-TT makes of a packet with the priority in its DSCP. *)
LEMMA TranslatorStep ==
  ASSUME BridgeDeployment, NEW numbers, NEW residenceTime, NEW q,
         q.frame \in GptpFrames(numbers) \cup DataFrames(numbers),
         PortTells(q), Tagged(q) => q.dscp = q.frame.origPcp,
         ForwardGptp(q, residenceTime) \/ ForwardData(q)
  PROVE  PriorityInDscp'
<1> SUFFICES ASSUME tsnOut'.kind = "DATA", tsnOut'.origPcp # NoVlan
             PROVE  tsnOut'.dscp = tsnOut'.origPcp
  BY DEF PriorityInDscp, NoVlan
<1>1. CASE q.frame \in GptpFrames(numbers)
  <2>1. q.frame.kind # "DATA"
    BY <1>1 DEF GptpFrames, GptpTypes
  <2>2. CASE ForwardGptp(q, residenceTime)
    <3>1. Corrected(q.frame, residenceTime).kind = q.frame.kind
      BY <1>1 DEF Corrected, GptpFrames
    <3> QED BY <2>1, <2>2, <3>1 DEF ForwardGptp
  <2>3. CASE ForwardData(q)
    <3>1. [q.frame EXCEPT !.dscp = q.dscp, !.pcp = NoVlan].kind = q.frame.kind
      BY <1>1 DEF GptpFrames
    <3> QED BY <2>1, <2>3, <3>1 DEF ForwardData
  <2> QED BY <2>2, <2>3
<1>2. CASE q.frame \in DataFrames(numbers)
  <2>1. q.frame.kind = "DATA" /\ q.port = "app"
    BY <1>2 DEF DataFrames, PortTells
  <2>2. ForwardData(q)
    BY <2>1 DEF ForwardGptp, IsGptpInUdp, BridgeDeployment
  <2>3. tsnOut' = [q.frame EXCEPT !.dscp = q.dscp, !.pcp = NoVlan]
    BY <2>2 DEF ForwardData
  <2>4. tsnOut'.origPcp = q.frame.origPcp /\ tsnOut'.dscp = q.dscp
    BY <1>2, <2>3 DEF DataFrames
  <2> QED BY <2>1, <2>4 DEF Tagged
<1> QED BY <1>1, <1>2

-----------------------------------------------------------------------------
(* Steps that leave the elimination point alone, or send nothing on. *)
LEMMA RecoveryUntouched ==
  ASSUME RecoveryInv, UNCHANGED <<streams, timeoutMsg>>
  PROVE  RecoveryInv'
BY DEF RecoveryInv, RecoveryTypeOK, ActiveIffArmed, NewestSlotTaken, Slot

LEMMA NothingSentOn ==
  ASSUME tsnOut' = NoFrame
  PROVE  PriorityInDscp'
BY DEF PriorityInDscp, NoFrame

(* What is on its way stays on its way when a frame comes in. *)
LEMMA EnterStep ==
  ASSUME BridgeInv, NEW f, Enter(f)
  PROVE  /\ Numbers \subseteq Numbers' /\ f.n \in Numbers'
         /\ RecoveryInv'
         /\ sequenceCounters' \in [FrerStreams -> Seqs]
         /\ numbered' \in [FrerStreams -> Nat]
         /\ newest' \in [StreamIds -> Nat \cup {None}]
         /\ net' \subseteq CopiesHere(Numbers')
         /\ sideband \subseteq [frame : GptpFrames(Numbers'), wait : 0 .. SidebandDelay]
         /\ delivered' \subseteq [frame : Numbers', residence : 0 .. MaxDelay]
         /\ delayMax' \in 0 .. MaxDelay
         /\ PriorityInDscp'
<1>1. Numbers \subseteq Numbers' /\ f.n \in Numbers'
  BY DEF Enter, Numbers
<1> DEFINE more == Numbers'
<1> HIDE DEF more
<1>2. /\ GptpFrames(Numbers) \subseteq GptpFrames(more)
      /\ CopiesHere(Numbers) \subseteq CopiesHere(more)
  <2>1. Numbers \subseteq more
    BY <1>1 DEF more
  <2> QED BY <2>1, NumbersGrow
<1>3. net' \subseteq CopiesHere(more)
  BY <1>2 DEF BridgeInv, Enter
<1>4. sideband \subseteq [frame : GptpFrames(more), wait : 0 .. SidebandDelay]
  BY <1>2 DEF BridgeInv
<1>5. delivered' \subseteq [frame : more, residence : 0 .. MaxDelay]
  BY <1>1 DEF BridgeInv, Enter, more
<1>6. RecoveryInv' /\ PriorityInDscp'
  BY RecoveryUntouched, NothingSentOn DEF BridgeInv, Enter
<1>7. /\ delayMax' \in 0 .. MaxDelay /\ sequenceCounters' \in [FrerStreams -> Seqs]
      /\ numbered' \in [FrerStreams -> Nat] /\ newest' \in [StreamIds -> Nat \cup {None}]
  BY DEF BridgeInv, Enter, afVars, historyVars
<1> QED BY <1>1, <1>3, <1>4, <1>5, <1>6, <1>7 DEF more

LEMMA GptpFrameType ==
  ASSUME NEW kind \in GptpTypes, NEW numbers, Gptp(kind).n \in numbers
  PROVE  Gptp(kind) \in GptpFrames(numbers)
BY DEF Gptp, GptpFrames

LEMMA EnterGptuStep ==
  ASSUME BridgeDeployment, BridgeInv, NEW kind \in GptpTypes, EnterGptu(kind)
  PROVE  BridgeInv'
<1> DEFINE f == Gptp(kind)
<1>1. Enter(f) /\ pending' = Translated(f) /\ budget' = budget - Len(pending')
        /\ UNCHANGED sideband
  BY DEF EnterGptu
<1>2. f \in GptpFrames(Numbers')
  BY <1>1, EnterStep, GptpFrameType
<1> HIDE DEF f
<1>3. Translated(f) \in Seq(PendingPackets(Numbers')) /\ Len(Translated(f)) \in Nat \ {0}
  BY <1>2, TranslatedGptp
<1>4. budget' \in 0 .. Pace
  BY <1>1, <1>3, BridgeAssumption DEF BridgeInv, Enter
<1> QED BY <1>1, <1>3, <1>4, EnterStep DEF BridgeInv

LEMMA EnterSidebandStep ==
  ASSUME BridgeDeployment, BridgeInv, NEW kind \in GptpTypes, EnterSideband(kind)
  PROVE  BridgeInv'
<1> DEFINE f == Gptp(kind)
<1>1. /\ Enter(f) /\ pending' = <<>> /\ budget' = budget - 1
      /\ sideband' = sideband \cup {[frame |-> f, wait |-> SidebandDelay]}
  BY DEF EnterSideband, Enter
<1>2. f \in GptpFrames(Numbers')
  BY <1>1, EnterStep, GptpFrameType
<1> HIDE DEF f
<1>3. Len(Translated(f)) \in Nat \ {0}
  BY <1>2, TranslatedGptp
<1>4. budget' \in 0 .. Pace
  BY <1>1, <1>3, BridgeAssumption DEF BridgeInv, Enter
<1>5. sideband' \subseteq [frame : GptpFrames(Numbers'), wait : 0 .. SidebandDelay]
  BY <1>1, <1>2, EnterStep, BridgeAssumption
<1> QED BY <1>1, <1>4, <1>5, EnterStep DEF BridgeInv

LEMMA EnterDataStep ==
  ASSUME BridgeDeployment, BridgeInv,
         NEW pcp \in DataPcps, NEW dscp \in DataDscps, NEW d \in DOMAIN tsnToUeMap,
         EnterData(pcp, dscp, d)
  PROVE  BridgeInv'
<1> DEFINE f == Data(pcp, dscp, d)
<1>1. /\ Enter(f) /\ pending' = Translated(f) /\ budget' = budget - 1
      /\ UNCHANGED sideband
  BY DEF EnterData
<1>2. f.n \in Numbers'
  BY <1>1, EnterStep
<1>3. f = [kind |-> "DATA", n |-> f.n, pcp |-> pcp, origPcp |-> pcp,
           dscp |-> dscp, port |-> "app", dest |-> d]
  BY DEF Data
<1> HIDE DEF f
<1>4. Translated(f) \in Seq(PendingPackets(Numbers')) /\ Len(Translated(f)) = 1
  BY <1>2, <1>3, TranslatedData
<1>5. budget' \in 0 .. Pace
  BY <1>1, <1>4, BridgeAssumption DEF BridgeInv, Enter
<1> QED BY <1>1, <1>4, <1>5, EnterStep DEF BridgeInv

LEMMA CopyStep ==
  ASSUME BridgeDeployment, BridgeInv, Copy
  PROVE  BridgeInv'
<1> DEFINE h == Head(pending)
           p == AsPacket(h)
<1>1. h \in PendingPackets(Numbers) /\ Tail(pending) \in Seq(PendingPackets(Numbers))
  BY DEF BridgeInv, Copy
<1>2. p \in NetPackets(Numbers) /\ p.dest = h.dest /\ (Tagged(p) => p.dscp = p.frame.origPcp)
  <2>1. /\ p \in NetPackets(Numbers) /\ p.dest = h.dest /\ p.frame = h.frame
        /\ Tagged(h) => p.dscp = h.frame.origPcp
    BY <1>1, AsPacketFields
  <2> QED BY <2>1 DEF Tagged
<1>3. /\ ReplicatorHandle(p)
      /\ net' = IF p.dest = Here THEN net \cup CopiesOf(p) ELSE net
      /\ numbered' = IF IsFrerEligible(p) /\ ~p.oversize
                     THEN [numbered EXCEPT ![p.dscp] = @ + 1] ELSE numbered
  BY DEF Copy
<1> HIDE DEF h, p
<1>4. /\ sequenceCounters' \in [FrerStreams -> Seqs]
      /\ DOMAIN sent' \subseteq Nat
      /\ \A i \in DOMAIN sent' : sent'[i] \in NetPackets(Numbers) /\ sent'[i].dest = p.dest
  BY <1>2, <1>3, ReplicatorStep DEF BridgeInv
<1>5. net' \subseteq CopiesHere(Numbers)
  <2> DEFINE number == IF IsFrerEligible(p) THEN numbered[p.dscp] ELSE None
  <2>1. number \in Nat \cup {None} /\ p.dscp \in Dscps
    BY <1>2 DEF BridgeInv, IsFrerEligible, NetPackets
  <2>2. CopiesOf(p) = {[pkt |-> sent'[i], copy |-> i, age |-> 0, stream |-> p.dscp,
                        n |-> number] : i \in DOMAIN sent'}
    BY DEF CopiesOf
  <2> HIDE DEF number
  <2>3. ASSUME NEW i \in DOMAIN sent', p.dest = Here
        PROVE  [pkt |-> sent'[i], copy |-> i, age |-> 0, stream |-> p.dscp, n |-> number]
                 \in CopiesHere(Numbers)
    BY <1>2, <1>4, <2>1, <2>3, BridgeAssumption DEF CopiesHere
  <2> QED BY <1>3, <2>2, <2>3 DEF BridgeInv
<1>6. Numbers' = Numbers /\ pending' = Tail(pending)
  BY DEF Copy, Numbers
<1>7. RecoveryInv' /\ PriorityInDscp'
  BY RecoveryUntouched, NothingSentOn DEF BridgeInv, Copy
<1>8. UNCHANGED <<budget, sideband, delivered, delayMax, newest>>
  BY DEF Copy, afVars
<1>9. numbered' \in [FrerStreams -> Nat]
  BY <1>3 DEF BridgeInv, IsFrerEligible
<1> QED BY <1>1, <1>4, <1>5, <1>6, <1>7, <1>8, <1>9 DEF BridgeInv

LEMMA LoseStep ==
  ASSUME BridgeInv, NEW m \in net, Lose(m)
  PROVE  BridgeInv'
<1>1. Numbers' = Numbers
  BY DEF Lose, Numbers
<1>2. RecoveryInv' /\ PriorityInDscp'
  BY RecoveryUntouched, NothingSentOn DEF BridgeInv, Lose
<1>3. UNCHANGED <<sequenceCounters, numbered, newest, budget, pending, sideband, delivered, delayMax>>
  BY DEF Lose, afVars, historyVars
<1> QED BY <1>1, <1>2, <1>3 DEF BridgeInv, Lose

(* The figures of the application function stay within the stay of a       *)
(* packet in the 5G system.                                                *)
LEMMA ForwardStep ==
  ASSUME BridgeDeployment, BridgeInv, NEW m \in net, Forward(m)
  PROVE  BridgeInv'
<1> DEFINE p == m.pkt
           q == out'.pkt
<1>1. /\ m \in CopiesHere(Numbers) /\ p \in NetPackets(Numbers) /\ m.age \in 0 .. MaxDelay
      /\ p.frame \in GptpFrames(Numbers) \cup DataFrames(Numbers)
      /\ PortTells(p) /\ p.frame.n \in Numbers
  BY DEF BridgeInv, CopiesHere, NetPackets, GptpFrames, DataFrames
<1>2. /\ Accept(p) \/ PassThrough(p)
      /\ \/ ForwardGptp(q, m.age) /\ ReceiveSignal(m.age)
         \/ ForwardData(q) /\ UNCHANGED afVars
      /\ delivered' = delivered \cup {[frame |-> p.frame.n, residence |-> m.age]}
      /\ net' = net \ {m}
      /\ UNCHANGED <<nwttVars, mode, sideband>>
  BY DEF Forward
<1>3. q.frame = p.frame /\ q.port = p.port /\ (Tagged(p) => q.dscp = p.frame.origPcp)
  <2>1. CASE Accept(p)
    <3>1. q = Restored(p)
      BY <2>1 DEF Accept
    <3> QED BY <1>1, <3>1, RestoredPriority
  <2>2. CASE PassThrough(p)
    <3>1. q = p
      BY <2>2 DEF PassThrough
    <3> QED BY <1>1, <2>2, <3>1, PassedPriority
  <2> QED BY <1>2, <2>1, <2>2
<1>4. RecoveryInv'
  <2>1. CASE Accept(p)
    BY <1>1, <2>1, NetReadable, AcceptStep DEF BridgeInv
  <2>2. CASE PassThrough(p)
    BY <2>2, RecoveryUntouched DEF BridgeInv, PassThrough
  <2> QED BY <1>2, <2>1, <2>2
<1> HIDE DEF p, q
<1>5. PriorityInDscp'
  <2>1. PortTells(q) /\ (Tagged(q) => q.dscp = q.frame.origPcp)
    BY <1>1, <1>3 DEF PortTells, Tagged
  <2> QED BY <1>1, <1>2, <1>3, <2>1, TranslatorStep
<1>6. delayMax' \in 0 .. MaxDelay
  BY <1>1, <1>2 DEF BridgeInv, ReceiveSignal, afVars
<1>7. Numbers' = Numbers /\ UNCHANGED <<sequenceCounters, numbered, budget, pending, sideband>>
  BY <1>2 DEF nwttVars, Numbers
<1>8. delivered' \subseteq [frame : Numbers, residence : 0 .. MaxDelay]
  BY <1>1, <1>2 DEF BridgeInv
<1>9. net' \subseteq CopiesHere(Numbers)
  BY <1>2 DEF BridgeInv
<1>10. newest' \in [StreamIds -> Nat \cup {None}]
  <2>1. m.n \in Nat \cup {None}
    BY <1>1 DEF CopiesHere
  <2> QED BY <2>1 DEF BridgeInv, Forward
<1> QED BY <1>4, <1>5, <1>6, <1>7, <1>8, <1>9, <1>10 DEF BridgeInv

LEMMA EliminateStep ==
  ASSUME BridgeInv, NEW m \in net, Eliminate(m)
  PROVE  BridgeInv'
<1>1. Drop(m.pkt) /\ Readable(m.pkt)
  BY NetReadable DEF Eliminate, BridgeInv, CopiesHere
<1>2. RecoveryInv'
  BY <1>1, DropStep, RecoveryUntouched DEF BridgeInv
<1>3. PriorityInDscp'
  BY NothingSentOn DEF Eliminate
<1>4. Numbers' = Numbers
      /\ UNCHANGED <<sequenceCounters, numbered, newest, budget, pending, sideband,
                     delivered, delayMax>>
  BY DEF Eliminate, nwttVars, afVars, Numbers
<1> QED BY <1>2, <1>3, <1>4 DEF BridgeInv, Eliminate

LEMMA ForwardFromSidebandStep ==
  ASSUME BridgeInv, NEW b \in sideband, ForwardFromSideband(b)
  PROVE  BridgeInv'
<1>1. tsnOut' = b.frame /\ b.frame.kind \in GptpTypes
  BY DEF BridgeInv, ForwardFromSideband, ForwardSideband, GptpFrames
<1>2. PriorityInDscp'
  BY <1>1 DEF PriorityInDscp, GptpTypes
<1>3. RecoveryInv'
  BY RecoveryUntouched DEF BridgeInv, ForwardFromSideband
<1>4. Numbers' = Numbers
      /\ UNCHANGED <<sequenceCounters, numbered, newest, budget, pending, net,
                     delivered, delayMax>>
  BY DEF ForwardFromSideband, nwttVars, afVars, Numbers
<1> QED BY <1>2, <1>3, <1>4 DEF BridgeInv, ForwardFromSideband

LEMMA ForgetStep ==
  ASSUME BridgeInv, NEW s \in StreamIds, Forget(s)
  PROVE  BridgeInv'
<1>1. RecoveryInv' /\ PriorityInDscp'
  BY TimeoutStep, NothingSentOn DEF BridgeInv, Forget
<1>2. Numbers' = Numbers
      /\ UNCHANGED <<sequenceCounters, numbered, budget, pending, net, sideband,
                     delivered, delayMax>>
  BY DEF Forget, nwttVars, afVars, Numbers
<1>3. newest' \in [StreamIds -> Nat \cup {None}]
  BY DEF BridgeInv, Forget
<1> QED BY <1>1, <1>2, <1>3 DEF BridgeInv

LEMMA TickStep ==
  ASSUME BridgeInv, Tick
  PROVE  BridgeInv'
<1>1. RecoveryInv' /\ PriorityInDscp'
  BY TimersRunStep, NothingSentOn DEF BridgeInv, Tick
<1>2. net' \subseteq CopiesHere(Numbers)
  <2>1. ASSUME NEW m \in net PROVE [m EXCEPT !.age = @ + 1] \in CopiesHere(Numbers)
    <3>1. m \in CopiesHere(Numbers) /\ m.age < MaxDelay
      BY DEF BridgeInv, Tick
    <3>2. m.age + 1 \in 0 .. MaxDelay
      BY <3>1, BridgeAssumption DEF CopiesHere
    <3> QED BY <3>1, <3>2 DEF CopiesHere
  <2> QED BY <2>1 DEF Tick
<1>3. sideband' \subseteq [frame : GptpFrames(Numbers), wait : 0 .. SidebandDelay]
  <2>1. ASSUME NEW b \in sideband
        PROVE  [b EXCEPT !.wait = @ - 1] \in [frame : GptpFrames(Numbers), wait : 0 .. SidebandDelay]
    <3>1. b \in [frame : GptpFrames(Numbers), wait : 0 .. SidebandDelay] /\ b.wait > 0
      BY DEF BridgeInv, Tick
    <3>2. b.wait - 1 \in 0 .. SidebandDelay
      BY <3>1, BridgeAssumption
    <3> QED BY <3>1, <3>2
  <2> QED BY <2>1 DEF Tick
<1>4. Numbers' = Numbers /\ budget' = Pace /\ Pace \in Nat
      /\ UNCHANGED <<sequenceCounters, numbered, newest, pending, delivered, delayMax>>
  BY BridgeAssumption DEF Tick, afVars, historyVars, Numbers
<1> QED BY <1>1, <1>2, <1>3, <1>4 DEF BridgeInv

LEMMA BridgeInitInv ==
  ASSUME BridgeInit
  PROVE  BridgeInv
<1>1. RecoveryInv
  BY RecoveryInitInv DEF BridgeInit
<1>2. sequenceCounters \in [FrerStreams -> Seqs]
  BY SeqSpaceAssumption DEF BridgeInit, ReplicatorInit, Seqs
<1>3. budget \in 0 .. Pace /\ delayMax \in 0 .. MaxDelay
  BY BridgeAssumption DEF BridgeInit, AfInit
<1>4. PriorityInDscp
  BY DEF BridgeInit, NoFrame, PriorityInDscp
<1>5. numbered \in [FrerStreams -> Nat] /\ newest \in [StreamIds -> Nat \cup {None}]
  BY DEF BridgeInit
<1> QED BY <1>1, <1>2, <1>3, <1>4, <1>5 DEF BridgeInit, BridgeInv

LEMMA BridgeStep ==
  ASSUME BridgeDeployment, BridgeInv, [BridgeNext]_bridgeVars
  PROVE  BridgeInv'
<1>1. ASSUME NEW kind \in GptpTypes, EnterGptu(kind) \/ EnterSideband(kind) PROVE BridgeInv'
  BY <1>1, EnterGptuStep, EnterSidebandStep
<1>2. ASSUME NEW pcp \in DataPcps, NEW dscp \in DataDscps, NEW d \in DOMAIN tsnToUeMap,
         EnterData(pcp, dscp, d) PROVE BridgeInv'
  BY <1>2, EnterDataStep
<1>3. CASE Copy
  BY <1>3, CopyStep
<1>4. ASSUME NEW m \in net, Lose(m) \/ Forward(m) \/ Eliminate(m) PROVE BridgeInv'
  BY <1>4, LoseStep, ForwardStep, EliminateStep
<1>5. ASSUME NEW b \in sideband, ForwardFromSideband(b) PROVE BridgeInv'
  BY <1>5, ForwardFromSidebandStep
<1>6. ASSUME NEW s \in StreamIds, Forget(s) PROVE BridgeInv'
  BY <1>6, ForgetStep
<1>7. CASE Tick
  BY <1>7, TickStep
<1>8. CASE UNCHANGED bridgeVars
  <2>1. RecoveryInv'
    BY <1>8, RecoveryUntouched DEF BridgeInv, bridgeVars
  <2>2. Numbers' = Numbers /\ (PriorityInDscp' <=> PriorityInDscp)
    BY <1>8 DEF bridgeVars, Numbers, PriorityInDscp
  <2> QED BY <1>8, <2>1, <2>2 DEF BridgeInv, bridgeVars, afVars, historyVars
<1> QED BY <1>1, <1>2, <1>3, <1>4, <1>5, <1>6, <1>7, <1>8 DEF BridgeNext

-----------------------------------------------------------------------------
(* Between the two translators every packet has the priority of its frame  *)
(* in the place where the next module looks for it, and what the bridge    *)
(* counts stays in range.                                                  *)
THEOREM BridgeInvariant == BridgeDeployment /\ BridgeSpec => []BridgeInv
<1>1. BridgeDeployment /\ BridgeInit => BridgeDeployment /\ BridgeInv
  BY BridgeInitInv
<1>2. (BridgeDeployment /\ BridgeInv) /\ [BridgeNext]_bridgeVars => (BridgeDeployment /\ BridgeInv)'
  <2> SUFFICES ASSUME BridgeDeployment, BridgeInv, [BridgeNext]_bridgeVars
               PROVE  BridgeDeployment' /\ BridgeInv'
    OBVIOUS
  <2>1. BridgeInv'
    BY BridgeStep
  <2>2. BridgeDeployment'
    BY DEF BridgeDeployment
  <2> QED BY <2>1, <2>2
<1>3. BridgeDeployment /\ BridgeInv => BridgeInv
  OBVIOUS
<1> QED BY <1>1, <1>2, <1>3, PTL DEF BridgeSpec

(* The types of what is in the bridge: translators, replication point,     *)
(* elimination point and application function together.                    *)
THEOREM BridgeTypeCorrect == BridgeDeployment /\ BridgeSpec => []BridgeTypeOK
<1>1. BridgeInv => BridgeTypeOK
  <2> SUFFICES ASSUME BridgeInv PROVE BridgeTypeOK
    OBVIOUS
  <2>1. \A m \in net : m.age \in 0 .. MaxDelay /\ m.pkt.dest = Here /\ m.pkt.dscp \in Dscps
    BY DEF BridgeInv, CopiesHere, NetPackets
  <2>2. \A b \in sideband : b.wait \in 0 .. SidebandDelay
    BY DEF BridgeInv
  <2> QED BY <2>1, <2>2 DEF BridgeInv, RecoveryInv, BridgeTypeOK, Numbers
<1> QED BY <1>1, BridgeInvariant, PTL

(* A tagged frame leaves the bridge with its PCP in the DSCP, through the  *)
(* mapping at the NW-TT, replication with the DSCP of the replica, lost    *)
(* and overtaking copies, and elimination.                                 *)
THEOREM PriorityKept == BridgeDeployment /\ BridgeSpec => []PriorityInDscp
<1>1. BridgeInv => PriorityInDscp
  BY DEF BridgeInv
<1> QED BY <1>1, BridgeInvariant, PTL
=============================================================================
