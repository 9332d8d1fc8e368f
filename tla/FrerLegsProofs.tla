--------------------------- MODULE FrerLegsProofs ---------------------------
(***************************************************************************)
(* FrerLegs implements FrerChain, so everything proved of the chain holds  *)
(* of it; and with one clean leg and a window that covers the delay of the *)
(* transport it misses no datagram.                                        *)
(*                                                                         *)
(* Only a copy on the bad leg is ever given up.  The clean copy of a       *)
(* datagram therefore reaches the elimination point, where DropReason      *)
(* leaves two ways to refuse it: as a duplicate, and then the datagram was *)
(* handed on, or as an overrun, and then CopiesInStep, which bounds how    *)
(* far its stream has got meanwhile, contradicts WindowCoversDelay.        *)
(***************************************************************************)
EXTENDS FrerLegs, FrerChainProofs

(* Every step of the legs is a step of the chain, or none. *)
LEMMA LegsStep == [LegsNext]_legsVars => [ChainNext]_chainVars
<1> SUFFICES ASSUME [LegsNext]_legsVars
             PROVE  ChainNext \/ UNCHANGED chainVars
  OBVIOUS
<1>1. CASE UNCHANGED legsVars
  BY <1>1 DEF legsVars, chainVars
<1>2. ASSUME NEW s \in AppDscps, NEW oversize \in AppOversize, NEW id \in AppIds,
             LegsSend(s, oversize, id)
      PROVE  ChainNext
  BY <1>2 DEF LegsSend, ChainNext
<1>3. ASSUME NEW m \in OnAir, Receive(m) \/ Retry(m)
      PROVE  UNCHANGED chainVars
  BY <1>3 DEF Receive, Retry
<1>4. ASSUME NEW m \in OnAir, GiveUp(m)
      PROVE  ChainNext
  BY <1>4 DEF OnAir, GiveUp, ChainNext
<1>5. ASSUME NEW m \in net, Handle(m)
      PROVE  ChainNext
  BY <1>5 DEF Handle, ChainNext
<1>6. ASSUME NEW s \in StreamIds, LegsExpire(s)
      PROVE  ChainNext
  BY <1>6 DEF LegsExpire, ChainNext
<1>7. CASE LegsTick
  BY <1>7 DEF LegsTick, ChainNext
<1>8. ASSUME NEW l \in Legs, NEW offset \in Offsets, NEW per \in ExtraPers,
             Script(l, offset, per)
      PROVE  UNCHANGED chainVars
  BY <1>8 DEF Script
<1> QED BY <1>1, <1>2, <1>3, <1>4, <1>5, <1>6, <1>7, <1>8 DEF LegsNext

(* The radio legs and the mux are one of the transports FrerChain allows:  *)
(* the two-leg system implements the chain.                                *)
THEOREM LegsImplementChain == LegsSpec => ChainSpec
<1>1. LegsInit => ChainInit
  BY DEF LegsInit
<1> QED BY <1>1, LegsStep, PTL DEF LegsSpec, ChainSpec

-----------------------------------------------------------------------------
(* On a clean leg every attempt succeeds, whatever scripts have done. *)
LEMMA CleanLegCarries ==
  ASSUME LegsInv, NEW l \in Legs, CleanLeg(l)
  PROVE  "LOST" \notin ReceptionOutcomes(channel[l], "DL", InheritedSinr[l])
<1> DEFINE c == channel[l]
           sinr == GetSINR(c, "DL", InheritedSinr[l])
<1>1. /\ InheritedSinr[l] \in Int /\ InheritedSinr[l] >= SafeSnr /\ SafeSnr \in Int
      /\ c.impairedDirection = ImpairedDirection[l]
      /\ c.sinrOffset \in Offsets \cup {0} /\ c.extraPer \in ExtraPers \cup {0}
  BY LegsAssumption, SnrAssumption DEF CleanLeg, LegsInv, ChannelsAsConfigured
<1>2. CASE ImpairedDirection[l] = "UL"
  <2>1. ~Impairs(c, "DL")
    BY <1>1, <1>2 DEF Impairs
  <2>2. sinr = InheritedSinr[l]
    BY <2>1 DEF GetSINR
  <2>3. "LOST" \notin InheritedOutcomes(sinr)
    BY <1>1, <2>2 DEF InheritedOutcomes
  <2> HIDE DEF c, sinr
  <2> QED BY <2>1, <2>3 DEF ReceptionOutcomes, c, sinr
<1>3. CASE Offsets \cup ExtraPers \subseteq {0}
  <2>1. c.sinrOffset = 0 /\ c.extraPer = 0
    BY <1>1, <1>3
  <2>2. sinr = InheritedSinr[l]
    BY <1>1, <2>1 DEF GetSINR
  <2>3. "LOST" \notin InheritedOutcomes(sinr)
    BY <1>1, <2>2 DEF InheritedOutcomes
  <2>4. "LOST" \notin ExtraOutcomes(c.extraPer)
    BY <2>1 DEF ExtraOutcomes, Certain
  <2> HIDE DEF c, sinr
  <2> QED BY <2>3, <2>4 DEF ReceptionOutcomes, c, sinr
<1> QED BY <1>2, <1>3 DEF CleanLeg

(* A datagram that is replicated goes out once on each leg. *)
LEMMA SentPair ==
  ASSUME LegsDeployment, ChainInv,
         NEW s \in AppDscps \cap FrerStreams, NEW oversize \in AppOversize, NEW id \in AppIds,
         Send(s, oversize, id),
         NEW d, d = [stream |-> s, n |-> produced[s]]
  PROVE  \E k1, k2 : /\ net' = net \cup {k1, k2}
                     /\ k1.pkt.dgram = d /\ k1.copy = 1 /\ LegOf(k1) = "primary"
                     /\ k2.pkt.dgram = d /\ k2.copy = 2 /\ LegOf(k2) = "secondary"
<1> DEFINE p == AppPacket(d, oversize, id)
           q == sequenceCounters[s]
           k1 == Message(Primary(p, q), 1)
           k2 == Message(Replica(p, q), 2)
<1>1. /\ ReplicatorHandle(p)
      /\ net' = net \cup {Message(sent'[i], i) : i \in DOMAIN sent'}
  BY DEF Send
<1>2. p.dscp = s /\ ~p.oversize
  BY DEF AppPacket, LegsDeployment, Deployment, TrafficFits
<1>3. sent' = <<Primary(p, q), Replica(p, q)>>
  BY <1>1, <1>2 DEF ReplicatorHandle, PassIneligible, PassOversize, Replicate, IsFrerEligible
<1>4. net' = net \cup {k1, k2}
  BY <1>1, <1>3
<1>5. /\ Primary(p, q).dgram = d /\ Primary(p, q).interface = DefaultInterface
      /\ Replica(p, q).dgram = d /\ Replica(p, q).interface = ReplicaInterface
  BY DEF AppPacket, Primary, Replica, PrepareMemberStreams, LegsDeployment
<1>6. /\ k1.pkt.dgram = d /\ k1.copy = 1 /\ LegOf(k1) = "primary"
      /\ k2.pkt.dgram = d /\ k2.copy = 2 /\ LegOf(k2) = "secondary"
  BY <1>5 DEF Message, LegOf, DefaultInterface, ReplicaInterface
<1> QED BY <1>4, <1>6

(* A copy that leaves the transport on the clean leg leaves its datagram   *)
(* handed on.                                                              *)
LEMMA CleanCopyHandled ==
  ASSUME LegsDeployment, ChainInv, NEW m \in net,
         m.pkt.dgram.stream \in FrerStreams,
         DeliverAccepted(m) \/ DeliverOther(m)
  PROVE  \E f \in forwarded' : f.dgram = m.pkt.dgram
<1> DEFINE d == m.pkt.dgram
           s == d.stream
<1>1. m \in Messages /\ Carries(m) /\ d.n \in Nat /\ s \in AppDscps /\ m.age \in 0 .. MaxDelay
  BY StreamTypes, MessageFields
<1>2. CASE DeliverAccepted(m)
  <2> DEFINE f == [dgram |-> d, copy |-> m.copy]
  <2>1. f \in forwarded' /\ f.dgram = d
    BY <1>2 DEF DeliverAccepted
  <2> QED BY <2>1
<1>3. CASE DeliverOther(m)
  <2>1. ~PassThrough(m.pkt)
    BY <1>1, DscpAssumption DEF Carries, MemberDscp, PassThrough, IsFrer
  <2>2. Drop(m.pkt) /\ forwarded' = forwarded
    BY <1>3, <2>1 DEF DeliverOther, historyVars
  <2>3. ~(d.n + WindowSize <= newest[s])
    <3>1. produced[s] - 1 - d.n + budget[s] < Pace * (m.age + 1)
      BY DEF ChainInv, CopiesInStep
    <3>2. produced[s] \in Nat /\ budget[s] \in Nat
      BY <1>1, StreamTypes
    <3>3. newest[s] < produced[s]
      <4>1. s \in StreamIds
        BY <1>1, StreamTypes
      <4>2. newest[s] = None \/ newest[s] \in 0 .. produced[s] - 1
        BY <4>1 DEF ChainInv, WindowInStep
      <4> QED BY <3>2, <4>2 DEF None
    <3>4. Pace * (m.age + 1) <= WindowSize
      <4>1. Pace * (m.age + 1) <= Pace * (MaxDelay + 1)
        <5>1. \A a, b, c \in Nat : a <= b => c * a <= c * b
          OBVIOUS
        <5> QED BY <1>1, <5>1, ChainAssumption
      <4>2. Pace * (m.age + 1) \in Int /\ Pace * (MaxDelay + 1) \in Int
        BY <1>1, ChainAssumption
      <4> QED BY <4>1, <4>2, WindowAssumption DEF LegsDeployment, WindowCoversDelay
    <3>5. newest[s] \in Int /\ Pace * (m.age + 1) \in Int
      <4>1. s \in StreamIds
        BY <1>1, StreamTypes
      <4> QED BY <1>1, <4>1, ChainAssumption DEF ChainInv, ChainTypeOK, None
    <3> QED BY <1>1, <3>1, <3>2, <3>3, <3>4, <3>5, WindowAssumption
  <2> QED BY <2>2, <2>3, DropReason DEF LegsDeployment
<1> QED BY <1>2, <1>3

(* Where the copies and the channels are, after any step. *)
LEMMA CleanIsNotLost ==
  ASSUME LegsInv, NEW l \in Legs, CleanLeg(l), NEW m \in net,
         m.pkt.dgram.stream \in FrerStreams, GiveUp(m)
  PROVE  MemberLeg(m.copy) # l
BY CleanLegCarries DEF GiveUp, Outcomes, LegsInv, CopiesOnTheirLegs

(* What the next step leaves of a datagram with a clean copy in transit.   *)
LEMMA CleanCopyStep ==
  ASSUME LegsDeployment, ChainInv, LegsInv, LegsNext,
         NEW l \in Legs, CleanLeg(l),
         NEW d \in InTransit, d.stream \in FrerStreams
  PROVE  \/ \E k \in net' : k.pkt.dgram = d /\ MemberLeg(k.copy) = l
         \/ \E f \in forwarded' : f.dgram = d
<1>1. \/ \E k \in net : k.pkt.dgram = d /\ MemberLeg(k.copy) = l
      \/ \E f \in forwarded : f.dgram = d
  BY DEF InTransit, LegsInv, CleanCopyComing
<1>2. CASE \E f \in forwarded : f.dgram = d
  <2>1. PICK f \in forwarded : f.dgram = d
    BY <1>2
  <2>2. forwarded' = forwarded \/ Known \subseteq forwarded'
    BY LegsStep DEF ChainNext, chainVars, historyVars, Send, Lose, Fragment, Trim,
                    DeliverAccepted, DeliverOther, Expire, Tick
  <2>3. f \in Known
    BY <2>1 DEF Known
  <2> QED BY <2>1, <2>2, <2>3
<1>3. CASE \E k \in net : k.pkt.dgram = d /\ MemberLeg(k.copy) = l
  <2>1. PICK k \in net : k.pkt.dgram = d /\ MemberLeg(k.copy) = l
    BY <1>3
  <2>2. CASE k \in net'
    BY <2>1, <2>2
  <2>3. ASSUME NEW m \in net, GiveUp(m), k \notin net' PROVE FALSE
    BY <2>1, <2>3, CleanIsNotLost DEF GiveUp, Lose
  <2>4. ASSUME NEW m \in net, Handle(m), k \notin net'
        PROVE  \E f \in forwarded' : f.dgram = d
    <3>1. m = k
      BY <2>4 DEF Handle, DeliverAccepted, DeliverOther
    <3> QED BY <2>1, <2>4, <3>1, CleanCopyHandled DEF Handle
  <2>5. CASE LegsTick
    <3> DEFINE j == [k EXCEPT !.age = @ + 1]
    <3>1. j \in net'
      BY <2>1, <2>5 DEF LegsTick, Tick
    <3>2. j.pkt = k.pkt /\ j.copy = k.copy
      BY StreamTypes DEF Messages
    <3> QED BY <2>1, <3>1, <3>2
  <2>6. CASE net \subseteq net'
    BY <2>1, <2>6
  <2>7. (\E m \in net : GiveUp(m) \/ Handle(m)) \/ LegsTick \/ net \subseteq net'
    BY DEF LegsNext, LegsSend, Send, OnAir, Receive, Retry, LegsExpire, Expire, Script, chainVars
  <2> QED BY <2>2, <2>3, <2>4, <2>5, <2>6, <2>7
<1> QED BY <1>1, <1>2, <1>3

(* The last copy of a datagram that is replicated does not leave the       *)
(* transport without its having been handed on.                            *)
LEMMA NothingMissedStep ==
  ASSUME LegsDeployment, ChainInv, LegsInv, LegsNext,
         NEW d \in InTransit \ InTransit', d.stream \in FrerStreams
  PROVE  \E f \in forwarded' : f.dgram = d
<1>1. PICK l \in Legs : CleanLeg(l)
  BY DEF LegsDeployment
<1>2. InTransit' = {k.pkt.dgram : k \in net'}
  BY DEF InTransit
<1> QED BY <1>1, <1>2, CleanCopyStep

-----------------------------------------------------------------------------
(* Each step keeps the copies on their legs. *)
LEMMA OnTheirLegsStep ==
  ASSUME LegsDeployment, ChainInv, LegsInv, LegsNext
  PROVE  CopiesOnTheirLegs'
<1> SUFFICES ASSUME NEW k \in net', k.pkt.dgram.stream \in FrerStreams
             PROVE  LegOf(k) = MemberLeg(k.copy)
  BY DEF CopiesOnTheirLegs, LegOf, MemberLeg
<1>1. CASE k \in net
  BY <1>1 DEF LegsInv, CopiesOnTheirLegs
<1>2. ASSUME NEW s \in AppDscps, NEW oversize \in AppOversize, NEW id \in AppIds,
             LegsSend(s, oversize, id), k \notin net
      PROVE  LegOf(k) = MemberLeg(k.copy)
  <2> DEFINE d == [stream |-> s, n |-> produced[s]]
  <2>1. k.pkt.dgram = d
    BY <1>2, SentCopies DEF LegsSend, LegsDeployment
  <2>2. s \in FrerStreams
    BY <2>1
  <2>3. PICK k1, k2 : /\ net' = net \cup {k1, k2}
                      /\ k1.pkt.dgram = d /\ k1.copy = 1 /\ LegOf(k1) = "primary"
                      /\ k2.pkt.dgram = d /\ k2.copy = 2 /\ LegOf(k2) = "secondary"
    BY <1>2, <2>2, SentPair DEF LegsSend
  <2>4. k = k1 \/ k = k2
    BY <1>2, <2>3
  <2> QED BY <2>3, <2>4 DEF MemberLeg
<1>3. CASE LegsTick
  <2>1. PICK m \in net : k = [m EXCEPT !.age = @ + 1]
    BY <1>3 DEF LegsTick, Tick
  <2>2. k.pkt = m.pkt /\ k.copy = m.copy
    BY <2>1, StreamTypes DEF Messages
  <2>3. LegOf(m) = MemberLeg(m.copy)
    BY <2>2 DEF LegsInv, CopiesOnTheirLegs
  <2> QED BY <2>2, <2>3 DEF LegOf
<1>4. net' \subseteq net \/ LegsTick
        \/ \E s \in AppDscps, oversize \in AppOversize, id \in AppIds : LegsSend(s, oversize, id)
  BY DEF LegsNext, OnAir, Receive, Retry, GiveUp, Lose, Handle, DeliverAccepted, DeliverOther,
         LegsExpire, Expire, Script, chainVars
<1> QED BY <1>1, <1>2, <1>3, <1>4

(* ... the direction of the channels and the scripted values of the knobs, *)
LEMMA ConfiguredStep ==
  ASSUME LegsInv, LegsNext
  PROVE  ChannelsAsConfigured'
<1>1. CASE channel' = channel
  BY <1>1 DEF LegsInv, ChannelsAsConfigured
<1>2. ASSUME NEW l \in Legs, NEW offset \in Offsets, NEW per \in ExtraPers, Script(l, offset, per)
      PROVE  ChannelsAsConfigured'
  <2>1. channel' = [channel EXCEPT ![l] = [channel[l] EXCEPT !.sinrOffset = offset, !.extraPer = per]]
    BY <1>2 DEF Script, SetParam
  <2>2. channel \in [Legs -> Channel]
    BY DEF LegsInv, LegsTypeOK
  <2> SUFFICES ASSUME NEW j \in Legs
               PROVE  /\ channel'[j].impairedDirection = ImpairedDirection[j]
                      /\ channel'[j].sinrOffset \in Offsets \cup {0}
                      /\ channel'[j].extraPer \in ExtraPers \cup {0}
    BY DEF ChannelsAsConfigured
  <2>3. CASE j # l
    BY <2>1, <2>2, <2>3 DEF LegsInv, ChannelsAsConfigured
  <2>4. CASE j = l
    BY <2>1, <2>2, <2>4 DEF LegsInv, ChannelsAsConfigured, Channel
  <2> QED BY <2>3, <2>4
<1> QED BY <1>1, <1>2 DEF LegsNext, LegsSend, Receive, Retry, GiveUp, Handle, LegsExpire,
                          LegsTick, radioVars

(* ... the promise of the clean leg, *)
LEMMA CleanComingStep ==
  ASSUME LegsDeployment, ChainInv, LegsInv, LegsNext
  PROVE  CleanCopyComing'
<1> SUFFICES ASSUME NEW l \in Legs, NEW m \in net', CleanLeg(l),
                    m.pkt.dgram.stream \in FrerStreams
             PROVE  \/ \E k \in net' : k.pkt.dgram = m.pkt.dgram /\ MemberLeg(k.copy) = l
                    \/ \E f \in forwarded' : f.dgram = m.pkt.dgram
  BY DEF CleanCopyComing, CleanLeg, MemberLeg
<1>1. CASE m.pkt.dgram \in InTransit
  BY <1>1, CleanCopyStep
<1>2. CASE m.pkt.dgram \notin InTransit
  <2>1. \A k \in net : k.pkt # m.pkt
    BY <1>2 DEF InTransit
  <2>2. ~LegsTick
    BY <2>1, StreamTypes DEF LegsTick, Tick, Messages
  <2>3. m \notin net
    BY <2>1
  <2>4. PICK s \in AppDscps, oversize \in AppOversize, id \in AppIds : LegsSend(s, oversize, id)
    BY <2>2, <2>3 DEF LegsNext, OnAir, Receive, Retry, GiveUp, Lose, Handle, DeliverAccepted,
                      DeliverOther, LegsExpire, Expire, Script, chainVars
  <2> DEFINE d == [stream |-> s, n |-> produced[s]]
  <2>5. m.pkt.dgram = d
    BY <2>3, <2>4, SentCopies DEF LegsSend, LegsDeployment
  <2>6. s \in FrerStreams
    BY <2>5
  <2>7. PICK k1, k2 : /\ net' = net \cup {k1, k2}
                      /\ k1.pkt.dgram = d /\ k1.copy = 1
                      /\ k2.pkt.dgram = d /\ k2.copy = 2
    BY <2>4, <2>6, SentPair DEF LegsSend
  <2>8. MemberLeg(k1.copy) = "primary" /\ MemberLeg(k2.copy) = "secondary"
    BY <2>7 DEF MemberLeg
  <2> QED BY <2>5, <2>7, <2>8 DEF Legs
<1> QED BY <1>1, <1>2

(* ... and the types. *)
LEMMA IdOfCopy ==
  ASSUME ChainInv, NEW m \in net
  PROVE  Id(m) \in Ids /\ m.age \in 0 .. MaxDelay
BY StreamTypes, MessageFields DEF Id, Ids

LEMMA LegsTypeStep ==
  ASSUME ChainInv, LegsInv, LegsNext
  PROVE  LegsTypeOK'
<1> DEFINE H == [failed : 0 .. MaxAttempts - 1, due : 0 .. MaxDelay + 1]
<1>1. /\ channel \in [Legs -> Channel] /\ harq \in [Ids -> H] /\ upper \in Seq(Ids)
      /\ MaxAttempts \in Nat /\ MaxAttempts > 0 /\ MaxDelay \in Nat
  BY LegsAssumption, ChainAssumption DEF LegsInv, LegsTypeOK
<1>2. FirstAttempt \in H
  BY <1>1 DEF FirstAttempt
<1>3. ASSUME UNCHANGED radioVars PROVE LegsTypeOK'
  BY <1>1, <1>3 DEF radioVars, LegsTypeOK
<1>4. ASSUME NEW m \in net, Receive(m) PROVE LegsTypeOK'
  <2>1. Append(upper, Id(m)) \in Seq(Ids)
    BY <1>1, IdOfCopy
  <2> QED BY <1>1, <1>2, <1>4, <2>1 DEF Receive, LegsTypeOK
<1>5. ASSUME NEW m \in net, Retry(m) PROVE LegsTypeOK'
  <2> DEFINE h == [failed |-> harq[Id(m)].failed + 1, due |-> m.age + 1]
  <2>1. harq[Id(m)] \in H
    BY <1>1, IdOfCopy
  <2>2. h \in H
    BY <1>1, <1>5, <2>1, IdOfCopy DEF Retry
  <2>3. harq' = [harq EXCEPT ![Id(m)] = h]
    BY <1>5 DEF Retry
  <2> HIDE DEF H, h
  <2>4. harq' \in [Ids -> H]
    BY <1>1, <2>2, <2>3
  <2> QED BY <1>1, <1>5, <2>4 DEF Retry, LegsTypeOK, H
<1>6. ASSUME NEW m \in net, GiveUp(m) PROVE LegsTypeOK'
  BY <1>1, <1>2, <1>6 DEF GiveUp, LegsTypeOK
<1>7. ASSUME NEW m \in net, Handle(m) PROVE LegsTypeOK'
  <2>1. Tail(upper) \in Seq(Ids)
    BY <1>1, <1>7 DEF Handle
  <2> QED BY <1>1, <1>7, <2>1 DEF Handle, LegsTypeOK
<1>8. ASSUME NEW l \in Legs, NEW offset \in Offsets, NEW per \in ExtraPers, Script(l, offset, per)
      PROVE  LegsTypeOK'
  <2> DEFINE c == [channel[l] EXCEPT !.sinrOffset = offset, !.extraPer = per]
  <2>1. channel' = [channel EXCEPT ![l] = c]
    BY <1>8 DEF Script, SetParam
  <2>2. offset \in Int /\ per \in Int
    BY LegsAssumption DEF Certain
  <2>3. c \in Channel
    BY <1>1, <2>2 DEF Channel
  <2> HIDE DEF c
  <2> QED BY <1>1, <1>8, <2>1, <2>3 DEF Script, LegsTypeOK
<1> QED BY <1>3, <1>4, <1>5, <1>6, <1>7, <1>8
     DEF LegsNext, OnAir, LegsSend, LegsExpire, LegsTick

LEMMA LegsInitInv == LegsInit => LegsInv
<1> SUFFICES ASSUME LegsInit PROVE LegsInv
  OBVIOUS
<1>1. net = {} /\ forwarded = {}
  BY DEF LegsInit, ChainInit
<1>2. CopiesOnTheirLegs /\ CleanCopyComing
  BY <1>1 DEF CopiesOnTheirLegs, CleanCopyComing
<1>3. ChannelsAsConfigured
  BY DEF LegsInit, ChannelsAsConfigured
<1>4. LegsTypeOK
  <2>1. \A l \in Legs : [impairedDirection |-> ImpairedDirection[l], sinrOffset |-> 0,
                         extraPer |-> 0] \in Channel
    BY LegsAssumption DEF Channel
  <2>2. FirstAttempt \in [failed : 0 .. MaxAttempts - 1, due : 0 .. MaxDelay + 1]
    BY LegsAssumption, ChainAssumption DEF FirstAttempt
  <2>3. <<>> \in Seq(Ids)
    OBVIOUS
  <2> QED BY <2>1, <2>2, <2>3 DEF LegsInit, LegsTypeOK
<1> QED BY <1>2, <1>3, <1>4 DEF LegsInv

LEMMA LegsNextInv ==
  ASSUME LegsDeployment, ChainInv, LegsInv, [LegsNext]_legsVars
  PROVE  LegsInv'
<1>1. CASE LegsNext
  BY <1>1, OnTheirLegsStep, ConfiguredStep, CleanComingStep, LegsTypeStep DEF LegsInv
<1>2. CASE UNCHANGED legsVars
  BY <1>2 DEF legsVars, LegsInv, LegsTypeOK, CopiesOnTheirLegs, LegOf, MemberLeg,
              ChannelsAsConfigured, CleanCopyComing, CleanLeg
<1> QED BY <1>1, <1>2

LEMMA LegsBothInvariants ==
  LegsDeployment /\ LegsSpec => [](LegsDeployment /\ ChainInv /\ LegsInv)
<1>1. LegsDeployment /\ LegsInit => LegsDeployment /\ ChainInv /\ LegsInv
  BY ChainInitInv, LegsInitInv DEF LegsInit
<1>2. LegsDeployment /\ ChainInv /\ LegsInv /\ [LegsNext]_legsVars
        => (LegsDeployment /\ ChainInv /\ LegsInv)'
  <2> SUFFICES ASSUME LegsDeployment, ChainInv, LegsInv, [LegsNext]_legsVars
               PROVE  LegsDeployment' /\ ChainInv' /\ LegsInv'
    OBVIOUS
  <2>1. ChainInv'
    BY LegsStep, ChainNextInv DEF LegsDeployment
  <2>2. LegsInv'
    BY LegsNextInv
  <2>3. LegsDeployment'
    BY DEF LegsDeployment, Deployment, WindowDivides, DelayBelowTimeout, PacedBelowHalf,
           FallbackIsSafe, TrafficFits, HalfSpace, WindowCoversDelay, CleanLeg
  <2> QED BY <2>1, <2>2, <2>3
<1> QED BY <1>1, <1>2, PTL DEF LegsSpec

(* Whatever scripts do to the channels, a copy of every datagram in        *)
(* transit is still to come on the clean leg, or the datagram was handed on.*)
THEOREM LegsInvariant == LegsDeployment /\ LegsSpec => []LegsInv
<1>1. LegsDeployment /\ ChainInv /\ LegsInv => LegsInv
  OBVIOUS
<1> QED BY <1>1, LegsBothInvariants, PTL

(* Seamless redundancy, for every window that covers the delay of the      *)
(* transport and every number of HARQ attempts: with one clean leg, no     *)
(* datagram is lost, whatever the other leg loses, delays or reorders.     *)
THEOREM OneLegSuffices == LegsDeployment /\ LegsSpec => NothingMissed
<1> DEFINE A == \A d \in InTransit \ InTransit' :
                  d.stream \in FrerStreams => \E f \in forwarded' : f.dgram = d
<1>1. LegsDeployment /\ ChainInv /\ LegsInv /\ [LegsNext]_legsVars => [A]_legsVars
  BY NothingMissedStep
<1> QED BY <1>1, LegsBothInvariants, PTL DEF LegsSpec, NothingMissed
=============================================================================
