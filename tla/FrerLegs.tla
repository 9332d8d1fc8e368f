------------------------------ MODULE FrerLegs ------------------------------
(***************************************************************************)
(* FrerChain in the downlink over two radio legs (transportBinding =       *)
(* "dualConnectivity"): the primary copy leaves through the first N3       *)
(* interface and is received by the UE's primary NR stack, the replica     *)
(* through the second one and by the secondary stack.  Each stack has a    *)
(* TunableNrChannelModel whose knobs a script turns at any time; NrDcMux   *)
(* joins what the stacks receive in front of the elimination point.        *)
(*                                                                         *)
(* HARQ (external: Simu5G) repeats a lost attempt one time unit later and  *)
(* gives up after MaxAttempts.  Copies are lost nowhere else, and are not  *)
(* fragmented.  The actions are those of FrerChain, restricted by the      *)
(* state that this module adds, and steps of that state alone.             *)
(***************************************************************************)
EXTENDS FrerChain, TunableNrChannel, NrDcMux

CONSTANTS
  ImpairedDirection,  \* per leg: impairedDirection of its channel model
  InheritedSinr,      \* per leg: SINR of the inherited model, from geometry
  Offsets, ExtraPers, \* values that scripts give the knobs
  MaxAttempts         \* HARQ: transmission attempts of a copy

Legs == {"primary", "secondary"}

ASSUME LegsAssumption ==
  /\ ImpairedDirection \in [Legs -> ImpairedDirections]
  /\ InheritedSinr \in [Legs -> Int]
  /\ Offsets \subseteq Nat
  /\ ExtraPers \subseteq 0 .. Certain
  /\ MaxAttempts \in 1 .. MaxDelay + 1

VARIABLES
  channel,  \* per leg: the channel model of its receiver
  harq,     \* per copy: its failed attempts and the age the next one is due
  upper     \* copies sent through upper$o of the mux, not yet handled

radioVars == <<channel, harq, upper>>
legsVars == <<sequenceCounters, sent, streams, timeoutMsg, out,
              net, produced, budget, forwarded, newest, channel, harq, upper>>

LegOf(m) == IF m.pkt.interface = ReplicaInterface THEN "secondary" ELSE "primary"

(* What FrerChain calls by datagram and copy. *)
Id(m) == [dgram |-> m.pkt.dgram, copy |-> m.copy]
Ids == [dgram : Datagrams, copy : 1 .. 2]

FirstAttempt == [failed |-> 0, due |-> 0]

OnAir == {m \in net : \A i \in DOMAIN upper : upper[i] # Id(m)}

Outcomes(m) ==
  ReceptionOutcomes(channel[LegOf(m)], "DL", InheritedSinr[LegOf(m)])

-----------------------------------------------------------------------------

LegsInit ==
  /\ ChainInit
  /\ channel = [l \in Legs |-> [impairedDirection |-> ImpairedDirection[l],
                                sinrOffset |-> 0, extraPer |-> 0]]
  /\ harq = [i \in Ids |-> FirstAttempt]
  /\ upper = <<>>

LegsSend(s, oversize, id) == Send(s, oversize, id) /\ UNCHANGED radioVars

(* The attempt succeeds: the stack of the leg passes the copy to the mux.  *)
Receive(m) ==
  /\ harq[Id(m)].due <= m.age
  /\ "RECEIVED" \in Outcomes(m)
  /\ OutGate(LegOf(m)) = "upper"
  /\ upper' = Append(upper, Id(m))
  /\ harq' = [harq EXCEPT ![Id(m)] = FirstAttempt]
  /\ UNCHANGED <<channel, chainVars>>

(* Mutated: one attempt too many. *)
RetryOnceMore(m) ==
  /\ harq[Id(m)].due <= m.age
  /\ "LOST" \in Outcomes(m)
  /\ harq[Id(m)].failed + 1 <= MaxAttempts
  /\ harq' = [harq EXCEPT ![Id(m)] = [failed |-> @.failed + 1, due |-> m.age + 1]]
  /\ UNCHANGED <<channel, upper, chainVars>>

Retry(m) ==
  /\ harq[Id(m)].due <= m.age
  /\ "LOST" \in Outcomes(m)
  /\ harq[Id(m)].failed + 1 < MaxAttempts
  /\ harq' = [harq EXCEPT ![Id(m)] = [failed |-> @.failed + 1, due |-> m.age + 1]]
  /\ UNCHANGED <<channel, upper, chainVars>>

GiveUp(m) ==
  /\ harq[Id(m)].due <= m.age
  /\ "LOST" \in Outcomes(m)
  /\ harq[Id(m)].failed + 1 = MaxAttempts
  /\ Lose(m)
  /\ harq' = [harq EXCEPT ![Id(m)] = FirstAttempt]
  /\ UNCHANGED <<channel, upper>>

(* The elimination point handles what the mux sent first. *)
Handle(m) ==
  /\ upper # <<>> /\ Head(upper) = Id(m)
  /\ DeliverAccepted(m) \/ DeliverOther(m)
  /\ upper' = Tail(upper)
  /\ UNCHANGED <<channel, harq>>

LegsExpire(s) == Expire(s) /\ UNCHANGED radioVars

(* Time moves on when nothing is under way inside the UE, and while every  *)
(* copy on air still has the time for the attempts it may need.            *)
LegsTick ==
  /\ upper = <<>>
  /\ \A m \in net : m.age + MaxAttempts - harq[Id(m)].failed <= MaxDelay
  /\ Tick
  /\ UNCHANGED radioVars

(* ScenarioManager turns the knobs of a leg. *)
Script(l, offset, per) ==
  /\ channel' = [channel EXCEPT ![l] = SetParam(@, offset, per)]
  /\ UNCHANGED <<harq, upper, chainVars>>

LegsNext ==
  \/ \E s \in AppDscps, oversize \in AppOversize, id \in AppIds : LegsSend(s, oversize, id)
  \/ \E m \in OnAir : Receive(m) \/ Retry(m) \/ GiveUp(m)
  \/ \E m \in net : Handle(m)
  \/ \E s \in StreamIds : LegsExpire(s)
  \/ LegsTick
  \/ \E l \in Legs, offset \in Offsets, per \in ExtraPers : Script(l, offset, per)

LegsSpec == LegsInit /\ [][LegsNext]_legsVars

(* The event loop goes on: transmissions and what they cause are handled,  *)
(* timers fire, time passes.  Nobody has to send or to turn a knob.        *)
LegsFairness ==
  /\ WF_legsVars(\E m \in OnAir : Receive(m) \/ Retry(m) \/ GiveUp(m))
  /\ WF_legsVars(\E m \in net : Handle(m))
  /\ WF_legsVars(\E s \in StreamIds : LegsExpire(s))
  /\ WF_legsVars(LegsTick)

LegsFairSpec == LegsSpec /\ LegsFairness

-----------------------------------------------------------------------------
(* Assumptions on a deployment under which one leg is enough.              *)

(* A leg that scripts do not impair in the downlink, and that geometry     *)
(* gives a good signal: it carries a copy of every datagram.               *)
CleanLeg(l) == /\ ImpairedDirection[l] = "UL" \/ Offsets \cup ExtraPers \subseteq {0}
               /\ InheritedSinr[l] >= SafeSnr

(* No more datagrams than the window holds follow one while it is on its way.*)
WindowCoversDelay == Pace * (MaxDelay + 1) <= WindowSize

LegsDeployment ==
  /\ Deployment
  /\ PathDiverse /\ ~FragmentMay /\ ~TrimMay
  /\ WindowCoversDelay
  /\ \E l \in Legs : CleanLeg(l)

(* Type invariant of the state that this module adds. *)
LegsTypeOK ==
  /\ channel \in [Legs -> Channel]
  /\ harq \in [Ids -> [failed : 0 .. MaxAttempts - 1, due : 0 .. MaxDelay + 1]]
  /\ upper \in Seq(Ids)

(* The leg that the copies of one member stream take. *)
MemberLeg(copy) == IF copy = 1 THEN "primary" ELSE "secondary"

CopiesOnTheirLegs ==
  \A m \in net : m.pkt.dgram.stream \in FrerStreams => LegOf(m) = MemberLeg(m.copy)

(* Scripts reach the knobs and nothing else. *)
ChannelsAsConfigured ==
  \A l \in Legs : /\ channel[l].impairedDirection = ImpairedDirection[l]
                  /\ channel[l].sinrOffset \in Offsets \cup {0}
                  /\ channel[l].extraPer \in ExtraPers \cup {0}

(* While any copy of a datagram is in transit, so is the one on the clean  *)
(* leg, unless the datagram has been handed on: whatever happens to the    *)
(* copy of the bad leg comes too early to matter or too late.              *)
CleanCopyComing ==
  \A l \in Legs, m \in net :
    CleanLeg(l) /\ m.pkt.dgram.stream \in FrerStreams =>
      \/ \E k \in net : k.pkt.dgram = m.pkt.dgram /\ MemberLeg(k.copy) = l
      \/ \E f \in forwarded : f.dgram = m.pkt.dgram

(* Beside ChainInv, the inductive invariant of the legs. *)
LegsInv == LegsTypeOK /\ CopiesOnTheirLegs /\ ChannelsAsConfigured /\ CleanCopyComing

(* Seamless redundancy: the last copy of a datagram does not leave the     *)
(* transport, lost, eliminated or refused, unless the datagram has been    *)
(* handed on.  One leg may be as bad as it likes, and its copies late.     *)
NothingMissed ==
  [][\A d \in InTransit \ InTransit' :
       d.stream \in FrerStreams => \E f \in forwarded' : f.dgram = d]_legsVars

(* Each datagram that is sent is handed on in the end: HARQ gives up or    *)
(* succeeds, the mux holds nothing back, and the copy of the clean leg,    *)
(* when it comes, is neither late for the window nor taken for a duplicate.*)
EveryDatagramHandedOn ==
  \A d \in Datagrams :
    (d.stream \in FrerStreams /\ d \in InTransit) ~> (\E f \in forwarded : f.dgram = d)
=============================================================================
