------------------------- MODULE BridgeWindowProofs -------------------------
(***************************************************************************)
(* What leaves the bridge leaves it once, and the delays it reports are    *)
(* those of what left: for any number of endpoints, frames and streams.    *)
(*                                                                         *)
(* An endpoint is sent only some of the numbers of a stream, so the window *)
(* at Here moves in leaps.  The invariant follows three things through     *)
(* them: how far the numbers in transit, and the one the window stands at, *)
(* lie behind the newest number given; which of the two copies of a frame  *)
(* each slot remembers; and that the window is neither reset nor moved     *)
(* back while the second copy of a delivered frame is on its way.          *)
(***************************************************************************)
EXTENDS TsnBridgeProofs

FrameOf(m) == m.pkt.frame.n

Delivered == {x.frame : x \in delivered}

GptpNumbers == {f.n : f \in FramesOf(GptpTypes)}

(* The DSCP of each of the two copies of a packet of stream s. *)
MemberDscp(s, copy) == IF copy = 1 THEN s ELSE ReplicaDscp

(* What the translator may still hand to the replicator in this time unit. *)
Load == Len(pending) + budget

EnteredInOrder ==
  IsFiniteSet(entered) /\ Numbers \subseteq 0 .. Cardinality(entered) - 1

(* No frame leaves the DS-TT twice. *)
DeliveredOnce ==
  IsFiniteSet(delivered) /\ \A x, y \in delivered : x.frame = y.frame => x = y

(* Whether a frame is gPTP can be told from its number. *)
KindTold(f) == f.kind \in GptpTypes <=> f.n \in GptpNumbers

KindsTold ==
  /\ \A i \in DOMAIN pending : KindTold(pending[i].frame)
  /\ \A m \in net : KindTold(m.pkt.frame)

(* The replicator makes the copies of a frame for Here in one step: before *)
(* it there are none.                                                      *)
PendingIsNew ==
  /\ \A i, j \in DOMAIN pending : pending[i].dest = Here /\ pending[j].dest = Here => i = j
  /\ \A i \in DOMAIN pending : pending[i].dest = Here =>
       /\ pending[i].frame.n \notin Delivered
       /\ \A m \in net : FrameOf(m) # pending[i].frame.n

(* What a copy in transit says about its number, its stream and itself. *)
CopyTells(m) ==
  IF m.n = None
  THEN ~IsFrer(m.pkt) /\ m.copy = 1
  ELSE /\ m.stream \in FrerStreams
       /\ m.copy \in 1 .. 2
       /\ m.pkt.rtag = [streamId |-> m.stream, sequenceNumber |-> m.n % SeqSpace]
       /\ m.pkt.dscp = MemberDscp(m.stream, m.copy)

(* Two copies in transit are of one frame exactly if they have one number. *)
CopiesApart ==
  \A k, m \in net :
    /\ FrameOf(k) = FrameOf(m) =>
         k.stream = m.stream /\ k.n = m.n /\ (k.copy = m.copy => k = m)
    /\ k.stream = m.stream /\ k.n = m.n /\ k.n # None => FrameOf(k) = FrameOf(m)

(* The counter of a stream has counted its packets, modulo its width. *)
NumbersInStep ==
  \A s \in FrerStreams : sequenceCounters[s] = numbered[s] % SeqSpace

(* A number in transit is not far behind the newest one given. *)
NetInStep ==
  \A m \in net : m.n # None =>
    /\ m.n < numbered[m.stream]
    /\ numbered[m.stream] - 1 - m.n + Load < Pace * (m.age + 1)

(* Nor is the one an active window stands at. *)
WindowsInStep ==
  \A s \in StreamIds :
    IF streams[s].active
    THEN /\ s \in FrerStreams
         /\ newest[s] \in 0 .. numbered[s] - 1
         /\ streams[s].highestSeqSeen = newest[s] % SeqSpace
         /\ numbered[s] - 1 - newest[s] + Load
              < Pace * (MaxDelay + 1 + WindowTimeout - timeoutMsg[s])
    ELSE newest[s] = None

(* The second copy of a delivered frame finds the window that let the      *)
(* first one through.                                                      *)
DeliveredGuarded ==
  \A m \in net : FrameOf(m) \in Delivered =>
    /\ m.n # None
    /\ streams[m.stream].active
    /\ m.n <= newest[m.stream]
    /\ MaxDelay - m.age < timeoutMsg[m.stream]

(* And the slot of its number tells that it was the other copy. *)
SlotsTellDelivered ==
  \A m \in net :
    m.n # None /\ streams[m.stream].active /\ m.n <= newest[m.stream] =>
      streams[m.stream].accepted[Slot(m.n)] =
        IF FrameOf(m) \in Delivered THEN MemberDscp(m.stream, 3 - m.copy) ELSE NotSeen

(* The figures of the application function against the deliveries. *)
FiguresInStep ==
  /\ delaySum \in Nat /\ delayMin \in Nat
  /\ delaySamples = Cardinality(Measured)
  /\ Measured = {} => delayMin = SimtimeMax /\ delayMax = 0
  /\ Measured # {} => /\ \E x \in Measured : x.residence = delayMin
                      /\ \E x \in Measured : x.residence = delayMax
  /\ \A x \in Measured : delayMin <= x.residence /\ x.residence <= delayMax
  /\ delaySamples * delayMin <= delaySum /\ delaySum <= delaySamples * delayMax
  /\ delaySamples > 0 => bridgeDelayAvg = delaySum \div delaySamples
  /\ \A sr \in StreamReservations :
       sr.streamId \in qosViolations => sr.maxLatencyMs > 0 /\ delayMax * MsPerUnit > sr.maxLatencyMs

FramesInv == EnteredInOrder /\ DeliveredOnce /\ KindsTold /\ PendingIsNew

CopiesInv == (\A m \in net : CopyTells(m)) /\ CopiesApart

WindowInv ==
  /\ Load <= Pace /\ NumbersInStep /\ NetInStep
  /\ WindowsInStep /\ DeliveredGuarded /\ SlotsTellDelivered

(* The inductive invariant. *)
DeliveryInv == BridgeInv /\ FramesInv /\ CopiesInv /\ WindowInv /\ FiguresInStep

-----------------------------------------------------------------------------
(* What BridgeInv says of a copy in transit and of a stream. *)
LEMMA NetTypes ==
  ASSUME BridgeInv, NEW m \in net
  PROVE  /\ m.pkt \in NetPackets(Numbers) /\ m.pkt.dest = Here
         /\ m.copy \in Nat /\ m.age \in 0 .. MaxDelay
         /\ m.stream \in Dscps /\ m.stream \in StreamIds /\ m.n \in Nat \cup {None}
         /\ m.pkt.frame \in GptpFrames(Numbers) \cup DataFrames(Numbers)
         /\ FrameOf(m) \in Numbers
         /\ Readable(m.pkt) /\ m.pkt.fragment = FALSE /\ PortTells(m.pkt)
<1>1. m \in CopiesHere(Numbers)
  BY DEF BridgeInv
<1>2. m.pkt \in NetPackets(Numbers)
  BY <1>1 DEF CopiesHere
<1>3. m.pkt.frame \in GptpFrames(Numbers) \cup DataFrames(Numbers) /\ m.pkt.fragment = FALSE
      /\ PortTells(m.pkt)
  BY <1>2 DEF NetPackets
<1>4. FrameOf(m) \in Numbers
  BY <1>3 DEF FrameOf, GptpFrames, DataFrames
<1>5. Readable(m.pkt)
  BY <1>2, NetReadable
<1>6. /\ m.pkt.dest = Here /\ m.copy \in Nat /\ m.age \in 0 .. MaxDelay
      /\ m.stream \in Dscps /\ m.n \in Nat \cup {None}
  BY <1>1 DEF CopiesHere
<1> QED BY <1>2, <1>3, <1>4, <1>5, <1>6 DEF StreamIds

LEMMA BridgeStreams ==
  ASSUME BridgeInv
  PROVE  /\ \A s \in StreamIds : /\ streams[s] \in StreamState
                                 /\ streams[s].active => timeoutMsg[s] \in 0 .. WindowTimeout
                                 /\ newest[s] \in Nat \cup {None}
         /\ \A s \in FrerStreams : numbered[s] \in Nat /\ s \in StreamIds
         /\ Delivered \subseteq Numbers
         /\ budget \in 0 .. Pace /\ Len(pending) \in Nat /\ Load \in Nat
<1>1. FrerStreams \subseteq StreamIds
  BY DscpAssumption DEF StreamIds
<1>2. \A s \in StreamIds : /\ streams[s] \in StreamState
                           /\ streams[s].active => timeoutMsg[s] \in 0 .. WindowTimeout
                           /\ newest[s] \in Nat \cup {None}
  BY DEF BridgeInv, RecoveryInv, RecoveryTypeOK, ActiveIffArmed
<1>3. Delivered \subseteq Numbers
  BY DEF BridgeInv, Delivered
<1>4. Len(pending) \in Nat /\ budget \in 0 .. Pace
  BY DEF BridgeInv
<1>5. Load \in Nat
  BY <1>4, BridgeAssumption DEF Load
<1> QED BY <1>1, <1>2, <1>3, <1>4, <1>5 DEF BridgeInv

LEMMA BoundsAreNumbers ==
  /\ Pace \in Nat /\ MaxDelay \in Nat /\ WindowTimeout \in Nat \ {0}
  /\ WindowSize \in Nat \ {0} /\ HalfSpace \in Nat
BY BridgeAssumption, TimeoutAssumption, WindowAssumption, Halves

LEMMA MeasuredByNumber == Measured = {x \in delivered : x.frame \in GptpNumbers}
BY DEF Measured, GptpNumbers

(* The two copies of a packet are told apart by their DSCP. *)
LEMMA MembersApart ==
  ASSUME BridgeTiming, NEW s \in FrerStreams
  PROVE  \A c \in 1 .. 2 : /\ MemberDscp(s, c) \in FrerStreams \cup {ReplicaDscp}
                           /\ MemberDscp(s, c) \in Nat
                           /\ 3 - c \in 1 .. 2
                           /\ MemberDscp(s, 3 - c) # MemberDscp(s, c)
<1>1. s # ReplicaDscp /\ s \in Nat /\ ReplicaDscp \in Nat
  BY DscpAssumption DEF BridgeTiming
<1>2. MemberDscp(s, 1) = s /\ MemberDscp(s, 2) = ReplicaDscp
  BY DEF MemberDscp
<1>3. \A c \in 1 .. 2 : (c = 1 \/ c = 2) /\ 3 - 1 = 2 /\ 3 - 2 = 1
  OBVIOUS
<1> QED BY <1>1, <1>2, <1>3

(* What the elimination point reads from a copy with a number. *)
LEMMA NumberRead ==
  ASSUME BridgeTiming, BridgeInv, NEW m \in net, CopyTells(m), m.n # None
  PROVE  /\ StreamOf(m.pkt) = m.stream
         /\ SeqNum(m.pkt) = m.n % SeqSpace
         /\ m.pkt.dscp = MemberDscp(m.stream, m.copy)
         /\ IsFrer(m.pkt)
         /\ m.stream \in FrerStreams /\ m.copy \in 1 .. 2 /\ m.n \in Nat
<1>1. m.pkt.rtag.streamId = m.stream /\ m.pkt.rtag.sequenceNumber = m.n % SeqSpace
  BY DEF CopyTells
<1>2. m.stream \in FrerStreams /\ m.copy \in 1 .. 2 /\ m.n \in Nat
  BY NetTypes DEF CopyTells
<1>3. NoTag.streamId = -1 /\ m.stream \in Nat
  BY <1>2, DscpAssumption DEF NoTag
<1>4. RTagFound(m.pkt)
  <2>1. m.pkt.rtag # NoTag
    BY <1>1, <1>3
  <2>2. m.pkt.fragment = FALSE
    BY NetTypes
  <2> QED BY <2>1, <2>2 DEF RTagFound
<1>5. m.pkt.dscp = MemberDscp(m.stream, m.copy) /\ IsFrer(m.pkt)
  BY <1>2, MembersApart DEF CopyTells, IsFrer
<1> QED BY <1>1, <1>2, <1>4, <1>5 DEF StreamOf, SeqNum

(* How far a copy in transit and the window of its stream can be apart. *)
LEMMA NumberDistance ==
  ASSUME BridgeTiming, BridgeInv, WindowInv, NEW m \in net, m.n # None,
         NEW s, s = m.stream, s \in FrerStreams, streams[s].active
  PROVE  /\ m.n \in Nat /\ newest[s] \in Nat
         /\ StandsAt(streams[s], newest[s])
         /\ m.n - newest[s] < HalfSpace /\ newest[s] - m.n < HalfSpace
         /\ newest[s] - m.n < WindowSize
<1> DEFINE n == m.n
           h == newest[s]
           P == numbered[s]
           B == Load
           T == timeoutMsg[s]
           a == m.age
<1>1. n \in Nat /\ a \in 0 .. MaxDelay /\ P \in Nat /\ B \in Nat /\ s \in StreamIds
  BY NetTypes, BridgeStreams
<1>2. T \in 0 .. WindowTimeout
  BY <1>1, BridgeStreams
<1>3. n < P /\ P - 1 - n + B < Pace * (a + 1)
  BY DEF WindowInv, NetInStep
<1>4. /\ h \in 0 .. P - 1
      /\ streams[s].highestSeqSeen = h % SeqSpace
      /\ P - 1 - h + B < Pace * (MaxDelay + 1 + WindowTimeout - T)
  BY <1>1 DEF WindowInv, WindowsInStep
<1>5. /\ Pace * (MaxDelay + WindowTimeout + 1) <= HalfSpace
      /\ Pace * (MaxDelay + 1) <= WindowSize
  BY DEF BridgeTiming
<1>6. streams[s].active
  OBVIOUS
<1> HIDE DEF n, h, P, B, T, a
<1>7. /\ Pace * (a + 1) <= Pace * (MaxDelay + 1)
      /\ Pace * (MaxDelay + 1) <= Pace * (MaxDelay + WindowTimeout + 1)
  BY <1>1, BoundsAreNumbers
<1>8. Pace * (MaxDelay + 1 + WindowTimeout - T) <= Pace * (MaxDelay + WindowTimeout + 1)
  BY <1>2, BoundsAreNumbers
<1>9. n - h < HalfSpace /\ h - n < HalfSpace /\ h - n < WindowSize
  <2> DEFINE x == Pace * (a + 1)
             y == Pace * (MaxDelay + 1 + WindowTimeout - T)
             z == Pace * (MaxDelay + WindowTimeout + 1)
             w == Pace * (MaxDelay + 1)
  <2>1. x \in Int /\ y \in Int /\ z \in Int /\ w \in Int
    BY <1>1, <1>2, BoundsAreNumbers
  <2>2. /\ P - 1 - n + B < x /\ P - 1 - h + B < y /\ x <= w /\ w <= z /\ y <= z
        /\ z <= HalfSpace /\ w <= WindowSize
    BY <1>3, <1>4, <1>5, <1>7, <1>8
  <2> HIDE DEF x, y, z, w
  <2> QED BY <2>1, <2>2, <1>1, <1>3, <1>4, BoundsAreNumbers
<1> QED BY <1>1, <1>4, <1>6, <1>9 DEF StandsAt, n, h

(* A copy is dropped only if its frame was delivered, *)
LEMMA DroppedWasDelivered ==
  ASSUME BridgeTiming, DeliveryInv, NEW m \in net, Drop(m.pkt)
  PROVE  FrameOf(m) \in Delivered
<1> SUFFICES ASSUME FrameOf(m) \notin Delivered PROVE FALSE
  OBVIOUS
<1> DEFINE s == m.stream
           n == m.n
           h == newest[s]
           w == streams[s]
           q == n % SeqSpace
<1>1. BridgeInv /\ CopyTells(m) /\ WindowInv
  BY DEF DeliveryInv, CopiesInv
<1>2. n # None
  BY <1>1 DEF Drop, CopyTells
<1>3. /\ StreamOf(m.pkt) = s /\ SeqNum(m.pkt) = q /\ s \in FrerStreams /\ n \in Nat
      /\ s \in StreamIds
  BY <1>1, <1>2, NumberRead, NetTypes
<1>4. ~Accepts(w, q, m.pkt.dscp)
  BY <1>3 DEF Drop, VerdictOn, Verdict
<1>5. w.active
  BY <1>4 DEF Accepts, Advances
<1>6. /\ h \in Nat /\ StandsAt(w, h)
      /\ n - h < HalfSpace /\ h - n < HalfSpace /\ h - n < WindowSize
  BY <1>1, <1>2, <1>3, <1>5, NumberDistance
<1>7. /\ Diff(w, q) = n - h
      /\ Advances(w, q) <=> n > h
      /\ Overruns(w, q) <=> n + WindowSize <= h
  BY <1>3, <1>6, UnwrappedVerdict
<1>8. n <= h /\ ~Overruns(w, q)
  BY <1>3, <1>4, <1>6, <1>7, WindowAssumption DEF Accepts
<1>9. Slot(q) = Slot(n) /\ w.accepted[Slot(n)] = NotSeen
  <2>1. Slot(q) = Slot(n)
    BY <1>3, SlotOfNumber DEF BridgeTiming
  <2>2. w.accepted[Slot(n)] = NotSeen
    BY <1>1, <1>2, <1>5, <1>8 DEF WindowInv, SlotsTellDelivered
  <2> QED BY <2>1, <2>2
<1>10. n = h
  BY <1>3, <1>4, <1>6, <1>7, <1>8, <1>9 DEF Accepts
<1>11. w.accepted[Slot(w.highestSeqSeen)] # NotSeen
  BY <1>1, <1>3, <1>5 DEF BridgeInv, RecoveryInv, NewestSlotTaken
<1>12. w.highestSeqSeen = q
  BY <1>6, <1>10 DEF StandsAt
<1> QED BY <1>9, <1>11, <1>12

(* and accepted only if it was not. *)
LEMMA AcceptedWasNew ==
  ASSUME BridgeTiming, DeliveryInv, NEW m \in net, Accept(m.pkt)
  PROVE  FrameOf(m) \notin Delivered
<1> SUFFICES ASSUME FrameOf(m) \in Delivered PROVE FALSE
  OBVIOUS
<1> DEFINE s == m.stream
           n == m.n
           h == newest[s]
           w == streams[s]
           q == n % SeqSpace
<1>1. BridgeInv /\ CopyTells(m) /\ WindowInv
  BY DEF DeliveryInv, CopiesInv
<1>2. n # None /\ w.active /\ n <= h
  BY <1>1 DEF WindowInv, DeliveredGuarded
<1>3. /\ StreamOf(m.pkt) = s /\ SeqNum(m.pkt) = q /\ s \in FrerStreams /\ n \in Nat
      /\ m.copy \in 1 .. 2 /\ m.pkt.dscp = MemberDscp(s, m.copy)
  BY <1>1, <1>2, NumberRead
<1>4. Accepts(w, q, m.pkt.dscp)
  BY <1>3 DEF Accept, VerdictOn, Verdict
<1>5. h \in Nat /\ StandsAt(w, h) /\ n - h < HalfSpace /\ h - n < HalfSpace
  BY <1>1, <1>2, <1>3, NumberDistance
<1>6. ~Advances(w, q)
  BY <1>2, <1>3, <1>5, UnwrappedVerdict
<1>7. w.accepted[Slot(n)] = MemberDscp(s, 3 - m.copy)
  BY <1>1, <1>2 DEF WindowInv, SlotsTellDelivered
<1>8. Slot(q) = Slot(n)
  BY <1>3, SlotOfNumber DEF BridgeTiming
<1>9. MemberDscp(s, 3 - m.copy) \in {m.pkt.dscp, NotSeen}
  BY <1>4, <1>6, <1>7, <1>8 DEF Accepts
<1>10. MemberDscp(s, 3 - m.copy) # m.pkt.dscp /\ MemberDscp(s, 3 - m.copy) \in Nat
  BY <1>3, MembersApart
<1> QED BY <1>9, <1>10 DEF NotSeen

-----------------------------------------------------------------------------
(* Nothing but copies in transit disappears. *)
LEMMA QuietStep ==
  ASSUME DeliveryInv, net' \subseteq net,
         UNCHANGED <<entered, pending, budget, delivered, afVars, sequenceCounters,
                     numbered, newest, streams, timeoutMsg>>
  PROVE  FramesInv' /\ CopiesInv' /\ WindowInv' /\ FiguresInStep'
<1>1. /\ Delivered' = Delivered /\ GptpNumbers' = GptpNumbers /\ Numbers' = Numbers
      /\ Load' = Load
  BY DEF Delivered, GptpNumbers, FramesOf, Numbers, Load
<1>2. Measured' = Measured
  BY DEF Measured, FramesOf
<1>3. EnteredInOrder' /\ DeliveredOnce'
  BY <1>1 DEF DeliveryInv, FramesInv, EnteredInOrder, DeliveredOnce
<1>4. KindsTold'
  BY <1>1 DEF DeliveryInv, FramesInv, KindsTold, KindTold
<1>5. PendingIsNew'
  BY <1>1 DEF DeliveryInv, FramesInv, PendingIsNew, FrameOf
<1>6. CopiesInv'
  BY DEF DeliveryInv, CopiesInv, CopyTells, CopiesApart, FrameOf, IsFrer, MemberDscp
<1>7. Load' <= Pace /\ NumbersInStep' /\ NetInStep' /\ WindowsInStep'
  BY <1>1 DEF DeliveryInv, WindowInv, NumbersInStep, NetInStep, WindowsInStep
<1>8. DeliveredGuarded' /\ SlotsTellDelivered'
  BY <1>1 DEF DeliveryInv, WindowInv, DeliveredGuarded, SlotsTellDelivered, FrameOf, Slot,
              MemberDscp
<1>9. FiguresInStep'
  BY <1>2 DEF DeliveryInv, FiguresInStep, afVars
<1> QED BY <1>3, <1>4, <1>5, <1>6, <1>7, <1>8, <1>9 DEF FramesInv, WindowInv

(* Copies are lost, eliminated, and frames pass by on the sideband. *)
LEMMA LoseDelivery ==
  ASSUME DeliveryInv, NEW m \in net, Lose(m)
  PROVE  FramesInv' /\ CopiesInv' /\ WindowInv' /\ FiguresInStep'
<1>1. net' \subseteq net
  BY DEF Lose
<1> QED BY <1>1, QuietStep DEF Lose, historyVars

LEMMA EliminateDelivery ==
  ASSUME DeliveryInv, NEW m \in net, Eliminate(m)
  PROVE  FramesInv' /\ CopiesInv' /\ WindowInv' /\ FiguresInStep'
<1>1. net' \subseteq net
  BY DEF Eliminate
<1>2. UNCHANGED <<streams, timeoutMsg>>
  BY NetTypes, DropStep DEF DeliveryInv, BridgeInv, Eliminate
<1> QED BY <1>1, <1>2, QuietStep DEF Eliminate, nwttVars

LEMMA SidebandDelivery ==
  ASSUME DeliveryInv, NEW b \in sideband, ForwardFromSideband(b)
  PROVE  FramesInv' /\ CopiesInv' /\ WindowInv' /\ FiguresInStep'
<1>1. net' \subseteq net
  BY DEF ForwardFromSideband
<1> QED BY <1>1, QuietStep DEF ForwardFromSideband, nwttVars

(* A window is forgotten only when no copy of a delivered frame is left. *)
LEMMA ForgetDelivery ==
  ASSUME BridgeTiming, DeliveryInv, NEW s \in StreamIds, Forget(s)
  PROVE  FramesInv' /\ CopiesInv' /\ WindowInv' /\ FiguresInStep'
<1>1. /\ timeoutMsg[s] = 0
      /\ streams' = [streams EXCEPT ![s] = ResetStream(@)]
      /\ timeoutMsg' = [timeoutMsg EXCEPT ![s] = Unscheduled]
      /\ newest' = [newest EXCEPT ![s] = None]
      /\ UNCHANGED <<entered, pending, budget, delivered, afVars, sequenceCounters, numbered, net>>
  BY DEF Forget, HandleTimeout, nwttVars
<1>2. /\ Delivered' = Delivered /\ GptpNumbers' = GptpNumbers /\ Numbers' = Numbers
      /\ Load' = Load
  BY <1>1 DEF Delivered, GptpNumbers, FramesOf, Numbers, Load
<1>3. Measured' = Measured
  BY <1>1 DEF Measured, FramesOf
<1>4. /\ BridgeInv
      /\ streams \in [StreamIds -> StreamState]
      /\ timeoutMsg \in [StreamIds -> 0 .. WindowTimeout \cup {Unscheduled}]
      /\ newest \in [StreamIds -> Nat \cup {None}]
  BY DEF DeliveryInv, BridgeInv, RecoveryInv, RecoveryTypeOK
<1>5. /\ ~streams'[s].active /\ newest'[s] = None
      /\ \A r \in StreamIds \ {s} : /\ streams'[r] = streams[r]
                                    /\ timeoutMsg'[r] = timeoutMsg[r]
                                    /\ newest'[r] = newest[r]
  BY <1>1, <1>4, ResetState
<1>6. FramesInv'
  <2>1. EnteredInOrder' /\ DeliveredOnce'
    BY <1>1, <1>2 DEF DeliveryInv, FramesInv, EnteredInOrder, DeliveredOnce
  <2>2. KindsTold' /\ PendingIsNew'
    BY <1>1, <1>2 DEF DeliveryInv, FramesInv, KindsTold, KindTold, PendingIsNew, FrameOf
  <2> QED BY <2>1, <2>2 DEF FramesInv
<1>7. CopiesInv'
  BY <1>1 DEF DeliveryInv, CopiesInv, CopyTells, CopiesApart, FrameOf, IsFrer, MemberDscp
<1>8. Load' <= Pace /\ NumbersInStep' /\ NetInStep'
  BY <1>1, <1>2 DEF DeliveryInv, WindowInv, NumbersInStep, NetInStep
<1>9. WindowsInStep'
  BY <1>1, <1>2, <1>5 DEF DeliveryInv, WindowInv, WindowsInStep
<1>10. DeliveredGuarded'
  <2> SUFFICES ASSUME NEW m \in net, FrameOf(m) \in Delivered
               PROVE  /\ m.n # None
                      /\ streams'[m.stream].active
                      /\ m.n <= newest'[m.stream]
                      /\ MaxDelay - m.age < timeoutMsg'[m.stream]
    BY <1>1, <1>2 DEF DeliveredGuarded, FrameOf
  <2>1. /\ m.n # None /\ streams[m.stream].active /\ m.n <= newest[m.stream]
        /\ MaxDelay - m.age < timeoutMsg[m.stream]
    BY DEF DeliveryInv, WindowInv, DeliveredGuarded
  <2>2. m.stream \in StreamIds /\ m.age \in 0 .. MaxDelay
    BY <1>4, NetTypes
  <2>3. m.stream # s
    BY <1>1, <2>1, <2>2, BoundsAreNumbers
  <2> QED BY <1>5, <2>1, <2>2, <2>3
<1>11. SlotsTellDelivered'
  <2> SUFFICES ASSUME NEW m \in net, m.n # None, streams'[m.stream].active,
                      m.n <= newest'[m.stream]
               PROVE  streams'[m.stream].accepted[Slot(m.n)] =
                        IF FrameOf(m) \in Delivered THEN MemberDscp(m.stream, 3 - m.copy)
                        ELSE NotSeen
    BY <1>1, <1>2 DEF SlotsTellDelivered, FrameOf, Slot, MemberDscp
  <2>1. m.stream \in StreamIds \ {s}
    BY <1>4, <1>5, NetTypes
  <2> QED BY <1>5, <2>1 DEF DeliveryInv, WindowInv, SlotsTellDelivered
<1>12. FiguresInStep'
  BY <1>1, <1>3 DEF DeliveryInv, FiguresInStep, afVars
<1> QED BY <1>6, <1>7, <1>8, <1>9, <1>10, <1>11, <1>12 DEF WindowInv

(* A unit of time makes every copy older and every timer shorter by one,   *)
(* and lets the translator send as many packets more as the bounds allow.  *)
LEMMA TickDelivery ==
  ASSUME DeliveryInv, Tick
  PROVE  FramesInv' /\ CopiesInv' /\ WindowInv' /\ FiguresInStep'
<1>1. /\ pending = <<>> /\ budget' = Pace
      /\ \A s \in StreamIds : timeoutMsg[s] # 0
      /\ timeoutMsg' = [s \in StreamIds |-> IF timeoutMsg[s] = Unscheduled THEN Unscheduled
                                           ELSE timeoutMsg[s] - 1]
      /\ UNCHANGED <<entered, pending, delivered, afVars, sequenceCounters, numbered,
                     newest, streams>>
  BY DEF Tick, TimersRun, historyVars
<1>2. /\ Delivered' = Delivered /\ GptpNumbers' = GptpNumbers /\ Numbers' = Numbers
  BY <1>1 DEF Delivered, GptpNumbers, FramesOf, Numbers
<1>3. Measured' = Measured
  BY <1>1 DEF Measured, FramesOf
<1>4. BridgeInv
  BY DEF DeliveryInv
<1>5. Load' = Pace /\ Load = budget /\ budget \in Nat
  BY <1>1, <1>4, BridgeStreams, BoundsAreNumbers DEF Load
<1>6. ASSUME NEW k \in net'
      PROVE  \E m \in net : /\ k = [m EXCEPT !.age = @ + 1]
                            /\ k.pkt = m.pkt /\ k.copy = m.copy /\ k.stream = m.stream
                            /\ k.n = m.n /\ k.age = m.age + 1
  <2>1. PICK m \in net : k = [m EXCEPT !.age = @ + 1]
    BY DEF Tick
  <2>2. m \in CopiesHere(Numbers)
    BY <1>4 DEF BridgeInv
  <2> QED BY <2>1, <2>2 DEF CopiesHere
<1>7. FramesInv'
  <2>1. EnteredInOrder' /\ DeliveredOnce'
    BY <1>1, <1>2 DEF DeliveryInv, FramesInv, EnteredInOrder, DeliveredOnce
  <2>2. KindsTold' /\ PendingIsNew'
    BY <1>1, <1>2, <1>6 DEF DeliveryInv, FramesInv, KindsTold, KindTold, PendingIsNew, FrameOf
  <2> QED BY <2>1, <2>2 DEF FramesInv
<1>8. CopiesInv'
  <2>1. \A k \in net' : CopyTells(k)
    BY <1>6 DEF DeliveryInv, CopiesInv, CopyTells, IsFrer
  <2>2. CopiesApart'
    <3> SUFFICES ASSUME NEW k \in net', NEW m \in net'
                 PROVE  /\ FrameOf(k) = FrameOf(m) =>
                             k.stream = m.stream /\ k.n = m.n /\ (k.copy = m.copy => k = m)
                        /\ k.stream = m.stream /\ k.n = m.n /\ k.n # None
                             => FrameOf(k) = FrameOf(m)
      BY DEF CopiesApart, FrameOf
    <3>1. PICK a \in net : /\ k = [a EXCEPT !.age = @ + 1]
                           /\ k.pkt = a.pkt /\ k.copy = a.copy /\ k.stream = a.stream
                           /\ k.n = a.n
      BY <1>6
    <3>2. PICK b \in net : /\ m = [b EXCEPT !.age = @ + 1]
                           /\ m.pkt = b.pkt /\ m.copy = b.copy /\ m.stream = b.stream
                           /\ m.n = b.n
      BY <1>6
    <3>3. /\ FrameOf(a) = FrameOf(b) =>
               a.stream = b.stream /\ a.n = b.n /\ (a.copy = b.copy => a = b)
          /\ a.stream = b.stream /\ a.n = b.n /\ a.n # None => FrameOf(a) = FrameOf(b)
      BY DEF DeliveryInv, CopiesInv, CopiesApart
    <3>4. FrameOf(k) = FrameOf(a) /\ FrameOf(m) = FrameOf(b)
      BY <3>1, <3>2 DEF FrameOf
    <3>5. a = b => k = m
      BY <3>1, <3>2
    <3> QED BY <3>1, <3>2, <3>3, <3>4, <3>5
  <2> QED BY <2>1, <2>2 DEF CopiesInv, CopyTells, IsFrer, MemberDscp
<1>9. Load' <= Pace /\ NumbersInStep'
  BY <1>1, <1>5, BoundsAreNumbers DEF DeliveryInv, WindowInv, NumbersInStep
<1>10. NetInStep'
  <2> SUFFICES ASSUME NEW k \in net', k.n # None
               PROVE  /\ k.n < numbered[k.stream]
                      /\ numbered[k.stream] - 1 - k.n + Pace < Pace * (k.age + 1)
    BY <1>1, <1>5 DEF NetInStep
  <2>1. PICK m \in net : k.stream = m.stream /\ k.n = m.n /\ k.age = m.age + 1
    BY <1>6
  <2> DEFINE P == numbered[m.stream]
             n == m.n
             a == m.age
  <2>2. n < P /\ P - 1 - n + budget < Pace * (a + 1)
    BY <1>5, <2>1 DEF DeliveryInv, WindowInv, NetInStep
  <2>3. n \in Nat /\ a \in Nat /\ P \in Nat
    <3>1. m.stream \in FrerStreams
      BY <2>1 DEF DeliveryInv, CopiesInv, CopyTells
    <3>2. m.n \in Nat /\ m.age \in 0 .. MaxDelay
      BY <1>4, <2>1, NetTypes
    <3>3. numbered[m.stream] \in Nat
      BY <1>4, <3>1, BridgeStreams
    <3> QED BY <3>2, <3>3
  <2> HIDE DEF P, n, a
  <2>4. P - 1 - n + Pace < Pace * (a + 1 + 1)
    <3>1. Pace * (a + 1 + 1) = Pace * (a + 1) + Pace /\ Pace * (a + 1) \in Int
      BY <2>3, BoundsAreNumbers
    <3> DEFINE x == Pace * (a + 1)
    <3> HIDE DEF x
    <3>2. x \in Int /\ P - 1 - n + budget < x => P - 1 - n + Pace < x + Pace
      BY <1>5, <2>3, BoundsAreNumbers
    <3> QED BY <2>2, <3>1, <3>2 DEF x
  <2> QED BY <2>1, <2>2, <2>4 DEF P, n, a
<1>11. WindowsInStep'
  <2> SUFFICES ASSUME NEW s \in StreamIds, streams[s].active
               PROVE  numbered[s] - 1 - newest[s] + Pace
                        < Pace * (MaxDelay + 1 + WindowTimeout - timeoutMsg'[s])
    BY <1>1, <1>5 DEF DeliveryInv, WindowInv, WindowsInStep
  <2> DEFINE P == numbered[s]
             h == newest[s]
             T == timeoutMsg[s]
             a == MaxDelay + 1 + WindowTimeout - T
  <2>1. s \in FrerStreams /\ h \in 0 .. P - 1 /\ P - 1 - h + budget < Pace * a
    BY <1>5 DEF DeliveryInv, WindowInv, WindowsInStep
  <2>2. T \in 0 .. WindowTimeout /\ T # 0
    BY <1>1, <1>4, BridgeStreams
  <2>3. P \in Nat
    BY <1>4, <2>1, BridgeStreams
  <2>4. timeoutMsg'[s] = T - 1
    BY <1>1, <2>2 DEF Unscheduled
  <2>5. a \in Nat /\ MaxDelay + 1 + WindowTimeout - (T - 1) = a + 1
    BY <2>2, BoundsAreNumbers
  <2> HIDE DEF P, h, T, a
  <2>6. P - 1 - h + Pace < Pace * (a + 1)
    <3>1. Pace * (a + 1) = Pace * a + Pace /\ Pace * a \in Int
      BY <2>5, BoundsAreNumbers
    <3> DEFINE x == Pace * a
    <3> HIDE DEF x
    <3>2. x \in Int /\ P - 1 - h + budget < x => P - 1 - h + Pace < x + Pace
      BY <1>5, <2>1, <2>3, BoundsAreNumbers
    <3> QED BY <2>1, <3>1, <3>2 DEF x
  <2> QED BY <2>4, <2>5, <2>6 DEF P, h
<1>12. DeliveredGuarded'
  <2> SUFFICES ASSUME NEW k \in net', FrameOf(k) \in Delivered
               PROVE  /\ k.n # None /\ streams[k.stream].active /\ k.n <= newest[k.stream]
                      /\ MaxDelay - k.age < timeoutMsg'[k.stream]
    BY <1>1, <1>2 DEF DeliveredGuarded, FrameOf
  <2>1. PICK m \in net : /\ k.pkt = m.pkt /\ k.stream = m.stream /\ k.n = m.n
                         /\ k.age = m.age + 1
    BY <1>6
  <2>2. /\ m.n # None /\ streams[m.stream].active /\ m.n <= newest[m.stream]
        /\ MaxDelay - m.age < timeoutMsg[m.stream]
    BY <2>1 DEF DeliveryInv, WindowInv, DeliveredGuarded, FrameOf
  <2>3. m.stream \in StreamIds /\ m.age \in Nat
    <3>1. m.stream \in StreamIds /\ m.age \in 0 .. MaxDelay
      BY <1>4, NetTypes
    <3> QED BY <3>1
  <2>4. timeoutMsg[m.stream] \in 0 .. WindowTimeout
    BY <1>4, <2>2, <2>3, BridgeStreams
  <2>5. timeoutMsg'[m.stream] = timeoutMsg[m.stream] - 1
    BY <1>1, <2>3, <2>4 DEF Unscheduled
  <2> QED BY <2>1, <2>2, <2>3, <2>4, <2>5, BoundsAreNumbers
<1>13. SlotsTellDelivered'
  <2> SUFFICES ASSUME NEW k \in net', k.n # None, streams[k.stream].active,
                      k.n <= newest[k.stream]
               PROVE  streams[k.stream].accepted[Slot(k.n)] =
                        IF FrameOf(k) \in Delivered THEN MemberDscp(k.stream, 3 - k.copy)
                        ELSE NotSeen
    BY <1>1, <1>2 DEF SlotsTellDelivered, FrameOf, Slot, MemberDscp
  <2>1. PICK m \in net : k.pkt = m.pkt /\ k.copy = m.copy /\ k.stream = m.stream /\ k.n = m.n
    BY <1>6
  <2> QED BY <2>1 DEF DeliveryInv, WindowInv, SlotsTellDelivered, FrameOf
<1>14. FiguresInStep'
  BY <1>1, <1>3 DEF DeliveryInv, FiguresInStep, afVars
<1> QED BY <1>7, <1>8, <1>9, <1>10, <1>11, <1>12, <1>13, <1>14 DEF WindowInv

-----------------------------------------------------------------------------
(* A frame that comes in is numbered as no frame before it, and makes at   *)
(* most as many packets as the translator may still send.                  *)
LEMMA EnterDelivery ==
  ASSUME DeliveryInv, NEW f, Enter(f), f.n = Cardinality(entered),
         Load' \in Int, Load' <= Load,
         \A i \in DOMAIN pending' : /\ pending'[i].frame.n = f.n
                                    /\ pending'[i].frame.kind = f.kind,
         \A i, j \in DOMAIN pending' : pending'[i].dest = pending'[j].dest => i = j
  PROVE  FramesInv' /\ CopiesInv' /\ WindowInv' /\ FiguresInStep'
<1>1. /\ entered' = entered \cup {f}
      /\ UNCHANGED <<delivered, afVars, sequenceCounters, numbered, newest,
                     streams, timeoutMsg, net>>
  BY DEF Enter, historyVars
<1>2. BridgeInv
  BY DEF DeliveryInv
<1>3. /\ IsFiniteSet(entered) /\ Cardinality(entered) \in Nat
      /\ Numbers \subseteq 0 .. Cardinality(entered) - 1
  BY FS_CardinalityType DEF DeliveryInv, FramesInv, EnteredInOrder
<1>4. f.n \notin Numbers /\ f \notin entered
  BY <1>3 DEF Numbers
<1>5. Delivered' = Delivered /\ Delivered \subseteq Numbers
  BY <1>1, <1>2, BridgeStreams DEF Delivered
<1>6. \A n \in Numbers : n \in GptpNumbers' <=> n \in GptpNumbers
  BY <1>1, <1>4 DEF GptpNumbers, FramesOf
<1>7. f.n \in GptpNumbers' <=> f.kind \in GptpTypes
  BY <1>1, <1>4 DEF GptpNumbers, FramesOf, Numbers
<1>8. Measured' = Measured
  <2>1. Measured' = {x \in delivered : x.frame \in GptpNumbers'}
    BY <1>1 DEF Measured, GptpNumbers
  <2>2. \A x \in delivered : x.frame \in Numbers
    BY <1>5 DEF Delivered
  <2> QED BY <1>6, <2>1, <2>2, MeasuredByNumber
<1>9. FramesInv'
  <2>1. EnteredInOrder'
    <3>1. IsFiniteSet(entered') /\ Cardinality(entered') = Cardinality(entered) + 1
      BY <1>1, <1>3, <1>4, FS_AddElement
    <3>2. Numbers' = Numbers \cup {f.n}
      BY <1>1 DEF Numbers
    <3> DEFINE c == Cardinality(entered)
    <3>3. \A n \in Numbers' : n \in 0 .. c
      <4>1. c \in Nat /\ f.n = c /\ \A n \in Numbers : n \in 0 .. c - 1
        BY <1>3
      <4> HIDE DEF c
      <4> QED BY <3>2, <4>1
    <3>4. Cardinality(entered') - 1 = Cardinality(entered)
      BY <1>3, <3>1
    <3> QED BY <3>1, <3>3, <3>4 DEF EnteredInOrder
  <2>2. DeliveredOnce'
    BY <1>1 DEF DeliveryInv, FramesInv, DeliveredOnce
  <2>3. KindsTold'
    <3>1. ASSUME NEW m \in net PROVE KindTold(m.pkt.frame)'
      <4>1. m.pkt.frame.n \in Numbers
        BY <1>2, NetTypes DEF FrameOf
      <4> QED BY <1>6, <4>1 DEF DeliveryInv, FramesInv, KindsTold, KindTold
    <3>2. ASSUME NEW i \in DOMAIN pending'
          PROVE  pending'[i].frame.kind \in GptpTypes <=> pending'[i].frame.n \in GptpNumbers'
      BY <1>7
    <3> QED BY <1>1, <3>1, <3>2 DEF KindsTold, KindTold
  <2>4. PendingIsNew'
    <3>1. \A m \in net : FrameOf(m) # f.n
      BY <1>2, <1>4, NetTypes
    <3> QED BY <1>1, <1>4, <1>5, <3>1 DEF PendingIsNew, FrameOf
  <2> QED BY <2>1, <2>2, <2>3, <2>4 DEF FramesInv
<1>10. CopiesInv'
  BY <1>1 DEF DeliveryInv, CopiesInv, CopyTells, CopiesApart, FrameOf, IsFrer, MemberDscp
<1>11. Load \in Nat /\ Load <= Pace /\ Load' <= Pace
  BY <1>2, BridgeStreams, BoundsAreNumbers DEF DeliveryInv, WindowInv
<1>12. NumbersInStep'
  BY <1>1 DEF DeliveryInv, WindowInv, NumbersInStep
<1>13. NetInStep'
  <2> SUFFICES ASSUME NEW m \in net, m.n # None
               PROVE  /\ m.n < numbered[m.stream]
                      /\ numbered[m.stream] - 1 - m.n + Load' < Pace * (m.age + 1)
    BY <1>1 DEF NetInStep
  <2>1. /\ m.n < numbered[m.stream]
        /\ numbered[m.stream] - 1 - m.n + Load < Pace * (m.age + 1)
    BY DEF DeliveryInv, WindowInv, NetInStep
  <2>2. m.n \in Nat /\ m.stream \in FrerStreams
    BY <1>2, NetTypes DEF DeliveryInv, CopiesInv, CopyTells
  <2>3. numbered[m.stream] \in Nat /\ m.age \in 0 .. MaxDelay
    BY <1>2, <2>2, NetTypes, BridgeStreams
  <2> DEFINE x == Pace * (m.age + 1)
  <2>4. x \in Int
    BY <2>3, BoundsAreNumbers
  <2> HIDE DEF x
  <2>5. numbered[m.stream] - 1 - m.n + Load < x
    BY <2>1 DEF x
  <2>6. numbered[m.stream] - 1 - m.n + Load' < x
    BY <1>11, <2>2, <2>3, <2>4, <2>5
  <2> QED BY <2>1, <2>6 DEF x
<1>14. WindowsInStep'
  <2> SUFFICES ASSUME NEW s \in StreamIds, streams[s].active
               PROVE  numbered[s] - 1 - newest[s] + Load'
                        < Pace * (MaxDelay + 1 + WindowTimeout - timeoutMsg[s])
    BY <1>1 DEF DeliveryInv, WindowInv, WindowsInStep
  <2> DEFINE x == Pace * (MaxDelay + 1 + WindowTimeout - timeoutMsg[s])
  <2>1. /\ s \in FrerStreams /\ newest[s] \in 0 .. numbered[s] - 1
        /\ numbered[s] - 1 - newest[s] + Load < x
    BY DEF DeliveryInv, WindowInv, WindowsInStep
  <2>2. numbered[s] \in Nat /\ x \in Int
    BY <1>2, <2>1, BridgeStreams, BoundsAreNumbers
  <2> HIDE DEF x
  <2>3. numbered[s] - 1 - newest[s] + Load' < x
    BY <1>11, <2>1, <2>2
  <2> QED BY <2>3 DEF x
<1>15. DeliveredGuarded' /\ SlotsTellDelivered'
  BY <1>1, <1>5 DEF DeliveryInv, WindowInv, DeliveredGuarded, SlotsTellDelivered, FrameOf, Slot,
                    MemberDscp
<1>16. FiguresInStep'
  BY <1>1, <1>8 DEF DeliveryInv, FiguresInStep, afVars
<1> QED BY <1>9, <1>10, <1>11, <1>12, <1>13, <1>14, <1>15, <1>16 DEF WindowInv

LEMMA EnterGptuDelivery ==
  ASSUME BridgeDeployment, DeliveryInv, NEW kind \in GptpTypes, EnterGptu(kind)
  PROVE  FramesInv' /\ CopiesInv' /\ WindowInv' /\ FiguresInStep'
<1> DEFINE f == Gptp(kind)
<1>1. /\ Enter(f) /\ pending = <<>> /\ pending' = Translated(f)
      /\ budget' = budget - Len(pending')
  BY DEF EnterGptu, Enter
<1>2. f \in GptpFrames({f.n}) /\ f.n = Cardinality(entered)
  BY DEF Gptp, GptpFrames
<1> HIDE DEF f
<1>3. /\ Len(Translated(f)) \in Nat
      /\ \A i \in DOMAIN Translated(f) : Translated(f)[i].frame = f
      /\ \A i, j \in DOMAIN Translated(f) :
           Translated(f)[i].dest = Translated(f)[j].dest => i = j
  BY <1>2, TranslatedGptp
<1>4. budget \in Nat /\ Len(pending) = 0
  BY <1>1, BridgeStreams, BoundsAreNumbers DEF DeliveryInv
<1>5. Load' \in Int /\ Load' <= Load
  BY <1>1, <1>3, <1>4 DEF Load
<1> QED BY <1>1, <1>2, <1>3, <1>5, EnterDelivery

LEMMA EnterSidebandDelivery ==
  ASSUME DeliveryInv, NEW kind \in GptpTypes, EnterSideband(kind)
  PROVE  FramesInv' /\ CopiesInv' /\ WindowInv' /\ FiguresInStep'
<1> DEFINE f == Gptp(kind)
<1>1. /\ Enter(f) /\ pending = <<>> /\ pending' = <<>> /\ budget' = budget - 1
  BY DEF EnterSideband, Enter
<1>2. f.n = Cardinality(entered)
  BY DEF Gptp
<1> HIDE DEF f
<1>3. budget \in Nat /\ Len(pending) = 0
  BY <1>1, BridgeStreams, BoundsAreNumbers DEF DeliveryInv
<1>4. Load' \in Int /\ Load' <= Load
  BY <1>1, <1>3 DEF Load
<1>5. DOMAIN pending' = {}
  BY <1>1
<1> QED BY <1>1, <1>2, <1>4, <1>5, EnterDelivery

LEMMA EnterDataDelivery ==
  ASSUME BridgeDeployment, DeliveryInv,
         NEW pcp \in DataPcps, NEW dscp \in DataDscps, NEW d \in DOMAIN tsnToUeMap,
         EnterData(pcp, dscp, d)
  PROVE  FramesInv' /\ CopiesInv' /\ WindowInv' /\ FiguresInStep'
<1> DEFINE f == Data(pcp, dscp, d)
<1>1. /\ Enter(f) /\ pending = <<>> /\ pending' = Translated(f) /\ budget' = budget - 1
  BY DEF EnterData, Enter
<1>2. /\ f = [kind |-> "DATA", n |-> f.n, pcp |-> pcp, origPcp |-> pcp,
              dscp |-> dscp, port |-> "app", dest |-> d]
      /\ f.n = Cardinality(entered) /\ f.kind = "DATA"
  BY DEF Data
<1> HIDE DEF f
<1>3. /\ Len(Translated(f)) = 1
      /\ \A i \in DOMAIN Translated(f) : /\ i = 1
                                         /\ Translated(f)[i].frame.n = f.n
                                         /\ Translated(f)[i].frame.kind = "DATA"
  <2> DEFINE n == f.n
  <2>1. f = [kind |-> "DATA", n |-> n, pcp |-> pcp, origPcp |-> pcp,
             dscp |-> dscp, port |-> "app", dest |-> d]
    BY <1>2
  <2> HIDE DEF n
  <2>2. ASSUME NEW numbers, n \in numbers
        PROVE  /\ Len(Translated(f)) = 1
               /\ \A i \in DOMAIN Translated(f) : /\ i = 1
                                                  /\ Translated(f)[i].frame.n = n
                                                  /\ Translated(f)[i].frame.kind = "DATA"
    BY <2>1, <2>2, TranslatedData
  <2>3. n \in {n}
    OBVIOUS
  <2> QED BY <2>2, <2>3 DEF n
<1>4. budget \in Nat /\ Len(pending) = 0
  BY <1>1, BridgeStreams, BoundsAreNumbers DEF DeliveryInv
<1>5. Load' \in Int /\ Load' <= Load
  BY <1>1, <1>3, <1>4 DEF Load
<1>6. \A i, j \in DOMAIN pending' : i = j
  BY <1>1, <1>3
<1> QED BY <1>1, <1>2, <1>3, <1>5, <1>6, EnterDelivery

-----------------------------------------------------------------------------
LEMMA TailFields ==
  ASSUME NEW S, NEW q \in Seq(S), q # <<>>
  PROVE  /\ Head(q) = q[1] /\ 1 \in DOMAIN q /\ q[1] \in S
         /\ Len(Tail(q)) = Len(q) - 1
         /\ \A i \in DOMAIN Tail(q) : i + 1 \in DOMAIN q /\ Tail(q)[i] = q[i + 1] /\ i + 1 # 1
OBVIOUS

(* What the replicator makes of the packet at hand: for Here one copy, or  *)
(* two that carry the next number of their stream.                         *)
LEMMA NewCopies ==
  ASSUME BridgeDeployment, BridgeTiming, DeliveryInv, Copy,
         NEW h, h = Head(pending), NEW number,
         number = IF h.dscp \in FrerStreams THEN numbered[h.dscp] ELSE None
  PROVE  /\ \A k \in net' \ net : /\ h.dest = Here
                                  /\ k.pkt.frame = h.frame /\ k.age = 0
                                  /\ k.stream = h.dscp /\ k.n = number
                                  /\ CopyTells(k)
         /\ \A k, m \in net' \ net : k.copy = m.copy => k = m
         /\ net \subseteq net'
         /\ \/ /\ h.dscp \in FrerStreams
               /\ sequenceCounters' =
                    [sequenceCounters EXCEPT ![h.dscp] = NextSequenceNumber(@)]
               /\ numbered' = [numbered EXCEPT ![h.dscp] = @ + 1]
            \/ /\ number = None \/ h.dest # Here
               /\ UNCHANGED <<sequenceCounters, numbered>>
<1> DEFINE p == AsPacket(h)
<1>1. BridgeInv /\ pending \in Seq(PendingPackets(Numbers)) /\ pending # <<>>
  BY DEF DeliveryInv, BridgeInv, Copy
<1>2. h \in PendingPackets(Numbers)
  BY <1>1, TailFields
<1>3. p \in NetPackets(Numbers)
  BY <1>2, AsPacketFields
<1>4. /\ p.dscp = h.dscp /\ p.dest = h.dest /\ p.frame = h.frame /\ p.rtag = NoTag
      /\ p.oversize = (h.frame.kind = "DATA" /\ h.dest \in OversizeTo)
  BY DEF AsPacket
<1>5. /\ ReplicatorHandle(p)
      /\ net' = IF p.dest = Here THEN net \cup CopiesOf(p) ELSE net
      /\ numbered' = IF IsFrerEligible(p) /\ ~p.oversize
                     THEN [numbered EXCEPT ![p.dscp] = @ + 1] ELSE numbered
  BY DEF Copy
<1>6. h.dscp # ReplicaDscp
  <2>1. h.dscp \in MappedPcps \cup DataDscps \cup {GptpDscp}
    BY <1>2 DEF PendingPackets, GptpPackets, DataPackets
  <2> QED BY <2>1 DEF BridgeDeployment, BridgeTiming
<1>7. h.dest = Here => ~p.oversize
  BY <1>4 DEF BridgeTiming
<1>8. CopiesOf(p) = {[pkt |-> sent'[i], copy |-> i, age |-> 0, stream |-> h.dscp,
                      n |-> number] : i \in DOMAIN sent'}
  BY <1>4 DEF CopiesOf, IsFrerEligible
<1> HIDE DEF p
<1>9. \A k \in CopiesOf(p) : /\ k.pkt = sent'[k.copy] /\ k.copy \in DOMAIN sent' /\ k.age = 0
                             /\ k.stream = h.dscp /\ k.n = number
  BY <1>8
<1>10. \A k, m \in CopiesOf(p) : k.copy = m.copy => k = m
  BY <1>8
<1>11. CASE PassIneligible(p)
  <2>1. number = None /\ ~IsFrerEligible(p) /\ sent' = <<p>> /\ UNCHANGED sequenceCounters
    BY <1>4, <1>11 DEF PassIneligible, IsFrerEligible
  <2>2. UNCHANGED numbered
    BY <1>5, <2>1
  <2>3. ~IsFrer(p)
    BY <1>4, <1>6, <2>1 DEF IsFrer, IsFrerEligible
  <2>4. \A i \in DOMAIN sent' : i = 1 /\ sent'[i] = p
    BY <2>1
  <2>5. \A k \in CopiesOf(p) : k.pkt.frame = h.frame /\ CopyTells(k)
    BY <1>4, <1>9, <2>1, <2>3, <2>4 DEF CopyTells
  <2> QED BY <1>4, <1>5, <1>9, <1>10, <2>1, <2>2, <2>5
<1>12. CASE PassOversize(p)
  <2>1. UNCHANGED <<sequenceCounters, numbered>> /\ h.dest # Here
    BY <1>5, <1>7, <1>12 DEF PassOversize
  <2> QED BY <1>4, <1>5, <2>1
<1>13. CASE Replicate(p)
  <2> DEFINE s == h.dscp
             seq == sequenceCounters[s]
             a == Primary(p, seq)
             b == Replica(p, seq)
  <2>1. /\ s \in FrerStreams /\ IsFrerEligible(p) /\ ~p.oversize
        /\ sent' = <<a, b>>
        /\ sequenceCounters' = [sequenceCounters EXCEPT ![s] = NextSequenceNumber(@)]
    BY <1>4, <1>13 DEF Replicate, IsFrerEligible
  <2>2. numbered' = [numbered EXCEPT ![s] = @ + 1] /\ number = numbered[s]
    BY <1>4, <1>5, <2>1
  <2>3. number \in Nat /\ seq = number % SeqSpace
    BY <1>1, <2>1, <2>2, BridgeStreams DEF DeliveryInv, WindowInv, NumbersInStep
  <2>4. /\ a.frame = h.frame /\ a.dscp = s
        /\ a.rtag = [streamId |-> s, sequenceNumber |-> seq]
    BY <1>3, <1>4 DEF Primary, NetPackets
  <2>5. /\ b.frame = h.frame /\ b.dscp = ReplicaDscp
        /\ b.rtag = [streamId |-> s, sequenceNumber |-> seq]
    BY <1>3, <1>4 DEF Replica, PrepareMemberStreams, Primary, NetPackets
  <2> HIDE DEF s, seq, a, b
  <2>6. \A i \in DOMAIN sent' : /\ i \in 1 .. 2
                                /\ sent'[i] = IF i = 1 THEN a ELSE b
    BY <2>1
  <2>7. \A k \in CopiesOf(p) : k.pkt.frame = h.frame
    BY <1>9, <2>4, <2>5, <2>6
  <2>8. \A k \in CopiesOf(p) : CopyTells(k)
    <3> SUFFICES ASSUME NEW k \in CopiesOf(p) PROVE CopyTells(k)
      OBVIOUS
    <3>1. /\ k.copy \in 1 .. 2 /\ k.stream = s /\ k.n = number /\ k.n # None
          /\ k.pkt = IF k.copy = 1 THEN a ELSE b
      BY <1>9, <2>3, <2>6 DEF s, None
    <3>2. k.pkt.dscp = MemberDscp(s, k.copy)
      BY <2>4, <2>5, <3>1 DEF MemberDscp
    <3>3. k.pkt.rtag = [streamId |-> k.stream, sequenceNumber |-> k.n % SeqSpace]
      BY <2>3, <2>4, <2>5, <3>1
    <3> QED BY <2>1, <3>1, <3>2, <3>3 DEF CopyTells
  <2> QED BY <1>4, <1>5, <1>9, <1>10, <2>1, <2>2, <2>7, <2>8 DEF s
<1> QED BY <1>5, <1>11, <1>12, <1>13 DEF ReplicatorHandle

LEMMA CopyDelivery ==
  ASSUME BridgeDeployment, BridgeTiming, DeliveryInv, Copy
  PROVE  FramesInv' /\ CopiesInv' /\ WindowInv' /\ FiguresInStep'
<1> DEFINE h == Head(pending)
           s == h.dscp
           number == IF s \in FrerStreams THEN numbered[s] ELSE None
<1>1. /\ \A k \in net' \ net : /\ h.dest = Here
                               /\ k.pkt.frame = h.frame /\ k.age = 0
                               /\ k.stream = s /\ k.n = number
                               /\ CopyTells(k)
      /\ \A k, m \in net' \ net : k.copy = m.copy => k = m
      /\ net \subseteq net'
      /\ \/ /\ s \in FrerStreams
            /\ sequenceCounters' = [sequenceCounters EXCEPT ![s] = NextSequenceNumber(@)]
            /\ numbered' = [numbered EXCEPT ![s] = @ + 1]
         \/ /\ number = None \/ h.dest # Here
            /\ UNCHANGED <<sequenceCounters, numbered>>
  BY NewCopies
<1>2. /\ pending # <<>> /\ pending' = Tail(pending)
      /\ UNCHANGED <<entered, delivered, afVars, budget, newest, streams, timeoutMsg>>
  BY DEF Copy
<1>3. BridgeInv /\ pending \in Seq(PendingPackets(Numbers))
  BY DEF DeliveryInv, BridgeInv
<1>4. /\ h = pending[1] /\ 1 \in DOMAIN pending
      /\ Len(pending') = Len(pending) - 1
      /\ \A i \in DOMAIN pending' :
           i + 1 \in DOMAIN pending /\ pending'[i] = pending[i + 1] /\ i + 1 # 1
  BY <1>2, <1>3, TailFields
<1>5. /\ Delivered' = Delivered /\ GptpNumbers' = GptpNumbers /\ Numbers' = Numbers
      /\ Measured' = Measured
  BY <1>2 DEF Delivered, GptpNumbers, FramesOf, Numbers, Measured
<1>6. Load' = Load - 1 /\ Load \in Nat /\ Load <= Pace
  BY <1>2, <1>3, <1>4, BridgeStreams DEF Load, DeliveryInv, WindowInv
<1>7. h.dest = Here => /\ h.frame.n \notin Delivered
                       /\ \A m \in net : FrameOf(m) # h.frame.n
  BY <1>4 DEF DeliveryInv, FramesInv, PendingIsNew
<1>8. number = None \/ (s \in FrerStreams /\ number = numbered[s] /\ number \in Nat)
  BY <1>3, BridgeStreams
<1>9. /\ numbered \in [FrerStreams -> Nat] /\ sequenceCounters \in [FrerStreams -> Seqs]
  BY <1>3 DEF BridgeInv
<1> HIDE DEF h, s, number
<1>10. \A k \in net' \ net : FrameOf(k) = h.frame.n
  BY <1>1 DEF FrameOf
<1>11. FramesInv'
  <2>1. EnteredInOrder' /\ DeliveredOnce'
    BY <1>2, <1>5 DEF DeliveryInv, FramesInv, EnteredInOrder, DeliveredOnce
  <2>2. KindsTold'
    <3>1. \A i \in DOMAIN pending : KindTold(pending[i].frame)
      BY DEF DeliveryInv, FramesInv, KindsTold
    <3>2. \A m \in net : KindTold(m.pkt.frame)
      BY DEF DeliveryInv, FramesInv, KindsTold
    <3>3. \A i \in DOMAIN pending' : KindTold(pending'[i].frame)
      BY <1>4, <3>1
    <3>4. \A m \in net' : KindTold(m.pkt.frame)
      BY <1>1, <1>4, <3>1, <3>2
    <3> QED BY <1>5, <3>3, <3>4 DEF KindsTold, KindTold
  <2>3. PendingIsNew'
    <3>1. \A i, j \in DOMAIN pending' :
            pending'[i].dest = Here /\ pending'[j].dest = Here => i = j
      <4> SUFFICES ASSUME NEW i \in DOMAIN pending', NEW j \in DOMAIN pending',
                          pending'[i].dest = Here, pending'[j].dest = Here
                   PROVE  i = j
        OBVIOUS
      <4>1. i + 1 = j + 1
        BY <1>4 DEF DeliveryInv, FramesInv, PendingIsNew
      <4>2. i \in Int /\ j \in Int
        BY <1>2, <1>3
      <4> QED BY <4>1, <4>2
    <3>2. ASSUME NEW i \in DOMAIN pending', pending'[i].dest = Here
          PROVE  /\ pending'[i].frame.n \notin Delivered
                 /\ \A m \in net' : FrameOf(m) # pending'[i].frame.n
      <4>1. /\ i + 1 \in DOMAIN pending /\ pending[i + 1].dest = Here /\ i + 1 # 1
            /\ pending'[i] = pending[i + 1]
        BY <1>4, <3>2
      <4>2. h.dest # Here
        BY <1>4, <4>1 DEF DeliveryInv, FramesInv, PendingIsNew
      <4>3. net' = net
        BY <1>1, <4>2
      <4> QED BY <4>1, <4>3 DEF DeliveryInv, FramesInv, PendingIsNew
    <3> QED BY <1>5, <3>1, <3>2 DEF PendingIsNew, FrameOf
  <2> QED BY <2>1, <2>2, <2>3 DEF FramesInv
<1>12. \A k \in net' : CopyTells(k)
  BY <1>1 DEF DeliveryInv, CopiesInv
<1>13. \A m \in net : m.n # None => /\ m.stream \in FrerStreams /\ m.n \in Nat
                                    /\ m.n < numbered[m.stream]
                                    /\ numbered[m.stream] - 1 - m.n + Load < Pace * (m.age + 1)
  <2> SUFFICES ASSUME NEW m \in net, m.n # None
               PROVE  m.stream \in FrerStreams /\ m.n \in Nat
    BY DEF DeliveryInv, WindowInv, NetInStep
  <2>1. CopyTells(m)
    BY DEF DeliveryInv, CopiesInv
  <2> QED BY <1>3, <2>1, NetTypes DEF CopyTells
<1>14. CopiesInv'
  <2>1. CopiesApart'
    <3> SUFFICES ASSUME NEW k \in net', NEW m \in net'
                 PROVE  /\ FrameOf(k) = FrameOf(m) =>
                             k.stream = m.stream /\ k.n = m.n /\ (k.copy = m.copy => k = m)
                        /\ k.stream = m.stream /\ k.n = m.n /\ k.n # None
                             => FrameOf(k) = FrameOf(m)
      BY DEF CopiesApart, FrameOf
    <3>1. CASE k \in net /\ m \in net
      BY <3>1 DEF DeliveryInv, CopiesInv, CopiesApart
    <3>2. CASE k \notin net /\ m \notin net
      <4>1. k.stream = m.stream /\ k.n = m.n /\ (k.copy = m.copy => k = m)
        BY <1>1, <3>2
      <4>2. FrameOf(k) = FrameOf(m)
        BY <1>10, <3>2
      <4> QED BY <4>1, <4>2
    <3>3. ASSUME NEW a \in net, NEW b \in net' \ net
          PROVE  FrameOf(a) # FrameOf(b) /\ ~(a.stream = b.stream /\ a.n = b.n /\ a.n # None)
      <4>1. h.dest = Here /\ b.stream = s /\ b.n = number /\ FrameOf(b) = h.frame.n
        BY <1>1, <1>10
      <4>2. FrameOf(a) # FrameOf(b)
        BY <1>7, <4>1
      <4>3. ASSUME a.stream = b.stream, a.n = b.n, a.n # None PROVE FALSE
        <5>1. a.n \in Nat /\ a.n < numbered[s]
          BY <1>13, <4>1, <4>3
        <5>2. a.n = numbered[s]
          BY <1>8, <4>1, <4>3
        <5> QED BY <5>1, <5>2
      <4> QED BY <4>2, <4>3
    <3> QED BY <3>1, <3>2, <3>3
  <2> QED BY <1>12, <2>1 DEF CopiesInv, CopyTells, IsFrer, MemberDscp
<1>15. NumbersInStep'
  <2>1. CASE UNCHANGED <<sequenceCounters, numbered>>
    BY <2>1 DEF DeliveryInv, WindowInv, NumbersInStep
  <2>2. CASE /\ s \in FrerStreams
             /\ sequenceCounters' = [sequenceCounters EXCEPT ![s] = NextSequenceNumber(@)]
             /\ numbered' = [numbered EXCEPT ![s] = @ + 1]
    <3>1. sequenceCounters[s] = numbered[s] % SeqSpace /\ numbered[s] \in Nat
      BY <1>9, <2>2 DEF DeliveryInv, WindowInv, NumbersInStep
    <3>2. NextSequenceNumber(sequenceCounters[s]) = (numbered[s] + 1) % SeqSpace
      BY <3>1, ModSuccessor, SeqSpaceAssumption DEF NextSequenceNumber
    <3>3. sequenceCounters'[s] = numbered'[s] % SeqSpace
      BY <1>9, <2>2, <3>2
    <3>4. \A r \in FrerStreams \ {s} : sequenceCounters'[r] = sequenceCounters[r]
                                       /\ numbered'[r] = numbered[r]
      BY <1>9, <2>2
    <3> QED BY <3>3, <3>4 DEF DeliveryInv, WindowInv, NumbersInStep
  <2> QED BY <1>1, <2>1, <2>2
<1>16. \A r \in FrerStreams : /\ numbered[r] \in Nat /\ numbered'[r] \in Nat
                              /\ numbered[r] <= numbered'[r] /\ numbered'[r] <= numbered[r] + 1
  <2>1. \A r \in FrerStreams : numbered[r] \in Nat
    BY <1>9
  <2>2. CASE numbered' = numbered
    BY <2>1, <2>2
  <2>3. CASE s \in FrerStreams /\ numbered' = [numbered EXCEPT ![s] = @ + 1]
    BY <1>9, <2>1, <2>3
  <2> QED BY <1>1, <2>2, <2>3
<1>17. NetInStep'
  <2> SUFFICES ASSUME NEW k \in net', k.n # None
               PROVE  /\ k.n < numbered'[k.stream]
                      /\ numbered'[k.stream] - 1 - k.n + Load' < Pace * (k.age + 1)
    BY DEF NetInStep
  <2>1. CASE k \in net
    <3> DEFINE P == numbered[k.stream]
               Q == numbered'[k.stream]
               x == Pace * (k.age + 1)
    <3>1. /\ k.stream \in FrerStreams /\ k.n \in Nat /\ k.n < P /\ P - 1 - k.n + Load < x
      BY <1>13, <2>1
    <3>2. x \in Int
      <4>1. k.age \in 0 .. MaxDelay
        BY <1>3, <2>1, NetTypes
      <4> QED BY <4>1, BoundsAreNumbers
    <3>3. P \in Nat /\ Q \in Nat /\ P <= Q /\ Q <= P + 1
      BY <1>16, <3>1
    <3> HIDE DEF P, Q, x
    <3>4. k.n < Q /\ Q - 1 - k.n + Load' < x
      BY <1>6, <3>1, <3>2, <3>3
    <3> QED BY <3>4 DEF P, Q, x
  <2>2. CASE k \notin net
    <3>1. h.dest = Here /\ k.stream = s /\ k.n = number /\ k.age = 0 /\ number # None
      BY <1>1, <2>2
    <3>2. s \in FrerStreams /\ number = numbered[s] /\ number \in Nat
      BY <1>8, <3>1
    <3>3. numbered'[s] = number + 1
      BY <1>1, <1>9, <3>1, <3>2
    <3>4. Pace * (k.age + 1) = Pace
      BY <3>1, BoundsAreNumbers
    <3>5. numbered'[s] - 1 - number + Load' < Pace
      BY <1>6, <3>2, <3>3, BoundsAreNumbers
    <3> QED BY <3>1, <3>2, <3>3, <3>4, <3>5
  <2> QED BY <2>1, <2>2
<1>18. WindowsInStep'
  <2> SUFFICES ASSUME NEW r \in StreamIds, streams[r].active
               PROVE  /\ r \in FrerStreams
                      /\ newest[r] \in 0 .. numbered'[r] - 1
                      /\ streams[r].highestSeqSeen = newest[r] % SeqSpace
                      /\ numbered'[r] - 1 - newest[r] + Load'
                           < Pace * (MaxDelay + 1 + WindowTimeout - timeoutMsg[r])
    BY <1>2 DEF DeliveryInv, WindowInv, WindowsInStep
  <2> DEFINE x == Pace * (MaxDelay + 1 + WindowTimeout - timeoutMsg[r])
             P == numbered[r]
             Q == numbered'[r]
  <2>1. /\ r \in FrerStreams /\ newest[r] \in 0 .. P - 1
        /\ streams[r].highestSeqSeen = newest[r] % SeqSpace
        /\ P - 1 - newest[r] + Load < x
    BY DEF DeliveryInv, WindowInv, WindowsInStep
  <2>2. x \in Int
    <3>1. timeoutMsg[r] \in 0 .. WindowTimeout
      BY <1>3, BridgeStreams
    <3> QED BY <3>1, BoundsAreNumbers
  <2>3. P \in Nat /\ Q \in Nat /\ P <= Q /\ Q <= P + 1
    BY <1>16, <2>1
  <2> HIDE DEF x, P, Q
  <2>4. newest[r] \in 0 .. Q - 1 /\ Q - 1 - newest[r] + Load' < x
    BY <1>6, <2>1, <2>2, <2>3
  <2> QED BY <2>1, <2>4 DEF x, Q
<1>19. \A k \in net' \ net : FrameOf(k) \notin Delivered
  BY <1>1, <1>7, <1>10
<1>20. DeliveredGuarded'
  BY <1>2, <1>5, <1>19 DEF DeliveryInv, WindowInv, DeliveredGuarded, FrameOf
<1>21. SlotsTellDelivered'
  <2> SUFFICES ASSUME NEW k \in net', k.n # None, streams[k.stream].active,
                      k.n <= newest[k.stream]
               PROVE  streams[k.stream].accepted[Slot(k.n)] =
                        IF FrameOf(k) \in Delivered THEN MemberDscp(k.stream, 3 - k.copy)
                        ELSE NotSeen
    BY <1>2, <1>5 DEF SlotsTellDelivered, FrameOf, Slot, MemberDscp
  <2>1. CASE k \in net
    BY <2>1 DEF DeliveryInv, WindowInv, SlotsTellDelivered
  <2>2. CASE k \notin net
    <3>1. k.stream = s /\ k.n = number /\ number # None
      BY <1>1, <2>2
    <3>2. number = numbered[s] /\ number \in Nat /\ s \in StreamIds
      BY <1>3, <1>8, <3>1, BridgeStreams
    <3>3. newest[s] \in 0 .. numbered[s] - 1
      BY <3>1, <3>2 DEF DeliveryInv, WindowInv, WindowsInStep
    <3> QED BY <3>1, <3>2, <3>3
  <2> QED BY <2>1, <2>2
<1>22. FiguresInStep'
  BY <1>2, <1>5 DEF DeliveryInv, FiguresInStep, afVars
<1>23. Load' <= Pace
  BY <1>6, BoundsAreNumbers
<1> QED BY <1>11, <1>14, <1>15, <1>17, <1>18, <1>20, <1>21, <1>22, <1>23 DEF WindowInv

-----------------------------------------------------------------------------
LEMMA TimesMonotone ==
  ASSUME NEW n \in Nat, NEW a \in Int, NEW b \in Int, a <= b
  PROVE  n * a <= n * b
OBVIOUS

(* One more delivery, and the delay it is reported with. *)
LEMMA SampleStep ==
  ASSUME BridgeTiming, FiguresInStep, IsFiniteSet(Measured),
         \A y \in Measured : y.residence \in 0 .. MaxDelay,
         NEW x, x \notin Measured, x.residence \in 0 .. MaxDelay,
         Measured' = Measured \cup {x}, ReceiveSignal(x.residence)
  PROVE  FiguresInStep'
<1> DEFINE d == x.residence
           n == delaySamples
           lo == IF d < delayMin THEN d ELSE delayMin
           hi == IF d > delayMax THEN d ELSE delayMax
<1>1. /\ delayMin' = lo /\ delayMax' = hi /\ delaySum' = delaySum + d
      /\ delaySamples' = n + 1 /\ bridgeDelayAvg' = delaySum' \div delaySamples'
      /\ qosViolations' = {sr.streamId : sr \in {y \in StreamReservations :
                             y.maxLatencyMs > 0 /\ d * MsPerUnit > y.maxLatencyMs}}
  BY DEF ReceiveSignal
<1>2. /\ delaySum \in Nat /\ delayMin \in Nat /\ n = Cardinality(Measured)
      /\ Measured = {} => delayMin = SimtimeMax /\ delayMax = 0
      /\ Measured # {} => /\ \E y \in Measured : y.residence = delayMin
                          /\ \E y \in Measured : y.residence = delayMax
      /\ \A y \in Measured : delayMin <= y.residence /\ y.residence <= delayMax
      /\ n * delayMin <= delaySum /\ delaySum <= n * delayMax
  BY DEF FiguresInStep
<1>3. n \in Nat /\ Cardinality(Measured') = n + 1 /\ d \in Nat /\ d <= SimtimeMax
  BY <1>2, FS_CardinalityType, FS_AddElement, BoundsAreNumbers, AfAssumption DEF BridgeTiming
<1>4. delayMax \in Nat
  <2>1. CASE Measured = {}
    BY <1>2, <2>1
  <2>2. CASE Measured # {}
    BY <1>2, <2>2, BoundsAreNumbers
  <2> QED BY <2>1, <2>2
<1> HIDE DEF n
<1>5. /\ lo \in Nat /\ lo <= delayMin /\ lo <= d
      /\ hi \in Nat /\ delayMax <= hi /\ d <= hi
  BY <1>2, <1>3, <1>4
<1>6. /\ \E y \in Measured' : y.residence = lo
      /\ \E y \in Measured' : y.residence = hi
  <2>1. x \in Measured' /\ x.residence = d /\ Measured \subseteq Measured'
    OBVIOUS
  <2>2. CASE Measured = {}
    <3>1. lo = d /\ hi = d
      BY <1>2, <1>3, <2>2, AfAssumption
    <3> QED BY <2>1, <3>1
  <2>3. CASE Measured # {}
    <3>1. lo \in {d, delayMin} /\ hi \in {d, delayMax}
      OBVIOUS
    <3> HIDE DEF lo, hi, d
    <3> QED BY <1>2, <2>1, <2>3, <3>1
  <2> QED BY <2>2, <2>3
<1>7. \A y \in Measured' : lo <= y.residence /\ y.residence <= hi
  <2> SUFFICES ASSUME NEW y \in Measured' PROVE lo <= y.residence /\ y.residence <= hi
    OBVIOUS
  <2>1. CASE y = x
    BY <1>5, <2>1
  <2>2. CASE y \in Measured
    BY <1>2, <1>4, <1>5, <2>2
  <2> QED BY <2>1, <2>2
<1> HIDE DEF d, lo, hi
<1>8. (n + 1) * lo <= delaySum + d /\ delaySum + d <= (n + 1) * hi
  <2>1. n * lo <= n * delayMin /\ n * delayMax <= n * hi
    BY <1>2, <1>3, <1>4, <1>5, TimesMonotone
  <2>2. (n + 1) * lo = n * lo + lo /\ (n + 1) * hi = n * hi + hi
    BY <1>3, <1>5
  <2> DEFINE a == n * lo
             b == n * hi
             a0 == n * delayMin
             b0 == n * delayMax
  <2>3. a \in Int /\ b \in Int /\ a0 \in Int /\ b0 \in Int
    BY <1>2, <1>3, <1>4, <1>5
  <2> HIDE DEF a, b, a0, b0
  <2>4. a + lo <= delaySum + d /\ delaySum + d <= b + hi
    BY <1>2, <1>3, <1>5, <2>1, <2>3 DEF a, b, a0, b0
  <2> QED BY <2>2, <2>4 DEF a, b
<1>9. ASSUME NEW sr \in StreamReservations, sr.streamId \in qosViolations'
      PROVE  sr.maxLatencyMs > 0 /\ hi * MsPerUnit > sr.maxLatencyMs
  <2>1. PICK tr \in StreamReservations :
          /\ tr.maxLatencyMs > 0 /\ d * MsPerUnit > tr.maxLatencyMs /\ tr.streamId = sr.streamId
    BY <1>1, <1>9
  <2>2. tr = sr
    BY <2>1 DEF BridgeTiming
  <2>3. sr.maxLatencyMs \in Int
    BY AfAssumption
  <2>4. d * MsPerUnit <= hi * MsPerUnit /\ d * MsPerUnit \in Int /\ hi * MsPerUnit \in Int
    <3>1. MsPerUnit * d <= MsPerUnit * hi
      BY <1>3, <1>5, AfAssumption, TimesMonotone
    <3>2. /\ d * MsPerUnit = MsPerUnit * d /\ hi * MsPerUnit = MsPerUnit * hi
          /\ MsPerUnit * d \in Int /\ MsPerUnit * hi \in Int
      BY <1>3, <1>5, AfAssumption
    <3> QED BY <3>1, <3>2
  <2> DEFINE a == d * MsPerUnit
             b == hi * MsPerUnit
  <2> HIDE DEF a, b
  <2> QED BY <2>1, <2>2, <2>3, <2>4 DEF a, b
<1>10. Measured' # {} /\ delaySum + d \in Nat
  BY <1>2, <1>3
<1> QED BY <1>1, <1>3, <1>5, <1>6, <1>7, <1>8, <1>9, <1>10 DEF FiguresInStep

(* Only the first copy of a frame leaves the DS-TT. *)
LEMMA ForwardedWasNew ==
  ASSUME BridgeTiming, DeliveryInv, NEW m \in net, Forward(m)
  PROVE  /\ FrameOf(m) \notin Delivered
         /\ \/ Accept(m.pkt) /\ m.n # None
            \/ PassThrough(m.pkt) /\ m.n = None
<1>1. BridgeInv /\ CopyTells(m)
  BY DEF DeliveryInv, CopiesInv
<1>2. CASE Accept(m.pkt)
  <2>1. m.n # None
    BY <1>1, <1>2 DEF Accept, CopyTells
  <2> QED BY <1>2, <2>1, AcceptedWasNew
<1>3. CASE PassThrough(m.pkt)
  <2>1. m.n = None
    BY <1>1, <1>3, NumberRead DEF PassThrough
  <2>2. FrameOf(m) \notin Delivered
    BY <2>1 DEF DeliveryInv, WindowInv, DeliveredGuarded
  <2> QED BY <1>3, <2>1, <2>2
<1> QED BY <1>2, <1>3 DEF Forward

LEMMA DeliveredGrows ==
  ASSUME NEW m \in net, Forward(m)
  PROVE  Delivered' = Delivered \cup {FrameOf(m)}
<1> DEFINE x == [frame |-> FrameOf(m), residence |-> m.age]
<1>1. delivered' = delivered \cup {x}
  BY DEF Forward, FrameOf
<1>2. x.frame = FrameOf(m)
  OBVIOUS
<1> HIDE DEF x
<1> QED BY <1>1, <1>2 DEF Delivered

(* The frames and copies that are left when one has been delivered. *)
LEMMA ForwardFrames ==
  ASSUME BridgeTiming, DeliveryInv, NEW m \in net, Forward(m)
  PROVE  /\ FramesInv' /\ CopiesInv'
         /\ Load' <= Pace /\ NumbersInStep' /\ NetInStep'
<1> DEFINE x == [frame |-> FrameOf(m), residence |-> m.age]
<1>1. /\ delivered' = delivered \cup {x} /\ net' = net \ {m}
      /\ UNCHANGED <<sequenceCounters, entered, budget, pending, numbered>>
  BY DEF Forward, nwttVars, FrameOf
<1>2. x.frame = FrameOf(m) /\ FrameOf(m) \notin Delivered
  BY ForwardedWasNew
<1> HIDE DEF x
<1>3. Delivered' = Delivered \cup {FrameOf(m)}
  BY DeliveredGrows
<1>4. /\ GptpNumbers' = GptpNumbers /\ Numbers' = Numbers /\ Load' = Load
  BY <1>1 DEF GptpNumbers, FramesOf, Numbers, Load
<1>5. EnteredInOrder'
  BY <1>1, <1>4 DEF DeliveryInv, FramesInv, EnteredInOrder
<1>6. DeliveredOnce'
  <2>1. IsFiniteSet(delivered) /\ \A y, z \in delivered : y.frame = z.frame => y = z
    BY DEF DeliveryInv, FramesInv, DeliveredOnce
  <2>2. IsFiniteSet(delivered')
    BY <1>1, <2>1, FS_AddElement
  <2>3. \A y \in delivered : y.frame # x.frame
    BY <1>2 DEF Delivered
  <2> QED BY <1>1, <2>1, <2>2, <2>3 DEF DeliveredOnce
<1>7. KindsTold'
  BY <1>1, <1>4 DEF DeliveryInv, FramesInv, KindsTold, KindTold
<1>8. PendingIsNew'
  BY <1>1, <1>3 DEF DeliveryInv, FramesInv, PendingIsNew, FrameOf
<1>9. CopiesInv'
  BY <1>1 DEF DeliveryInv, CopiesInv, CopyTells, CopiesApart, FrameOf, IsFrer, MemberDscp
<1>10. Load' <= Pace /\ NumbersInStep' /\ NetInStep'
  BY <1>1, <1>4 DEF DeliveryInv, WindowInv, NumbersInStep, NetInStep
<1> QED BY <1>5, <1>6, <1>7, <1>8, <1>9, <1>10 DEF FramesInv

(* The application function is told of gPTP frames and of nothing else. *)
LEMMA ForwardFigures ==
  ASSUME BridgeDeployment, BridgeTiming, DeliveryInv, NEW m \in net, Forward(m)
  PROVE  FiguresInStep'
<1> DEFINE p == m.pkt
           q == out'.pkt
           x == [frame |-> FrameOf(m), residence |-> m.age]
<1>1. /\ Accept(p) \/ PassThrough(p)
      /\ \/ ForwardGptp(q, m.age) /\ ReceiveSignal(m.age)
         \/ ForwardData(q) /\ UNCHANGED afVars
      /\ delivered' = delivered \cup {x} /\ UNCHANGED entered
  BY DEF Forward, nwttVars, FrameOf
<1>2. /\ p \in NetPackets(Numbers) /\ p.fragment = FALSE /\ PortTells(p)
      /\ p.frame \in GptpFrames(Numbers) \cup DataFrames(Numbers)
      /\ m.age \in 0 .. MaxDelay
  BY NetTypes DEF DeliveryInv
<1>3. q.port = p.port /\ q.fragment = FALSE
  <2>1. CASE Accept(p)
    <3>1. q = Restored(p)
      BY <2>1 DEF Accept
    <3> QED BY <1>2, <3>1, RestoredPriority
  <2>2. CASE PassThrough(p)
    <3>1. q = p
      BY <2>2 DEF PassThrough
    <3> QED BY <1>2, <3>1
  <2> QED BY <1>1, <2>1, <2>2
<1>4. p.frame.kind \in GptpTypes <=> FrameOf(m) \in GptpNumbers
  BY DEF DeliveryInv, FramesInv, KindsTold, KindTold, FrameOf
<1>5. IsGptpInUdp(q) <=> p.frame.kind \in GptpTypes
  <2>1. p.frame.kind \in GptpTypes \cup {"DATA"}
    BY <1>2 DEF GptpFrames, DataFrames
  <2> QED BY <1>2, <1>3, <2>1 DEF PortTells, IsGptpInUdp, GptpTypes, BridgeDeployment
<1>6. x.frame = FrameOf(m) /\ x.residence = m.age /\ x \notin delivered
  BY ForwardedWasNew DEF Delivered
<1>7. GptpNumbers' = GptpNumbers /\ Measured' = {y \in delivered' : y.frame \in GptpNumbers}
  BY <1>1 DEF GptpNumbers, FramesOf, Measured
<1> HIDE DEF p, q, x
<1>8. FiguresInStep
  BY DEF DeliveryInv
<1>9. CASE p.frame.kind \in GptpTypes
  <2>1. ReceiveSignal(x.residence)
    BY <1>1, <1>5, <1>6, <1>9 DEF ForwardData
  <2>2. Measured' = Measured \cup {x} /\ x \notin Measured
    BY <1>1, <1>4, <1>6, <1>7, <1>9, MeasuredByNumber
  <2>3. IsFiniteSet(Measured)
    <3>1. IsFiniteSet(delivered) /\ Measured \subseteq delivered
      BY DEF DeliveryInv, FramesInv, DeliveredOnce, Measured
    <3> QED BY <3>1, FS_Subset
  <2>4. \A y \in Measured : y.residence \in 0 .. MaxDelay
    BY DEF DeliveryInv, BridgeInv, Measured
  <2> QED BY <1>2, <1>6, <1>8, <2>1, <2>2, <2>3, <2>4, SampleStep
<1>10. CASE p.frame.kind \notin GptpTypes
  <2>1. UNCHANGED afVars
    BY <1>1, <1>5, <1>10 DEF ForwardGptp
  <2>2. Measured' = Measured
    BY <1>1, <1>4, <1>6, <1>7, <1>10, MeasuredByNumber
  <2> QED BY <1>8, <2>1, <2>2 DEF FiguresInStep, afVars
<1> QED BY <1>9, <1>10

(* The window behind an accepted copy: it stands at the newer of the two   *)
(* numbers, and its slots hold the copy, nothing where it was moved over,  *)
(* and otherwise what they held before.                                    *)
LEMMA ForwardedWindow ==
  ASSUME BridgeTiming, DeliveryInv, NEW m \in net, Forward(m), Accept(m.pkt), m.n # None,
         NEW s, s = m.stream, NEW n, n = m.n, NEW h, h = newest[s], NEW w, w = streams[s],
         NEW top, top = IF w.active /\ n <= h THEN h ELSE n
  PROVE  /\ s \in FrerStreams /\ s \in StreamIds /\ n \in Nat /\ top \in Nat /\ n <= top
         /\ w.active => h \in Nat /\ h <= top
         /\ newest' = [newest EXCEPT ![s] = top]
         /\ timeoutMsg' = [timeoutMsg EXCEPT ![s] = WindowTimeout]
         /\ \A r \in StreamIds \ {s} : streams'[r] = streams[r]
         /\ streams'[s].active /\ streams'[s].highestSeqSeen = top % SeqSpace
         /\ \A e \in top - WindowSize + 1 .. top :
              streams'[s].accepted[Slot(e)] =
                IF e = n THEN MemberDscp(s, m.copy)
                ELSE IF w.active /\ e <= h THEN w.accepted[Slot(e)] ELSE NotSeen
<1> DEFINE q == n % SeqSpace
           v == Accepted(w, q, m.pkt.dscp)
<1>1. BridgeInv /\ WindowInv /\ CopyTells(m) /\ Accept(m.pkt)
  BY DEF DeliveryInv, CopiesInv
<1>2. /\ StreamOf(m.pkt) = s /\ SeqNum(m.pkt) = q /\ m.pkt.dscp = MemberDscp(s, m.copy)
      /\ s \in FrerStreams /\ n \in Nat
  BY <1>1, NumberRead
<1>3. s \in StreamIds
  BY <1>1, NetTypes
<1>4. Accepts(w, q, m.pkt.dscp)
  BY <1>1, <1>2 DEF Accept, VerdictOn, Verdict
<1> HIDE DEF v
<1>5. /\ streams' = [streams EXCEPT ![s] = v]
      /\ timeoutMsg' = [timeoutMsg EXCEPT ![s] = WindowTimeout]
  BY <1>1, <1>2, <1>4 DEF Accept, RecoverSequence, v
<1>6. newest' = [newest EXCEPT ![s] = IF Advances(w, q) THEN n ELSE h]
  <2>1. ~PassThrough(m.pkt)
    BY <1>1 DEF Accept, PassThrough
  <2> QED BY <1>2, <2>1 DEF Forward
<1>7. v.active /\ v.highestSeqSeen = IF Advances(w, q) THEN q ELSE w.highestSeqSeen
  BY DEF v, Accepted
<1>8. /\ streams'[s] = v
      /\ \A r \in StreamIds \ {s} : streams'[r] = streams[r]
  BY <1>1, <1>3, <1>5 DEF BridgeInv, RecoveryInv, RecoveryTypeOK
<1>9. CASE w.active
  <2>1. /\ h \in Nat /\ StandsAt(w, h) /\ n - h < HalfSpace /\ h - n < HalfSpace
        /\ h - n < WindowSize
    BY <1>1, <1>2, <1>9, NumberDistance
  <2>2. Advances(w, q) <=> n > h
    BY <1>2, <2>1, UnwrappedVerdict
  <2>3. h < n + WindowSize
    BY <1>2, <2>1, WindowAssumption
  <2>4. top = (IF n > h THEN n ELSE h) /\ top \in Nat /\ n <= top /\ h <= top
    BY <1>2, <1>9, <2>1
  <2>5. ASSUME NEW e \in top - WindowSize + 1 .. top
        PROVE  v.accepted[Slot(e)] = IF e = n THEN m.pkt.dscp
                                     ELSE IF e > h THEN NotSeen ELSE w.accepted[Slot(e)]
    BY <1>2, <2>1, <2>3, <2>4, AcceptedWindow DEF BridgeTiming, v
  <2>6. ASSUME NEW e \in top - WindowSize + 1 .. top
        PROVE  v.accepted[Slot(e)] = IF e = n THEN m.pkt.dscp
                                     ELSE IF w.active /\ e <= h THEN w.accepted[Slot(e)]
                                     ELSE NotSeen
    <3>1. e \in Int
      BY <2>4, WindowAssumption
    <3> QED BY <1>9, <2>1, <2>5, <3>1
  <2>7. v.highestSeqSeen = top % SeqSpace
    BY <1>7, <2>1, <2>2, <2>4 DEF StandsAt
  <2>8. newest' = [newest EXCEPT ![s] = top]
    BY <1>6, <2>2, <2>4
  <2> QED BY <1>2, <1>3, <1>5, <1>7, <1>8, <2>1, <2>4, <2>6, <2>7, <2>8
<1>10. CASE ~w.active
  <2>1. top = n /\ Advances(w, q)
    BY <1>10 DEF Advances
  <2>2. ASSUME NEW e \in top - WindowSize + 1 .. top
        PROVE  v.accepted[Slot(e)] = IF e = n THEN m.pkt.dscp ELSE NotSeen
    BY <1>2, <1>10, <2>1, AcceptedFirst DEF BridgeTiming, v
  <2> QED BY <1>2, <1>3, <1>5, <1>6, <1>7, <1>8, <1>10, <2>1, <2>2
<1> QED BY <1>9, <1>10

(* A copy with a number: the other copy of its frame, if it is still on    *)
(* its way, finds the window active and its slot taken by this one.        *)
LEMMA ForwardAccepted ==
  ASSUME BridgeTiming, DeliveryInv, NEW m \in net, Forward(m), Accept(m.pkt), m.n # None
  PROVE  WindowsInStep' /\ DeliveredGuarded' /\ SlotsTellDelivered'
<1> DEFINE s == m.stream
           n == m.n
           h == newest[s]
           w == streams[s]
           top == IF w.active /\ n <= h THEN h ELSE n
<1>1. /\ s \in FrerStreams /\ s \in StreamIds /\ n \in Nat /\ top \in Nat /\ n <= top
      /\ w.active => h \in Nat /\ h <= top
      /\ newest' = [newest EXCEPT ![s] = top]
      /\ timeoutMsg' = [timeoutMsg EXCEPT ![s] = WindowTimeout]
      /\ \A r \in StreamIds \ {s} : streams'[r] = streams[r]
      /\ streams'[s].active /\ streams'[s].highestSeqSeen = top % SeqSpace
      /\ \A e \in top - WindowSize + 1 .. top :
           streams'[s].accepted[Slot(e)] =
             IF e = n THEN MemberDscp(s, m.copy)
             ELSE IF w.active /\ e <= h THEN w.accepted[Slot(e)] ELSE NotSeen
  BY ForwardedWindow
<1>2. BridgeInv /\ CopyTells(m)
  BY DEF DeliveryInv, CopiesInv
<1>3. /\ newest \in [StreamIds -> Nat \cup {None}]
      /\ timeoutMsg \in [StreamIds -> 0 .. WindowTimeout \cup {Unscheduled}]
  BY <1>2 DEF BridgeInv, RecoveryInv, RecoveryTypeOK
<1>4. /\ newest'[s] = top /\ timeoutMsg'[s] = WindowTimeout
      /\ \A r \in StreamIds \ {s} : newest'[r] = newest[r] /\ timeoutMsg'[r] = timeoutMsg[r]
  BY <1>1, <1>3
<1>5. net' = net \ {m} /\ UNCHANGED <<budget, pending, numbered>>
  BY DEF Forward, nwttVars
<1>6. Delivered' = Delivered \cup {FrameOf(m)} /\ Load' = Load
  BY <1>5, DeliveredGrows DEF Load
<1>7. m.copy \in 1 .. 2 /\ MemberDscp(s, m.copy) # NotSeen
  BY <1>1, <1>2, MembersApart DEF CopyTells, NotSeen
<1>8. MaxDelay < WindowTimeout
  BY DEF BridgeTiming
<1>9. /\ n < numbered[s] /\ numbered[s] - 1 - n + Load < Pace * (m.age + 1)
  BY DEF DeliveryInv, WindowInv, NetInStep
<1>10. numbered[s] \in Nat /\ Load \in Nat /\ m.age \in 0 .. MaxDelay
  BY <1>1, <1>2, BridgeStreams, NetTypes
<1>11. top < numbered[s]
  <2>1. w.active => h \in 0 .. numbered[s] - 1
    BY <1>1 DEF DeliveryInv, WindowInv, WindowsInStep
  <2> QED BY <1>1, <1>9, <1>10, <2>1
<1>12. ASSUME NEW k \in net \ {m}, k.n # None, k.stream = s
       PROVE  /\ FrameOf(k) = FrameOf(m) <=> k.n = n
              /\ k.n = n => 3 - k.copy = m.copy
  <2>1. /\ FrameOf(k) = FrameOf(m) => k.n = n /\ k.copy # m.copy
        /\ k.n = n => FrameOf(k) = FrameOf(m)
    BY <1>12 DEF DeliveryInv, CopiesInv, CopiesApart
  <2>2. k.copy \in 1 .. 2
    BY <1>12 DEF DeliveryInv, CopiesInv, CopyTells
  <2> QED BY <1>7, <2>1, <2>2
<1>13. ASSUME NEW k \in net \ {m}, k.stream # s \/ k.n = None
       PROVE  FrameOf(k) # FrameOf(m)
  BY <1>13 DEF DeliveryInv, CopiesInv, CopiesApart
<1> HIDE DEF s, n, h, w, top
<1>14. WindowsInStep'
  <2>1. ASSUME NEW r \in StreamIds \ {s}
        PROVE  IF streams'[r].active
               THEN /\ r \in FrerStreams
                    /\ newest'[r] \in 0 .. numbered[r] - 1
                    /\ streams'[r].highestSeqSeen = newest'[r] % SeqSpace
                    /\ numbered[r] - 1 - newest'[r] + Load
                         < Pace * (MaxDelay + 1 + WindowTimeout - timeoutMsg'[r])
               ELSE newest'[r] = None
    BY <1>1, <1>4, <2>1 DEF DeliveryInv, WindowInv, WindowsInStep
  <2>2. numbered[s] - 1 - top + Load < Pace * (MaxDelay + 1 + WindowTimeout - WindowTimeout)
    <3>1. MaxDelay + 1 + WindowTimeout - WindowTimeout = MaxDelay + 1
      BY BoundsAreNumbers
    <3>2. Pace * (m.age + 1) <= Pace * (MaxDelay + 1)
      BY <1>10, BoundsAreNumbers, TimesMonotone
    <3> DEFINE x == Pace * (m.age + 1)
               y == Pace * (MaxDelay + 1)
    <3>3. x \in Int /\ y \in Int /\ x <= y /\ numbered[s] - 1 - n + Load < x
      BY <1>9, <1>10, <3>2, BoundsAreNumbers
    <3> HIDE DEF x, y
    <3>4. numbered[s] - 1 - top + Load < y
      BY <1>1, <1>10, <3>3
    <3> QED BY <3>1, <3>4 DEF y
  <2>3. top \in 0 .. numbered[s] - 1
    BY <1>1, <1>10, <1>11
  <2> QED BY <1>1, <1>4, <1>5, <1>6, <2>1, <2>2, <2>3 DEF WindowsInStep
<1>15. DeliveredGuarded'
  <2> SUFFICES ASSUME NEW k \in net \ {m}, FrameOf(k) \in Delivered \cup {FrameOf(m)}
               PROVE  /\ k.n # None
                      /\ streams'[k.stream].active
                      /\ k.n <= newest'[k.stream]
                      /\ MaxDelay - k.age < timeoutMsg'[k.stream]
    BY <1>5, <1>6 DEF DeliveredGuarded, FrameOf
  <2>1. /\ k.stream \in StreamIds /\ k.age \in 0 .. MaxDelay /\ k.n \in Nat \cup {None}
    BY <1>2, NetTypes
  <2>2. MaxDelay - k.age < WindowTimeout
    BY <1>8, <2>1, BoundsAreNumbers
  <2>3. CASE FrameOf(k) = FrameOf(m)
    <3>1. k.stream = s /\ k.n # None
      BY <1>13, <2>3
    <3>2. k.n = n
      BY <1>12, <2>3, <3>1
    <3> QED BY <1>1, <1>4, <2>2, <3>1, <3>2
  <2>4. CASE FrameOf(k) \in Delivered
    <3>1. /\ k.n # None /\ streams[k.stream].active /\ k.n <= newest[k.stream]
          /\ MaxDelay - k.age < timeoutMsg[k.stream]
      BY <2>4 DEF DeliveryInv, WindowInv, DeliveredGuarded
    <3>2. CASE k.stream = s
      <4>1. w.active /\ k.n <= h
        BY <3>1, <3>2 DEF w, h
      <4>2. k.n <= top
        BY <1>1, <2>1, <3>1, <4>1
      <4> QED BY <1>1, <1>4, <2>2, <3>1, <3>2, <4>2
    <3>3. CASE k.stream # s
      BY <1>1, <1>4, <2>1, <3>1, <3>3
    <3> QED BY <3>2, <3>3
  <2> QED BY <2>3, <2>4
<1>16. SlotsTellDelivered'
  <2> SUFFICES ASSUME NEW k \in net \ {m}, k.n # None, streams'[k.stream].active,
                      k.n <= newest'[k.stream]
               PROVE  streams'[k.stream].accepted[Slot(k.n)] =
                        IF FrameOf(k) \in Delivered \cup {FrameOf(m)}
                        THEN MemberDscp(k.stream, 3 - k.copy) ELSE NotSeen
    BY <1>5, <1>6 DEF SlotsTellDelivered, FrameOf, Slot, MemberDscp
  <2>1. k.stream \in StreamIds /\ k.n \in Nat
    BY <1>2, NetTypes
  <2>2. CASE k.stream # s
    <3>1. streams'[k.stream] = streams[k.stream] /\ newest'[k.stream] = newest[k.stream]
      BY <1>1, <1>4, <2>1, <2>2
    <3>2. FrameOf(k) # FrameOf(m)
      BY <1>13, <2>2
    <3> QED BY <3>1, <3>2 DEF DeliveryInv, WindowInv, SlotsTellDelivered
  <2>3. CASE k.stream = s
    <3>1. k.n <= top
      BY <1>4, <2>3
    <3>2. top < k.n + WindowSize
      <4>1. numbered[s] - 1 - k.n + Load < Pace * (k.age + 1)
        BY <2>3 DEF DeliveryInv, WindowInv, NetInStep
      <4>2. k.age \in 0 .. MaxDelay /\ Pace * (MaxDelay + 1) <= WindowSize
        BY <1>2, NetTypes DEF BridgeTiming
      <4>3. Pace * (k.age + 1) <= Pace * (MaxDelay + 1)
        BY <4>2, BoundsAreNumbers, TimesMonotone
      <4> DEFINE x == Pace * (k.age + 1)
                 y == Pace * (MaxDelay + 1)
      <4>4. x \in Int /\ y \in Int /\ x <= y /\ y <= WindowSize
        BY <4>2, <4>3, BoundsAreNumbers
      <4>5. numbered[s] - 1 - k.n + Load < x
        BY <4>1
      <4> HIDE DEF x, y
      <4> QED BY <1>1, <1>10, <1>11, <2>1, <4>4, <4>5, BoundsAreNumbers
    <3>3. k.n \in top - WindowSize + 1 .. top
      BY <1>1, <2>1, <3>1, <3>2, BoundsAreNumbers
    <3>4. streams'[s].accepted[Slot(k.n)] =
            IF k.n = n THEN MemberDscp(s, m.copy)
            ELSE IF w.active /\ k.n <= h THEN w.accepted[Slot(k.n)] ELSE NotSeen
      BY <1>1, <3>3
    <3>5. CASE k.n = n
      <4>1. FrameOf(k) = FrameOf(m) /\ 3 - k.copy = m.copy
        BY <1>12, <2>3, <3>5
      <4> QED BY <2>3, <3>4, <3>5, <4>1
    <3>6. CASE k.n # n
      <4>1. FrameOf(k) # FrameOf(m)
        BY <1>12, <2>3, <3>6
      <4>2. CASE w.active /\ k.n <= h
        <5>1. w.accepted[Slot(k.n)] = IF FrameOf(k) \in Delivered
                                      THEN MemberDscp(k.stream, 3 - k.copy) ELSE NotSeen
          BY <2>3, <4>2 DEF DeliveryInv, WindowInv, SlotsTellDelivered, w, h
        <5> QED BY <2>3, <3>4, <3>6, <4>1, <4>2, <5>1
      <4>3. CASE ~(w.active /\ k.n <= h)
        <5>1. FrameOf(k) \notin Delivered
          BY <2>3, <4>3 DEF DeliveryInv, WindowInv, DeliveredGuarded, w, h
        <5> QED BY <2>3, <3>4, <3>6, <4>1, <4>3, <5>1
      <4> QED BY <4>2, <4>3
    <3> QED BY <3>5, <3>6
  <2> QED BY <2>2, <2>3
<1> QED BY <1>14, <1>15, <1>16

(* A packet without a number passes the windows by. *)
LEMMA ForwardPassed ==
  ASSUME BridgeTiming, DeliveryInv, NEW m \in net, Forward(m),
         PassThrough(m.pkt), m.n = None
  PROVE  WindowsInStep' /\ DeliveredGuarded' /\ SlotsTellDelivered'
<1>1. /\ net' = net \ {m}
      /\ UNCHANGED <<budget, pending, numbered, streams, timeoutMsg, newest>>
  BY DEF Forward, nwttVars, PassThrough, Accept
<1>2. Delivered' = Delivered \cup {FrameOf(m)} /\ Load' = Load
  BY <1>1, DeliveredGrows DEF Load
<1>3. ASSUME NEW k \in net \ {m}
      PROVE  FrameOf(k) # FrameOf(m)
  <2>1. m.copy = 1 /\ (k.n = None => k.copy = 1)
    BY DEF DeliveryInv, CopiesInv, CopyTells
  <2>2. FrameOf(k) = FrameOf(m) => k.n = None /\ k.copy # m.copy
    BY DEF DeliveryInv, CopiesInv, CopiesApart
  <2> QED BY <2>1, <2>2
<1>4. WindowsInStep'
  BY <1>1, <1>2 DEF DeliveryInv, WindowInv, WindowsInStep
<1>5. DeliveredGuarded'
  <2> SUFFICES ASSUME NEW k \in net \ {m}, FrameOf(k) \in Delivered
               PROVE  /\ k.n # None /\ streams[k.stream].active /\ k.n <= newest[k.stream]
                      /\ MaxDelay - k.age < timeoutMsg[k.stream]
    BY <1>1, <1>2, <1>3 DEF DeliveredGuarded, FrameOf
  <2> QED BY DEF DeliveryInv, WindowInv, DeliveredGuarded
<1>6. SlotsTellDelivered'
  <2> SUFFICES ASSUME NEW k \in net \ {m}, k.n # None, streams[k.stream].active,
                      k.n <= newest[k.stream]
               PROVE  streams[k.stream].accepted[Slot(k.n)] =
                        IF FrameOf(k) \in Delivered THEN MemberDscp(k.stream, 3 - k.copy)
                        ELSE NotSeen
    BY <1>1, <1>2, <1>3 DEF SlotsTellDelivered, FrameOf, Slot, MemberDscp
  <2> QED BY DEF DeliveryInv, WindowInv, SlotsTellDelivered
<1> QED BY <1>4, <1>5, <1>6

LEMMA ForwardDelivery ==
  ASSUME BridgeDeployment, BridgeTiming, DeliveryInv, NEW m \in net, Forward(m)
  PROVE  FramesInv' /\ CopiesInv' /\ WindowInv' /\ FiguresInStep'
<1>1. FramesInv' /\ CopiesInv' /\ Load' <= Pace /\ NumbersInStep' /\ NetInStep'
  BY ForwardFrames
<1>2. FiguresInStep'
  BY ForwardFigures
<1>3. WindowsInStep' /\ DeliveredGuarded' /\ SlotsTellDelivered'
  BY ForwardedWasNew, ForwardAccepted, ForwardPassed
<1> QED BY <1>1, <1>2, <1>3 DEF WindowInv

-----------------------------------------------------------------------------
LEMMA DeliveryInitInv ==
  ASSUME BridgeTiming, BridgeInit
  PROVE  DeliveryInv
<1>1. /\ entered = {} /\ pending = <<>> /\ net = {} /\ delivered = {} /\ budget = Pace
      /\ sequenceCounters = [s \in FrerStreams |-> 0]
      /\ numbered = [s \in FrerStreams |-> 0] /\ newest = [s \in StreamIds |-> None]
      /\ streams = [s \in StreamIds |-> NewStream]
  BY DEF BridgeInit, ReplicatorInit, RecoveryInit
<1>2. BridgeInv
  BY BridgeInitInv
<1>3. Len(pending) = 0 /\ DOMAIN pending = {} /\ IsFiniteSet({}) /\ Cardinality({}) = 0
  BY <1>1, FS_EmptySet
<1>4. EnteredInOrder
  BY <1>1, <1>3 DEF EnteredInOrder, Numbers
<1>5. DeliveredOnce /\ KindsTold /\ PendingIsNew
  BY <1>1, <1>3 DEF DeliveredOnce, KindsTold, PendingIsNew
<1>6. CopiesInv
  BY <1>1 DEF CopiesInv, CopiesApart
<1>7. Load <= Pace
  BY <1>1, <1>3, BoundsAreNumbers DEF Load
<1>8. NumbersInStep
  <2>1. 0 % SeqSpace = 0
    BY ModSmall, SeqSpaceAssumption
  <2> QED BY <1>1, <2>1 DEF NumbersInStep
<1>9. WindowsInStep
  BY <1>1 DEF WindowsInStep, NewStream
<1>10. NetInStep /\ DeliveredGuarded /\ SlotsTellDelivered
  BY <1>1 DEF NetInStep, DeliveredGuarded, SlotsTellDelivered
<1>11. FiguresInStep
  <2>1. Measured = {}
    BY <1>1 DEF Measured
  <2>2. /\ delayMin = SimtimeMax /\ delayMax = 0 /\ delaySum = 0 /\ delaySamples = 0
        /\ qosViolations = {}
    BY DEF BridgeInit, AfInit
  <2> QED BY <1>3, <2>1, <2>2, AfAssumption DEF FiguresInStep
<1> QED BY <1>2, <1>4, <1>5, <1>6, <1>7, <1>8, <1>9, <1>10, <1>11
        DEF DeliveryInv, FramesInv, WindowInv

LEMMA DeliveryStep ==
  ASSUME BridgeDeployment, BridgeTiming, DeliveryInv, [BridgeNext]_bridgeVars
  PROVE  DeliveryInv'
<1> SUFFICES FramesInv' /\ CopiesInv' /\ WindowInv' /\ FiguresInStep'
  BY BridgeStep DEF DeliveryInv
<1>1. ASSUME NEW kind \in GptpTypes, EnterGptu(kind) \/ EnterSideband(kind)
      PROVE  FramesInv' /\ CopiesInv' /\ WindowInv' /\ FiguresInStep'
  BY <1>1, EnterGptuDelivery, EnterSidebandDelivery
<1>2. ASSUME NEW pcp \in DataPcps, NEW dscp \in DataDscps, NEW d \in DOMAIN tsnToUeMap,
         EnterData(pcp, dscp, d)
      PROVE  FramesInv' /\ CopiesInv' /\ WindowInv' /\ FiguresInStep'
  BY <1>2, EnterDataDelivery
<1>3. CASE Copy
  BY <1>3, CopyDelivery
<1>4. ASSUME NEW m \in net, Lose(m) \/ Forward(m) \/ Eliminate(m)
      PROVE  FramesInv' /\ CopiesInv' /\ WindowInv' /\ FiguresInStep'
  BY <1>4, LoseDelivery, ForwardDelivery, EliminateDelivery
<1>5. ASSUME NEW b \in sideband, ForwardFromSideband(b)
      PROVE  FramesInv' /\ CopiesInv' /\ WindowInv' /\ FiguresInStep'
  BY <1>5, SidebandDelivery
<1>6. ASSUME NEW s \in StreamIds, Forget(s)
      PROVE  FramesInv' /\ CopiesInv' /\ WindowInv' /\ FiguresInStep'
  BY <1>6, ForgetDelivery
<1>7. CASE Tick
  BY <1>7, TickDelivery
<1>8. CASE UNCHANGED bridgeVars
  <2>1. net' \subseteq net
    BY <1>8 DEF bridgeVars
  <2>2. UNCHANGED <<entered, pending, budget, delivered, afVars, sequenceCounters,
                    numbered, newest, streams, timeoutMsg>>
    BY <1>8 DEF bridgeVars, historyVars
  <2> QED BY <2>1, <2>2, QuietStep
<1> QED BY <1>1, <1>2, <1>3, <1>4, <1>5, <1>6, <1>7, <1>8 DEF BridgeNext

(* The quotient of a sum by the number of its terms lies between bounds of *)
(* its terms.                                                              *)
LEMMA QuotientBetween ==
  ASSUME NEW n \in Nat \ {0}, NEW a \in Int, NEW b \in Int, NEW sum \in Int,
         n * a <= sum, sum <= n * b
  PROVE  sum \div n \in a .. b
<1> DEFINE q == sum \div n
           r == sum % n
<1>1. q \in Int /\ sum = n * q + r /\ r \in 0 .. n - 1
  BY DivMod, ModRange
<1> HIDE DEF q, r
<1>2. a <= q
  <2> SUFFICES ASSUME q + 1 <= a PROVE FALSE
    BY <1>1
  <2>1. n * (q + 1) <= n * a
    BY <1>1, TimesMonotone
  <2>2. n * (q + 1) = n * q + n
    BY <1>1
  <2> DEFINE x == n * q
             y == n * a
  <2>3. x \in Int /\ y \in Int /\ x + n <= y /\ y <= sum /\ sum = x + r
    BY <1>1, <2>1, <2>2
  <2> HIDE DEF x, y
  <2> QED BY <1>1, <2>3
<1>3. q <= b
  <2> SUFFICES ASSUME b + 1 <= q PROVE FALSE
    BY <1>1
  <2>1. n * (b + 1) <= n * q
    BY <1>1, TimesMonotone
  <2>2. n * (b + 1) = n * b + n
    OBVIOUS
  <2> DEFINE x == n * q
             y == n * b
  <2>3. x \in Int /\ y \in Int /\ y + n <= x /\ sum <= y /\ sum = x + r
    BY <1>1, <2>1, <2>2
  <2> HIDE DEF x, y
  <2> QED BY <1>1, <2>3
<1> QED BY <1>1, <1>2, <1>3 DEF q

-----------------------------------------------------------------------------
LEMMA TimingInvariant ==
  BridgeDeployment /\ BridgeTiming /\ BridgeSpec
    => [](BridgeDeployment /\ BridgeTiming /\ DeliveryInv)
<1>1. BridgeDeployment /\ BridgeTiming /\ BridgeInit
        => BridgeDeployment /\ BridgeTiming /\ DeliveryInv
  BY DeliveryInitInv
<1>2. (BridgeDeployment /\ BridgeTiming /\ DeliveryInv) /\ [BridgeNext]_bridgeVars
        => (BridgeDeployment /\ BridgeTiming /\ DeliveryInv)'
  <2> SUFFICES ASSUME BridgeDeployment, BridgeTiming, DeliveryInv, [BridgeNext]_bridgeVars
               PROVE  BridgeDeployment' /\ BridgeTiming' /\ DeliveryInv'
    OBVIOUS
  <2>1. DeliveryInv'
    BY DeliveryStep
  <2>2. BridgeDeployment' /\ BridgeTiming'
    BY DEF BridgeDeployment, BridgeTiming, HalfSpace
  <2> QED BY <2>1, <2>2
<1> QED BY <1>1, <1>2, PTL DEF BridgeSpec

(* Numbers, windows and deliveries stay in step, whatever share of the     *)
(* numbers of a stream goes to other endpoints.                            *)
THEOREM DeliveryInvariant == BridgeDeployment /\ BridgeTiming /\ BridgeSpec => []DeliveryInv
<1>1. BridgeDeployment /\ BridgeTiming /\ DeliveryInv => DeliveryInv
  OBVIOUS
<1> QED BY <1>1, TimingInvariant, PTL

(* TsnAf publishes the least, greatest and mean delay of the gPTP frames   *)
(* that left the bridge here, each counted once, and reports a stream only *)
(* if the greatest delay is above the latency it reserved.                 *)
THEOREM DelaysExact == BridgeDeployment /\ BridgeTiming /\ BridgeSpec => []DelayFiguresExact
<1>1. DeliveryInv => DelayFiguresExact
  <2> SUFFICES ASSUME DeliveryInv PROVE DelayFiguresExact
    OBVIOUS
  <2>1. FiguresInStep /\ DeliveredOnce
    BY DEF DeliveryInv, FramesInv
  <2>2. ASSUME delaySamples > 0
        PROVE  /\ delayMin = Min({x.residence : x \in Measured})
               /\ delayMax = Max({x.residence : x \in Measured})
               /\ bridgeDelayAvg \in delayMin .. delayMax
    <3> DEFINE R == {x.residence : x \in Measured}
    <3>1. IsFiniteSet(Measured)
      <4>1. IsFiniteSet(delivered) /\ Measured \subseteq delivered
        BY <2>1 DEF DeliveredOnce, Measured
      <4> QED BY <4>1, FS_Subset
    <3>2. delaySamples \in Nat \ {0} /\ Measured # {}
      BY <2>1, <2>2, <3>1, FS_CardinalityType, FS_EmptySet DEF FiguresInStep
    <3>3. /\ delayMin \in R /\ delayMax \in R
          /\ \A r \in R : delayMin <= r /\ r <= delayMax
      BY <2>1, <3>2 DEF FiguresInStep
    <3>4. \A r \in R : r \in Int
      BY DEF DeliveryInv, BridgeInv, Measured
    <3> HIDE DEF R
    <3>5. delayMin = Min(R)
      BY <3>3, <3>4 DEF Min
    <3>6. delayMax = Max(R)
      BY <3>3, <3>4 DEF Max
    <3>7. delaySum \in Int /\ delayMin \in Int /\ delayMax \in Int
      BY <2>1, <3>3, <3>4 DEF FiguresInStep
    <3>8. bridgeDelayAvg \in delayMin .. delayMax
      BY <2>1, <2>2, <3>2, <3>7, QuotientBetween DEF FiguresInStep
    <3> QED BY <3>5, <3>6, <3>8 DEF R
  <2> QED BY <2>1, <2>2 DEF DelayFiguresExact, FiguresInStep, DeliveredOnce
<1> QED BY <1>1, DeliveryInvariant, PTL

(* FrerRecovery drops a copy, as DUPLICATE or as WINDOW_OVERRUN, only if   *)
(* the frame it carries has left the bridge: no frame is lost to the leaps *)
(* that the window of one endpoint makes over the numbers of the others.   *)
THEOREM FreshFramesPass ==
  BridgeDeployment /\ BridgeTiming /\ BridgeSpec => NoFreshFrameDropped
<1>1. BridgeDeployment /\ BridgeTiming /\ DeliveryInv /\ [BridgeNext]_bridgeVars
        => [out'.verdict \in {"DUPLICATE", "WINDOW_OVERRUN"} =>
              \A m \in net \ net' : \E x \in delivered : x.frame = m.pkt.frame.n]_bridgeVars
  <2> SUFFICES ASSUME BridgeTiming, DeliveryInv, BridgeNext,
                      out'.verdict \in {"DUPLICATE", "WINDOW_OVERRUN"},
                      NEW k \in net \ net'
               PROVE  \E x \in delivered : x.frame = k.pkt.frame.n
    OBVIOUS
  <2>1. out'.verdict # "NONE" /\ out'.verdict # "ACCEPT" /\ out'.verdict # "PASSED"
    OBVIOUS
  <2>2. out' # NoPacket
    BY <2>1 DEF NoPacket
  <2>3. PICK m \in net : Eliminate(m)
    <3>1. ASSUME NEW m \in net, Forward(m) PROVE FALSE
      <4>1. out'.verdict \in {"ACCEPT", "PASSED"}
        BY <3>1 DEF Forward, Accept, PassThrough
      <4> QED BY <2>1, <4>1
    <3> QED BY <2>2, <3>1 DEF BridgeNext, EnterGptu, EnterSideband, EnterData, Enter, Copy, Lose,
                              ForwardFromSideband, Forget, HandleTimeout, Tick, TimersRun
  <2>4. k = m /\ Drop(m.pkt)
    BY <2>3 DEF Eliminate
  <2>5. FrameOf(m) \in Delivered
    BY <2>4, DroppedWasDelivered
  <2> QED BY <2>4, <2>5 DEF Delivered, FrameOf
<1> QED BY <1>1, TimingInvariant, PTL DEF BridgeSpec, NoFreshFrameDropped
=============================================================================
