-------------------------- MODULE FrerChainProofs --------------------------
(***************************************************************************)
(* The inductive invariant ChainInv of the composition, for every          *)
(* deployment that satisfies Deployment, and what follows from it: no      *)
(* datagram is handed on from both of its member streams, and the          *)
(* composition keeps the promise of FrerElimination.                       *)
(*                                                                         *)
(* The argument runs over unwrapped datagram numbers.  CopiesInStep and    *)
(* WindowInStep keep a copy and the window of its stream less than half    *)
(* the number space apart, so the int16_t arithmetic of the code agrees    *)
(* with that of integers; then a slot in the window speaks of one datagram *)
(* (SlotsTellForwarded), and a datagram that was handed on while a copy is *)
(* in transit still has its slot when the copy arrives                     *)
(* (ForwardedAreGuarded).                                                  *)
(***************************************************************************)
EXTENDS FrerChain, FrerRecoveryProofs

(* The fields of a copy in transit. *)
LEMMA MessageFields ==
  ASSUME NEW m \in Messages
  PROVE  /\ m.pkt.dscp \in Dscps /\ m.pkt.identification \in Seqs
         /\ m.pkt.rtag \in RTag \cup {NoTag}
         /\ m.pkt.dgram \in Datagrams
         /\ m.pkt.dgram.stream \in AppDscps
         /\ m.pkt.dgram.n \in 0 .. MaxSent - 1
         /\ m.copy \in 1 .. 2
         /\ m.part \in 0 .. 2
         /\ m.age \in 0 .. MaxDelay
         /\ Readable(m.pkt)
BY DEF Messages, Datagrams, Readable

LEMMA NoTagIsNone == NoTag \notin RTag
BY DscpAssumption DEF NoTag, RTag, Seqs

(* The copies of one datagram have DSCPs of their own. *)
LEMMA MemberDscps ==
  ASSUME Deployment, NEW s \in FrerStreams
  PROVE  \A c \in 1 .. 2 : /\ MemberDscp(s, c) \in Nat
                           /\ MemberDscp(s, c) \in {s, ReplicaDscp}
                           /\ \A b \in 1 .. 2 : MemberDscp(s, b) = MemberDscp(s, c) => b = c
BY DscpAssumption DEF Deployment, TrafficFits, MemberDscp

(* What the elimination point reads from a copy of a replicated datagram   *)
(* is the stream and the number of its datagram, whether it finds the      *)
(* R-TAG or has to fall back on the header.                                *)
LEMMA CopyRead ==
  ASSUME Deployment, NEW m \in Messages, Carries(m), m.pkt.dgram.stream \in FrerStreams
  PROVE  /\ StreamOf(m.pkt) = m.pkt.dgram.stream
         /\ SeqNum(m.pkt) = m.pkt.dgram.n % SeqSpace
         /\ m.pkt.dscp = MemberDscp(m.pkt.dgram.stream, m.copy)
<1> DEFINE s == m.pkt.dgram.stream
           q == m.pkt.dgram.n % SeqSpace
<1>1. /\ m.pkt.dscp = MemberDscp(s, m.copy)
      /\ m.pkt.identification = q
      /\ m.pkt.rtag \in {NoTag, [streamId |-> s, sequenceNumber |-> q]}
      /\ RTagFound(m.pkt) \/ FragmentMay \/ TrimMay
  BY DEF Carries
<1>2. CASE RTagFound(m.pkt)
  <2>1. m.pkt.rtag = [streamId |-> s, sequenceNumber |-> q]
    BY <1>1, <1>2 DEF RTagFound
  <2> QED BY <1>1, <1>2, <2>1 DEF StreamOf, SeqNum
<1>3. CASE ~RTagFound(m.pkt)
  <2>1. s = Min(FrerStreams) /\ FrerStreams # {}
    BY <1>1, <1>3 DEF Deployment, FallbackIsSafe
  <2>2. FallbackStream(m.pkt) = s
    <3>1. CASE m.copy = 1
      BY <1>1, <3>1 DEF Deployment, TrafficFits, MemberDscp, FallbackStream, IsReplica
    <3>2. CASE m.copy # 1
      <4>1. IsReplica(m.pkt)
        BY <1>1, <3>2 DEF MemberDscp, IsReplica
      <4> QED BY <4>1, <2>1 DEF FallbackStream
    <3> QED BY <3>1, <3>2
  <2> QED BY <1>1, <1>3, <2>2 DEF StreamOf, SeqNum
<1> QED BY <1>1, <1>2, <1>3

(* Only copies of replicated datagrams are subject to recovery. *)
LEMMA CopyIsFrer ==
  ASSUME Deployment, NEW m \in Messages, Carries(m), IsFrer(m.pkt)
  PROVE  m.pkt.dgram.stream \in Carried
<1>1. m.pkt.dgram.stream \in AppDscps
  BY MessageFields
<1>2. m.pkt.dgram.stream \in FrerStreams
  BY <1>1 DEF IsFrer, Carries, Deployment, TrafficFits
<1> QED BY <1>1, <1>2 DEF Carried

-----------------------------------------------------------------------------
(* A copy and the window of its stream are less than half the number space *)
(* apart.                                                                  *)
LEMMA Distance ==
  ASSUME Deployment, ChainInv, NEW m \in net,
         streams[m.pkt.dgram.stream].active, m.pkt.dgram.stream \in Carried
  PROVE  LET n == m.pkt.dgram.n
             h == newest[m.pkt.dgram.stream]
         IN  /\ n \in Nat /\ h \in Nat
             /\ StandsAt(streams[m.pkt.dgram.stream], h)
             /\ n - h < HalfSpace /\ h - n < HalfSpace
<1> DEFINE s == m.pkt.dgram.stream
           n == m.pkt.dgram.n
           h == newest[s]
           P == produced[s]
           B == budget[s]
           T == timeoutMsg[s]
           a == m.age
<1>1. m \in Messages
  BY DEF ChainInv, ChainTypeOK
<1>2. s \in AppDscps /\ s \in StreamIds /\ n \in Nat /\ a \in 0 .. MaxDelay
  BY <1>1, MessageFields, ChainAssumption DEF StreamIds
<1>3. P \in Nat /\ B \in Nat
  BY <1>2 DEF ChainInv, ChainTypeOK
<1>4. T \in 0 .. WindowTimeout
  BY <1>2 DEF ChainInv, ChainTypeOK, RecoveryTypeOK, ActiveIffArmed
<1>5. n < P /\ P - 1 - n + B < Pace * (a + 1)
  BY DEF ChainInv, CopiesInStep
<1>6. /\ h \in 0 .. P - 1
      /\ streams[s].highestSeqSeen = h % SeqSpace
      /\ P - 1 - h + B < Pace * (MaxDelay + 1 + WindowTimeout - T)
  BY <1>2 DEF ChainInv, WindowInStep
<1>7. Pace * (MaxDelay + WindowTimeout + 1) <= HalfSpace
  BY DEF Deployment, PacedBelowHalf
<1>8. streams[s].active
  OBVIOUS
<1> HIDE DEF s, n, h, P, B, T, a
<1>9. /\ Pace \in Nat \ {0} /\ MaxDelay \in Nat /\ WindowTimeout \in Nat /\ HalfSpace \in Nat
  BY ChainAssumption, TimeoutAssumption, Halves
<1>10. Pace * (a + 1) <= Pace * (MaxDelay + WindowTimeout + 1)
  BY <1>2, <1>9
<1>11. Pace * (MaxDelay + 1 + WindowTimeout - T) <= Pace * (MaxDelay + WindowTimeout + 1)
  BY <1>4, <1>9
<1>12. n - h < HalfSpace /\ h - n < HalfSpace
  <2> DEFINE x == Pace * (a + 1)
             y == Pace * (MaxDelay + 1 + WindowTimeout - T)
             z == Pace * (MaxDelay + WindowTimeout + 1)
  <2>1. x \in Int /\ y \in Int /\ z \in Int
    BY <1>2, <1>4, <1>9
  <2>2. /\ P - 1 - n + B < x /\ P - 1 - h + B < y /\ x <= z /\ y <= z /\ z <= HalfSpace
    BY <1>5, <1>6, <1>7, <1>10, <1>11
  <2> HIDE DEF x, y, z
  <2> QED BY <2>1, <2>2, <1>2, <1>3, <1>5, <1>6, <1>9
<1>13. h \in Nat
  BY <1>3, <1>6
<1> QED BY <1>2, <1>6, <1>8, <1>12, <1>13 DEF StandsAt, s, n, h

-----------------------------------------------------------------------------
LEMMA ChainRecovery == ChainInv => RecoveryInv
BY DEF ChainInv, ChainTypeOK, RecoveryInv

(* Whatever the transport does to its copies, the invariant holds as long  *)
(* as each copy it has left comes from one it had and still names the same *)
(* datagram.                                                               *)
LEMMA NetStep ==
  ASSUME ChainInv,
         UNCHANGED <<streams, timeoutMsg, sequenceCounters, produced, budget, forwarded, newest>>,
         NEW N, net' = N, N \subseteq Messages,
         \A k \in N : Carries(k) /\ \E m \in net : /\ k.pkt.dgram = m.pkt.dgram
                                               /\ k.copy = m.copy
                                               /\ k.age = m.age
  PROVE  ChainInv'
<1>1. ChainTypeOK' /\ ActiveIffArmed'
  BY DEF ChainInv, ChainTypeOK, RecoveryTypeOK, ActiveIffArmed
<1>2. NewestSlotTaken' /\ CountersInStep' /\ WindowInStep' /\ ForwardedWereProduced'
  BY DEF ChainInv, NewestSlotTaken, CountersInStep, WindowInStep, ForwardedWereProduced, Slot
<1>3. CopiesInStep'
  <2> SUFFICES ASSUME NEW k \in N
               PROVE  /\ Carries(k)
                      /\ k.pkt.dgram.n < produced[k.pkt.dgram.stream]
                      /\ produced[k.pkt.dgram.stream] - 1 - k.pkt.dgram.n
                           + budget[k.pkt.dgram.stream] < Pace * (k.age + 1)
    BY DEF CopiesInStep
  <2>1. PICK m \in net : k.pkt.dgram = m.pkt.dgram /\ k.age = m.age
    OBVIOUS
  <2> QED BY <2>1 DEF ChainInv, CopiesInStep
<1>4. ForwardedAreGuarded'
  <2> SUFFICES ASSUME NEW f \in forwarded, NEW k \in N, k.pkt.dgram = f.dgram
               PROVE  /\ streams[f.dgram.stream].active
                      /\ f.dgram.n <= newest[f.dgram.stream]
                      /\ MaxDelay - k.age < timeoutMsg[f.dgram.stream]
    BY DEF ForwardedAreGuarded
  <2>1. PICK m \in net : k.pkt.dgram = m.pkt.dgram /\ k.age = m.age
    OBVIOUS
  <2> QED BY <2>1 DEF ChainInv, ForwardedAreGuarded
<1>5. SlotsTellForwarded'
  <2> SUFFICES ASSUME NEW k \in N,
                      k.pkt.dgram.stream \in FrerStreams,
                      streams[k.pkt.dgram.stream].active,
                      k.pkt.dgram.n \in newest[k.pkt.dgram.stream] - WindowSize + 1
                                          .. newest[k.pkt.dgram.stream]
               PROVE  LET d == k.pkt.dgram
                          s == d.stream
                      IN  /\ streams[s].accepted[Slot(d.n)] \in {NotSeen, s, ReplicaDscp}
                          /\ \A c \in 1 .. 2 :
                               streams[s].accepted[Slot(d.n)] = MemberDscp(s, c)
                                 <=> [dgram |-> d, copy |-> c] \in forwarded
    BY DEF SlotsTellForwarded, Slot, MemberDscp
  <2>1. PICK m \in net : k.pkt.dgram = m.pkt.dgram
    OBVIOUS
  <2> QED BY <2>1 DEF ChainInv, SlotsTellForwarded
<1>6. OneMemberStream'
  BY DEF ChainInv, OneMemberStream
<1> QED BY <1>1, <1>2, <1>3, <1>4, <1>5, <1>6 DEF ChainInv

LEMMA LoseStep ==
  ASSUME ChainInv, NEW m \in net, Lose(m)
  PROVE  ChainInv'
<1> DEFINE N == net \ {m}
<1>1. /\ net' = N
      /\ UNCHANGED <<streams, timeoutMsg, sequenceCounters, produced, budget, forwarded, newest>>
  BY DEF Lose, Quiet, historyVars
<1>2. N \subseteq Messages /\ \A k \in N : k \in net /\ Carries(k)
  BY DEF ChainInv, ChainTypeOK, CopiesInStep
<1> QED BY <1>1, <1>2, NetStep

LEMMA CutFields ==
  ASSUME NEW m \in Messages, NEW i \in 0 .. 2, NEW b \in BOOLEAN
  PROVE  /\ [m EXCEPT !.part = i, !.pkt = [@ EXCEPT !.fragment = b, !.rtag = NoTag]] \in Messages
         /\ [m EXCEPT !.part = i, !.pkt = [@ EXCEPT !.fragment = b]] \in Messages
BY DEF Messages

(* A fragment keeps the number in its header; with it the R-TAG is lost or *)
(* no longer looked for.                                                   *)
LEMMA FragmentStep ==
  ASSUME ChainInv, NEW m \in net, Fragment(m)
  PROVE  ChainInv'
<1> DEFINE k1 == [m EXCEPT !.part = 1, !.pkt = [@ EXCEPT !.fragment = TRUE, !.rtag = NoTag]]
           k2 == [m EXCEPT !.part = 2, !.pkt = [@ EXCEPT !.fragment = TRUE]]
           N == (net \ {m}) \cup {k1, k2}
<1>1. /\ FragmentMay
      /\ net' = N
      /\ UNCHANGED <<streams, timeoutMsg, sequenceCounters, produced, budget, forwarded, newest>>
  BY DEF Fragment, Quiet, historyVars
<1>2. m \in Messages /\ Carries(m)
  BY DEF ChainInv, ChainTypeOK, CopiesInStep
<1>3. k1 \in Messages /\ k2 \in Messages
  <2>1. TRUE \in BOOLEAN /\ 1 \in 0 .. 2 /\ 2 \in 0 .. 2
    OBVIOUS
  <2> QED BY <1>2, <2>1, CutFields, Zenon
<1>4. /\ k1.pkt.dgram = m.pkt.dgram /\ k1.copy = m.copy /\ k1.age = m.age
      /\ k2.pkt.dgram = m.pkt.dgram /\ k2.copy = m.copy /\ k2.age = m.age
  BY <1>2 DEF Messages
<1>5. Carries(k1) /\ Carries(k2)
  BY <1>1, <1>2, <1>4 DEF Messages, Carries
<1> HIDE DEF k1, k2
<1>6. N \subseteq Messages /\ \A k \in net \ {m} : Carries(k)
  BY <1>3 DEF ChainInv, ChainTypeOK, CopiesInStep
<1>7. \A k \in N : Carries(k) /\ \E l \in net : /\ k.pkt.dgram = l.pkt.dgram
                                             /\ k.copy = l.copy
                                             /\ k.age = l.age
  BY <1>4, <1>5, <1>6
<1> QED BY <1>1, <1>6, <1>7, NetStep

LEMMA TrimStep ==
  ASSUME ChainInv, NEW m \in net, Trim(m)
  PROVE  ChainInv'
<1> DEFINE k1 == [m EXCEPT !.pkt = [@ EXCEPT !.rtag = NoTag]]
           N == (net \ {m}) \cup {k1}
<1>1. /\ TrimMay
      /\ net' = N
      /\ UNCHANGED <<streams, timeoutMsg, sequenceCounters, produced, budget, forwarded, newest>>
  BY DEF Trim, Quiet, historyVars
<1>2. m \in Messages /\ Carries(m)
  BY DEF ChainInv, ChainTypeOK, CopiesInStep
<1>3. k1 \in Messages
  BY <1>2 DEF Messages
<1>4. k1.pkt.dgram = m.pkt.dgram /\ k1.copy = m.copy /\ k1.age = m.age
  BY <1>2 DEF Messages
<1>5. Carries(k1)
  BY <1>1, <1>2, <1>4 DEF Messages, Carries
<1> HIDE DEF k1
<1>6. N \subseteq Messages /\ \A k \in net \ {m} : Carries(k)
  BY <1>3 DEF ChainInv, ChainTypeOK, CopiesInStep
<1>7. \A k \in N : Carries(k) /\ \E l \in net : /\ k.pkt.dgram = l.pkt.dgram
                                             /\ k.copy = l.copy
                                             /\ k.age = l.age
  BY <1>4, <1>5, <1>6
<1> QED BY <1>1, <1>6, <1>7, NetStep

LEMMA DeliverOtherStep ==
  ASSUME ChainInv, NEW m \in net, DeliverOther(m)
  PROVE  ChainInv'
<1> DEFINE N == net \ {m}
<1>1. N \subseteq Messages /\ \A k \in N : k \in net /\ Carries(k)
  BY DEF ChainInv, ChainTypeOK, CopiesInStep
<1>2. UNCHANGED <<streams, timeoutMsg>>
  <2>1. Readable(m.pkt)
    BY MessageFields DEF ChainInv, ChainTypeOK
  <2>2. CASE Drop(m.pkt)
    BY <2>1, <2>2, DropStep, ChainRecovery
  <2>3. CASE PassThrough(m.pkt)
    BY <2>3 DEF PassThrough
  <2> QED BY <2>2, <2>3 DEF DeliverOther
<1>3. /\ net' = N
      /\ UNCHANGED <<sequenceCounters, produced, budget, forwarded, newest>>
  BY DEF DeliverOther, Quiet, historyVars
<1> QED BY <1>1, <1>2, <1>3, NetStep

-----------------------------------------------------------------------------
(* Datagrams belong to streams with a window, a counter and a budget. *)
LEMMA StreamTypes ==
  ASSUME ChainInv
  PROVE  /\ AppDscps \subseteq StreamIds /\ Carried \subseteq StreamIds
         /\ \A f \in forwarded : f.dgram.stream \in AppDscps /\ f.dgram.n \in Nat
         /\ \A m \in net : m \in Messages /\ Readable(m.pkt) /\ Carries(m)
         /\ \A s \in AppDscps : produced[s] \in Nat /\ budget[s] \in 0 .. Pace
         /\ \A s \in StreamIds : /\ streams[s] \in StreamState
                                 /\ streams[s].active => timeoutMsg[s] \in 0 .. WindowTimeout
<1>1. AppDscps \subseteq StreamIds /\ Carried \subseteq StreamIds
  BY ChainAssumption DEF StreamIds, Carried
<1>2. \A f \in forwarded : f.dgram.stream \in AppDscps /\ f.dgram.n \in Nat
  BY ChainAssumption DEF ChainInv, ChainTypeOK, Datagrams
<1>3. \A m \in net : m \in Messages /\ Readable(m.pkt) /\ Carries(m)
  BY MessageFields DEF ChainInv, ChainTypeOK, CopiesInStep
<1>4. \A s \in AppDscps : produced[s] \in Nat /\ budget[s] \in 0 .. Pace
  BY DEF ChainInv, ChainTypeOK
<1>5. \A s \in StreamIds :
        /\ streams[s] \in StreamState
        /\ streams[s].active => timeoutMsg[s] \in 0 .. WindowTimeout
  BY DEF ChainInv, ChainTypeOK, RecoveryTypeOK, ActiveIffArmed
<1> QED BY <1>1, <1>2, <1>3, <1>4, <1>5

(* When the idle timer of a stream fires, none of its datagrams that were  *)
(* handed on has a copy left in transit.                                   *)
LEMMA ExpireStep ==
  ASSUME ChainInv, NEW s \in StreamIds, Expire(s)
  PROVE  ChainInv'
<1>1. /\ timeoutMsg[s] = 0
      /\ streams' = [streams EXCEPT ![s] = ResetStream(streams[s])]
      /\ timeoutMsg' = [timeoutMsg EXCEPT ![s] = Unscheduled]
      /\ newest' = [newest EXCEPT ![s] = None]
      /\ UNCHANGED <<sequenceCounters, net, produced, budget, forwarded>>
  BY DEF Expire, HandleTimeout, Quiet
<1>2. RecoveryInv'
  BY TimeoutStep, ChainRecovery DEF Expire
<1>3. /\ streams \in [StreamIds -> StreamState]
      /\ timeoutMsg \in [StreamIds -> 0 .. WindowTimeout \cup {Unscheduled}]
      /\ newest \in [StreamIds -> Nat \cup {None}]
  BY DEF ChainInv, ChainTypeOK, RecoveryTypeOK
<1>4. ~streams'[s].active
  BY <1>1, <1>3, ResetState
<1>5. \A r \in StreamIds \ {s} :
        streams'[r] = streams[r] /\ timeoutMsg'[r] = timeoutMsg[r] /\ newest'[r] = newest[r]
  BY <1>1, <1>3
<1>6. ChainTypeOK' /\ ActiveIffArmed' /\ NewestSlotTaken'
  BY <1>1, <1>2, <1>3 DEF ChainInv, ChainTypeOK, RecoveryInv
<1>7. CountersInStep' /\ CopiesInStep' /\ OneMemberStream' /\ ForwardedWereProduced'
  BY <1>1 DEF ChainInv, CountersInStep, CopiesInStep, OneMemberStream, ForwardedWereProduced,
              Carries, MemberDscp, RTagFound
<1>8. WindowInStep'
  <2>1. newest'[s] = None
    BY <1>1, <1>3
  <2> QED BY <1>1, <1>4, <1>5, <2>1 DEF ChainInv, WindowInStep
<1>9. ForwardedAreGuarded'
  <2> SUFFICES ASSUME NEW f \in forwarded, NEW m \in net, m.pkt.dgram = f.dgram
               PROVE  /\ streams'[f.dgram.stream].active
                      /\ f.dgram.n <= newest'[f.dgram.stream]
                      /\ MaxDelay - m.age < timeoutMsg'[f.dgram.stream]
    BY <1>1 DEF ForwardedAreGuarded
  <2> DEFINE r == f.dgram.stream
  <2>1. streams[r].active /\ f.dgram.n <= newest[r] /\ MaxDelay - m.age < timeoutMsg[r]
    BY DEF ChainInv, ForwardedAreGuarded
  <2>2. r \in StreamIds /\ m.age \in 0 .. MaxDelay /\ MaxDelay \in Nat
    BY StreamTypes, MessageFields, ChainAssumption
  <2>3. r # s
    BY <2>1, <2>2, <1>1
  <2> QED BY <2>1, <2>2, <2>3, <1>5
<1>10. SlotsTellForwarded'
  <2> SUFFICES ASSUME NEW m \in net,
                      m.pkt.dgram.stream \in FrerStreams,
                      streams'[m.pkt.dgram.stream].active,
                      m.pkt.dgram.n \in newest'[m.pkt.dgram.stream] - WindowSize + 1
                                          .. newest'[m.pkt.dgram.stream]
               PROVE  LET d == m.pkt.dgram
                          r == d.stream
                      IN  /\ streams'[r].accepted[Slot(d.n)] \in {NotSeen, r, ReplicaDscp}
                          /\ \A c \in 1 .. 2 :
                               streams'[r].accepted[Slot(d.n)] = MemberDscp(r, c)
                                 <=> [dgram |-> d, copy |-> c] \in forwarded
    BY <1>1 DEF SlotsTellForwarded, Slot, MemberDscp
  <2>1. m.pkt.dgram.stream \in StreamIds
    BY StreamTypes, MessageFields
  <2>2. m.pkt.dgram.stream # s
    BY <1>4
  <2> QED BY <2>1, <2>2, <1>5 DEF ChainInv, SlotsTellForwarded
<1> QED BY <1>6, <1>7, <1>8, <1>9, <1>10 DEF ChainInv

(* Copies, budgets and timers age together. *)
LEMMA TickStep ==
  ASSUME ChainInv, Tick
  PROVE  ChainInv'
<1>1. /\ \A s \in StreamIds : timeoutMsg[s] # 0
      /\ timeoutMsg' = [s \in StreamIds |-> IF timeoutMsg[s] = Unscheduled THEN Unscheduled
                                           ELSE timeoutMsg[s] - 1]
      /\ budget' = [s \in AppDscps |-> Pace]
      /\ UNCHANGED <<streams, sequenceCounters, produced, forwarded, newest>>
  BY DEF Tick, TimersRun, Quiet, historyVars
<1>2. ASSUME NEW k \in net'
      PROVE  /\ k \in Messages
             /\ \E m \in net : k.pkt = m.pkt /\ k.copy = m.copy /\ k.age = m.age + 1
  <2>1. PICK m \in net : k = [m EXCEPT !.age = @ + 1]
    BY DEF Tick
  <2>2. m \in Messages /\ m.age < MaxDelay
    BY StreamTypes DEF Tick
  <2>3. m.age + 1 \in 0 .. MaxDelay
    BY <2>2, MessageFields, ChainAssumption
  <2> QED BY <2>1, <2>2, <2>3 DEF Messages
<1>3. Pace \in Nat \ {0} /\ MaxDelay \in Nat /\ WindowTimeout \in Nat
  BY ChainAssumption, TimeoutAssumption
<1>4. ChainTypeOK' /\ ActiveIffArmed' /\ NewestSlotTaken'
  <2>1. RecoveryInv'
    BY TimersRunStep, ChainRecovery DEF Tick
  <2>2. net' \subseteq Messages /\ budget' \in [AppDscps -> 0 .. Pace]
    BY <1>1, <1>2, <1>3
  <2> QED BY <1>1, <2>1, <2>2 DEF RecoveryInv, ChainInv, ChainTypeOK
<1>5. CountersInStep' /\ OneMemberStream' /\ ForwardedWereProduced'
  BY <1>1 DEF ChainInv, CountersInStep, OneMemberStream, ForwardedWereProduced
<1>6. CopiesInStep'
  <2> SUFFICES ASSUME NEW k \in net'
               PROVE  /\ Carries(k)
                      /\ k.pkt.dgram.n < produced[k.pkt.dgram.stream]
                      /\ produced[k.pkt.dgram.stream] - 1 - k.pkt.dgram.n
                           + budget'[k.pkt.dgram.stream] < Pace * (k.age + 1)
    BY <1>1 DEF CopiesInStep, Carries, MemberDscp, RTagFound
  <2>1. PICK m \in net : k.pkt = m.pkt /\ k.copy = m.copy /\ k.age = m.age + 1
    BY <1>2
  <2> DEFINE s == m.pkt.dgram.stream
             n == m.pkt.dgram.n
             a == m.age
             P == produced[s]
             B == budget[s]
  <2>2. s \in AppDscps /\ n \in Nat /\ a \in Nat /\ P \in Nat /\ B \in Nat
    BY <1>3, StreamTypes, MessageFields, ChainAssumption
  <2>3. Carries(m) /\ n < P /\ P - 1 - n + B < Pace * (a + 1)
    BY DEF ChainInv, CopiesInStep
  <2>4. budget'[s] = Pace
    BY <1>1, <2>2
  <2>5. Carries(k)
    BY <2>1, <2>3 DEF Carries, RTagFound
  <2> HIDE DEF s, n, a, P, B
  <2>6. P - 1 - n + Pace < Pace * (a + 1 + 1)
    <3>1. Pace * (a + 1 + 1) = Pace * (a + 1) + Pace /\ Pace * (a + 1) \in Int
      BY <1>3, <2>2
    <3> DEFINE x == Pace * (a + 1)
    <3> HIDE DEF x
    <3>2. x \in Int /\ P - 1 - n + B < x => P - 1 - n + Pace < x + Pace
      BY <1>3, <2>2
    <3> QED BY <2>3, <3>1, <3>2 DEF x
  <2> QED BY <2>1, <2>3, <2>4, <2>5, <2>6 DEF s, n, a, P
<1>7. WindowInStep'
  <2> SUFFICES ASSUME NEW s \in StreamIds, streams[s].active
               PROVE  produced[s] - 1 - newest[s] + budget'[s]
                        < Pace * (MaxDelay + 1 + WindowTimeout - timeoutMsg'[s])
    BY <1>1 DEF ChainInv, WindowInStep
  <2> DEFINE P == produced[s]
             h == newest[s]
             B == budget[s]
             T == timeoutMsg[s]
             a == MaxDelay + 1 + WindowTimeout - T
  <2>1. s \in Carried /\ h \in 0 .. P - 1 /\ P - 1 - h + B < Pace * a
    BY DEF ChainInv, WindowInStep
  <2>2. T \in 0 .. WindowTimeout /\ T # 0
    BY <1>1, StreamTypes
  <2>3. P \in Nat /\ B \in Nat /\ s \in AppDscps
    BY <2>1, StreamTypes DEF Carried
  <2>4. budget'[s] = Pace /\ timeoutMsg'[s] = T - 1
    BY <1>1, <2>2, <2>3 DEF Unscheduled
  <2>5. a \in Nat /\ MaxDelay + 1 + WindowTimeout - (T - 1) = a + 1
    BY <1>3, <2>2
  <2> HIDE DEF P, h, B, T, a
  <2>6. P - 1 - h + Pace < Pace * (a + 1)
    <3>1. Pace * (a + 1) = Pace * a + Pace /\ Pace * a \in Int
      BY <1>3, <2>5
    <3> DEFINE x == Pace * a
    <3> HIDE DEF x
    <3>2. x \in Int /\ P - 1 - h + B < x => P - 1 - h + Pace < x + Pace
      BY <1>3, <2>1, <2>3
    <3> QED BY <2>1, <3>1, <3>2 DEF x
  <2> QED BY <2>4, <2>5, <2>6 DEF P, h
<1>8. ForwardedAreGuarded'
  <2> SUFFICES ASSUME NEW f \in forwarded, NEW k \in net', k.pkt.dgram = f.dgram
               PROVE  /\ streams[f.dgram.stream].active
                      /\ f.dgram.n <= newest[f.dgram.stream]
                      /\ MaxDelay - k.age < timeoutMsg'[f.dgram.stream]
    BY <1>1 DEF ForwardedAreGuarded
  <2> DEFINE s == f.dgram.stream
  <2>1. PICK m \in net : k.pkt = m.pkt /\ k.age = m.age + 1
    BY <1>2
  <2>2. streams[s].active /\ f.dgram.n <= newest[s] /\ MaxDelay - m.age < timeoutMsg[s]
    BY <2>1 DEF ChainInv, ForwardedAreGuarded
  <2>3. s \in StreamIds /\ m.age \in Nat
    BY <1>3, StreamTypes, MessageFields
  <2>4. timeoutMsg[s] \in 0 .. WindowTimeout
    BY <2>2, <2>3, StreamTypes
  <2>5. timeoutMsg'[s] = timeoutMsg[s] - 1
    BY <1>1, <2>3, <2>4 DEF Unscheduled
  <2> QED BY <1>3, <2>1, <2>2, <2>3, <2>4, <2>5
<1>9. SlotsTellForwarded'
  <2> SUFFICES ASSUME NEW k \in net',
                      k.pkt.dgram.stream \in FrerStreams,
                      streams[k.pkt.dgram.stream].active,
                      k.pkt.dgram.n \in newest[k.pkt.dgram.stream] - WindowSize + 1
                                          .. newest[k.pkt.dgram.stream]
               PROVE  LET d == k.pkt.dgram
                          s == d.stream
                      IN  /\ streams[s].accepted[Slot(d.n)] \in {NotSeen, s, ReplicaDscp}
                          /\ \A c \in 1 .. 2 :
                               streams[s].accepted[Slot(d.n)] = MemberDscp(s, c)
                                 <=> [dgram |-> d, copy |-> c] \in forwarded
    BY <1>1 DEF SlotsTellForwarded, Slot, MemberDscp
  <2>1. PICK m \in net : k.pkt = m.pkt
    BY <1>2
  <2> QED BY <2>1 DEF ChainInv, SlotsTellForwarded
<1> QED BY <1>4, <1>5, <1>6, <1>7, <1>8, <1>9 DEF ChainInv

-----------------------------------------------------------------------------
(* Adding one to a wrapped counter wraps like adding one to the count. *)
LEMMA CounterStep ==
  ASSUME NEW P \in Nat
  PROVE  NextSequenceNumber(P % SeqSpace) = (P + 1) % SeqSpace
BY ModSuccessor, SeqSpaceAssumption DEF NextSequenceNumber

LEMMA TaggedFields ==
  ASSUME NEW dscp \in Dscps, NEW q \in Seqs, NEW tag \in RTag \cup {NoTag},
         NEW oversize \in BOOLEAN, NEW interface \in {DefaultInterface, ReplicaInterface},
         NEW d \in Datagrams, NEW i \in 1 .. 2
  PROVE  Message([dscp |-> dscp, identification |-> q, fragment |-> FALSE, rtag |-> tag,
                  oversize |-> oversize, framed |-> EthernetFramed,
                  interface |-> interface, dgram |-> d], i) \in Messages
BY ChainAssumption, ReplicatorAssumption DEF Message, Messages

(* The copies of a datagram are well-typed, name it and are new; its       *)
(* stream's counter moves on with it.                                      *)
LEMMA SentCopies ==
  ASSUME Deployment, ChainInv,
         NEW s \in AppDscps, NEW oversize \in AppOversize, NEW id \in AppIds,
         Send(s, oversize, id),
         NEW d, d = [stream |-> s, n |-> produced[s]]
  PROVE  /\ \A k \in net' : k \in net \/ (/\ k \in Messages
                                          /\ Carries(k)
                                          /\ k.pkt.dgram = d
                                          /\ k.age = 0)
         /\ net \subseteq net' /\ \E k \in net' : k.pkt.dgram = d
         /\ sequenceCounters' \in [FrerStreams -> Seqs]
         /\ \A r \in FrerStreams \ {s} : sequenceCounters'[r] = sequenceCounters[r]
         /\ s \in FrerStreams => sequenceCounters'[s] = (produced[s] + 1) % SeqSpace
<1> DEFINE p == AppPacket(d, oversize, id)
<1>1. /\ ReplicatorHandle(p)
      /\ net' = net \cup {Message(sent'[i], i) : i \in DOMAIN sent'}
      /\ produced[s] < MaxSent
  BY DEF Send
<1>2. d \in Datagrams /\ produced[s] \in Nat
  BY <1>1, ChainAssumption DEF ChainInv, ChainTypeOK, Datagrams
<1>3. /\ p.dscp = s /\ p.dgram = d /\ p.identification = id /\ p.rtag = NoTag
      /\ p.oversize = oversize /\ p.fragment = FALSE /\ d.stream = s /\ d.n = produced[s]
  BY DEF AppPacket
<1>4. sequenceCounters \in [FrerStreams -> Seqs]
  BY DEF ChainInv, ChainTypeOK
<1>5. CASE PassIneligible(p)
  <2>1. s \notin FrerStreams /\ sent' = <<p>> /\ UNCHANGED sequenceCounters
    BY <1>3, <1>5 DEF PassIneligible, IsFrerEligible
  <2> DEFINE k == Message(p, 1)
  <2>2. net' = net \cup {k}
    BY <1>1, <2>1
  <2>3. k \in Messages
    BY <1>2, ChainAssumption, ReplicatorAssumption
       DEF Message, Messages, AppPacket
  <2>4. Carries(k) /\ k.pkt.dgram = d /\ k.age = 0
    BY <1>3, <2>1 DEF Message, Carries
  <2> QED BY <1>4, <2>1, <2>2, <2>3, <2>4
<1>6. CASE PassOversize(p)
  BY <1>3, <1>6 DEF PassOversize, Deployment, TrafficFits
<1>7. CASE Replicate(p)
  <2> DEFINE q == sequenceCounters[s]
             p1 == Primary(p, q)
             p2 == Replica(p, q)
             k1 == Message(p1, 1)
             k2 == Message(p2, 2)
  <2>1. /\ s \in FrerStreams /\ sent' = <<p1, p2>>
        /\ sequenceCounters' = [sequenceCounters EXCEPT ![s] = NextSequenceNumber(q)]
    BY <1>3, <1>7 DEF Replicate, IsFrerEligible
  <2>2. q \in Seqs /\ q = produced[s] % SeqSpace
    BY <1>4, <2>1 DEF ChainInv, CountersInStep, Carried
  <2>3. NextSequenceNumber(q) = (produced[s] + 1) % SeqSpace /\ NextSequenceNumber(q) \in Seqs
    <3>1. NextSequenceNumber(q) = (produced[s] + 1) % SeqSpace
      BY <1>2, <2>2, CounterStep
    <3>2. (produced[s] + 1) % SeqSpace \in 0 .. SeqSpace - 1
      <4>1. produced[s] + 1 \in Int
        BY <1>2
      <4> QED BY <4>1, ModRange, SeqSpaceAssumption, Zenon
    <3> QED BY <3>1, <3>2 DEF Seqs
  <2>4. /\ sequenceCounters' \in [FrerStreams -> Seqs]
        /\ \A r \in FrerStreams \ {s} : sequenceCounters'[r] = sequenceCounters[r]
        /\ sequenceCounters'[s] = (produced[s] + 1) % SeqSpace
    BY <1>4, <2>1, <2>3
  <2>5. net' = net \cup {k1, k2}
    BY <1>1, <2>1
  <2> DEFINE tag == [streamId |-> s, sequenceNumber |-> q]
  <2>6. /\ p1.dscp = s /\ p2.dscp = ReplicaDscp
        /\ p1.dgram = d /\ p2.dgram = d
        /\ p1.identification = q /\ p2.identification = q
        /\ p1.rtag = tag /\ p2.rtag = tag
        /\ p1.fragment = FALSE /\ p2.fragment = FALSE
    BY DEF AppPacket, Primary, Replica, PrepareMemberStreams
  <2>7. tag \in RTag
    BY <2>1, <2>2 DEF RTag
  <2> DEFINE j == IF PathDiverse THEN ReplicaInterface ELSE DefaultInterface
  <2>8. k1 \in Messages /\ k2 \in Messages
    <3>1. p1 = [dscp |-> s, identification |-> q, fragment |-> FALSE, rtag |-> tag,
                oversize |-> oversize, framed |-> EthernetFramed,
                interface |-> DefaultInterface, dgram |-> d]
      <4>1. p = [dscp |-> s, identification |-> id, fragment |-> FALSE, rtag |-> NoTag,
                 oversize |-> oversize, framed |-> EthernetFramed,
                 interface |-> DefaultInterface, dgram |-> d]
        BY <1>3 DEF AppPacket
      <4>2. p1 = [p EXCEPT !.rtag = tag, !.identification = q]
        BY <1>3 DEF Primary
      <4> HIDE DEF p, p1, tag
      <4> QED BY <4>1, <4>2
    <3>2. p2 = [dscp |-> ReplicaDscp, identification |-> q, fragment |-> FALSE, rtag |-> tag,
                oversize |-> oversize, framed |-> EthernetFramed, interface |-> j, dgram |-> d]
      <4>1. p2 = [p1 EXCEPT !.dscp = ReplicaDscp,
                            !.interface = IF PathDiverse THEN ReplicaInterface ELSE @]
        BY DEF Replica, PrepareMemberStreams
      <4> HIDE DEF p1, p2, tag
      <4> QED BY <3>1, <4>1
    <3>3. /\ s \in Dscps /\ ReplicaDscp \in Dscps /\ oversize \in BOOLEAN
          /\ DefaultInterface \in {DefaultInterface, ReplicaInterface}
          /\ j \in {DefaultInterface, ReplicaInterface}
          /\ 1 \in 1 .. 2 /\ 2 \in 1 .. 2
          /\ tag \in RTag \cup {NoTag}
      BY <2>7, ChainAssumption, DscpAssumption
    <3>4. q \in Seqs /\ d \in Datagrams
      BY <1>2, <2>2
    <3> HIDE DEF p1, p2, j, tag, q
    <3>5. k1 \in Messages
      BY <3>1, <3>3, <3>4, TaggedFields, Zenon
    <3>6. k2 \in Messages
      BY <3>2, <3>3, <3>4, TaggedFields, Zenon
    <3> QED BY <3>5, <3>6
  <2>9. tag # NoTag
    BY <2>7, NoTagIsNone
  <2> HIDE DEF p1, p2, tag
  <2>10. Carries(k1) /\ k1.pkt.dgram = d /\ k1.age = 0
    BY <1>3, <2>1, <2>2, <2>6, <2>9 DEF Message, Carries, MemberDscp, RTagFound, tag
  <2>11. Carries(k2) /\ k2.pkt.dgram = d /\ k2.age = 0
    BY <1>3, <2>1, <2>2, <2>6, <2>9 DEF Message, Carries, MemberDscp, RTagFound, tag
  <2> QED BY <2>4, <2>5, <2>8, <2>10, <2>11
<1> QED BY <1>1, <1>5, <1>6, <1>7 DEF ReplicatorHandle

(* A new datagram is ahead of its window and has not been handed on. *)
LEMMA SendStep ==
  ASSUME Deployment, ChainInv,
         NEW s \in AppDscps, NEW oversize \in AppOversize, NEW id \in AppIds,
         Send(s, oversize, id)
  PROVE  ChainInv'
<1> DEFINE d == [stream |-> s, n |-> produced[s]]
           New(k) == /\ k \in Messages
                     /\ Carries(k)
                     /\ k.pkt.dgram = d
                     /\ k.age = 0
<1>1. /\ budget[s] > 0 /\ produced[s] < MaxSent
      /\ produced' = [produced EXCEPT ![s] = produced[s] + 1]
      /\ budget' = [budget EXCEPT ![s] = budget[s] - 1]
      /\ UNCHANGED <<streams, timeoutMsg, forwarded, newest>>
  BY DEF Send, historyVars
<1>2. /\ \A k \in net' : k \in net \/ New(k)
      /\ sequenceCounters' \in [FrerStreams -> Seqs]
      /\ \A r \in FrerStreams \ {s} : sequenceCounters'[r] = sequenceCounters[r]
      /\ s \in FrerStreams => sequenceCounters'[s] = (produced[s] + 1) % SeqSpace
  BY SentCopies
<1>3. /\ produced \in [AppDscps -> 0 .. MaxSent] /\ budget \in [AppDscps -> 0 .. Pace]
      /\ Pace \in Nat \ {0} /\ MaxSent \in Nat
  BY ChainAssumption DEF ChainInv, ChainTypeOK
<1>4. /\ produced' \in [AppDscps -> 0 .. MaxSent] /\ budget' \in [AppDscps -> 0 .. Pace]
      /\ produced'[s] = produced[s] + 1 /\ budget'[s] = budget[s] - 1
      /\ \A r \in AppDscps \ {s} : produced'[r] = produced[r] /\ budget'[r] = budget[r]
  BY <1>1, <1>3
<1>5. /\ \A r \in AppDscps : /\ produced[r] \in Nat /\ produced'[r] \in Nat
                            /\ budget[r] \in Nat /\ budget'[r] \in Nat
                            /\ produced[r] <= produced'[r]
                            /\ produced'[r] + budget'[r] = produced[r] + budget[r]
  BY <1>3, <1>4
<1>6. d.stream = s /\ d.n = produced[s]
  OBVIOUS
<1> HIDE DEF d
<1>7. ChainTypeOK' /\ ActiveIffArmed' /\ NewestSlotTaken'
  <2>1. net' \subseteq Messages
    BY <1>2, StreamTypes
  <2>2. RecoveryTypeOK' /\ ActiveIffArmed' /\ NewestSlotTaken'
    BY <1>1 DEF ChainInv, ChainTypeOK, RecoveryTypeOK, ActiveIffArmed, NewestSlotTaken, Slot
  <2> QED BY <1>1, <1>2, <1>4, <2>1, <2>2 DEF ChainInv, ChainTypeOK
<1>8. CountersInStep' /\ OneMemberStream'
  <2>1. CountersInStep'
    BY <1>2, <1>4 DEF ChainInv, CountersInStep, Carried
  <2> QED BY <1>1, <2>1 DEF ChainInv, OneMemberStream
<1>9. ForwardedWereProduced'
  BY <1>1, <1>5, StreamTypes DEF ChainInv, ForwardedWereProduced
<1>10. CopiesInStep'
  <2> SUFFICES ASSUME NEW k \in net'
               PROVE  /\ Carries(k)
                      /\ k.pkt.dgram.n < produced'[k.pkt.dgram.stream]
                      /\ produced'[k.pkt.dgram.stream] - 1 - k.pkt.dgram.n
                           + budget'[k.pkt.dgram.stream] < Pace * (k.age + 1)
    BY DEF CopiesInStep, Carries, MemberDscp, RTagFound
  <2>1. CASE k \in net
    <3> DEFINE r == k.pkt.dgram.stream
               n == k.pkt.dgram.n
               x == Pace * (k.age + 1)
    <3>1. r \in AppDscps /\ n \in Nat /\ x \in Int
      BY <1>3, <2>1, StreamTypes, MessageFields, ChainAssumption
    <3>2. Carries(k) /\ n < produced[r] /\ produced[r] - 1 - n + budget[r] < x
      BY <2>1 DEF ChainInv, CopiesInStep
    <3> HIDE DEF r, n, x
    <3>3. n < produced'[r] /\ produced'[r] - 1 - n + budget'[r] < x
      BY <1>5, <3>1, <3>2
    <3> QED BY <3>2, <3>3 DEF r, n, x
  <2>2. CASE New(k)
    <3>1. k.pkt.dgram.stream = s /\ k.pkt.dgram.n = produced[s] /\ k.age = 0
      BY <1>6, <2>2
    <3> QED BY <1>3, <1>4, <2>2, <3>1
  <2> QED BY <1>2, <2>1, <2>2
<1>11. WindowInStep'
  <2> SUFFICES ASSUME NEW r \in StreamIds, streams[r].active
               PROVE  /\ newest[r] \in 0 .. produced'[r] - 1
                      /\ produced'[r] - 1 - newest[r] + budget'[r]
                           < Pace * (MaxDelay + 1 + WindowTimeout - timeoutMsg[r])
    BY <1>1 DEF ChainInv, WindowInStep
  <2> DEFINE x == Pace * (MaxDelay + 1 + WindowTimeout - timeoutMsg[r])
  <2>1. /\ r \in Carried /\ newest[r] \in 0 .. produced[r] - 1
        /\ produced[r] - 1 - newest[r] + budget[r] < x
    BY DEF ChainInv, WindowInStep
  <2>2. x \in Int
    BY <1>3, ChainAssumption, TimeoutAssumption, StreamTypes
  <2>3. r \in AppDscps
    BY <2>1 DEF Carried
  <2> HIDE DEF x
  <2>4. newest[r] \in 0 .. produced'[r] - 1 /\ produced'[r] - 1 - newest[r] + budget'[r] < x
    BY <1>5, <2>1, <2>2, <2>3
  <2> QED BY <2>4 DEF x
<1>12. ForwardedAreGuarded'
  <2> SUFFICES ASSUME NEW f \in forwarded, NEW k \in net', k.pkt.dgram = f.dgram
               PROVE  /\ streams[f.dgram.stream].active
                      /\ f.dgram.n <= newest[f.dgram.stream]
                      /\ MaxDelay - k.age < timeoutMsg[f.dgram.stream]
    BY <1>1 DEF ForwardedAreGuarded
  <2>1. f.dgram.n < produced[f.dgram.stream] /\ f.dgram.stream \in AppDscps /\ f.dgram.n \in Nat
    BY StreamTypes DEF ChainInv, ForwardedWereProduced
  <2>2. f.dgram # d
    BY <1>5, <1>6, <2>1
  <2>3. k \in net
    BY <1>2, <2>2
  <2> QED BY <2>3 DEF ChainInv, ForwardedAreGuarded
<1>13. SlotsTellForwarded'
  <2> SUFFICES ASSUME NEW k \in net',
                      k.pkt.dgram.stream \in FrerStreams,
                      streams[k.pkt.dgram.stream].active,
                      k.pkt.dgram.n \in newest[k.pkt.dgram.stream] - WindowSize + 1
                                          .. newest[k.pkt.dgram.stream]
               PROVE  LET r == k.pkt.dgram.stream
                          n == k.pkt.dgram.n
                      IN  /\ streams[r].accepted[Slot(n)] \in {NotSeen, r, ReplicaDscp}
                          /\ \A c \in 1 .. 2 :
                               streams[r].accepted[Slot(n)] = MemberDscp(r, c)
                                 <=> [dgram |-> k.pkt.dgram, copy |-> c] \in forwarded
    BY <1>1 DEF SlotsTellForwarded, Slot, MemberDscp
  <2>1. k.pkt.dgram # d
    <3> SUFFICES ASSUME k.pkt.dgram = d PROVE FALSE
      OBVIOUS
    <3>1. streams[s].active /\ produced[s] <= newest[s] /\ s \in StreamIds
      BY <1>6, StreamTypes
    <3>2. newest[s] \in 0 .. produced[s] - 1
      BY <3>1 DEF ChainInv, WindowInStep
    <3> QED BY <1>5, <3>1, <3>2
  <2>2. k \in net
    BY <1>2, <2>1
  <2> QED BY <2>2 DEF ChainInv, SlotsTellForwarded
<1> QED BY <1>7, <1>8, <1>9, <1>10, <1>11, <1>12, <1>13 DEF ChainInv

-----------------------------------------------------------------------------
(* A copy is accepted only if its datagram was not handed on before, or    *)
(* was handed on from the member stream of this very copy.                 *)
LEMMA AcceptedOnce ==
  ASSUME Deployment, ChainInv, NEW m \in net, Accept(m.pkt),
         NEW f \in forwarded, f.dgram = m.pkt.dgram
  PROVE  f.copy = m.copy
<1> DEFINE d == m.pkt.dgram
           s == d.stream
           n == d.n
           h == newest[s]
           w == streams[s]
           q == n % SeqSpace
<1>1. m \in Messages /\ Carries(m) /\ m.copy \in 1 .. 2 /\ f.copy \in 1 .. 2
  BY StreamTypes, MessageFields DEF ChainInv, ChainTypeOK
<1>2. s \in Carried /\ s \in FrerStreams
  BY <1>1, CopyIsFrer DEF Accept, Carried
<1>3. StreamOf(m.pkt) = s /\ SeqNum(m.pkt) = q /\ m.pkt.dscp = MemberDscp(s, m.copy)
  BY <1>1, <1>2, CopyRead
<1>4. Accepts(w, q, m.pkt.dscp)
  BY <1>3 DEF Accept, VerdictOn, Verdict
<1>5. w.active /\ n <= h
  BY DEF ChainInv, ForwardedAreGuarded
<1>6. n \in Nat /\ h \in Nat /\ StandsAt(w, h) /\ n - h < HalfSpace /\ h - n < HalfSpace
  BY <1>2, <1>5, Distance
<1>7. ~Advances(w, q) /\ (Overruns(w, q) <=> n + WindowSize <= h)
  BY <1>5, <1>6, UnwrappedVerdict
<1>8. n \in h - WindowSize + 1 .. h
  BY <1>4, <1>5, <1>6, <1>7, WindowAssumption DEF Accepts
<1>9. w.accepted[Slot(n)] \in {MemberDscp(s, m.copy), NotSeen}
  <2>1. Slot(q) = Slot(n)
    BY <1>6, SlotOfNumber DEF Deployment, WindowDivides
  <2> QED BY <1>3, <1>4, <1>7, <2>1 DEF Accepts
<1>10. w.accepted[Slot(n)] = MemberDscp(s, f.copy)
  <2>1. [dgram |-> d, copy |-> f.copy] \in forwarded
    <3>1. f \in [dgram : Datagrams, copy : 1 .. 2]
      BY DEF ChainInv, ChainTypeOK
    <3>2. f = [dgram |-> d, copy |-> f.copy]
      BY <3>1
    <3> QED BY <3>2
  <2> QED BY <1>1, <1>2, <1>5, <1>8, <2>1 DEF ChainInv, SlotsTellForwarded
<1> QED BY <1>1, <1>2, <1>9, <1>10, MemberDscps DEF NotSeen

(* The state of the stream of an accepted copy: its window stands at top,  *)
(* the larger of the two numbers, and its slots hold the copy, nothing     *)
(* where it was moved over, and otherwise what they held before.           *)
LEMMA AcceptedStream ==
  ASSUME Deployment, ChainInv, NEW m \in net, DeliverAccepted(m),
         NEW d, d = m.pkt.dgram, NEW s, s = d.stream, NEW n, n = d.n,
         NEW h, h = newest[s], NEW w, w = streams[s],
         NEW top, top = IF w.active /\ n <= h THEN h ELSE n
  PROVE  /\ s \in Carried /\ n \in Nat /\ top \in Nat /\ n <= top
         /\ w.active => h \in Nat /\ h <= top /\ h < n + WindowSize
         /\ newest' = [newest EXCEPT ![s] = top]
         /\ timeoutMsg' = [timeoutMsg EXCEPT ![s] = WindowTimeout]
         /\ \A r \in StreamIds \ {s} : streams'[r] = streams[r]
         /\ streams'[s].active /\ streams'[s].highestSeqSeen = top % SeqSpace
         /\ \A e \in top - WindowSize + 1 .. top :
              streams'[s].accepted[Slot(e)] =
                IF e = n THEN MemberDscp(s, m.copy)
                ELSE IF w.active /\ e <= h THEN w.accepted[Slot(e)] ELSE NotSeen
<1> DEFINE q == n % SeqSpace
           v == Accepted(w, q, m.pkt.dscp)
<1>1. m \in Messages /\ Carries(m) /\ Readable(m.pkt) /\ n \in Nat
  BY StreamTypes, MessageFields, ChainAssumption
<1>2. Accept(m.pkt)
  BY DEF DeliverAccepted
<1>3. s \in Carried /\ s \in FrerStreams /\ s \in StreamIds
  BY <1>1, <1>2, CopyIsFrer, StreamTypes DEF Accept, Carried
<1>4. StreamOf(m.pkt) = s /\ SeqNum(m.pkt) = q /\ m.pkt.dscp = MemberDscp(s, m.copy)
  BY <1>1, <1>3, CopyRead
<1>5. Accepts(w, q, m.pkt.dscp)
  BY <1>2, <1>4 DEF Accept, VerdictOn, Verdict
<1> HIDE DEF v
<1>6. /\ streams' = [streams EXCEPT ![s] = v]
      /\ timeoutMsg' = [timeoutMsg EXCEPT ![s] = WindowTimeout]
  BY <1>2, <1>4, <1>5 DEF Accept, RecoverSequence, v
<1>7. newest' = [newest EXCEPT ![s] = IF Advances(w, q) THEN n ELSE h]
  BY <1>4 DEF DeliverAccepted
<1>8. v.active /\ v.highestSeqSeen = IF Advances(w, q) THEN q ELSE w.highestSeqSeen
  BY DEF v, Accepted
<1>9. /\ streams'[s] = v
      /\ \A r \in StreamIds \ {s} : streams'[r] = streams[r]
  BY <1>3, <1>6 DEF ChainInv, ChainTypeOK, RecoveryTypeOK
<1>10. CASE w.active
  <2>1. h \in Nat /\ StandsAt(w, h) /\ n - h < HalfSpace /\ h - n < HalfSpace
    BY <1>3, <1>10, Distance
  <2>2. /\ Advances(w, q) <=> n > h
        /\ Overruns(w, q) <=> n + WindowSize <= h
    BY <1>1, <2>1, UnwrappedVerdict
  <2>3. h < n + WindowSize
    BY <1>1, <1>5, <2>1, <2>2, WindowAssumption DEF Accepts
  <2>4. top = (IF n > h THEN n ELSE h) /\ top \in Nat /\ n <= top /\ h <= top
    BY <1>1, <1>10, <2>1
  <2>5. ASSUME NEW e \in top - WindowSize + 1 .. top
        PROVE  v.accepted[Slot(e)] = IF e = n THEN m.pkt.dscp
                                     ELSE IF e > h THEN NotSeen ELSE w.accepted[Slot(e)]
    BY <1>1, <2>1, <2>3, <2>4, AcceptedWindow DEF Deployment, WindowDivides, v
  <2>6. ASSUME NEW e \in top - WindowSize + 1 .. top
        PROVE  v.accepted[Slot(e)] = IF e = n THEN m.pkt.dscp
                                     ELSE IF w.active /\ e <= h THEN w.accepted[Slot(e)]
                                     ELSE NotSeen
    <3>1. e \in Int
      BY <2>4, WindowAssumption
    <3> QED BY <1>10, <2>1, <2>5, <3>1
  <2>7. v.highestSeqSeen = top % SeqSpace
    BY <1>8, <2>1, <2>2, <2>4 DEF StandsAt
  <2>8. newest' = [newest EXCEPT ![s] = top]
    BY <1>7, <2>2, <2>4
  <2> QED BY <1>1, <1>3, <1>4, <1>6, <1>8, <1>9, <2>1, <2>3, <2>4, <2>6, <2>7, <2>8
<1>11. CASE ~w.active
  <2>1. top = n /\ Advances(w, q)
    BY <1>11 DEF Advances
  <2>2. ASSUME NEW e \in top - WindowSize + 1 .. top
        PROVE  v.accepted[Slot(e)] = IF e = n THEN m.pkt.dscp ELSE NotSeen
    BY <1>1, <1>11, <2>1, AcceptedFirst DEF Deployment, WindowDivides, v
  <2> QED BY <1>1, <1>3, <1>4, <1>6, <1>7, <1>8, <1>9, <1>11, <2>1, <2>2
<1> QED BY <1>10, <1>11

(* Handing on a copy keeps the invariant: the datagrams with copies left   *)
(* in transit find in their slots who handed them on, if anyone did.       *)
LEMMA DeliverAcceptedStep ==
  ASSUME Deployment, ChainInv, NEW m \in net, DeliverAccepted(m)
  PROVE  ChainInv'
<1> DEFINE d == m.pkt.dgram
           s == d.stream
           n == d.n
           h == newest[s]
           w == streams[s]
           top == IF w.active /\ n <= h THEN h ELSE n
           g == [dgram |-> d, copy |-> m.copy]
<1>1. /\ s \in Carried /\ n \in Nat /\ top \in Nat /\ n <= top
      /\ w.active => h \in Nat /\ h <= top
      /\ newest' = [newest EXCEPT ![s] = top]
      /\ timeoutMsg' = [timeoutMsg EXCEPT ![s] = WindowTimeout]
      /\ \A r \in StreamIds \ {s} : streams'[r] = streams[r]
      /\ streams'[s].active /\ streams'[s].highestSeqSeen = top % SeqSpace
      /\ \A e \in top - WindowSize + 1 .. top :
           streams'[s].accepted[Slot(e)] =
             IF e = n THEN MemberDscp(s, m.copy)
             ELSE IF w.active /\ e <= h THEN w.accepted[Slot(e)] ELSE NotSeen
  BY AcceptedStream
<1>2. /\ net' = net \ {m}
      /\ forwarded' = Known \cup {g}
      /\ UNCHANGED <<sequenceCounters, produced, budget>>
  BY DEF DeliverAccepted, Quiet
<1>3. m \in Messages /\ Readable(m.pkt) /\ d \in Datagrams /\ m.copy \in 1 .. 2
  BY StreamTypes, MessageFields
<1>4. s \in StreamIds /\ s \in FrerStreams /\ s \in AppDscps
  BY <1>1, StreamTypes DEF Carried
<1>5. /\ newest \in [StreamIds -> Nat \cup {None}]
      /\ timeoutMsg \in [StreamIds -> 0 .. WindowTimeout \cup {Unscheduled}]
  BY DEF ChainInv, ChainTypeOK, RecoveryTypeOK
<1>6. /\ newest'[s] = top /\ timeoutMsg'[s] = WindowTimeout
      /\ \A r \in StreamIds \ {s} : newest'[r] = newest[r] /\ timeoutMsg'[r] = timeoutMsg[r]
  BY <1>1, <1>4, <1>5
<1>7. RecoveryInv'
  BY <1>3, AcceptStep, ChainRecovery DEF DeliverAccepted
<1>8. \A f \in forwarded' : f = g \/ f \in forwarded
  BY <1>2 DEF Known
<1>9. /\ MaxDelay \in Nat /\ WindowTimeout \in Nat /\ MaxDelay < WindowTimeout
      /\ Pace \in Nat \ {0}
  BY ChainAssumption, TimeoutAssumption DEF Deployment, DelayBelowTimeout
<1>10. g.dgram = d /\ g.copy = m.copy
  OBVIOUS
<1>11. \A f \in forwarded : f.dgram = d => f.copy = m.copy
  BY AcceptedOnce DEF DeliverAccepted
<1>12. n < produced[s] /\ produced[s] - 1 - n + budget[s] < Pace * (m.age + 1)
  BY DEF ChainInv, CopiesInStep
<1>13. produced[s] \in Nat /\ budget[s] \in Nat /\ m.age \in 0 .. MaxDelay
  BY <1>3, <1>4, <1>9, StreamTypes, MessageFields
<1>14. g \in [dgram : Datagrams, copy : 1 .. 2]
  BY <1>3
<1> HIDE DEF d, s, n, h, w, top, g
<1>15. ChainTypeOK' /\ ActiveIffArmed' /\ NewestSlotTaken'
  <2>1. forwarded' \subseteq [dgram : Datagrams, copy : 1 .. 2]
    BY <1>8, <1>14 DEF ChainInv, ChainTypeOK
  <2>2. newest' \in [StreamIds -> Nat \cup {None}] /\ net' \subseteq Messages
    BY <1>1, <1>2, <1>5 DEF ChainInv, ChainTypeOK
  <2> QED BY <1>2, <1>7, <2>1, <2>2 DEF RecoveryInv, ChainInv, ChainTypeOK
<1>16. CountersInStep'
  BY <1>2 DEF ChainInv, CountersInStep
<1>17. CopiesInStep'
  BY <1>2 DEF ChainInv, CopiesInStep, Carries, MemberDscp, RTagFound
<1>18. ForwardedWereProduced'
  BY <1>2, <1>8, <1>10, <1>12 DEF ChainInv, ForwardedWereProduced, s, n
<1>19. OneMemberStream'
  BY <1>8, <1>10, <1>11 DEF ChainInv, OneMemberStream
<1>20. WindowInStep'
  <2>1. ASSUME NEW r \in StreamIds \ {s}
        PROVE  IF streams'[r].active
               THEN /\ r \in Carried
                    /\ newest'[r] \in 0 .. produced[r] - 1
                    /\ streams'[r].highestSeqSeen = newest'[r] % SeqSpace
                    /\ produced[r] - 1 - newest'[r] + budget[r]
                         < Pace * (MaxDelay + 1 + WindowTimeout - timeoutMsg'[r])
               ELSE newest'[r] = None
    BY <1>1, <1>6, <2>1 DEF ChainInv, WindowInStep
  <2>2. /\ top \in 0 .. produced[s] - 1
        /\ produced[s] - 1 - top + budget[s]
             < Pace * (MaxDelay + 1 + WindowTimeout - WindowTimeout)
    <3>1. MaxDelay + 1 + WindowTimeout - WindowTimeout = MaxDelay + 1
      BY <1>9
    <3>2. Pace * (m.age + 1) <= Pace * (MaxDelay + 1)
      BY <1>9, <1>13
    <3>3. top < produced[s]
      <4>1. CASE top = n
        BY <4>1, <1>12
      <4>2. CASE top # n
        <5>1. w.active /\ top = h
          BY <4>2 DEF top
        <5>2. h \in 0 .. produced[s] - 1
          BY <1>4, <5>1 DEF ChainInv, WindowInStep, w, h
        <5> QED BY <1>13, <5>1, <5>2
      <4> QED BY <4>1, <4>2
    <3> DEFINE x == Pace * (m.age + 1)
               y == Pace * (MaxDelay + 1)
    <3>4. x \in Int /\ y \in Int /\ x <= y /\ produced[s] - 1 - n + budget[s] < x
      BY <1>9, <1>12, <1>13, <3>2
    <3> HIDE DEF x, y
    <3>5. produced[s] - 1 - top + budget[s] < y
      BY <1>1, <1>13, <3>4
    <3> QED BY <1>1, <1>13, <3>1, <3>3, <3>5 DEF y
  <2> QED BY <1>1, <1>2, <1>6, <2>1, <2>2 DEF WindowInStep
<1>21. ForwardedAreGuarded'
  <2> SUFFICES ASSUME NEW f \in forwarded', NEW k \in net \ {m}, k.pkt.dgram = f.dgram
               PROVE  /\ streams'[f.dgram.stream].active
                      /\ f.dgram.n <= newest'[f.dgram.stream]
                      /\ MaxDelay - k.age < timeoutMsg'[f.dgram.stream]
    BY <1>2 DEF ForwardedAreGuarded
  <2>1. k.age \in 0 .. MaxDelay
    BY <1>9, StreamTypes, MessageFields
  <2>2. CASE f = g
    BY <1>1, <1>6, <1>9, <1>10, <2>1, <2>2 DEF s, n
  <2>3. CASE f \in forwarded
    <3> DEFINE r == f.dgram.stream
    <3>1. streams[r].active /\ f.dgram.n <= newest[r] /\ MaxDelay - k.age < timeoutMsg[r]
      BY <2>3 DEF ChainInv, ForwardedAreGuarded
    <3>2. r \in StreamIds /\ f.dgram.n \in Nat
      BY <2>3, StreamTypes
    <3>3. CASE r = s
      BY <1>1, <1>6, <1>9, <2>1, <3>1, <3>2, <3>3 DEF w, h
    <3>4. CASE r # s
      BY <1>1, <1>6, <3>1, <3>2, <3>4
    <3> QED BY <3>3, <3>4
  <2> QED BY <1>8, <2>2, <2>3
<1>22. SlotsTellForwarded'
  <2> SUFFICES ASSUME NEW k \in net \ {m},
                      k.pkt.dgram.stream \in FrerStreams,
                      streams'[k.pkt.dgram.stream].active,
                      k.pkt.dgram.n \in newest'[k.pkt.dgram.stream] - WindowSize + 1
                                          .. newest'[k.pkt.dgram.stream]
               PROVE  LET r == k.pkt.dgram.stream
                          a == streams'[r].accepted[Slot(k.pkt.dgram.n)]
                      IN  /\ a \in {NotSeen, r, ReplicaDscp}
                          /\ \A c \in 1 .. 2 :
                               a = MemberDscp(r, c)
                                 <=> [dgram |-> k.pkt.dgram, copy |-> c] \in forwarded'
    BY <1>2 DEF SlotsTellForwarded, Slot, MemberDscp
  <2> DEFINE x == k.pkt.dgram
             r == x.stream
             e == x.n
  <2>1. r \in StreamIds /\ e \in Nat /\ x \in Datagrams
    BY StreamTypes, MessageFields, ChainAssumption
  <2>2. x # d => \A c \in 1 .. 2 : [dgram |-> x, copy |-> c] \in forwarded'
                                  <=> [dgram |-> x, copy |-> c] \in forwarded
    <3>1. \A c \in 1 .. 2 : [dgram |-> x, copy |-> c].dgram = x
      OBVIOUS
    <3>2. x \in InTransit
      BY DEF InTransit
    <3> HIDE DEF x
    <3> QED BY <1>2, <1>10, <3>1, <3>2 DEF Known
  <2>3. CASE r # s
    <3>1. streams'[r] = streams[r] /\ newest'[r] = newest[r]
      BY <1>1, <1>6, <2>1, <2>3
    <3>2. x # d
      BY <2>3 DEF s
    <3> QED BY <2>2, <3>1, <3>2 DEF ChainInv, SlotsTellForwarded
  <2>4. CASE r = s
    <3> DEFINE a == streams'[s].accepted[Slot(e)]
    <3>1. /\ e \in top - WindowSize + 1 .. top
          /\ a = IF e = n THEN MemberDscp(s, m.copy)
                 ELSE IF w.active /\ e <= h THEN w.accepted[Slot(e)] ELSE NotSeen
      BY <1>1, <1>6, <2>4
    <3>2. \A c \in 1 .. 2 : /\ MemberDscp(s, c) \in Nat
                            /\ MemberDscp(s, c) \in {s, ReplicaDscp}
                            /\ \A b \in 1 .. 2 : MemberDscp(s, b) = MemberDscp(s, c) => b = c
      BY <1>4, MemberDscps
    <3>3. CASE e = n
      <4>1. x = d
        BY <1>3, <2>1, <2>4, <3>3 DEF Datagrams, s, n
      <4>2. a = MemberDscp(s, m.copy)
        BY <3>1, <3>3
      <4>3. \A c \in 1 .. 2 : [dgram |-> d, copy |-> c] \in forwarded' <=> c = m.copy
        <5>1. g \in forwarded'
          BY <1>2
        <5>2. ASSUME NEW c \in 1 .. 2, [dgram |-> d, copy |-> c] \in forwarded'
              PROVE  c = m.copy
          <6> DEFINE f == [dgram |-> d, copy |-> c]
          <6>1. f.dgram = d /\ f.copy = c
            OBVIOUS
          <6> HIDE DEF f
          <6> QED BY <1>8, <1>10, <1>11, <5>2, <6>1 DEF f
        <5> QED BY <5>1, <5>2 DEF g
      <4> QED BY <1>3, <2>4, <3>2, <4>1, <4>2, <4>3
    <3>4. CASE e # n /\ w.active /\ e <= h
      <4>1. a = w.accepted[Slot(e)] /\ x # d
        BY <3>1, <3>4 DEF n
      <4>2. e \in h - WindowSize + 1 .. h
        BY <1>1, <2>1, <3>1, <3>4, WindowAssumption
      <4> QED BY <2>2, <2>4, <3>4, <4>1, <4>2 DEF ChainInv, SlotsTellForwarded, w, h
    <3>5. CASE e # n /\ ~(w.active /\ e <= h)
      <4>1. a = NotSeen /\ x # d
        BY <3>1, <3>5 DEF n
      <4>2. \A c \in 1 .. 2 : [dgram |-> x, copy |-> c] \notin forwarded
        <5> SUFFICES ASSUME NEW f \in forwarded, f.dgram = x PROVE FALSE
          OBVIOUS
        <5> QED BY <2>4, <3>5 DEF ChainInv, ForwardedAreGuarded, w, h
      <4> QED BY <2>2, <2>4, <3>2, <4>1, <4>2 DEF NotSeen
    <3> QED BY <3>3, <3>4, <3>5
  <2> QED BY <2>3, <2>4
<1> QED BY <1>15, <1>16, <1>17, <1>18, <1>19, <1>20, <1>21, <1>22 DEF ChainInv

-----------------------------------------------------------------------------
LEMMA ChainInitInv == ChainInit => ChainInv
<1> SUFFICES ASSUME ChainInit PROVE ChainInv
  OBVIOUS
<1>1. RecoveryInv
  BY RecoveryInitInv DEF ChainInit
<1>2. ASSUME NEW s \in StreamIds
      PROVE  ~streams[s].active /\ newest[s] = None
  BY DEF ChainInit, RecoveryInit, NewStream
<1>3. 0 \in Seqs /\ 0 % SeqSpace = 0
  BY ModSmall, SeqSpaceAssumption DEF Seqs
<1>4. ChainTypeOK /\ ActiveIffArmed /\ NewestSlotTaken
  BY <1>1, <1>3, ChainAssumption
     DEF RecoveryInv, ChainTypeOK, ChainInit, ReplicatorInit
<1>5. CountersInStep
  BY <1>3 DEF CountersInStep, ChainInit, ReplicatorInit, Carried
<1>6. WindowInStep
  BY <1>2 DEF WindowInStep
<1>7. CopiesInStep /\ ForwardedAreGuarded /\ SlotsTellForwarded
  BY DEF ChainInit, CopiesInStep, ForwardedAreGuarded, SlotsTellForwarded
<1>8. OneMemberStream /\ ForwardedWereProduced
  BY DEF ChainInit, OneMemberStream, ForwardedWereProduced
<1> QED BY <1>4, <1>5, <1>6, <1>7, <1>8 DEF ChainInv

LEMMA ChainNextInv ==
  ASSUME Deployment, ChainInv, [ChainNext]_chainVars
  PROVE  ChainInv'
<1>1. ASSUME NEW s \in AppDscps, NEW oversize \in AppOversize, NEW id \in AppIds,
             Send(s, oversize, id)
      PROVE  ChainInv'
  BY <1>1, SendStep
<1>2. ASSUME NEW m \in net, Lose(m) \/ Fragment(m) \/ Trim(m)
      PROVE  ChainInv'
  BY <1>2, LoseStep, FragmentStep, TrimStep
<1>3. ASSUME NEW m \in net, DeliverAccepted(m) \/ DeliverOther(m)
      PROVE  ChainInv'
  BY <1>3, DeliverAcceptedStep, DeliverOtherStep
<1>4. ASSUME NEW s \in StreamIds, Expire(s)
      PROVE  ChainInv'
  BY <1>4, ExpireStep
<1>5. CASE Tick
  BY <1>5, TickStep
<1>6. CASE UNCHANGED chainVars
  <2> DEFINE N == net
  <2>1. /\ net' = N /\ N \subseteq Messages
        /\ UNCHANGED <<streams, timeoutMsg, sequenceCounters, produced, budget, forwarded, newest>>
        /\ \A k \in N : k \in net /\ Carries(k)
    BY <1>6, StreamTypes DEF chainVars
  <2> QED BY <2>1, NetStep
<1> QED BY <1>1, <1>2, <1>3, <1>4, <1>5, <1>6 DEF ChainNext

(* ChainInv is inductive under Deployment. *)
LEMMA DeploymentInvariant == Deployment /\ ChainSpec => [](Deployment /\ ChainInv)
<1>1. Deployment /\ ChainInit => Deployment /\ ChainInv
  BY ChainInitInv
<1>2. (Deployment /\ ChainInv) /\ [ChainNext]_chainVars => (Deployment /\ ChainInv)'
  <2> SUFFICES ASSUME Deployment, ChainInv, [ChainNext]_chainVars
               PROVE  Deployment' /\ ChainInv'
    OBVIOUS
  <2>1. ChainInv'
    BY ChainNextInv
  <2>2. Deployment'
    BY DEF Deployment, WindowDivides, DelayBelowTimeout, PacedBelowHalf,
           FallbackIsSafe, TrafficFits, HalfSpace
  <2> QED BY <2>1, <2>2
<1> QED BY <1>1, <1>2, PTL DEF ChainSpec

(* In every deployment that satisfies Deployment, whatever the transport   *)
(* loses, delays, reorders, fragments or trims, the state of the           *)
(* elimination point and the copies in transit stay in step.               *)
THEOREM ChainInvariant == Deployment /\ ChainSpec => []ChainInv
<1>1. Deployment /\ ChainInv => ChainInv
  OBVIOUS
<1> QED BY <1>1, DeploymentInvariant, PTL

(* FrerRecovery never hands a datagram on from both of its member streams: *)
(* not across wraps of the sequence number, idle resets of the window,     *)
(* fragments or lost R-TAGs.                                               *)
THEOREM NoDuplicateDelivery == Deployment /\ ChainSpec => []OneMemberStream
<1>1. ChainInv => OneMemberStream
  BY DEF ChainInv
<1> QED BY <1>1, ChainInvariant, PTL

(* The window of a stream is not reset, nor moved back, while a copy of a  *)
(* datagram it has handed on is in transit.                                *)
THEOREM WindowOutlivesCopies == Deployment /\ ChainSpec => []ForwardedAreGuarded
<1>1. ChainInv => ForwardedAreGuarded
  BY DEF ChainInv
<1> QED BY <1>1, ChainInvariant, PTL

(* A slot in the window says of one datagram alone who handed it on. *)
THEOREM SlotsTell == Deployment /\ ChainSpec => []SlotsTellForwarded
<1>1. ChainInv => SlotsTellForwarded
  BY DEF ChainInv
<1> QED BY <1>1, ChainInvariant, PTL

(* Numbers, counters and histories keep their types, and every copy in     *)
(* transit is one that a replication point or the transport can make.      *)
THEOREM ChainTypeCorrect == Deployment /\ ChainSpec => []ChainTypeOK
<1>1. ChainInv => ChainTypeOK
  BY DEF ChainInv
<1> QED BY <1>1, ChainInvariant, PTL

-----------------------------------------------------------------------------
(***************************************************************************)
(* What the composition promises, from its invariant ChainInv: why copies  *)
(* are dropped, what packets look like when they are handed on, and that   *)
(* every step is one of the abstract specification FrerElimination.        *)
(***************************************************************************)

(* A dropped copy is a copy of a replicated datagram; it is a duplicate of *)
(* one handed on from the other member stream, or a window late.           *)
LEMMA DropReason ==
  ASSUME Deployment, ChainInv, NEW m \in net, Drop(m.pkt),
         NEW d, d = m.pkt.dgram
  PROVE  \/ /\ out'.verdict = "DUPLICATE"
            /\ \E f \in forwarded : f.dgram = d /\ f.copy # m.copy
         \/ /\ out'.verdict = "WINDOW_OVERRUN"
            /\ d.n + WindowSize <= newest[d.stream]
<1> DEFINE s == d.stream
           n == d.n
           h == newest[s]
           w == streams[s]
           q == n % SeqSpace
<1>1. m \in Messages /\ Carries(m) /\ m.copy \in 1 .. 2
  BY StreamTypes, MessageFields
<1>2. s \in Carried /\ s \in FrerStreams /\ s \in StreamIds
  BY <1>1, CopyIsFrer, StreamTypes DEF Drop, Carried
<1>3. StreamOf(m.pkt) = s /\ SeqNum(m.pkt) = q /\ m.pkt.dscp = MemberDscp(s, m.copy)
  BY <1>1, <1>2, CopyRead
<1>4. /\ ~Accepts(w, q, m.pkt.dscp)
      /\ out'.verdict = IF Overruns(w, q) THEN "WINDOW_OVERRUN" ELSE "DUPLICATE"
  BY <1>3 DEF Drop, VerdictOn, Verdict
<1>5. w.active /\ ~Advances(w, q)
  BY <1>4 DEF Accepts, Advances
<1>6. n \in Nat /\ h \in Nat /\ StandsAt(w, h) /\ n - h < HalfSpace /\ h - n < HalfSpace
  BY <1>2, <1>5, Distance
<1>7. /\ Diff(w, q) = n - h
      /\ Advances(w, q) <=> n > h
      /\ Overruns(w, q) <=> n + WindowSize <= h
  BY <1>6, UnwrappedVerdict
<1>8. CASE Overruns(w, q)
  BY <1>4, <1>7, <1>8
<1>9. CASE ~Overruns(w, q)
  <2>1. Slot(q) = Slot(n)
    BY <1>6, SlotOfNumber DEF Deployment, WindowDivides
  <2>2. n \in h - WindowSize + 1 .. h
    BY <1>5, <1>6, <1>7, <1>9, WindowAssumption
  <2>3. w.accepted[Slot(n)] # MemberDscp(s, m.copy)
    BY <1>3, <1>4, <1>9, <2>1 DEF Accepts
  <2>4. w.accepted[Slot(n)] # NotSeen
    <3>1. CASE n < h
      <4>1. Diff(w, q) < 0
        BY <1>6, <1>7, <3>1
      <4> QED BY <4>1, <1>4, <1>9, <2>1 DEF Accepts
    <3>2. CASE n = h
      <4>1. w.highestSeqSeen = q
        BY <1>6, <3>2 DEF StandsAt
      <4> QED BY <4>1, <1>2, <1>5, <2>1 DEF ChainInv, NewestSlotTaken
    <3> QED BY <1>5, <1>6, <1>7, <3>1, <3>2
  <2>5. /\ w.accepted[Slot(n)] \in {NotSeen, s, ReplicaDscp}
        /\ \A c \in 1 .. 2 : w.accepted[Slot(n)] = MemberDscp(s, c)
                               <=> [dgram |-> d, copy |-> c] \in forwarded
    BY <1>2, <1>5, <2>2 DEF ChainInv, SlotsTellForwarded
  <2> DEFINE b == 3 - m.copy
  <2>6. b \in 1 .. 2 /\ b # m.copy
    BY <1>1
  <2>7. w.accepted[Slot(n)] = MemberDscp(s, b)
    BY <1>1, <2>3, <2>4, <2>5 DEF MemberDscp
  <2> DEFINE f == [dgram |-> d, copy |-> b]
  <2>8. f \in forwarded /\ f.dgram = d /\ f.copy = b
    BY <2>5, <2>6, <2>7
  <2> HIDE DEF b, f
  <2> QED BY <1>4, <1>9, <2>6, <2>8
<1> QED BY <1>8, <1>9

(* The other steps do not drop anything. *)
LEMMA OtherVerdicts ==
  ASSUME ChainNext, out'.verdict \in {"DUPLICATE", "WINDOW_OVERRUN"}
  PROVE  \E m \in net : Drop(m.pkt) /\ net' = net \ {m}
<1>1. out' # NoPacket
  BY DEF NoPacket
<1>2. PICK m \in net : DeliverAccepted(m) \/ DeliverOther(m)
  BY <1>1 DEF ChainNext, Send, Lose, Fragment, Trim, Expire, HandleTimeout, Tick, TimersRun
<1>3. ~DeliverAccepted(m) /\ ~PassThrough(m.pkt)
  BY DEF DeliverAccepted, Accept, PassThrough
<1> QED BY <1>2, <1>3 DEF DeliverOther

(* A copy is dropped as DUPLICATE only if its datagram was handed on from  *)
(* the other member stream.                                                *)
THEOREM DuplicatesHaveOriginals == Deployment /\ ChainSpec => DuplicatesWereForwarded
<1> DEFINE A == out'.verdict = "DUPLICATE" =>
                  \A m \in net \ net' :
                    \E f \in forwarded : f.dgram = m.pkt.dgram /\ f.copy # m.copy
<1>1. Deployment /\ ChainInv /\ [ChainNext]_chainVars => [A]_chainVars
  <2> SUFFICES ASSUME Deployment, ChainInv, ChainNext, out'.verdict = "DUPLICATE",
                      NEW m \in net \ net'
               PROVE  \E f \in forwarded : f.dgram = m.pkt.dgram /\ f.copy # m.copy
    OBVIOUS
  <2>1. Drop(m.pkt)
    BY OtherVerdicts
  <2> QED BY <2>1, DropReason
<1>2. Deployment /\ ChainSpec => [](Deployment /\ ChainInv)
  BY DeploymentInvariant
<1> QED BY <1>1, <1>2, PTL DEF ChainSpec, DuplicatesWereForwarded

(* A copy is dropped as WINDOW_OVERRUN only if it is at least a window     *)
(* behind the newest datagram of its own stream.                           *)
THEOREM OverrunsTrail == Deployment /\ ChainSpec => OverrunsAreLate
<1> DEFINE A == out'.verdict = "WINDOW_OVERRUN" =>
                  \A m \in net \ net' :
                    m.pkt.dgram.n + WindowSize <= newest[m.pkt.dgram.stream]
<1>1. Deployment /\ ChainInv /\ [ChainNext]_chainVars => [A]_chainVars
  <2> SUFFICES ASSUME Deployment, ChainInv, ChainNext, out'.verdict = "WINDOW_OVERRUN",
                      NEW m \in net \ net'
               PROVE  m.pkt.dgram.n + WindowSize <= newest[m.pkt.dgram.stream]
    OBVIOUS
  <2>1. Drop(m.pkt)
    BY OtherVerdicts
  <2> QED BY <2>1, DropReason
<1>2. Deployment /\ ChainSpec => [](Deployment /\ ChainInv)
  BY DeploymentInvariant
<1> QED BY <1>1, <1>2, PTL DEF ChainSpec, OverrunsAreLate

-----------------------------------------------------------------------------
(* A copy that passes the elimination point unseen is not of a replicated  *)
(* datagram; one that is handed on has the DSCP of its stream restored.    *)
LEMMA HandedOnDscp ==
  ASSUME Deployment, ChainInv, NEW m \in net, Accept(m.pkt) \/ PassThrough(m.pkt)
  PROVE  out'.pkt.dscp = out'.pkt.dgram.stream
<1> DEFINE s == m.pkt.dgram.stream
<1>1. m \in Messages /\ Carries(m) /\ m.copy \in 1 .. 2
  BY StreamTypes, MessageFields
<1>2. CASE Accept(m.pkt)
  <2>1. s \in FrerStreams
    BY <1>1, <1>2, CopyIsFrer DEF Accept, Carried
  <2>2. StreamOf(m.pkt) = s /\ m.pkt.dscp = MemberDscp(s, m.copy)
    BY <1>1, <2>1, CopyRead
  <2> DEFINE p == Stripped(m.pkt)
  <2>3. p.dscp = m.pkt.dscp /\ p.dgram = m.pkt.dgram /\ DOMAIN p = DOMAIN m.pkt
    BY <1>1 DEF Stripped, Messages
  <2>4. out'.pkt = Restored(m.pkt)
    BY <1>2 DEF Accept
  <2> HIDE DEF p
  <2>5. CASE IsReplica(m.pkt)
    <3>1. Restored(m.pkt) = [p EXCEPT !.dscp = s]
      BY <2>2, <2>5 DEF Restored, p
    <3>2. {"dscp", "dgram"} \subseteq DOMAIN p
      BY <1>1, <2>3 DEF Messages
    <3> QED BY <2>3, <2>4, <3>1, <3>2
  <2>6. CASE ~IsReplica(m.pkt)
    <3>1. Restored(m.pkt) = p
      BY <2>6 DEF Restored, p
    <3>2. m.pkt.dscp = s
      BY <2>2, <2>6 DEF IsReplica, MemberDscp
    <3> QED BY <2>3, <2>4, <3>1, <3>2
  <2> QED BY <2>5, <2>6
<1>3. CASE PassThrough(m.pkt)
  <2>1. out'.pkt = m.pkt
    BY <1>3 DEF PassThrough
  <2>2. s \notin FrerStreams
    <3> SUFFICES ASSUME s \in FrerStreams PROVE FALSE
      OBVIOUS
    <3>1. m.pkt.dscp = MemberDscp(s, m.copy)
      BY <1>1, CopyRead
    <3> QED BY <3>1, <1>1, <1>3 DEF PassThrough, IsFrer, MemberDscp
  <2> QED BY <1>1, <2>1, <2>2 DEF Carries
<1> QED BY <1>2, <1>3

(* Whatever is handed on has the DSCP its datagram had before replication. *)
THEOREM DscpRestored == Deployment /\ ChainSpec => []OriginalDscp
<1>1. ChainInit => OriginalDscp
  BY DEF ChainInit, RecoveryInit, NoPacket, OriginalDscp
<1>2. Deployment /\ ChainInv /\ OriginalDscp /\ [ChainNext]_chainVars => OriginalDscp'
  <2> SUFFICES ASSUME Deployment, ChainInv, OriginalDscp, [ChainNext]_chainVars
               PROVE  OriginalDscp'
    OBVIOUS
  <2>1. CASE UNCHANGED chainVars
    BY <2>1 DEF chainVars, OriginalDscp
  <2>2. ASSUME NEW m \in net, DeliverAccepted(m) \/ DeliverOther(m)
        PROVE  OriginalDscp'
    <3>1. CASE Accept(m.pkt) \/ PassThrough(m.pkt)
      BY <3>1, HandedOnDscp DEF OriginalDscp
    <3>2. CASE Drop(m.pkt)
      <4>1. out'.verdict \in {"DUPLICATE", "WINDOW_OVERRUN"}
        BY <3>2, DropReason
      <4> QED BY <4>1 DEF OriginalDscp
    <3> QED BY <2>2, <3>1, <3>2 DEF DeliverAccepted, DeliverOther
  <2>3. CASE out' = NoPacket
    BY <2>3 DEF NoPacket, OriginalDscp
  <2>4. CASE ChainNext
    BY <2>2, <2>3, <2>4
       DEF ChainNext, Send, Lose, Fragment, Trim, Expire, HandleTimeout, Tick, TimersRun
  <2> QED BY <2>1, <2>4
<1> QED BY <1>1, <1>2, DeploymentInvariant, PTL DEF ChainSpec

-----------------------------------------------------------------------------
(* Every step of the composition is a step of FrerElimination.             *)

LEMMA InitialPromise == ChainInit => Elimination!ElimInit
BY DEF ChainInit, RecoveryInit, NoPacket, InTransit, None,
       Elimination!ElimInit, Elimination!Nothing

(* A copy leaves the transport: its datagram may have another one there. *)
LEMMA CopyLeaves ==
  ASSUME NEW m \in net, net' = net \ {m}
  PROVE  Elimination!Close(m.pkt.dgram)
<1>1. InTransit' = {k.pkt.dgram : k \in net \ {m}}
  BY DEF InTransit
<1>2. InTransit' \in {InTransit, InTransit \ {m.pkt.dgram}}
  BY <1>1 DEF InTransit
<1> QED BY <1>2 DEF Elimination!Close

(* None leaves and no new one is sent. *)
LEMMA CopiesStay ==
  ASSUME UNCHANGED <<forwarded, newest>>, out' = NoPacket, InTransit' = InTransit
  PROVE  Elimination!Pause
BY DEF Elimination!Pause, NoPacket

LEMMA SendPromise ==
  ASSUME Deployment, ChainInv,
         NEW s \in AppDscps, NEW oversize \in AppOversize, NEW id \in AppIds,
         Send(s, oversize, id)
  PROVE  Elimination!ElimNext
<1> DEFINE d == [stream |-> s, n |-> produced[s]]
<1>1. d \in Datagrams
  BY ChainAssumption DEF Send, ChainInv, ChainTypeOK, Datagrams
<1>2. /\ \A k \in net' : k \in net \/ k.pkt.dgram = d
      /\ net \subseteq net' /\ \E k \in net' : k.pkt.dgram = d
  BY SentCopies
<1> HIDE DEF d
<1>3. InTransit' = InTransit \cup {d}
  <2>1. InTransit' = {k.pkt.dgram : k \in net'}
    BY DEF InTransit
  <2> QED BY <1>2, <2>1 DEF InTransit
<1>4. out' = NoPacket /\ UNCHANGED <<forwarded, newest>>
  BY DEF Send, historyVars
<1>5. Elimination!Offer(d)
  BY <1>3, <1>4 DEF Elimination!Offer, NoPacket
<1> QED BY <1>1, <1>5 DEF Elimination!ElimNext

LEMMA LosePromise ==
  ASSUME ChainInv, NEW m \in net, Lose(m)
  PROVE  Elimination!ElimNext
<1>1. Elimination!Close(m.pkt.dgram)
  BY CopyLeaves DEF Lose
<1>2. Elimination!LoseCopy(m.pkt.dgram)
  BY <1>1 DEF Elimination!LoseCopy, Lose, historyVars, NoPacket
<1>3. m.pkt.dgram \in Datagrams
  BY StreamTypes, MessageFields
<1> QED BY <1>2, <1>3 DEF Elimination!ElimNext

LEMMA MangledPromise ==
  ASSUME ChainInv, NEW m \in net, Fragment(m) \/ Trim(m)
  PROVE  Elimination!ElimNext
<1>1. m \in Messages
  BY StreamTypes
<1>2. InTransit' = {k.pkt.dgram : k \in net'}
  BY DEF InTransit
<1>3. PICK K : /\ net' = (net \ {m}) \cup K
               /\ K # {}
               /\ \A k \in K : k.pkt.dgram = m.pkt.dgram
  <2>1. CASE Fragment(m)
    <3> DEFINE k1 == [m EXCEPT !.part = 1, !.pkt = [@ EXCEPT !.fragment = TRUE, !.rtag = NoTag]]
               k2 == [m EXCEPT !.part = 2, !.pkt = [@ EXCEPT !.fragment = TRUE]]
    <3>1. k1.pkt.dgram = m.pkt.dgram /\ k2.pkt.dgram = m.pkt.dgram
      BY <1>1 DEF Messages
    <3>2. net' = (net \ {m}) \cup {k1, k2}
      BY <2>1 DEF Fragment
    <3> HIDE DEF k1, k2
    <3> WITNESS {k1, k2}
    <3> QED BY <3>1, <3>2
  <2>2. CASE Trim(m)
    <3> DEFINE k1 == [m EXCEPT !.pkt = [@ EXCEPT !.rtag = NoTag]]
    <3>1. k1.pkt.dgram = m.pkt.dgram
      BY <1>1 DEF Messages
    <3>2. net' = (net \ {m}) \cup {k1}
      BY <2>2 DEF Trim
    <3> HIDE DEF k1
    <3> WITNESS {k1}
    <3> QED BY <3>1, <3>2
  <2> QED BY <2>1, <2>2
<1>4. InTransit' = InTransit
  BY <1>2, <1>3 DEF InTransit
<1>5. UNCHANGED <<forwarded, newest>> /\ out' = NoPacket
  BY DEF Fragment, Trim, historyVars
<1> QED BY <1>4, <1>5, CopiesStay DEF Elimination!ElimNext

(* The slots and numbers of the code decide as the abstract window does. *)
LEMMA AcceptedPromise ==
  ASSUME Deployment, ChainInv, NEW m \in net, DeliverAccepted(m)
  PROVE  Elimination!ElimNext
<1> DEFINE d == m.pkt.dgram
           s == d.stream
           n == d.n
           h == newest[s]
           w == streams[s]
           top == IF w.active /\ n <= h THEN h ELSE n
<1>1. /\ s \in Carried /\ n \in Nat
      /\ w.active => h \in Nat /\ h < n + WindowSize
      /\ newest' = [newest EXCEPT ![s] = top]
  BY AcceptedStream
<1>2. d \in Datagrams /\ m.copy \in 1 .. 2 /\ s \in StreamIds
  BY <1>1, StreamTypes, MessageFields
<1>3. ~w.active => h = -1
  BY <1>2 DEF ChainInv, WindowInStep, None
<1>4. h < n + WindowSize /\ top = IF n > h THEN n ELSE h
  <2>1. CASE w.active
    BY <1>1, <2>1
  <2>2. CASE ~w.active
    BY <1>1, <1>3, <2>2, WindowAssumption
  <2> QED BY <2>1, <2>2
<1>5. Elimination!Close(d)
  BY CopyLeaves DEF DeliverAccepted
<1>6. \A f \in forwarded : f.dgram = d => f.copy = m.copy
  BY AcceptedOnce DEF DeliverAccepted
<1>7. d \in InTransit
  BY DEF InTransit
<1>8. forwarded' = Elimination!StillOpen(forwarded) \cup {[dgram |-> d, copy |-> m.copy]}
  BY DEF DeliverAccepted, Known, Elimination!StillOpen
<1>9. out'.verdict = "ACCEPT"
  BY DEF DeliverAccepted, Accept
<1> HIDE DEF d
<1>10. Elimination!ForwardFrom(d, m.copy)
  BY <1>1, <1>4, <1>5, <1>6, <1>7, <1>8, <1>9 DEF Elimination!ForwardFrom
<1> QED BY <1>2, <1>10 DEF Elimination!ElimNext

LEMMA OtherPromise ==
  ASSUME Deployment, ChainInv, NEW m \in net, DeliverOther(m)
  PROVE  Elimination!ElimNext
<1> DEFINE d == m.pkt.dgram
<1>1. d \in Datagrams /\ m.copy \in 1 .. 2 /\ d \in InTransit
  BY StreamTypes, MessageFields DEF InTransit
<1>2. UNCHANGED <<forwarded, newest>>
  BY DEF DeliverOther, historyVars
<1>3. Elimination!Close(d)
  BY CopyLeaves DEF DeliverOther
<1>4. CASE PassThrough(m.pkt)
  <2>1. out'.verdict = "PASSED"
    BY <1>4 DEF PassThrough
  <2>2. Elimination!LoseCopy(d)
    BY <1>2, <1>3, <2>1 DEF Elimination!LoseCopy
  <2> QED BY <1>1, <2>2 DEF Elimination!ElimNext
<1>5. CASE Drop(m.pkt)
  <2>1. \/ /\ out'.verdict = "DUPLICATE"
           /\ \E f \in forwarded : f.dgram = d /\ f.copy # m.copy
        \/ /\ out'.verdict = "WINDOW_OVERRUN"
           /\ d.n + WindowSize <= newest[d.stream]
    BY <1>5, DropReason
  <2>2. Elimination!Eliminate(d, m.copy) \/ Elimination!RefuseLate(d)
    BY <1>1, <1>2, <1>3, <2>1 DEF Elimination!Eliminate, Elimination!RefuseLate
  <2> QED BY <1>1, <2>2 DEF Elimination!ElimNext
<1> QED BY <1>4, <1>5 DEF DeliverOther

(* A window is forgotten when nothing it remembers can still arrive. *)
LEMMA ExpirePromise ==
  ASSUME ChainInv, NEW s \in StreamIds, Expire(s)
  PROVE  Elimination!ElimNext
<1>1. /\ timeoutMsg[s] = 0 /\ out' = NoPacket
      /\ newest' = [newest EXCEPT ![s] = None]
      /\ UNCHANGED <<net, forwarded>>
  BY DEF Expire, HandleTimeout
<1>2. ASSUME NEW f \in forwarded, f.dgram.stream = s, f.dgram \in InTransit
      PROVE  FALSE
  <2>1. PICK m \in net : m.pkt.dgram = f.dgram
    BY <1>2 DEF InTransit
  <2>2. MaxDelay - m.age < timeoutMsg[s]
    BY <1>2, <2>1 DEF ChainInv, ForwardedAreGuarded
  <2>3. m.age \in 0 .. MaxDelay /\ MaxDelay \in Nat
    BY StreamTypes, MessageFields, ChainAssumption
  <2> QED BY <1>1, <2>2, <2>3
<1>3. InTransit' = InTransit
  BY <1>1 DEF InTransit
<1>4. Elimination!Forget(s)
  BY <1>1, <1>2, <1>3 DEF Elimination!Forget, Elimination!Nothing, None, NoPacket
<1> QED BY <1>4 DEF Elimination!ElimNext

LEMMA TickPromise ==
  ASSUME ChainInv, Tick
  PROVE  Elimination!ElimNext
<1>1. net' = {[m EXCEPT !.age = @ + 1] : m \in net}
  BY DEF Tick
<1>2. \A m \in net : [m EXCEPT !.age = @ + 1].pkt = m.pkt
  BY StreamTypes DEF Messages
<1>3. InTransit' = {k.pkt.dgram : k \in net'}
  BY DEF InTransit
<1>4. InTransit' = InTransit
  <2>1. \A k \in net' : \E m \in net : k.pkt = m.pkt
    BY <1>1, <1>2
  <2>2. \A m \in net : \E k \in net' : k.pkt = m.pkt
    BY <1>1, <1>2
  <2> QED BY <1>3, <2>1, <2>2 DEF InTransit
<1>5. UNCHANGED <<forwarded, newest>> /\ out' = NoPacket
  BY DEF Tick, TimersRun, historyVars
<1> QED BY <1>4, <1>5, CopiesStay DEF Elimination!ElimNext

(* Replication and elimination as coded keep the promise FrerElimination   *)
(* states without slots, wrapping numbers, tags or timers.                 *)
THEOREM PromiseKept == Deployment /\ ChainSpec => KeepsPromise
<1>1. ChainInit => Elimination!ElimInit
  BY InitialPromise
<1>2. Deployment /\ ChainInv /\ [ChainNext]_chainVars
        => [Elimination!ElimNext]_(Elimination!eliminationVars)
  <2> SUFFICES ASSUME Deployment, ChainInv, [ChainNext]_chainVars
               PROVE  Elimination!ElimNext \/ UNCHANGED Elimination!eliminationVars
    OBVIOUS
  <2>1. ASSUME NEW s \in AppDscps, NEW oversize \in AppOversize, NEW id \in AppIds,
               Send(s, oversize, id)
        PROVE  Elimination!ElimNext
    BY <2>1, SendPromise
  <2>2. ASSUME NEW m \in net, Lose(m) \/ Fragment(m) \/ Trim(m)
        PROVE  Elimination!ElimNext
    BY <2>2, LosePromise, MangledPromise
  <2>3. ASSUME NEW m \in net, DeliverAccepted(m) \/ DeliverOther(m)
        PROVE  Elimination!ElimNext
    BY <2>3, AcceptedPromise, OtherPromise
  <2>4. ASSUME NEW s \in StreamIds, Expire(s)
        PROVE  Elimination!ElimNext
    BY <2>4, ExpirePromise
  <2>5. CASE Tick
    BY <2>5, TickPromise
  <2>6. CASE UNCHANGED chainVars
    BY <2>6 DEF chainVars, Elimination!eliminationVars, InTransit
  <2> QED BY <2>1, <2>2, <2>3, <2>4, <2>5, <2>6 DEF ChainNext
<1> QED BY <1>1, <1>2, DeploymentInvariant, PTL
     DEF ChainSpec, KeepsPromise, Elimination!ElimSpec
=============================================================================
