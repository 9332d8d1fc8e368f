------------------------- MODULE FrerRecoveryProofs -------------------------
(***************************************************************************)
(* Invariants of the elimination point, for every value of its parameters  *)
(* and every sequence of packets, by the inductive invariant               *)
(*   RecoveryTypeOK /\ ActiveIffArmed /\ NewestSlotTaken.                  *)
(* The step lemmas ask of a packet only what the handler reads, so that    *)
(* they serve the composed model as well.  Before them come facts about    *)
(* the operators of VectorRecovery: the wrapping difference, the slots,    *)
(* and the state that an accepted packet leaves behind.                    *)
(***************************************************************************)
EXTENDS FrerRecovery, TLAPS

(* The remainder of any integer by a positive number. *)
LEMMA ModRange ==
  ASSUME NEW a \in Int, NEW m \in Nat \ {0}
  PROVE  a % m \in 0 .. m - 1
OBVIOUS

(* Division with remainder. *)
LEMMA DivMod ==
  ASSUME NEW a \in Int, NEW m \in Nat \ {0}
  PROVE  /\ a \div m \in Int
         /\ a = m * (a \div m) + (a % m)
OBVIOUS

LEMMA ModUnique ==
  ASSUME NEW m \in Nat \ {0}, NEW q \in Int, NEW r \in 0 .. m - 1
  PROVE  (m * q + r) % m = r
OBVIOUS

(* Numbers less than m apart with the same remainder are equal. *)
LEMMA ModInjective ==
  ASSUME NEW m \in Nat \ {0}, NEW a \in Int, NEW b \in Int,
         a % m = b % m, a - b < m, b - a < m
  PROVE  a = b
<1>1. PICK q \in Int : a = m * q + (a % m)
  BY DivMod
<1>2. PICK r \in Int : b = m * r + (b % m)
  BY DivMod
<1> DEFINE e == a % m
<1>3. e \in Int
  BY ModRange
<1>4. a = m * q + e /\ b = m * r + e
  BY <1>1, <1>2
<1> HIDE DEF e
<1>5. a - b = m * (q - r)
  BY <1>3, <1>4
<1>6. CASE q - r >= 1
  <2>1. m * (q - r) >= m
    BY <1>6
  <2> QED BY <2>1, <1>5
<1>7. CASE q - r <= -1
  <2>1. m * (q - r) <= -m
    BY <1>7
  <2> QED BY <2>1, <1>5
<1>8. CASE q = r
  BY <1>4, <1>8
<1> QED BY <1>6, <1>7, <1>8

(* Adding a multiple does not change the remainder. *)
LEMMA ModShift ==
  ASSUME NEW m \in Nat \ {0}, NEW a \in Int, NEW k \in Int
  PROVE  (a + m * k) % m = a % m
<1>1. PICK q \in Int : a = m * q + (a % m)
  BY DivMod
<1>2. a % m \in 0 .. m - 1
  BY ModRange
<1> DEFINE e == a % m
<1>3. a = m * q + e
  BY <1>1
<1>4. e \in 0 .. m - 1
  BY <1>2
<1> HIDE DEF e
<1>5. a + m * k = m * (q + k) + e
  BY <1>3, <1>4
<1>6. (m * (q + k) + e) % m = e
  BY <1>4, ModUnique
<1> QED BY <1>5, <1>6 DEF e

LEMMA Congruent ==
  ASSUME NEW m \in Nat \ {0}, NEW a \in Int, NEW b \in Int, NEW k \in Int,
         b = a + m * k
  PROVE  b % m = a % m
BY ModShift

(* A remainder of a difference. *)
LEMMA ModDifference ==
  ASSUME NEW m \in Nat \ {0}, NEW a \in Int, NEW b \in Int
  PROVE  ((a % m) - (b % m)) % m = (a - b) % m
<1> DEFINE x == a % m
           y == b % m
<1>1. PICK q \in Int : a = m * q + x
  BY DivMod
<1>2. PICK r \in Int : b = m * r + y
  BY DivMod
<1>3. x \in Int /\ y \in Int
  BY ModRange
<1> HIDE DEF x, y
<1> DEFINE k == r - q
           c == x - y
           d == a - b
<1>4. k \in Int /\ c \in Int /\ d \in Int /\ c = d + m * k
  BY <1>1, <1>2, <1>3
<1> HIDE DEF k, c, d
<1>5. c % m = d % m
  BY <1>4, Congruent
<1> QED BY <1>5 DEF c, d, x, y

(* The remainder by a multiple keeps the remainder. *)
LEMMA ModOfMod ==
  ASSUME NEW w \in Nat \ {0}, NEW m \in Nat \ {0}, m % w = 0,
         NEW a \in Int, NEW i \in Int
  PROVE  ((a % m) + i) % w = (a + i) % w
<1> DEFINE x == a % m
<1>1. PICK q \in Int : a = m * q + x
  BY DivMod
<1>2. PICK k \in Int : m = w * k
  <2>1. m \div w \in Int /\ m = w * (m \div w) + (m % w)
    BY DivMod
  <2> QED BY <2>1
<1>3. x \in Int
  BY ModRange
<1> HIDE DEF x
<1> DEFINE e == k * q
           c == x + i
           d == a + i
<1>4. e \in Int /\ m * q = w * e
  BY <1>2
<1> HIDE DEF e
<1>5. c \in Int /\ d \in Int /\ d = c + w * e
  BY <1>1, <1>3, <1>4
<1> HIDE DEF c, d
<1>6. d % w = c % w
  BY <1>4, <1>5, Congruent
<1> QED BY <1>6 DEF c, d, x

(* Counting on from a remainder. *)
LEMMA ModSuccessor ==
  ASSUME NEW m \in Nat \ {0}, NEW a \in Nat
  PROVE  ((a % m) + 1) % m = (a + 1) % m
<1>1. m % m = 0
  <2>1. (m * 1 + 0) % m = 0
    BY ModUnique
  <2> QED BY <2>1
<1>2. a \in Int /\ 1 \in Int
  OBVIOUS
<1> QED BY <1>1, <1>2, ModOfMod, Zenon

(* Remainders of numbers that are nearly in range. *)
LEMMA ModSmall ==
  ASSUME NEW m \in Nat \ {0}, NEW x \in Int
  PROVE  /\ 0 <= x /\ x < m => x % m = x
         /\ -m <= x /\ x < 0 => x % m = x + m
<1>1. ASSUME 0 <= x, x < m PROVE x % m = x
  <2>1. (m * 0 + x) % m = x
    BY <1>1, ModUnique
  <2> QED BY <2>1
<1>2. ASSUME -m <= x, x < 0 PROVE x % m = x + m
  <2>1. x + m \in 0 .. m - 1
    BY <1>2
  <2>2. (m * (-1) + (x + m)) % m = x + m
    BY <2>1, ModUnique
  <2>3. m * (-1) + (x + m) = x
    OBVIOUS
  <2> QED BY <2>2, <2>3
<1> QED BY <1>1, <1>2

(* Half of an even number. *)
LEMMA EvenHalf ==
  ASSUME NEW m \in Nat \ {0}, m % 2 = 0
  PROVE  m \div 2 \in Nat /\ m = 2 * (m \div 2)
OBVIOUS

-----------------------------------------------------------------------------
(* A sequence number occupies one of the slots. *)
LEMMA SlotType == \A n \in Int : Slot(n) \in Slots
BY ModRange, WindowAssumption DEF Slot, Slots

LEMMA NewStreamType == NewStream \in StreamState
BY SeqSpaceAssumption DEF NewStream, StreamState, Seqs, Blank, Slots

(* Accepting a packet keeps the stream state well-typed, takes the slot of *)
(* the newest number and leaves the stream active.                         *)
LEMMA AcceptedState ==
  ASSUME NEW s \in StreamState, NEW seq \in Seqs, NEW dscp \in Nat
  PROVE  LET t == Accepted(s, seq, dscp)
         IN  /\ t \in StreamState
             /\ t.active
             /\ t.accepted[Slot(seq)] = dscp
             /\ \A i \in Slots : t.accepted[i] = NotSeen =>
                  i # Slot(seq) /\ (i \in Opened(s, seq) \/ s.accepted[i] = NotSeen)
<1> DEFINE t == Accepted(s, seq, dscp)
<1>1. Slot(seq) \in Slots
  BY SlotType DEF Seqs
<1>2. ASSUME NEW i \in Slots
      PROVE  /\ t.accepted[i] = IF i = Slot(seq) THEN dscp
                                ELSE IF i \in Opened(s, seq) THEN NotSeen
                                ELSE s.accepted[i]
             /\ t.accepted[i] \in Nat \cup {NotSeen}
  BY DEF Accepted, StreamState, NotSeen
<1>3. t.accepted \in [Slots -> Nat \cup {NotSeen}]
  BY <1>2 DEF Accepted
<1>4. t \in StreamState
  BY <1>3 DEF StreamState, Accepted
<1>5. t.active
  BY DEF Accepted
<1>6. t.accepted[Slot(seq)] = dscp
  BY <1>1, <1>2
<1>7. \A i \in Slots : t.accepted[i] = NotSeen =>
        i # Slot(seq) /\ (i \in Opened(s, seq) \/ s.accepted[i] = NotSeen)
  BY <1>2, <1>6 DEF NotSeen
<1> QED BY <1>4, <1>5, <1>6, <1>7

LEMMA ResetState ==
  ASSUME NEW s \in StreamState
  PROVE  /\ ResetStream(s) \in StreamState
         /\ ~ResetStream(s).active
BY DEF ResetStream, StreamState, Blank

-----------------------------------------------------------------------------
(* What the algorithm does in terms of unwrapped numbers: n behind the     *)
(* newest number seen, d behind the number that arrives, less than half    *)
(* the number space apart.                                                 *)

LEMMA Halves == SeqSpace \in Nat \ {0} /\ HalfSpace \in Nat /\ SeqSpace = 2 * HalfSpace
BY SeqSpaceAssumption, EvenHalf DEF HalfSpace

(* Wrapping the difference of two wrapped numbers gives their difference.  *)
LEMMA WrappedDifference ==
  ASSUME NEW a \in Nat, NEW b \in Nat, a - b < HalfSpace, b - a < HalfSpace
  PROVE  Int16((a % SeqSpace) - (b % SeqSpace)) = a - b
<1> DEFINE d == a - b
<1>1. a \in Int /\ b \in Int /\ d \in Int
  OBVIOUS
<1>2. ((a % SeqSpace) - (b % SeqSpace)) % SeqSpace = d % SeqSpace
  BY <1>1, Halves, ModDifference, Zenon
<1>3. -HalfSpace < d /\ d < HalfSpace
  BY Halves
<1> HIDE DEF d
<1>4. d % SeqSpace = IF d >= 0 THEN d ELSE d + SeqSpace
  <2>1. -SeqSpace <= d /\ d < SeqSpace
    BY <1>1, <1>3, Halves
  <2>2. /\ 0 <= d /\ d < SeqSpace => d % SeqSpace = d
        /\ -SeqSpace <= d /\ d < 0 => d % SeqSpace = d + SeqSpace
    BY <1>1, Halves, ModSmall, Zenon
  <2> QED BY <1>1, <2>1, <2>2
<1>5. Int16((a % SeqSpace) - (b % SeqSpace)) = d
  BY <1>1, <1>2, <1>3, <1>4, Halves DEF Int16
<1> QED BY <1>5 DEF d

(* A small difference is not changed by the cast. *)
LEMMA SmallDifference ==
  ASSUME NEW x \in 0 .. HalfSpace - 1
  PROVE  Int16(x) = x
<1>1. x % SeqSpace = x
  BY Halves, ModSmall
<1> QED BY <1>1, Halves DEF Int16

(* When the window divides the number space, wrapped numbers have the      *)
(* slots of unwrapped ones.                                                *)
LEMMA SlotOfWrapped ==
  ASSUME SeqSpace % WindowSize = 0, NEW a \in Nat, NEW i \in Int
  PROVE  Slot((a % SeqSpace) + i) = Slot(a + i)
<1>1. a \in Int
  OBVIOUS
<1>2. ((a % SeqSpace) + i) % WindowSize = (a + i) % WindowSize
  BY <1>1, ModOfMod, WindowAssumption, SeqSpaceAssumption, Zenon
<1> QED BY <1>2 DEF Slot

LEMMA SlotOfNumber ==
  ASSUME SeqSpace % WindowSize = 0, NEW n \in Nat
  PROVE  Slot(n % SeqSpace) = Slot(n)
<1>1. Slot((n % SeqSpace) + 0) = Slot(n + 0)
  BY SlotOfWrapped
<1>2. (n % SeqSpace) + 0 = n % SeqSpace /\ n + 0 = n
  BY ModRange, SeqSpaceAssumption
<1> QED BY <1>1, <1>2

(* Different numbers of one window have different slots. *)
LEMMA SlotsApart ==
  ASSUME NEW a \in Int, NEW b \in Int, a # b, a - b < WindowSize, b - a < WindowSize
  PROVE  Slot(a) # Slot(b)
BY ModInjective, WindowAssumption DEF Slot

(* The window of stream state s stands at the unwrapped number h. *)
StandsAt(s, h) == s.active /\ s.highestSeqSeen = h % SeqSpace

(* In terms of unwrapped numbers less than half the number space apart,    *)
(* the window advances exactly for newer numbers and is overrun exactly by *)
(* those a window or more behind.                                          *)
LEMMA UnwrappedVerdict ==
  ASSUME NEW s, NEW h \in Nat, NEW n \in Nat, StandsAt(s, h),
         n - h < HalfSpace, h - n < HalfSpace
  PROVE  /\ Diff(s, n % SeqSpace) = n - h
         /\ Advances(s, n % SeqSpace) <=> n > h
         /\ Overruns(s, n % SeqSpace) <=> n + WindowSize <= h
<1>1. Diff(s, n % SeqSpace) = n - h
  BY WrappedDifference DEF Diff, StandsAt
<1>2. n < h => Int16(-(n - h)) = h - n
  <2> SUFFICES ASSUME n < h PROVE Int16(-(n - h)) = h - n
    OBVIOUS
  <2>1. h - n \in 0 .. HalfSpace - 1
    BY Halves
  <2>2. -(n - h) = h - n
    OBVIOUS
  <2> QED BY <2>1, <2>2, SmallDifference
<1> QED BY <1>1, <1>2, WindowAssumption DEF Advances, Overruns, StandsAt

(* What the slots of the numbers in the window hold after n was accepted:  *)
(* its own the copy, those the window was moved over nothing, the others   *)
(* what they held before.                                                  *)
LEMMA AcceptedWindow ==
  ASSUME SeqSpace % WindowSize = 0,
         NEW s, NEW h \in Nat, NEW n \in Nat, NEW dscp, StandsAt(s, h),
         n - h < HalfSpace, h - n < HalfSpace, h < n + WindowSize,
         NEW top \in Nat, top = IF n > h THEN n ELSE h,
         NEW e \in top - WindowSize + 1 .. top
  PROVE  Accepted(s, n % SeqSpace, dscp).accepted[Slot(e)] =
           IF e = n THEN dscp ELSE IF e > h THEN NotSeen ELSE s.accepted[Slot(e)]
<1> DEFINE q == n % SeqSpace
<1>1. Slot(e) \in Slots /\ Slot(n) \in Slots
  BY SlotType, WindowAssumption
<1>2. Slot(q) = Slot(n)
  BY SlotOfNumber
<1>3. Opened(s, q) = {Slot(h + i) : i \in 1 .. n - h}
  <2>1. Opened(s, q) = {Slot((h % SeqSpace) + i) : i \in 1 .. n - h}
    BY UnwrappedVerdict DEF Opened, StandsAt
  <2>2. \A i \in 1 .. n - h : Slot((h % SeqSpace) + i) = Slot(h + i)
    BY SlotOfWrapped
  <2> QED BY <2>1, <2>2
<1> HIDE DEF q
<1>4. Accepted(s, q, dscp).accepted[Slot(e)] =
        IF Slot(e) = Slot(n) THEN dscp
        ELSE IF Slot(e) \in Opened(s, q) THEN NotSeen ELSE s.accepted[Slot(e)]
  BY <1>1, <1>2 DEF Accepted
<1>5. e # n => Slot(e) # Slot(n)
  BY SlotsApart, WindowAssumption
<1>6. e # n /\ e > h => Slot(e) \in Opened(s, q)
  <2> SUFFICES ASSUME e # n, e > h PROVE Slot(e) \in Opened(s, q)
    OBVIOUS
  <2> DEFINE i == e - h
  <2>1. i \in 1 .. n - h /\ h + i = e
    BY WindowAssumption
  <2> QED BY <2>1, <1>3
<1>7. e <= h => Slot(e) \notin Opened(s, q)
  <2> SUFFICES ASSUME e <= h, NEW i \in 1 .. n - h PROVE Slot(e) # Slot(h + i)
    BY <1>3
  <2>1. /\ e \in Int /\ h + i \in Int /\ e # h + i
        /\ e - (h + i) < WindowSize /\ (h + i) - e < WindowSize
    BY WindowAssumption
  <2> QED BY <2>1, SlotsApart
<1>8. e \in Int
  BY WindowAssumption
<1> QED BY <1>4, <1>5, <1>6, <1>7, <1>8 DEF q

(* The same for the packet that opens the window. *)
LEMMA AcceptedFirst ==
  ASSUME SeqSpace % WindowSize = 0,
         NEW s, NEW n \in Nat, NEW dscp, ~s.active,
         NEW e \in n - WindowSize + 1 .. n
  PROVE  Accepted(s, n % SeqSpace, dscp).accepted[Slot(e)] = IF e = n THEN dscp ELSE NotSeen
<1> DEFINE q == n % SeqSpace
<1>1. Slot(e) \in Slots /\ Slot(n) \in Slots
  BY SlotType, WindowAssumption
<1>2. Slot(q) = Slot(n)
  BY SlotOfNumber
<1>3. Opened(s, q) = Slots
  BY DEF Opened
<1> HIDE DEF q
<1>4. e # n => Slot(e) # Slot(n)
  BY SlotsApart, WindowAssumption
<1>5. Accepted(s, q, dscp).accepted[Slot(e)] = IF e = n THEN dscp ELSE NotSeen
  BY <1>1, <1>2, <1>3, <1>4 DEF Accepted
<1> QED BY <1>5 DEF q

-----------------------------------------------------------------------------
RecoveryInv == RecoveryTypeOK /\ ActiveIffArmed /\ NewestSlotTaken

(* The fields of p that the handler reads have the types of Packet. *)
Readable(p) ==
  /\ p.dscp \in Dscps
  /\ p.identification \in Seqs
  /\ p.rtag \in RTag \cup {NoTag}

LEMMA FirstStream == FrerStreams # {} => Min(FrerStreams) \in FrerStreams
BY FirstStreamAssumption DEF Min

(* Stream and number of a packet index the windows. *)
LEMMA PacketFields ==
  ASSUME NEW p, Readable(p)
  PROVE  StreamOf(p) \in StreamIds /\ SeqNum(p) \in Seqs /\ p.dscp \in Nat
<1>1. CASE RTagFound(p)
  BY <1>1, DscpAssumption DEF Readable, RTagFound, StreamOf, SeqNum, StreamIds, RTag
<1>2. CASE ~RTagFound(p)
  <2>1. FallbackStream(p) \in StreamIds
    <3>1. CASE ~IsReplica(p)
      BY <3>1 DEF Readable, FallbackStream, StreamIds
    <3>2. CASE IsReplica(p) /\ FrerStreams = {}
      BY <3>2 DEF FallbackStream, StreamIds
    <3>3. CASE IsReplica(p) /\ FrerStreams # {}
      BY <3>3, FirstStream, DscpAssumption DEF FallbackStream, StreamIds
    <3> QED BY <3>1, <3>2, <3>3
  <2> QED BY <1>2, <2>1, DscpAssumption DEF Readable, StreamOf, SeqNum
<1> QED BY <1>1, <1>2

(* recoverSequence and rescheduleTimeout together: ACCEPT leaves the slot  *)
(* of the newest number taken and the timer of an active stream running.   *)
LEMMA AcceptStep ==
  ASSUME RecoveryInv, NEW p, Readable(p), Accept(p)
  PROVE  RecoveryInv'
<1> DEFINE k == StreamOf(p)
           q == SeqNum(p)
           s == streams[k]
           t == Accepted(s, q, p.dscp)
<1>1. k \in StreamIds /\ q \in Seqs /\ p.dscp \in Nat
  BY PacketFields
<1>2. s \in StreamState
  BY <1>1 DEF RecoveryInv, RecoveryTypeOK
<1>3. /\ t \in StreamState
      /\ t.active
      /\ t.accepted[Slot(q)] = p.dscp
      /\ \A i \in Slots : t.accepted[i] = NotSeen =>
           i # Slot(q) /\ (i \in Opened(s, q) \/ s.accepted[i] = NotSeen)
  BY <1>1, <1>2, AcceptedState
<1>4. Accepts(s, q, p.dscp)
  BY DEF Accept, VerdictOn, Verdict
<1> HIDE DEF t
<1>5. streams' = [streams EXCEPT ![k] = t]
  BY <1>4 DEF Accept, RecoverSequence, t
<1>6. timeoutMsg' = [timeoutMsg EXCEPT ![k] = WindowTimeout]
  BY DEF Accept
<1>7. RecoveryTypeOK'
  BY <1>1, <1>3, <1>5, <1>6, TimeoutAssumption DEF RecoveryInv, RecoveryTypeOK
<1>8. ActiveIffArmed'
  BY <1>1, <1>3, <1>5, <1>6, TimeoutAssumption
     DEF RecoveryInv, RecoveryTypeOK, ActiveIffArmed, Unscheduled
<1>9. t.accepted[Slot(t.highestSeqSeen)] # NotSeen
  <2>1. CASE Advances(s, q)
    <3>1. t.highestSeqSeen = q
      BY <2>1 DEF t, Accepted
    <3> QED BY <3>1, <1>1, <1>3 DEF NotSeen
  <2>2. CASE ~Advances(s, q)
    <3>1. t.highestSeqSeen = s.highestSeqSeen
      BY <2>2 DEF t, Accepted
    <3>2. s.active /\ ~(Diff(s, q) > 0)
      BY <2>2 DEF Advances
    <3>3. Diff(s, q) \in Int
      <4>1. (q - s.highestSeqSeen) % SeqSpace \in Int
        BY <1>1, <1>2, ModRange, SeqSpaceAssumption DEF StreamState, Seqs
      <4> QED BY <4>1, SeqSpaceAssumption DEF Diff, Int16
    <3>4. Opened(s, q) = {}
      BY <3>2, <3>3 DEF Opened
    <3>5. s.accepted[Slot(s.highestSeqSeen)] # NotSeen
      BY <3>2, <1>1 DEF RecoveryInv, NewestSlotTaken
    <3>6. Slot(s.highestSeqSeen) \in Slots
      BY <1>2, SlotType DEF StreamState, Seqs
    <3> QED BY <3>1, <3>4, <3>5, <3>6, <1>3
  <2> QED BY <2>1, <2>2
<1>10. NewestSlotTaken'
  <2> SUFFICES ASSUME NEW j \in StreamIds, streams'[j].active
               PROVE  streams'[j].accepted[Slot(streams'[j].highestSeqSeen)] # NotSeen
    BY DEF NewestSlotTaken, Slot
  <2>1. CASE j = k
    BY <2>1, <1>1, <1>5, <1>9 DEF RecoveryInv, RecoveryTypeOK
  <2>2. CASE j # k
    BY <2>2, <1>1, <1>5 DEF RecoveryInv, RecoveryTypeOK, NewestSlotTaken
  <2> QED BY <2>1, <2>2
<1> QED BY <1>7, <1>8, <1>10 DEF RecoveryInv

(* A dropped packet leaves windows and timers alone. *)
LEMMA DropStep ==
  ASSUME RecoveryInv, NEW p, Readable(p), Drop(p)
  PROVE  UNCHANGED <<streams, timeoutMsg>>
<1>1. StreamOf(p) \in StreamIds
  BY PacketFields
<1>2. ~Accepts(streams[StreamOf(p)], SeqNum(p), p.dscp)
  BY DEF Drop, VerdictOn, Verdict
<1> QED BY <1>1, <1>2 DEF Drop, RecoverSequence, RecoveryInv, RecoveryTypeOK

LEMMA TimeoutStep ==
  ASSUME RecoveryInv, NEW s \in StreamIds, HandleTimeout(s)
  PROVE  RecoveryInv'
<1>1. streams[s] \in StreamState
  BY DEF RecoveryInv, RecoveryTypeOK
<1>2. ResetStream(streams[s]) \in StreamState /\ ~ResetStream(streams[s]).active
  BY <1>1, ResetState
<1>3. /\ streams' = [streams EXCEPT ![s] = ResetStream(streams[s])]
      /\ timeoutMsg' = [timeoutMsg EXCEPT ![s] = Unscheduled]
  BY DEF HandleTimeout
<1>4. RecoveryTypeOK'
  BY <1>2, <1>3 DEF RecoveryInv, RecoveryTypeOK
<1>5. ActiveIffArmed'
  BY <1>2, <1>3 DEF RecoveryInv, RecoveryTypeOK, ActiveIffArmed
<1>6. NewestSlotTaken'
  <2> SUFFICES ASSUME NEW j \in StreamIds, streams'[j].active
               PROVE  streams'[j].accepted[Slot(streams'[j].highestSeqSeen)] # NotSeen
    BY DEF NewestSlotTaken, Slot
  <2>1. j # s
    BY <1>2, <1>3 DEF RecoveryInv, RecoveryTypeOK
  <2> QED BY <2>1, <1>3 DEF RecoveryInv, RecoveryTypeOK, NewestSlotTaken
<1> QED BY <1>4, <1>5, <1>6 DEF RecoveryInv

LEMMA TimersRunStep ==
  ASSUME RecoveryInv, TimersRun
  PROVE  RecoveryInv'
<1>1. RecoveryTypeOK'
  BY TimeoutAssumption DEF RecoveryInv, RecoveryTypeOK, TimersRun, Unscheduled
<1>2. ActiveIffArmed'
  BY TimeoutAssumption DEF RecoveryInv, RecoveryTypeOK, ActiveIffArmed, TimersRun, Unscheduled
<1>3. NewestSlotTaken'
  BY DEF RecoveryInv, NewestSlotTaken, TimersRun, Slot
<1> QED BY <1>1, <1>2, <1>3 DEF RecoveryInv

LEMMA RecoveryInitInv == RecoveryInit => RecoveryInv
<1> SUFFICES ASSUME RecoveryInit PROVE RecoveryInv
  OBVIOUS
<1>1. RecoveryTypeOK
  BY NewStreamType DEF RecoveryInit, RecoveryTypeOK
<1>2. ActiveIffArmed /\ NewestSlotTaken
  BY DEF RecoveryInit, ActiveIffArmed, NewestSlotTaken, NewStream
<1> QED BY <1>1, <1>2 DEF RecoveryInv

-----------------------------------------------------------------------------
(* In every behaviour of FrerRecovery::handleMessage, under any traffic,   *)
(* the windows stay well-typed, a stream is active exactly while its idle  *)
(* timer runs, and an active window remembers who brought its newest       *)
(* number.                                                                 *)
THEOREM RecoveryInvariant == RecoverySpec => []RecoveryInv
<1>1. RecoveryInit => RecoveryInv
  BY RecoveryInitInv
<1>2. RecoveryInv /\ [RecoveryNext]_recoveryVars => RecoveryInv'
  <2> SUFFICES ASSUME RecoveryInv, [RecoveryNext]_recoveryVars
               PROVE  RecoveryInv'
    OBVIOUS
  <2>1. ASSUME NEW p \in Packet, HandlePacket(p)
        PROVE  RecoveryInv'
    <3>1. Readable(p)
      BY DEF Packet, Readable
    <3>2. CASE Accept(p)
      BY <3>1, <3>2, AcceptStep
    <3>3. CASE Drop(p) \/ PassThrough(p)
      <4>1. UNCHANGED <<streams, timeoutMsg>>
        BY <3>1, <3>3, DropStep DEF PassThrough
      <4> QED BY <4>1 DEF RecoveryInv, RecoveryTypeOK, ActiveIffArmed, NewestSlotTaken
    <3> QED BY <2>1, <3>2, <3>3 DEF HandlePacket
  <2>2. ASSUME NEW s \in StreamIds, HandleTimeout(s)
        PROVE  RecoveryInv'
    BY <2>2, TimeoutStep
  <2>3. CASE TimersRun
    BY <2>3, TimersRunStep
  <2>4. CASE UNCHANGED recoveryVars
    BY <2>4 DEF RecoveryInv, RecoveryTypeOK, ActiveIffArmed, NewestSlotTaken, recoveryVars
  <2> QED BY <2>1, <2>2, <2>3, <2>4 DEF RecoveryNext
<1> QED BY <1>1, <1>2, PTL DEF RecoverySpec

THEOREM RecoveryTypeCorrect == RecoverySpec => []RecoveryTypeOK
<1>1. RecoveryInv => RecoveryTypeOK
  BY DEF RecoveryInv
<1> QED BY <1>1, RecoveryInvariant, PTL

(* An active stream always has its idle timer running. *)
THEOREM ActiveArmed == RecoverySpec => []ActiveIffArmed
<1>1. RecoveryInv => ActiveIffArmed
  BY DEF RecoveryInv
<1> QED BY <1>1, RecoveryInvariant, PTL

(* The diff == 0 branch never finds the slot of the newest number empty. *)
THEOREM NewestTaken == RecoverySpec => []NewestSlotTaken
<1>1. RecoveryInv => NewestSlotTaken
  BY DEF RecoveryInv
<1> QED BY <1>1, RecoveryInvariant, PTL
=============================================================================
