-------------------------- MODULE CncConfigProofs --------------------------
(***************************************************************************)
(* The QFI of a reservation and the look-ups of the application function   *)
(* agree, for tables of any length and any number of reservations.         *)
(***************************************************************************)
EXTENDS CncConfig, TLAPS

(* Once built, the table is that of the configuration, and a reservation   *)
(* has a QFI that was read from it.                                        *)
CncInv ==
  /\ given.map \in Maps /\ given.streams \in Streams
  /\ stage # "none" => pcpToQfi = Padded(given.map)
  /\ stage # "application" => streamReservations = <<>>
  /\ \A i \in DOMAIN streamReservations :
       /\ streamReservations[i].pcp \in Int
       /\ streamReservations[i].qfi \in QfisReserved(streamReservations[i].pcp)

LEMMA PaddedTable ==
  ASSUME NEW map \in Seq(Int)
  PROVE  /\ Len(map) \in Nat
         /\ DOMAIN Padded(map) \subseteq Nat
         /\ \A pcp \in Nat : pcp < PcpCount => pcp \in DOMAIN Padded(map)
         /\ \A pcp \in DOMAIN Padded(map) :
              /\ pcp < Len(map) => pcp + 1 \in DOMAIN map /\ Padded(map)[pcp] = map[pcp + 1]
              /\ pcp >= Len(map) => pcp < PcpCount /\ Padded(map)[pcp] = pcp
<1> DEFINE last == (IF Len(map) > PcpCount THEN Len(map) ELSE PcpCount) - 1
<1>1. Len(map) \in Nat /\ DOMAIN map = 1 .. Len(map) /\ PcpCount \in Nat
  BY CncAssumption
<1>2. Padded(map) = [pcp \in 0 .. last |-> IF pcp < Len(map) THEN map[pcp + 1] ELSE pcp]
  BY DEF Padded
<1>3. DOMAIN Padded(map) = 0 .. last
  BY <1>2
<1>4. /\ last \in Int /\ Len(map) <= last + 1 /\ PcpCount <= last + 1
      /\ last >= Len(map) => last = PcpCount - 1
  <2>1. ASSUME NEW n \in Nat, NEW k \in Nat, NEW x, x = (IF n > k THEN n ELSE k) - 1
        PROVE  /\ x \in Int /\ n <= x + 1 /\ k <= x + 1
               /\ x >= n => x = k - 1
    <3>1. CASE n > k
      BY <2>1, <3>1
    <3>2. CASE ~(n > k)
      BY <2>1, <3>2
    <3> QED BY <3>1, <3>2
  <2> QED BY <1>1, <2>1
<1> HIDE DEF last
<1>5. \A pcp \in Nat : pcp < PcpCount => pcp \in 0 .. last
  BY <1>1, <1>4
<1>6. ASSUME NEW pcp \in 0 .. last
      PROVE  /\ pcp < Len(map) => pcp + 1 \in DOMAIN map /\ Padded(map)[pcp] = map[pcp + 1]
             /\ pcp >= Len(map) => pcp < PcpCount /\ Padded(map)[pcp] = pcp
  BY <1>1, <1>2, <1>4
<1> QED BY <1>1, <1>3, <1>4, <1>5, <1>6

(* An unambiguous table gives each PCP a QFI of its own, padding included. *)
LEMMA PaddedInjective ==
  ASSUME NEW map \in Seq(Int), IsInjective(map),
         Range(map) \cap (Len(map) .. PcpCount - 1) = {},
         NEW a \in DOMAIN Padded(map), NEW b \in DOMAIN Padded(map),
         Padded(map)[a] = Padded(map)[b]
  PROVE  a = b
<1>1. a \in Nat /\ b \in Nat /\ Len(map) \in Nat /\ PcpCount \in Nat
  BY PaddedTable, CncAssumption
<1>2. ASSUME NEW c \in DOMAIN Padded(map), NEW d \in DOMAIN Padded(map),
             c < Len(map), d >= Len(map), Padded(map)[c] = Padded(map)[d]
      PROVE  FALSE
  <2>1. c + 1 \in DOMAIN map /\ map[c + 1] = d /\ d < PcpCount /\ d \in Nat
    BY <1>2, PaddedTable
  <2>2. d \in Range(map)
    BY <2>1 DEF Range
  <2>3. d \in Len(map) .. PcpCount - 1
    BY <1>1, <1>2, <2>1
  <2> QED BY <2>2, <2>3
<1>3. CASE a < Len(map) /\ b < Len(map)
  <2>1. a + 1 \in DOMAIN map /\ b + 1 \in DOMAIN map /\ map[a + 1] = map[b + 1]
    BY <1>3, PaddedTable
  <2>2. a + 1 = b + 1
    BY <2>1 DEF IsInjective
  <2> QED BY <1>1, <2>2
<1>4. CASE a >= Len(map) /\ b >= Len(map)
  BY <1>4, PaddedTable
<1>5. CASE (a < Len(map) /\ b >= Len(map)) \/ (a >= Len(map) /\ b < Len(map))
  BY <1>2, <1>5
<1> QED BY <1>1, <1>3, <1>4, <1>5

(* What CncInv says of a reservation is what the look-ups answer. *)
LEMMA LookUpsAgree == CncInv => ReservationsTranslate
<1> SUFFICES ASSUME CncInv, NEW i \in DOMAIN streamReservations, streamReservations[i].pcp >= 0
             PROVE  LET r == streamReservations[i]
                    IN  /\ r.qfi = GetQfiForPcp(r.pcp)
                        /\ MapUnambiguous /\ r.pcp < PcpCount => GetPcpForQfi(r.qfi) = r.pcp
  BY DEF ReservationsTranslate
<1> DEFINE pcp == streamReservations[i].pcp
           qfi == streamReservations[i].qfi
           map == given.map
<1>1. pcp \in Nat /\ qfi \in QfisReserved(pcp) /\ map \in Seq(Int)
  BY CncAssumption DEF CncInv
<1>2. pcpToQfi = Padded(map)
  <2>1. stage = "application"
    BY DEF CncInv
  <2> QED BY <2>1 DEF CncInv
<1> HIDE DEF pcp, qfi, map
<1>3. qfi = GetQfiForPcp(pcp)
  BY <1>1 DEF QfisReserved, GetQfiForPcp
<1>4. ASSUME MapUnambiguous, pcp < PcpCount
      PROVE  GetPcpForQfi(qfi) = pcp
  <2>1. pcp \in DOMAIN pcpToQfi
    BY <1>1, <1>2, <1>4, PaddedTable
  <2>2. pcpToQfi[pcp] = qfi
    BY <1>3, <2>1 DEF GetQfiForPcp
  <2>3. ASSUME NEW other \in PcpsOf(qfi) PROVE other = pcp
    BY <1>1, <1>2, <1>4, <2>1, <2>2, PaddedInjective DEF PcpsOf, MapUnambiguous, map
  <2>4. PcpsOf(qfi) = {pcp}
    BY <2>1, <2>2, <2>3 DEF PcpsOf
  <2> QED BY <1>1, <2>4 DEF GetPcpForQfi
<1> QED BY <1>3, <1>4 DEF pcp, qfi

LEMMA ElementType ==
  ASSUME NEW S, NEW s \in Seq(S), NEW i \in DOMAIN s
  PROVE  s[i] \in S
OBVIOUS

LEMMA LoadStep ==
  ASSUME CncInv, LoadCncConfig
  PROVE  CncInv'
<1>1. PICK qfis \in [DOMAIN given.streams -> UNION {QfisReserved(given.streams[i].pcp) :
                                                      i \in DOMAIN given.streams}] :
        /\ \A i \in DOMAIN qfis : qfis[i] \in QfisReserved(given.streams[i].pcp)
        /\ streamReservations' = Reserved(given.streams, qfis)
  BY DEF LoadCncConfig
<1>2. UNCHANGED <<given, pcpToQfi>> /\ stage = "local" /\ stage' = "application"
  BY DEF LoadCncConfig
<1>3. ASSUME NEW i \in DOMAIN streamReservations'
      PROVE  /\ streamReservations'[i].pcp \in Int
             /\ streamReservations'[i].qfi \in QfisReserved(streamReservations'[i].pcp)
  <2>1. i \in DOMAIN given.streams /\ given.streams \in Seq([id : Int, pcp : Int, maxLatencyMs : Int])
    BY <1>1, <1>3, CncAssumption DEF Reserved, CncInv
  <2>2. /\ streamReservations'[i].pcp = given.streams[i].pcp
        /\ streamReservations'[i].qfi = qfis[i]
    BY <1>1, <2>1 DEF Reserved
  <2>3. given.streams[i].pcp \in Int
    <3>1. given.streams[i] \in [id : Int, pcp : Int, maxLatencyMs : Int]
      BY <2>1, ElementType
    <3> QED BY <3>1
  <2>4. qfis[i] \in QfisReserved(given.streams[i].pcp)
    BY <1>1, <2>1
  <2> QED BY <2>2, <2>3, <2>4
<1>4. \A pcp : QfisReserved(pcp)' = QfisReserved(pcp)
  BY <1>2 DEF QfisReserved
<1> QED BY <1>2, <1>3, <1>4 DEF CncInv, QfisReserved

-----------------------------------------------------------------------------
(* Whatever the CNC file and the table say, the QFI that a reservation is  *)
(* given is the one getQfiForPcp answers, and getPcpForQfi leads back to   *)
(* its PCP when the table is unambiguous.                                  *)
THEOREM ReservationsAgree == CncSpec => []ReservationsTranslate
<1>1. CncInit => CncInv
  BY DEF CncInit, CncInv
<1>2. CncInv /\ [CncNext]_cncVars => CncInv'
  <2> SUFFICES ASSUME CncInv, [CncNext]_cncVars PROVE CncInv'
    OBVIOUS
  <2>1. CASE InitLocal
    BY <2>1 DEF InitLocal, CncInv
  <2>2. CASE LoadCncConfig
    BY <2>2, LoadStep
  <2>3. CASE UNCHANGED cncVars
    BY <2>3 DEF cncVars, CncInv, QfisReserved
  <2> QED BY <2>1, <2>2, <2>3 DEF CncNext
<1> QED BY <1>1, <1>2, LookUpsAgree, PTL DEF CncSpec
=============================================================================
