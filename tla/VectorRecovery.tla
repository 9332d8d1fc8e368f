--------------------------- MODULE VectorRecovery ---------------------------
(***************************************************************************)
(* The vector recovery algorithm of FrerRecovery.cc, as pure operators on  *)
(* the state of one stream (struct StreamState):                           *)
(*   highestSeqSeen  the newest sequence number accepted                   *)
(*   accepted        for each of WindowSize slots, the DSCP of the copy    *)
(*                   accepted there, or NotSeen                            *)
(*   active          FALSE until the first packet and after an idle reset  *)
(* A sequence number occupies slot  seq % WindowSize.                      *)
(***************************************************************************)
EXTENDS FrerPacket

CONSTANT WindowSize

ASSUME WindowAssumption == WindowSize \in Nat \ {0}

NotSeen == -1

Slots == 0 .. WindowSize - 1

Blank == [i \in Slots |-> NotSeen]

StreamState == [highestSeqSeen : Seqs,
                accepted : [Slots -> Nat \cup {NotSeen}],
                active : BOOLEAN]

NewStream == [highestSeqSeen |-> 0, accepted |-> Blank, active |-> FALSE]

(* static_cast<int16_t>: the representative of x in -HalfSpace..HalfSpace-1 *)
Int16(x) == LET r == x % SeqSpace
            IN  IF r < HalfSpace THEN r ELSE r - SeqSpace

(* Mutated: the difference without the cast to int16_t. *)
DiffUnwrapped(s, seq) == seq - s.highestSeqSeen

(* How far seq is ahead of the newest number seen, in wrapping arithmetic. *)
Diff(s, seq) == Int16(seq - s.highestSeqSeen)

Slot(seq) == seq % WindowSize

(* The packet that opens the window: first ever, first after a reset, or   *)
(* ahead of everything seen.                                               *)
Advances(s, seq) == ~s.active \/ Diff(s, seq) > 0

(* Mutated: a window one number too wide, and one too narrow. *)
OverrunsTooWide(s, seq) ==
  s.active /\ Diff(s, seq) < 0 /\ Int16(-Diff(s, seq)) > WindowSize
OverrunsTooNarrow(s, seq) ==
  s.active /\ Diff(s, seq) < 0 /\ Int16(-Diff(s, seq)) >= WindowSize - 1

(* behindBy is itself an int16_t: for Diff = -HalfSpace it is negative. *)
Overruns(s, seq) == /\ s.active
                    /\ Diff(s, seq) < 0
                    /\ Int16(-Diff(s, seq)) >= WindowSize

(* Mutated: a slot taken by the primary lets the replica through. *)
AcceptsReplica(s, seq, dscp) ==
  \/ Advances(s, seq)
  \/ ~Overruns(s, seq) /\ s.accepted[Slot(seq)] # ReplicaDscp

(* Mutated: behind the newest number a free slot is not good enough. *)
AcceptsInOrder(s, seq, dscp) ==
  \/ Advances(s, seq)
  \/ ~Overruns(s, seq) /\ s.accepted[Slot(seq)] = dscp

(* At the newest number only the copy that was accepted there may follow   *)
(* (its other fragments); behind it an unseen slot is free as well.        *)
Accepts(s, seq, dscp) ==
  \/ Advances(s, seq)
  \/ /\ ~Overruns(s, seq)
     /\ \/ s.accepted[Slot(seq)] = dscp
        \/ Diff(s, seq) < 0 /\ s.accepted[Slot(seq)] = NotSeen

Verdict(s, seq, dscp) ==
  IF Accepts(s, seq, dscp) THEN "ACCEPT"
  ELSE IF Overruns(s, seq) THEN "WINDOW_OVERRUN" ELSE "DUPLICATE"

(* Mutated: the window moves up without clearing the slots it opens. *)
OpenedKept(s, seq) == IF s.active THEN {} ELSE Slots

(* Slots cleared when the window moves up to seq.  The code counts up from *)
(* highestSeqSeen in an int: (highestSeqSeen + i) is not wrapped to 16 bit.*)
Opened(s, seq) ==
  IF s.active THEN {Slot(s.highestSeqSeen + i) : i \in 1 .. Diff(s, seq)} ELSE Slots

(* Mutated: the newest number grows without wrapping to 16 bit. *)
AcceptedUnwrapped(s, seq, dscp) ==
  [highestSeqSeen |-> IF Advances(s, seq) /\ s.active
                      THEN s.highestSeqSeen + Diff(s, seq) ELSE seq,
   accepted |-> [i \in Slots |-> IF i = Slot(seq) THEN dscp
                                 ELSE IF i \in Opened(s, seq) THEN NotSeen ELSE s.accepted[i]],
   active |-> TRUE]

(* Stream state after seq has been accepted from the copy marked dscp. *)
Accepted(s, seq, dscp) ==
  [highestSeqSeen |-> IF Advances(s, seq) THEN seq ELSE s.highestSeqSeen,
   accepted |-> [i \in Slots |-> CASE i = Slot(seq) -> dscp
                                   [] i # Slot(seq) /\ i \in Opened(s, seq) -> NotSeen
                                   [] OTHER -> s.accepted[i]],
   active |-> TRUE]

RecoverSequence(s, seq, dscp) ==
  IF Accepts(s, seq, dscp) THEN Accepted(s, seq, dscp) ELSE s

(* Mutated: a reset that clears the slots but leaves the stream active. *)
ResetStreamActive(s) == [s EXCEPT !.accepted = Blank]

(* resetStream: the window is forgotten, the newest number merely unused. *)
ResetStream(s) == [s EXCEPT !.active = FALSE, !.accepted = Blank]
=============================================================================
