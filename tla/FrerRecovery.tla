---------------------------- MODULE FrerRecovery ----------------------------
(***************************************************************************)
(* FrerRecovery: the elimination point of a FRER compound stream (in the   *)
(* DS-TT for the downlink, in the NW-TT for the uplink).  One message      *)
(* handler, run to completion by the event loop, receives packets from the *)
(* 5G stack and the timeout self-messages of its streams.                  *)
(*                                                                         *)
(* A stream absent from the code's map behaves as an inactive one, so      *)
(* streams is a total function.  timeoutMsg[s] counts down the time until  *)
(* the self-message of s fires.                                            *)
(***************************************************************************)
EXTENDS VectorRecovery, FiniteSetsExt

CONSTANT WindowTimeout  \* windowTimeout, in time units of the model

ASSUME TimeoutAssumption == WindowTimeout \in Nat \ {0}

(* *frerStreamDscpSet.begin() is the least element of a std::set. *)
ASSUME FirstStreamAssumption ==
  FrerStreams # {} => \E s \in FrerStreams : \A t \in FrerStreams : s <= t

VARIABLES
  streams,     \* std::map<uint16_t, StreamState>, without the timer
  timeoutMsg,  \* per stream: time left on the timer, or Unscheduled
  out          \* what the last step did with a packet: its verdict, its
               \* stream and the packet as sent (for a dropped one: as read)

recoveryVars == <<streams, timeoutMsg, out>>

Unscheduled == -1

(* Stream ids are DSCPs, or 0 for a replica when no stream is configured. *)
StreamIds == Dscps \cup {0}

NoPacket == [verdict |-> "NONE"]

-----------------------------------------------------------------------------

IsFrer(p) == p.dscp \in FrerStreams \cup {ReplicaDscp}

IsReplica(p) == p.dscp = ReplicaDscp

(* The R-TAG is looked for at the back of whole packets only. *)
RTagFound(p) == ~p.fragment /\ p.rtag # NoTag

(* Without an R-TAG a replica no longer says which stream it belongs to. *)
FallbackStream(p) ==
  CASE ~IsReplica(p)                         -> p.dscp
    [] IsReplica(p) /\ FrerStreams = {}      -> 0
    [] IsReplica(p) /\ FrerStreams # {}      -> Min(FrerStreams)

(* Mutated: the stream is always told from the DSCP. *)
StreamOfUntagged(p) == FallbackStream(p)

StreamOf(p) == IF RTagFound(p) THEN p.rtag.streamId ELSE FallbackStream(p)

SeqNum(p) == IF RTagFound(p) THEN p.rtag.sequenceNumber ELSE p.identification

VerdictOn(p) == Verdict(streams[StreamOf(p)], SeqNum(p), p.dscp)

(* Mutated: an accepted replica keeps the replica DSCP. *)
RestoredNot(p) == IF RTagFound(p) THEN [p EXCEPT !.rtag = NoTag] ELSE p

(* The packet handed on: R-TAG stripped, DSCP of an accepted replica set   *)
(* back to that of its stream.                                             *)
Stripped(p) == IF RTagFound(p) THEN [p EXCEPT !.rtag = NoTag] ELSE p
Restored(p) == IF IsReplica(p) THEN [Stripped(p) EXCEPT !.dscp = StreamOf(p)]
                               ELSE Stripped(p)

-----------------------------------------------------------------------------

RecoveryInit ==
  /\ streams = [s \in StreamIds |-> NewStream]
  /\ timeoutMsg = [s \in StreamIds |-> Unscheduled]
  /\ out = NoPacket

PassThrough(p) ==
  /\ ~IsFrer(p)
  /\ out' = [verdict |-> "PASSED", pkt |-> p]
  /\ UNCHANGED <<streams, timeoutMsg>>

(* Mutated: the idle timer is started with the window and never restarted. *)
AcceptLate(p) ==
  /\ IsFrer(p)
  /\ VerdictOn(p) = "ACCEPT"
  /\ streams' = [streams EXCEPT ![StreamOf(p)] = RecoverSequence(@, SeqNum(p), p.dscp)]
  /\ timeoutMsg' = IF streams[StreamOf(p)].active THEN timeoutMsg
                   ELSE [timeoutMsg EXCEPT ![StreamOf(p)] = WindowTimeout]
  /\ out' = [verdict |-> "ACCEPT", stream |-> StreamOf(p), pkt |-> Restored(p)]

(* recoverSequence accepts; only then is the idle timer (re)started. *)
Accept(p) ==
  /\ IsFrer(p)
  /\ VerdictOn(p) = "ACCEPT"
  /\ streams' = [streams EXCEPT ![StreamOf(p)] = RecoverSequence(@, SeqNum(p), p.dscp)]
  /\ timeoutMsg' = [timeoutMsg EXCEPT ![StreamOf(p)] = WindowTimeout]
  /\ out' = [verdict |-> "ACCEPT", stream |-> StreamOf(p), pkt |-> Restored(p)]

(* Mutated: a dropped packet restarts the idle timer too. *)
DropRestarts(p) ==
  /\ IsFrer(p)
  /\ VerdictOn(p) # "ACCEPT"
  /\ timeoutMsg' = [timeoutMsg EXCEPT ![StreamOf(p)] = WindowTimeout]
  /\ out' = [verdict |-> VerdictOn(p), stream |-> StreamOf(p), pkt |-> p]
  /\ UNCHANGED streams

(* DUPLICATE and WINDOW_OVERRUN: the packet is deleted, nothing else changes. *)
Drop(p) ==
  /\ IsFrer(p)
  /\ VerdictOn(p) # "ACCEPT"
  /\ streams' = [streams EXCEPT ![StreamOf(p)] = RecoverSequence(@, SeqNum(p), p.dscp)]
  /\ out' = [verdict |-> VerdictOn(p), stream |-> StreamOf(p), pkt |-> p]
  /\ UNCHANGED timeoutMsg

HandlePacket(p) == PassThrough(p) \/ Accept(p) \/ Drop(p)

(* The self-message of stream s. *)
HandleTimeout(s) ==
  /\ timeoutMsg[s] = 0
  /\ streams' = [streams EXCEPT ![s] = ResetStream(@)]
  /\ timeoutMsg' = [timeoutMsg EXCEPT ![s] = Unscheduled]
  /\ out' = NoPacket

(* Simulation time moves on, but never past a scheduled self-message.  An  *)
(* event of the same instant may be handled before or after it.            *)
TimersRun ==
  /\ \A s \in StreamIds : timeoutMsg[s] # 0
  /\ timeoutMsg' = [s \in StreamIds |->
                      IF timeoutMsg[s] = Unscheduled THEN Unscheduled ELSE timeoutMsg[s] - 1]
  /\ out' = NoPacket
  /\ UNCHANGED streams

(* The elimination point on its own: any packet may arrive at any time. *)
RecoveryNext ==
  \/ \E p \in Packet : HandlePacket(p)
  \/ \E s \in StreamIds : HandleTimeout(s)
  \/ TimersRun

RecoverySpec == RecoveryInit /\ [][RecoveryNext]_recoveryVars

(* The event loop never stops: time passes and due self-messages are run. *)
RecoveryFairness ==
  /\ WF_recoveryVars(TimersRun)
  /\ \A s \in StreamIds : WF_recoveryVars(HandleTimeout(s))

RecoveryFairSpec == RecoverySpec /\ RecoveryFairness

-----------------------------------------------------------------------------
(* Type invariant of the elimination point: the windows hold DSCPs or     *)
(* NotSeen in every slot and timers never exceed windowTimeout.           *)
RecoveryTypeOK ==
  /\ streams \in [StreamIds -> StreamState]
  /\ timeoutMsg \in [StreamIds -> 0 .. WindowTimeout \cup {Unscheduled}]

(* An active stream has its idle timer running and an idle stream has     *)
(* none: recoverSequence activates a stream and rescheduleTimeout, called *)
(* from another place and only on ACCEPT, arms the timer.  An active      *)
(* stream without a timer could never leave a stale window again.         *)
ActiveIffArmed ==
  \A s \in StreamIds : streams[s].active <=> timeoutMsg[s] # Unscheduled

(* The slot of the newest number is always taken in an active window: the *)
(* diff == 0 branch answers DUPLICATE for an empty slot, so a window whose *)
(* newest slot were empty would reject a packet nobody has received.      *)
NewestSlotTaken ==
  \A s \in StreamIds :
    streams[s].active => streams[s].accepted[Slot(streams[s].highestSeqSeen)] # NotSeen

(* A stream cannot be starved by its own window: packets that are dropped *)
(* as WINDOW_OVERRUN do not restart the idle timer, so a stream that only *)
(* sees overruns (a restarted sender, a jump of the counter) is reset and *)
(* takes the next packet.                                                 *)
OverrunsEndInAccept ==
  \A s \in StreamIds :
    []<>(out.verdict = "WINDOW_OVERRUN" /\ out.stream = s)
      => []<>(out.verdict = "ACCEPT" /\ out.stream = s)
=============================================================================
