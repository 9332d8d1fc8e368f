# Verification of nascTime: models, checks and proofs

nascTime (`src/README.md`) models a 5G system as a TSN bridge on top of OMNeT++,
INET and Simu5G. This directory holds TLA+ modules for its core logic, TLC
configurations that check them on small instances, and TLAPS proofs, for every value of
the parameters, of what its seamless redundancy (FRER), its bridge ports, its clock
hierarchy and its routes promise.

Everything runs in one event loop: handlers run to completion, so a handler is an
action. What interleaves is the order in which messages and self-messages arrive,
and the 5G system in between loses, delays, reorders and fragments packets.

## Inventory

| Component | State | Operations | Talks to |
|---|---|---|---|
| `FrerReplicator` (`nodes/frer/FrerReplicator.*`, `IFrerTransportBinding.h`) | a 16-bit counter per DSCP | number a packet (R-TAG and IPv4 Identification), send it and a copy with the replica DSCP; pass on other and oversize packets | in: translator; out: 5G stack |
| `FrerRecovery` (`nodes/frer/FrerRecovery.*`) | per stream: newest number, a DSCP per window slot, `active`, an idle timer | accept, drop as duplicate or overrun, pass through; forget an idle window | in: 5G stack and its own timers; out: translator |
| `NwTtTranslator`, `GptpSideband` (`nodes/NwTt`) | map of registered endpoints, fixed at start | data frame to IPv4 with PCP as DSCP; gPTP frame to one packet per endpoint or to the sideband | in: TSN switch; out: replicator |
| `DsTtTranslator` (`nodes/DsTt`) | none | unwrap a gPTP frame, correct it by its residence time, emit the time; rebuild a data frame | in: recovery point; out: TSN device, signal to `TsnAf` |
| `TsnAf` (`nodes/TsnAf`) | delay min, max, sum, samples; PCP-QFI table, stream reservations, gate control list | update and publish the delays, report QoS violations; read the CNC file; translate PCP and QFI | signal from one DS-TT; called by others |
| `StaticBmca` (`nodes/TsnAf`) | vector of tree entries and a map of pointers into it | load, validate, answer look-ups | configuration; called by others |
| `RouteSwitcher` (`common`) | none; changes the hosts' routing tables | `set-route` | scenario script; INET routing tables |
| `TunableNrChannelModel` (`common`) | direction, two knobs that scripts turn | SINR, success of one transmission attempt | asked by the receiver's MAC at every attempt |
| `NrDcMux` (`nodes/frer`) | none | join two NR stacks below one `ip2nic` | in: NR stacks; out: recovery point |
| NED files, launch scripts, simulations, tests | none | wiring and configuration; see "Not modelled" | |

What is hard, and what makes each part correct:

* **FRER**: two member streams with different delays, numbers that wrap, a window that
  moves, a timer that forgets it, two encodings of the number, and fragments that share
  one number. Correct means that no datagram is handed on from both member streams and
  that a copy is eliminated only when its datagram was handed on, or when it is a whole
  window late. Several streams share one replica DSCP; several endpoints share one
  counter (downlink) or one window (uplink).
* **Bridge**: each gPTP frame is measured once per endpoint, however many copies FRER
  makes; the priority survives the translation PCP, DSCP, replica DSCP, DSCP.
* **Radio legs**: each attempt of a copy meets the channel as the script has just set it,
  HARQ makes copies late before it loses them, and copies of two legs overtake each other.
  Correct means that one good leg is enough.
* **TsnAf**: what is reserved for a stream is what the look-ups answer for its priority;
  what is measured is what was reserved.
* **StaticBmca**: a look-up gives the configured role, for any number of nodes, and an
  established hierarchy has one master, the grandmaster.
* **RouteSwitcher**: a command that succeeds has its effect on the next packet.

`PROJECT.json` lists the hazards line by line.

## Modules and the code they stand for

| Module | Code | Content |
|---|---|---|
| `FrerPacket` | `FrerSequenceHeader.msg`, header fields used | packets, DSCPs, the space of numbers |
| `VectorRecovery` | `FrerRecovery::recoverSequence`, `resetStream` | the window algorithm as operators on one stream's state |
| `FrerRecovery` | `FrerRecovery::handleMessage`, `rescheduleTimeout` | `Accept`, `Drop`, `PassThrough` (the three ends of the handler), `HandleTimeout`, `TimersRun` |
| `FrerReplicator` | `FrerReplicator::handleMessage` and what it calls | `PassIneligible`, `PassOversize`, `Replicate` |
| `FrerChain` | both, and the transport between | `Send`, `Lose`, `Fragment`, `Trim`, `DeliverAccepted`, `DeliverOther`, `Expire`, `Tick`; the assumptions on a deployment |
| `FrerElimination` | abstract | what replication and elimination promise, without slots, wrapping, tags or timers |
| `TunableNrChannel` | `TunableNrChannelModel` | the channel of one receiver: `GetSINR`, `ReceptionOutcomes`, `SetParam` |
| `NrDcMux` | `NrDcMux::handleMessage` | its table of gates |
| `FrerLegs` | `FrerChain` over two NR stacks, their channels, HARQ and the mux | `LegsSend`, `Receive`, `Retry`, `GiveUp`, `Handle`, `LegsExpire`, `LegsTick`, `Script` |
| `FrerUplink` | `DsTtTranslator::forwardToUe`, replicators of several DS-TTs and the recovery point of the NW-TT | `UplinkSend`, `UplinkDeliver`, `UplinkLose`, `UplinkTime` |
| `NwTtTranslator`, `DsTtTranslator` | the translators' handlers | operators and the output of the DS-TT |
| `TsnAf` | `TsnAf::receiveSignal` | the figures it keeps |
| `CncConfig` | `TsnAf::initialize`, `loadCncConfig`, `getQfiForPcp`, `getPcpForQfi` | `InitLocal`, `LoadCncConfig`; the look-ups as operators |
| `TsnBridge` | translators, FRER and `TsnAf`, downlink | `EnterGptu`, `EnterSideband`, `EnterData`, `Copy`, `Lose`, `Forward`, `Eliminate`, `ForwardFromSideband`, `Forget`, `Tick` |
| `StaticBmca` | `StaticBmca.cc` | `LoadEntry`, `BuildMap`, `AddBridge`, `ValidateTopology`, `GetNodeRole`, `IsTransparentClock` |
| `RouteSwitcher` | `RouteSwitcher::processCommand` | `SetRoute`, `Throw` |
| `MC*` | | instances for TLC |
| `FrerRecoveryProofs`, `FrerChainProofs`, `FrerLegsProofs`, `TsnBridgeProofs`, `BridgeWindowProofs`, `StaticBmcaProofs`, `RouteSwitcherProofs`, `CncConfigProofs` | | lemmas and theorems |

How state corresponds: `streams[s]` is the entry of `std::map streams` (absent entries
behave as inactive ones); `timeoutMsg[s]` counts down to the self-message, -1 when it is
not scheduled; `out` and `sent` are what the last handler sent or did. History variables
(`forwarded`, `newest`, `handedOn`, `delivered`, `numbered`, the datagram number in a packet;
in `TsnBridge` the stream and number that a copy was given, before the number wrapped) are
read by no action's guard. `TsnBridge` observes one endpoint: another endpoint's DS-TT shares no
state with it, so what is sent there only uses up sequence numbers.

The width of a sequence number is a constant, `SeqSpace`, 65536 in the code; the casts to
`uint16_t` and `int16_t` are modelled (`NextSequenceNumber`, `Int16`, also the negation
`-diff`, which for the lowest value stays negative). Definitions whose comment begins with
"Mutated" are wrong variants that show that a property can fail; no specification uses them.

The transport is external. It may lose (a copy of any age in `FrerChain`, one that has just
been sent in `TsnBridge`), delay, reorder, fragment and trim, but repeats no copy. In
`FrerLegs` it is made concrete: HARQ repeats a lost attempt a time unit later and gives up
after `MaxAttempts`, which is where copies are lost; the inherited channel model is reduced
to two SINR thresholds, below which nothing and from which everything is received, and the
draw against `extraPer` is a choice of both outcomes unless the knob says 0 or 100 %. Time is discrete; events of one instant happen in any order, which includes the order
OMNeT++ picks. A copy stays at most `MaxDelay`, a stream sends at most `Pace` datagrams in
a unit.

## Runs

| Run | Bounds | Question and answer |
|---|---|---|
| `frer_recovery` | 6 numbers, window 2, any packet at any time | Are window and timer of the elimination point consistent, and does a stream that only sees overruns recover? Yes. |
| `frer_chain` | one stream, 12 numbers, 14 datagrams (wraps), window 2, delay up to 2, timeout 3 | Is nothing delivered from both member streams and nothing dropped without reason, and is the abstract promise kept, across a wrap and resets? Yes. |
| `frer_mangled` | 8 numbers, 4 datagrams, fragments and lost R-TAGs, Ethernet framing, second interface | The same through the fallback to the IPv4 Identification. Yes. |
| `frer_streams` | two streams, window 1 | Do two streams that share the replica DSCP leave each other alone? Does the inductive invariant `ChainInv` hold? Yes. |
| `tsn_bridge` | 2 endpoints, 1 unregistered, 2 gPTP frames, 1 data frame, untagged ones with DSCP 0 or 5, both modes | Are delays measured exactly once, is the DSCP right, is no fresh frame dropped while the window spans all endpoints' numbers? Yes. |
| `frer_legs` | window 3, 3 datagrams, delay up to 2, 2 attempts, offsets 0 and 12 dB, 30 % once a script sets it | With one clean leg, does a datagram ever leave the transport without being handed on? No; `LegsInv` holds. Is every datagram handed on in the end? Yes. |
| `routes` | 6 addresses, 0.0.0.0 among them, 4 routes, any series of commands by address or name, wrong ones included | Does the next packet take the new gateway; do neighbours stay on the link? Yes; `RouteInv` holds. |
| `cnc_config` | tables of 0 to 4 QFIs padded to 3, up to 2 reservations with PCP -1 to 4 | Is the QFI of a reservation what the look-ups answer? Yes. |
| `bmca_in_place` | all trees of 3 entries with repeated names, and none | With a vector that does not move: are roles, the 5G bridge and the single master answered as configured? Yes. |
| `frer_uplink_two` | 2 endpoints | Is the uplink seamless? **No.** |
| `gptp_follow_up` | 2 gPTP frames | Does a FollowUp carry the residence of its Sync? **No.** |
| `bmca_roles` | trees of 0, 2, 3 and 4 nodes | Are the configured roles answered? **No.** |

Bounds. The window algorithm is compared with absolute datagram numbers, so what matters
is that numbers wrap (14 datagrams over 12 numbers), that the window moves by less than, by
exactly and by more than its size, that a copy can be a whole window late, and that the
timer can fire while copies are in transit. All of that happens with windows of 1 and 2.
In `frer_legs` a copy of the bad leg comes after both attempts, behind the next datagram of
the good leg, or not at all, and the window of 3 is just what `WindowCoversDelay` asks for;
that it works across wraps and resets is what the theorems add.
`cnc_config` has tables shorter than, as long as and longer than the 3 PCPs, with and
without repeated QFIs, and reservations inside, behind and in front of them; with 8 PCPs
nothing else can happen. `bmca_in_place` has 3 entries because the vector then has room for
a fourth. `tsn_bridge` uses up 5 numbers for a window of 4, and its reservations set no limit (0), or
less than and exactly what a frame that is a unit under way takes (`MsPerUnit` is 2), so
violations are reported and withheld.
`routes` has three routes one inside the other beside the link, so commands can clear one,
two or all of them and then be followed by any other.

What the instances leave to the theorems: `frer_streams` does not wrap (2 datagrams over 8
numbers; `frer_chain` does), and in `bmca_in_place` the vector never moves, so that the
bridge is told transparently when it has just moved rests on `BridgeToldTransparent` alone.

Deadlock is not checked where the number of datagrams, frames or commands is
bounded or the program ends; `frer_recovery`, which is not bounded, checks it.

### Assumptions on a deployment

`frer_chain`, `frer_mangled` and `frer_streams` hold under `Deployment` in `FrerChain.tla`;
TLC evaluates it as an assumption of `MCFrerChain`. The theorems about the chain assume
nothing else. Each conjunct is needed: without any one of the first four TLC finds a
violation of `SlotsTellForwarded` or `ForwardedAreGuarded` in an instance the size of
`frer_chain`, and without the last one of `OverrunsAreLate`.

* `WindowDivides`: `windowSize` divides 65536. Otherwise the slots cleared after a wrap
  (`FrerRecovery.cc:242`, unwrapped) are not those used.
* `DelayBelowTimeout`: a copy is gone before its window may be forgotten
  (default `windowTimeout` 0.1 s).
* `PacedBelowHalf`: a stream does not send half the numbers while a window can be active
  without hearing of it.
* `FallbackIsSafe`: R-TAGs are lost only when there is one stream
  (`FrerRecovery.cc:141` states this one as well).
* `TrafficFits`: no packet is oversize and no application uses the replica DSCP.

`FrerLegs` asks for more (`LegsDeployment`), since it promises more: that datagrams arrive.

* `CleanLeg`: geometry gives one leg a signal from `SafeSnr` up, and scripts impair it in the
  uplink only, or not at all.
* `WindowCoversDelay`: `Pace * (MaxDelay + 1) <= windowSize`, so that a copy of the clean leg
  is never a window late. With a window of 1 in the instance of `frer_legs` TLC finds a
  violation of `NothingMissed`.
* `PathDiverse`, and no fragments or lost R-TAGs: a datagram is one copy per leg.

That both legs are attached is assumed as well. `frer_dualconn.ini:9-19` says that attaching
the second leg to `gnb2` is not solved yet, so `FrerLegs` speaks of the code of replication,
channel, mux and elimination once it is, and not of what that configuration does today.

`BridgeDeployment` in `TsnBridge.tla`: every PCP that occurs is mapped, to a DSCP other
than that of replicas; the values used are DSCPs; no data goes to the UDP port of gPTP; there
are finitely many endpoints. `BridgeTiming`, there as well, is what `Deployment` is to the
chain: `windowSize` divides 65536, a copy is gone before its window may be forgotten, half
the numbers are not used up while a window can be active, and no application uses the replica
DSCP. It asks for two things more, because the window of one endpoint moves over the
numbers of all: `Pace * (MaxDelay + 1) <= windowSize`, with `Pace` over all endpoints, and
no oversize packets to the endpoint observed (others may get them, and do in the instance).
The last two conjuncts say that a delay is a simulation time and that stream ids
are unique. TLC evaluates both as an assumption of `MCTsnBridge`.

`TreesStayInPlace` in `StaticBmcaProofs.tla`: no configured tree is as long as one of the
capacities that a vector goes through. It is what the run `bmca_roles` refutes for trees of
2 and 4 nodes; `BridgeToldTransparent` does without. `LinksAreNarrow` in `RouteSwitcher.tla`: the route of a link is
the narrowest that covers its addresses. `RoutesAssumption` there is no restriction on commands:
it says that a name does not read as an address and that of two prefixes one contains the
other or they are disjoint, which netmasks of leading bits give. What `resolveAddress` accepts
and refuses, 0.0.0.0 included, is modelled (`Resolves`, `Resolved`).

### Fairness

`RecoveryFairness`, for `OverrunsEndInAccept`, asks that time passes (`TimersRun`) and that
a due self-message is handled (`HandleTimeout`): the event loop of the simulator always
takes the next event and its clock does not stop while events are left. Nothing is assumed
of packets. The property says of a stream that is refused as overrun again and again that
it is accepted again and again: dropped packets do not restart the timer, so the window is
forgotten.

`LegsFairness`, for `EveryDatagramHandedOn`, asks the same of the events of the two legs:
a transmission attempt that is due takes place, with whatever outcome the channel allows,
the elimination point handles what the mux has sent, timers fire and time passes. Nobody
has to send, and scripts may turn the knobs for ever: that a copy arrives follows from the
clean leg and from HARQ giving up, not from luck.

## Where code and documents disagree

Checked by a run of its own:

* **Uplink with several endpoints** (`frer_uplink_two`): `nwTt.frerRecoveryUl` keeps windows
  by DSCP, but every DS-TT counts from 0, so datagrams of one endpoint are dropped as
  duplicates of another's.
* **FollowUp** (`gptp_follow_up`): corrected by its own residence time instead of its Sync's.
* **Roles** (`bmca_roles`): pointers into a vector that moves. It bites when the number of
  configured nodes is the vector's capacity, a power of two: `profiles_N30.ini` has 32.

Seen while modelling, without a run:

* Oversize packets keep the stream's DSCP and the sender's Identification, which moves the
  window (`FrerReplicator.cc:202`); `TrafficFits` excludes them.
* One counter serves all endpoints (`FrerReplicator.cc:177`), so the window of an endpoint
  spans only `windowSize`/N of its own datagrams: `NoFreshFrameDropped` fails in the instance
  of `tsn_bridge` with a window of 2. `frer_sweep.ini` uses 64 with up to 40 endpoints.
* For a difference of -32768 the negated value does not fit (`FrerRecovery.cc:263`), and a
  packet that far behind is looked up in the window, maybe accepted; `PacedBelowHalf`.
* The MTU guard returns after the Ethernet framing was popped (`FrerReplicator.cc:209`), so a
  DS-TT sends an oversize packet without it.
* The DS-TT sets no PCP (`DsTtTranslator.cc:249`), which `src/README.md:313-314` says it does;
  `PriorityInDscp` ends at the DSCP.
* Only gPTP frames are measured: the reservations of data streams are compared with the delay
  of gPTP frames (`DsTtTranslator.cc:186`, `TsnAf.cc:90`).
* The validation of `StaticBmca` does not compare the grandmaster with the MASTER of the tree.
* `FrerRecovery.ned:31-32` says the state is reset "if no packet arrives"; the code resets
  it if none is *accepted*. `OverrunsEndInAccept` depends on it.
* A negative PCP of a reservation indexes in front of the table (`TsnAf.cc:126`), which
  `getQfiForPcp` guards against; `ReservationsTranslate` leaves it out.
* A short PCP-QFI table is continued with PCP = QFI even if the configured part has used
  that QFI, and `getPcpForQfi` answers the smaller PCP; `MapUnambiguous` excepts it.
* `set-route` for a destination on the host's own link changes the default route, reports
  success, and the packet goes direct. `NextPacketTakesGateway` excepts it.
* `gateway="0.0.0.0"` is accepted (`RouteSwitcher.cc:38-39`), whereas a name with that address is
  refused (line 50). It makes routes direct for the rest of the run, since line 92 skips them; a
  later command for such a destination ends the simulation, unless a narrower route that
  kept its gateway is moved. It is never a silent no-op, see the proof of `LastCommandWins`.
* `NwTtTranslator.cc:193-197` neither sends nor deletes a packet.

## Proofs

Eight modules, each on top of those it names:

* `FrerRecoveryProofs`: the operators of the window (remainders, slots, and what the
  algorithm does in terms of unwrapped numbers: `UnwrappedVerdict`, `AcceptedWindow`), and
  the elimination point under any traffic.
* `FrerChainProofs` (on `FrerRecoveryProofs`): the composition, its inductive invariant,
  action properties and refinement.
* `FrerLegsProofs` (on `FrerChainProofs`): the chain over two radio legs.
* `TsnBridgeProofs` (on `FrerRecoveryProofs`): types and priorities in the bridge.
* `BridgeWindowProofs` (on `TsnBridgeProofs`): deliveries and delays of one endpoint.
* `StaticBmcaProofs`, `RouteSwitcherProofs` and `CncConfigProofs`.

### The elimination point

For every width of the numbers, window size, timeout, set of streams and sequence of
packets,

    RecoveryInvariant    RecoverySpec => []RecoveryInv
    RecoveryTypeCorrect  RecoverySpec => []RecoveryTypeOK
    ActiveArmed          RecoverySpec => []ActiveIffArmed
    NewestTaken          RecoverySpec => []NewestSlotTaken

`RecoveryInv` is the conjunction of the three. That the slot of the newest number is taken
is not inductive without the types: the step of `Accept` needs to know which slots `Opened`
clears. When the window does not advance it clears none (the difference is not positive),
when it does the new newest slot is the one just written; so the slot is never empty.
There is one lemma per action. They ask of a packet only `Readable(p)`, the fields the
handler reads, so that `FrerChainProofs` can use them.

### The chain

For every instance of `FrerChain` that satisfies `Deployment`,

    ChainInvariant           Deployment /\ ChainSpec => []ChainInv
    ChainTypeCorrect         Deployment /\ ChainSpec => []ChainTypeOK
    NoDuplicateDelivery      Deployment /\ ChainSpec => []OneMemberStream
    WindowOutlivesCopies     Deployment /\ ChainSpec => []ForwardedAreGuarded
    SlotsTell                Deployment /\ ChainSpec => []SlotsTellForwarded
    DuplicatesHaveOriginals  Deployment /\ ChainSpec => DuplicatesWereForwarded
    OverrunsTrail            Deployment /\ ChainSpec => OverrunsAreLate
    DscpRestored             Deployment /\ ChainSpec => []OriginalDscp
    PromiseKept              Deployment /\ ChainSpec => KeepsPromise

`OneMemberStream` is far from inductive: whether the second copy of a datagram is refused
depends on what its slot holds when it arrives. The argument:

1. `CopiesInStep` and `WindowInStep` bound how far a copy, and the window of its stream,
   can be behind the newest datagram produced: a copy by its age, a window by the time its
   timer has run, each times `Pace`, plus what the stream may still send in this unit
   (`budget`). Sending, delivering and the passing of time keep these bounds.
2. By `PacedBelowHalf` a copy and its window are then less than half the number space apart
   (`Distance`), so the cast of the difference to 16 bit gives the difference of the
   datagram numbers, and the verdict is that of integers (`UnwrappedVerdict`).
3. By `WindowDivides` the slot of a wrapped number is that of the datagram number, so
   different datagrams of one window have different slots, and the slots the code clears
   when it moves up are those of the numbers it moves over (`AcceptedWindow`).
4. Hence a slot in the window speaks of one datagram (`SlotsTellForwarded`). By
   `DelayBelowTimeout` the timer cannot fire, and the window cannot move back, while a copy
   of a datagram handed on is in transit (`ForwardedAreGuarded`).
5. So a copy that is accepted comes first or from the same member stream (`AcceptedOnce`),
   which is the step of `OneMemberStream`; and one that is dropped meets the slot of its
   original, or is a window late (`DropReason`), which gives the action properties.
   `FallbackIsSafe` and `TrafficFits` serve to read stream and number of a copy off its
   headers (`CopyRead`).
6. `ForwardedWereProduced` is needed because a new datagram must not have been handed on.

For the refinement, every action maps to one of `FrerElimination` or to its `Pause`:
`Send` to `Offer`, `Lose` and a packet passed through to `LoseCopy`, `DeliverAccepted` to
`ForwardFrom`, a drop to `Eliminate` or `RefuseLate`, `Expire` to `Forget`; `Fragment`,
`Trim` and `Tick` leave the datagrams in transit as they are.

### The radio legs

    LegsImplementChain   LegsSpec => ChainSpec
    LegsInvariant        LegsDeployment /\ LegsSpec => []LegsInv
    OneLegSuffices       LegsDeployment /\ LegsSpec => NothingMissed

A step of `FrerLegs` is a step of `FrerChain` or changes only channels, HARQ and the mux, so
every theorem about the chain holds of the legs. `NothingMissed` needs more. Scripts leave
the clean leg clean (`ChannelsAsConfigured`), so its copies are never given up, and while any
copy of a datagram is in transit the clean one is as well, unless the datagram was handed on
(`CleanCopyComing`, which is inductive with `CopiesOnTheirLegs`). When the clean copy is
handled and refused, `DropReason` says why: as a duplicate, and then the datagram was handed
on; or as an overrun, a window behind, which `CopiesInStep` and `WindowCoversDelay` exclude.

### The bridge

    BridgeInvariant     BridgeDeployment /\ BridgeSpec => []BridgeInv
    BridgeTypeCorrect   BridgeDeployment /\ BridgeSpec => []BridgeTypeOK
    PriorityKept        BridgeDeployment /\ BridgeSpec => []PriorityInDscp

The priority of a tagged frame is in its PCP, then in the DSCP (`Marked`), then, in a
replica, in the R-TAG only (`Carried`), and at the end in the DSCP again. `BridgeInv` has
these for what is pending and what is in transit, with the types, and `RecoveryInv` of the
elimination point, whose step lemmas are used. A tagged packet with the replica DSCP always
has its R-TAG here, because no PCP is mapped to that DSCP and the transport of the bridge
trims nothing; so `Restored` gives back the right value (`RestoredPriority`).

### Deliveries and delays at one endpoint

    DeliveryInvariant   BridgeDeployment /\ BridgeTiming /\ BridgeSpec => []DeliveryInv
    FreshFramesPass     BridgeDeployment /\ BridgeTiming /\ BridgeSpec => NoFreshFrameDropped
    DelaysExact         BridgeDeployment /\ BridgeTiming /\ BridgeSpec => []DelayFiguresExact

The counter of a stream serves all endpoints, so an endpoint is sent only some of its numbers
and its window moves in leaps; a slot it leaps over is empty, not late. What is followed:

1. How far a number lies behind the newest one given (`numbered`): that of a copy in transit
   by less than `Pace` times its age (`NetInStep`), the one the window stands at by less than
   `Pace` times what its timer has run (`WindowsInStep`), in both cases less what the
   translator may still hand to the replicator in this time unit (`Load`: the rest of its
   budget and what is pending). Entering frames turns budget into pending packets, copying
   turns a pending packet into a number, time fills the budget; each keeps the bounds.
2. So differences are below half the number space and verdicts are those of integers
   (`NumberDistance`, with the lemmas of `FrerRecoveryProofs`), and a copy in transit is never
   a window behind.
3. `CopiesApart`: one frame, one number, and at most one copy of each kind.
   `SlotsTellDelivered`: the slot of a copy's number is empty if its frame has not left, and
   otherwise holds the DSCP of the other copy. `DeliveredGuarded`: while the second copy of a
   frame that has left is in transit, its window is active, not behind it, and its timer runs
   longer than the copy can stay.
4. A copy that is dropped is therefore one of a frame that has left (`DroppedWasDelivered`,
   the step of `FreshFramesPass`), and a copy that is forwarded is of a frame that has not
   (`ForwardedWasNew`). The second copy is dropped where the window stands or behind it.
5. So every frame leaves once, and for gPTP frames, told by their number (`KindsTold`), the
   samples are the cardinality of `Measured`, minimum and maximum are attained by one of
   them, and the mean lies between (`FiguresInStep`, `QuotientBetween`).

### The clock hierarchy

    BridgeToldTransparent   BmcaSpec => []BridgeIsTransparent
    RolesTold               TreesStayInPlace /\ BmcaSpec => []RolesAsConfigured
    MasterTold              TreesStayInPlace /\ BmcaSpec => []OneMasterEstablished

The bridge entry is added last, so its pointer is taken from the buffer that the vector
ends up in, and look-ups of the bridge go through it even where a node has its name
(`BridgeEntryInv`); nothing is assumed of the tree.

For other nodes, adding the entry must not move the vector. Its capacity doubles from 1, so
it is always one of `Capacities`; a tree that is not as long as one of these is shorter than
the capacity of its vector (`TreesStayInPlace`), and every pointer still leads to an entry of
its name (`PointerInv`), so answers are configured roles. Where names are distinct, which
`OneMasterEstablished` asks for, there is one such entry, and what `validateTopology` counted
in the vector is what look-ups tell name by name.

### Routes and reservations

    RouteInvariant      RouteSpec => []RouteInv
    LastCommandWins     RouteSpec => []NextPacketTakesGateway
    LinksAreLeftAlone   LinksAreNarrow /\ RouteSpec => []NeighboursStayDirect
    ReservationsAgree   CncSpec => []ReservationsTranslate

Commands change no prefix and give no link a gateway (`RoutesInPlace`), so the route that
wins for a destination is the same for ever; all routes that cover the last command's
destination and have a gateway have that of the command, and at least one has been moved
(`LastCommandHolds`). That the winning one is not a route that an earlier command with
gateway 0.0.0.0 has cleared, and that this one had to skip, is the point: a command clears, with a
route, every wider one (`ClearedUpwards`), since what covers a destination covers it at every
width; the winning route lies inside all others (`BestIsInnermost`, for prefixes nest), so if
it were cleared all were, and the command would have had nothing to move. Only links, which
are direct from the start, can hide a route that is moved. That a winning route exists needs a
least cardinality, hence `WellFoundedInduction`.

A QFI read from the padded table is what `getQfiForPcp` answers by its definition; that
`getPcpForQfi` leads back needs the padded table to be injective, which `MapUnambiguous`
gives (`PaddedInjective`): configured QFIs differ and do not collide with the continuation.

### Assumptions and limits

Assumed are `SeqSpaceAssumption`, `DscpAssumption`, `WindowAssumption`,
`TimeoutAssumption`, `FirstStreamAssumption` (a set of DSCPs has a least element, which a
`std::set<int>` provides), `ReplicatorAssumption`, `ChainAssumption`, `LegsAssumption`,
`SnrAssumption`, `TranslatorAssumption`, `AfAssumption`, `BridgeAssumption`,
`RoutesAssumption`, `CncAssumption` and `BmcaAssumption`. TLC evaluates each in the runs of its module.

Only model-checked: liveness (`OverrunsEndInAccept`, `EveryDatagramHandedOn`), which is out
of the prover's reach.

## Not modelled

* The numerics of the inherited radio model (path loss, fading, BLER curves): two thresholds
  stand for them. What the MAC, RLC and SDAP layers of Simu5G do beside HARQ.
* The uplink through `NrDcMux`, where everything goes to the primary stack: no network of the
  repository replicates in that direction over two legs.
* Egress of `NwTtTranslator` through its UDP socket (`NwTtTranslator.cc:325-383`): no
  application or network of the repository sends to it, and what it does is build one
  Ethernet frame per datagram, without state. The same goes for `ipForwardIn` and for the
  direction of `GptpSideband` from DS-TT to NW-TT, which is not connected.
* Frames with an unmapped PCP and data to UDP port 30001, whose fate is decided by checks
  inside INET; errors of INET's packet API end the simulation.
* Applications that themselves send with the replica DSCP (`FrerReplicator.cc:165` passes such
  packets on as they are): excluded by `TrafficFits`.
* Missing attributes in the CNC file and XML errors of `RouteSwitcher`; statistics everywhere.
* `TsnAf` with more than one DS-TT: it subscribes to one, so there is nothing to add.
* NED wiring, launch scripts, simulations and tests.

## What could come next

* An abstract specification of one bridge port (each frame leaves once, and is measured as
  it leaves) that `TsnBridge` implements; `DeliveryInv` has what the step needs.
* The uplink of one endpoint, the case in which it works, with the translator in front.
* Crashes of the outside world: the repository restarts nothing and stores nothing, so there
  is none inside it to model.
