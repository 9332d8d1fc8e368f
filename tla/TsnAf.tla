------------------------------- MODULE TsnAf -------------------------------
(***************************************************************************)
(* TsnAf: the application function that reports the delay of the bridge.   *)
(* It listens to the residenceTime signal of one DS-TT and is called by    *)
(* the step that emits it.  Times are natural numbers of time units.       *)
(***************************************************************************)
EXTENDS Integers

CONSTANTS
  SimtimeMax,         \* SIMTIME_MAX
  MsPerUnit,          \* milliseconds in a time unit
  StreamReservations  \* [streamId, pcp, maxLatencyMs]: from the CNC configuration

ASSUME AfAssumption ==
  /\ SimtimeMax \in Nat /\ MsPerUnit \in Nat
  /\ \A sr \in StreamReservations : sr.maxLatencyMs \in Int

VARIABLES
  delayMin, delayMax, delaySum, delaySamples,
  bridgeDelayAvg,  \* published parameter; the other two equal delayMin, delayMax
  qosViolations    \* ids of the streams the last sample was reported for

afVars == <<delayMin, delayMax, delaySum, delaySamples, bridgeDelayAvg, qosViolations>>

AfInit ==
  /\ delayMin = SimtimeMax
  /\ delayMax = 0 /\ delaySum = 0 /\ delaySamples = 0
  /\ bridgeDelayAvg = 0
  /\ qosViolations = {}

(* Mutated: the first sample does not count as a maximum. *)
ReceiveSignalElse(delay) ==
  /\ delayMin' = IF delay < delayMin THEN delay ELSE delayMin
  /\ delayMax' = IF delay >= delayMin /\ delay > delayMax THEN delay ELSE delayMax
  /\ delaySum' = delaySum + delay
  /\ delaySamples' = delaySamples + 1
  /\ bridgeDelayAvg' = delaySum' \div delaySamples'
  /\ qosViolations' = {}

ReceiveSignal(delay) ==
  /\ delayMin' = IF delay < delayMin THEN delay ELSE delayMin
  /\ delayMax' = IF delay > delayMax THEN delay ELSE delayMax
  /\ delaySum' = delaySum + delay
  /\ delaySamples' = delaySamples + 1
  /\ bridgeDelayAvg' = delaySum' \div delaySamples'
  /\ qosViolations' = {sr.streamId : sr \in {x \in StreamReservations :
                         x.maxLatencyMs > 0 /\ delay * MsPerUnit > x.maxLatencyMs}}
=============================================================================
