-------------------------- MODULE TunableNrChannel --------------------------
(***************************************************************************)
(* TunableNrChannelModel: the radio channel of one receiver, with knobs    *)
(* that a scenario script may turn while the simulation runs.  A channel   *)
(* is the record of its parameters, which every call reads afresh:         *)
(*   impairedDirection  read once, at initialisation                       *)
(*   sinrOffset         dB taken off the inherited SINR                    *)
(*   extraPer           percentage of attempts discarded on top            *)
(* The inherited model (external: Simu5G) is reduced to its BLER table:    *)
(* nothing is received below MinSnr and everything from SafeSnr up.        *)
(***************************************************************************)
EXTENDS Integers

CONSTANTS MinSnr, SafeSnr

ASSUME SnrAssumption == MinSnr \in Int /\ SafeSnr \in Int /\ MinSnr <= SafeSnr

(* extraPer = 1.0 *)
Certain == 100

(* With any other impairedDirection, initialize throws. *)
ImpairedDirections == {"UL", "DL", "BOTH"}

Channel == [impairedDirection : ImpairedDirections, sinrOffset : Int, extraPer : Int]

(* Mutated: the direction is not looked at. *)
ImpairsAny(c, dir) == c.impairedDirection \in ImpairedDirections

Impairs(c, dir) == c.impairedDirection \in {dir, "BOTH"}

(* Mutated: the offset reaches both directions. *)
GetSINREither(c, dir, inherited) == inherited - c.sinrOffset

GetSINR(c, dir, inherited) ==
  IF Impairs(c, dir) THEN inherited - c.sinrOffset ELSE inherited

InheritedOutcomes(sinr) ==
  {o \in {"RECEIVED", "LOST"} : /\ o = "RECEIVED" => sinr >= MinSnr
                                /\ o = "LOST" => sinr < SafeSnr}

(* One draw of uniform(0,1) against extraPer; no draw exceeds 1. *)
ExtraOutcomes(per) ==
  {o \in {"RECEIVED", "LOST", "ERROR"} :
     /\ o = "RECEIVED" => per < Certain
     /\ o = "LOST" => per \in 1 .. Certain
     /\ o = "ERROR" => per > Certain}

(* isReceptionSuccessful for one transmission attempt: the extra loss is   *)
(* drawn only for what the inherited model receives, and an extraPer out   *)
(* of range is noticed only then.                                          *)
ReceptionOutcomes(c, dir, inherited) ==
  LET base == InheritedOutcomes(GetSINR(c, dir, inherited))
  IN  (base \ {"RECEIVED"}) \cup
        (IF "RECEIVED" \notin base THEN {}
         ELSE IF Impairs(c, dir) THEN ExtraOutcomes(c.extraPer) ELSE {"RECEIVED"})

(* <set-param>: both knobs are @mutable, the direction is not. *)
SetParam(c, offset, per) == [c EXCEPT !.sinrOffset = offset, !.extraPer = per]
=============================================================================
