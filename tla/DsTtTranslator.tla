--------------------------- MODULE DsTtTranslator ---------------------------
(***************************************************************************)
(* DsTtTranslator: the device-side port of the bridge, from the UE to the  *)
(* TSN device.  gPTP frames that came through the 5G system in UDP are     *)
(* unwrapped and corrected by their residence time; anything else leaves   *)
(* as a data frame.  Data packets to the UDP port reserved for gPTP are    *)
(* out of scope.                                                           *)
(***************************************************************************)
EXTENDS NwTtTranslator

VARIABLE tsnOut  \* the frame the last step sent to the TSN device, or NoFrame

NoFrame == [kind |-> "NONE"]

(* A fragment shows no UDP header and is never unwrapped. *)
IsGptpInUdp(p) == ~p.fragment /\ p.port = GptpPort

(* The residence time is added in Sync and in FollowUp messages alike. *)
Corrected(f, residenceTime) ==
  IF f.kind \in {"SYNC", "FOLLOW_UP"}
  THEN [f EXCEPT !.correction = @ + residenceTime]
  ELSE f

ForwardGptp(p, residenceTime) ==
  /\ IsGptpInUdp(p)
  /\ tsnOut' = Corrected(p.frame, residenceTime)

(* A new Ethernet header: no 802.1Q tag, the DSCP stays as it is. *)
ForwardData(p) ==
  /\ ~IsGptpInUdp(p)
  /\ tsnOut' = [p.frame EXCEPT !.dscp = p.dscp, !.pcp = NoVlan]

(* From the sideband a frame comes whole and leaves unchanged. *)
ForwardSideband(f) == tsnOut' = f
=============================================================================
