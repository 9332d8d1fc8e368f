---------------------------- MODULE MCFrerUplink ----------------------------
(* Two endpoints whose DS-TTs replicate the same DSCP. *)
EXTENDS FrerUplink

MCDscps == {7, 8}
MCFrerStreams == {7}
TwoUEs == {"ue0", "ue1"}
=============================================================================
