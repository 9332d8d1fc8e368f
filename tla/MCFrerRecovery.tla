--------------------------- MODULE MCFrerRecovery ---------------------------
(* FrerRecovery alone, offered every packet at every moment. *)
EXTENDS FrerRecovery

MCDscps == {0, 7, 8}
MCFrerStreams == {7}
=============================================================================
