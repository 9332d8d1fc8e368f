---------------------------- MODULE MCFrerChain ----------------------------
(* FrerChain on small instances: the sets that cfg files cannot write. *)
EXTENDS FrerChain

OnlyFitting == {FALSE}
SomeIds == {0}
OneStream == {7}
OneStreamDscps == {0, 7, 8}
TwoStreams == {5, 7}
TwoStreamsDscps == {5, 7, 8}

ASSUME DeploymentHolds == Deployment
=============================================================================
