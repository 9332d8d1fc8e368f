---------------------------- MODULE MCTsnBridge ----------------------------
(* TsnBridge with two endpoints behind two UEs, one of which is also sent  *)
(* data that is too large to be replicated, and a third device whose UE    *)
(* the 5G core does not know, so that it is not registered.                *)
EXTENDS TsnBridge

MCDscps == {0, 5, 6, 8}
GptpReplicated == {5}
Devices == {"tsnDeviceB0", "tsnDeviceB1", "tsnDeviceB2"}
MCUeOf == [tsnDeviceB0 |-> "ue0", tsnDeviceB1 |-> "ue1", tsnDeviceB2 |-> "ue2"]
MCNrUes == {"ue0", "ue1"}
MCMappedPcps == {5, 6}
MCDataDscps == {0, 5}
MCDataPcps == {5, 6, NoVlan}
LargeData == {"tsnDeviceB0"}
BothModes == {"gtpu", "sideband"}
GtpuMode == {"gtpu"}
MCReservations == {[streamId |-> 1, pcp |-> 6, maxLatencyMs |-> 0],
                   [streamId |-> 2, pcp |-> 5, maxLatencyMs |-> 1],
                   [streamId |-> 3, pcp |-> 5, maxLatencyMs |-> 2]}

ASSUME DeploymentHolds == BridgeDeployment /\ BridgeTiming
=============================================================================
