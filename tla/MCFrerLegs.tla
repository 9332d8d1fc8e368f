----------------------------- MODULE MCFrerLegs -----------------------------
(* FrerLegs on small instances: a primary leg that scripts impair in the   *)
(* uplink only, a secondary leg that they impair in the downlink.          *)
EXTENDS FrerLegs

OnlyFitting == {FALSE}
SomeIds == {0}
OneStream == {7}
OneStreamDscps == {0, 7, 8}

UplinkAndDownlink == [l \in Legs |-> IF l = "primary" THEN "UL" ELSE "DL"]
GoodAndPoor == [l \in Legs |-> IF l = "primary" THEN 20 ELSE 10]
SomeOffsets == {0, 12}
SomePers == {30}

ASSUME LegsDeploymentHolds == LegsDeployment
=============================================================================
