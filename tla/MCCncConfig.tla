---------------------------- MODULE MCCncConfig ----------------------------
(* CncConfig with a table of three PCPs instead of eight, and all tables   *)
(* of up to four QFIs.                                                     *)
EXTENDS CncConfig, SequencesExt

Stream(pcp) == [id |-> 1, pcp |-> pcp, maxLatencyMs |-> 5]

MCMaps == SeqOf(0 .. 3, 4)
MCStreams == {<<>>} \cup {<<Stream(p)>> : p \in -1 .. 4}
               \cup {<<Stream(p), Stream(1)>> : p \in -1 .. 4}
MCGateLists == {NoGates, [cycleTime |-> "", entries |-> <<[gates |-> 255], [gates |-> 320]>>]}
MCAnyQfi == {0, 7}
=============================================================================
