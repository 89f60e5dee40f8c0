----------------------------- MODULE MCFailover -----------------------------
(* Instances of Failover for TLC.                                          *)
EXTENDS Failover, TLC

CONSTANTS m, s1, s2, s3, s4

MCPods4 == {m, s1, s2, s3}
MCPods5 == {m, s1, s2, s3, s4}

\* FirstMaster is the only pod a definition names.
Symmetry4 == Permutations({s1, s2, s3})

NoFaults == [k \in FaultKinds |-> 0]

\* The watch restarts only in the scenario in which losses are spaced.
Losses == [spacedLosses \in BOOLEAN |->
             [NoFaults EXCEPT !["loss"] = 3, !["watch"] = IF spacedLosses THEN 2 ELSE 0]]
AllFaults == [spacedLosses \in BOOLEAN |-> [k \in FaultKinds |-> 1]]
TwoLosses == [spacedLosses \in BOOLEAN |-> [NoFaults EXCEPT !["loss"] = 2]]
OneRestart == [spacedLosses \in BOOLEAN |-> [NoFaults EXCEPT !["restart"] = 1]]
=============================================================================
