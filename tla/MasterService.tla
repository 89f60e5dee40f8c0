---------------------------- MODULE MasterService ----------------------------
(***************************************************************************)
(* What the master service promises its clients, whatever keeps it: the    *)
(* set of running primaries a write through the service can reach has at   *)
(* most one member, and a primary is taken out of service before another   *)
(* one is put in its place.                                                *)
(***************************************************************************)
CONSTANT Pods
VARIABLE served

Init == \E p \in Pods : served = {p}

PutInService(p) == served = {} /\ served' = {p}

TakeOutOfService == served # {} /\ served' = {}

Next == TakeOutOfService \/ \E p \in Pods : PutInService(p)

Spec == Init /\ [][Next]_served

\* The service does not stay without a primary.
FairSpec == Spec /\ WF_served(\E p \in Pods : PutInService(p))
=============================================================================
