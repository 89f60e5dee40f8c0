------------------------ MODULE StandaloneWatch_proofs ------------------------
(***************************************************************************)
(* Proofs about a watch and the replica it guards.                         *)
(***************************************************************************)
EXTENDS StandaloneWatch, PgContainer_proofs

\* The replica beside its watch makes only steps PgContainer allows, so every
\* theorem about PgContainer holds for it: the watch can do no more to it than
\* touch the trigger file of a running slave.
THEOREM WatchedIsPgContainer == WatchedSpec => Spec
<1>1. WatchedInit => Init
  BY DEF WatchedInit
<1>2. [WatchedNext]_watchedVars => [Next]_vars
  BY DEF WatchedNext, watchedVars, ProbeRefused, ProbeMissed, StandaloneFailover,
         OpenShiftTouch, Container, Next
<1> QED
  BY <1>1, <1>2, PTL DEF WatchedSpec, Spec

\* Every variable keeps its type.
THEOREM WatchedTypeCorrect == WatchedSpec => []WatchedTypeOK
<1>1. WatchedInit => watch \in Watches
  BY DEF WatchedInit, Watches
<1>2. watch \in Watches /\ [WatchedNext]_watchedVars => (watch \in Watches)'
  BY DEF Watches, WatchedNext, watchedVars, ProbeRefused, ProbeMissed, StandaloneFailover,
         OpenShiftTouch, Container
<1> QED
  BY <1>1, <1>2, WatchedIsPgContainer, TypeCorrect, PTL DEF WatchedSpec, WatchedTypeOK

\* A failover on plain Docker that did not reach the replica is never made up
\* for, whatever happens to the master and the replica afterwards.
THEOREM MissedStaysMissed == WatchedSpec => MissedForGood
<1>1. WatchedTypeOK /\ [WatchedNext]_watchedVars => [Missed => Missed']_watchedVars
  <2> SUFFICES ASSUME WatchedTypeOK, [WatchedNext]_watchedVars, Missed PROVE Missed'
    OBVIOUS
  <2>t. TypeOK'
    <3>1. [Next]_vars
      BY DEF WatchedNext, watchedVars, ProbeRefused, ProbeMissed, StandaloneFailover,
             OpenShiftTouch, Container, Next
    <3> QED
      BY <3>1, TypeStep DEF WatchedTypeOK
  <2> USE <2>t DEF WatchedTypeOK, TypeOK, Missed, Standalone
  <2>1. UNCHANGED <<mode, keeps, watch>>
    BY DEF given, WatchedNext, watchedVars, vars, ProbeRefused, ProbeMissed, StandaloneFailover,
           OpenShiftTouch, Container, Script, ContainerStart, Check, WipeReplica, BaseBackup,
           RecoveryConf, Restore, InitDb, OverlayConf, LoadSetup, StartPostgres, Promote, Crash,
           MasterLost, MasterBack
  <2>2. CASE Container
    <3>1. ~Promote
      BY DEF Promote
    <3>2. UNCHANGED <<trigger, promoted>> \/ (trigger' = FALSE /\ promoted' = FALSE)
      BY <2>2, <3>1
      DEF Container, Script, ContainerStart, Check, WipeReplica, BaseBackup, RecoveryConf,
          Restore, InitDb, OverlayConf, LoadSetup, StartPostgres, Crash, MasterLost, MasterBack,
          CopiedInPart, CopiedInFull, volume, TmpAfterExit
    <3> QED
      BY <2>1, <3>2
  <2>3. CASE ~Container
    BY <2>1, <2>3 DEF WatchedNext, watchedVars, vars, ProbeRefused, ProbeMissed,
        StandaloneFailover, OpenShiftTouch
  <2> QED
    BY <2>2, <2>3
<1> QED
  BY <1>1, WatchedTypeCorrect, PTL DEF WatchedSpec, MissedForGood
=============================================================================
