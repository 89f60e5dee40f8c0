--------------------------- MODULE Failover_proofs ---------------------------
(***************************************************************************)
(* Proofs about Failover for every number of pods, replicas and faults.    *)
(***************************************************************************)
EXTENDS Failover, FiniteSetTheorems, TLAPS

-----------------------------------------------------------------------------
(* Type correctness.                                                       *)

USE DEF podVars, watchVars, steps

\* The budget shrinks but stays a function to the naturals.
LEMMA SpendType ==
  ASSUME left \in [FaultKinds -> Nat], NEW k \in FaultKinds, Spend(k)
  PROVE  left' \in [FaultKinds -> Nat]
BY DEF Spend

\* Every step keeps every variable in its type.
LEMMA TypeStep == TypeOK /\ [Next]_vars => TypeOK'
<1> SUFFICES ASSUME TypeOK, [Next]_vars PROVE TypeOK'
  OBVIOUS
<1> UNCHANGED spaced
  BY DEF Next, vars
<1> USE SpendType DEF TypeOK, PC, Labels, Disks
<1>1. CASE UNCHANGED vars
  BY <1>1 DEF vars
<1>2. ASSUME ProbeRefused \/ ProbeMissed PROVE TypeOK'
  BY <1>2 DEF ProbeRefused, ProbeMissed, FaultKinds
<1>3. ASSUME SaveService \/ DeleteService \/ ListSlaves PROVE TypeOK'
  BY <1>3 DEF SaveService, DeleteService, ListSlaves, Slaves, FaultKinds
<1>4. ASSUME NEW p \in Pods, TriggerFirstSlave(p) PROVE TypeOK'
  BY <1>4 DEF TriggerFirstSlave, FaultKinds
<1>5. ASSUME NEW p \in Pods, DeleteOtherSlave(p) PROVE TypeOK'
  BY <1>5 DEF DeleteOtherSlave, PodGone, ContainerGone, FaultKinds
<1>6. ASSUME LabelMaster \/ CreateService \/ FailoverDone PROVE TypeOK'
  BY <1>6 DEF LabelMaster, CreateService, FailoverDone, FaultKinds
<1>7. ASSUME WatchRestart PROVE TypeOK'
  BY <1>7 DEF WatchRestart, FaultKinds
<1>8. ASSUME NEW p \in Pods,
             CreateSlave(p) \/ BootSlave(p) \/ BootFails(p) \/ Promote(p) \/ Start(p)
      PROVE  TypeOK'
  BY <1>8 DEF CreateSlave, BootSlave, BootFails, ContainerGone, Promote, Start
<1>9. ASSUME NEW p \in Pods,
             LosePod(p) \/ RestartContainer(p) \/ RestartBeforeRecoveryConf(p)
      PROVE  TypeOK'
  BY <1>9 DEF LosePod, RestartContainer, RestartBeforeRecoveryConf, PodGone, ContainerGone,
              FaultKinds
<1> QED
  BY <1>1, <1>2, <1>3, <1>4, <1>5, <1>6, <1>7, <1>8, <1>9 DEF Next, Watch, Script, Cluster

LEMMA InitType == Init => TypeOK
<1> SUFFICES ASSUME Init PROVE TypeOK
  OBVIOUS
<1>1. spaced \in BOOLEAN /\ left \in [FaultKinds -> Nat]
  BY BudgetAssumption, ScenariosAssumption DEF Init
<1> QED
  BY <1>1, PodsAssumption DEF Init, TypeOK, PC, Labels, Disks

\* Every variable keeps its type.
THEOREM TypeCorrect == Spec => []TypeOK
BY InitType, TypeStep, PTL DEF Spec

-----------------------------------------------------------------------------
(* What no fault can change.                                               *)

LEMMA LostStep == TypeOK /\ [Next]_vars /\ Lost => Lost'
  BY DEF TypeOK, Next, Watch, Script, Cluster, vars, Lost, ProbeRefused, ProbeMissed,
         SaveService, DeleteService, ListSlaves, TriggerFirstSlave, DeleteOtherSlave,
         LabelMaster, CreateService, FailoverDone, WatchRestart, CreateSlave, BootSlave,
         BootFails, Promote, Start, LosePod, RestartContainer, RestartBeforeRecoveryConf

\* Once neither the service nor its definition is left, no step brings the
\* service back, whatever faults happen.
THEOREM LostStaysLost == Spec => LostForGood
<1>1. TypeOK /\ [Next]_vars => [Lost => Lost']_vars
  BY LostStep
<1> QED
  BY <1>1, TypeCorrect, PTL DEF Spec, LostForGood

\* Once the master service leads to read-only standbys only, nothing but a
\* fault changes that.
THEOREM ReadOnlyStaysReadOnly == Spec => ReadOnlyStays
<1>1. TypeOK /\ [Next]_vars => [StuckReadOnly => StuckReadOnly' \/ left' # left]_vars
  <2> SUFFICES ASSUME TypeOK, [Next]_vars, StuckReadOnly, left' = left PROVE StuckReadOnly'
    OBVIOUS
  <2>1. \A k \in FaultKinds : ~Spend(k)
    BY DEF Spend, TypeOK
  <2>2. pc = "probe" /\ Live = Endpoints /\ Live # {}
    BY DEF StuckReadOnly, Live, Endpoints, Masters
  <2>3. ~Watch
    BY <2>1, <2>2
    DEF FaultKinds, Watch, Script, ProbeRefused, ProbeMissed, SaveService, DeleteService,
        ListSlaves, TriggerFirstSlave, DeleteOtherSlave, LabelMaster, CreateService,
        FailoverDone, WatchRestart
  <2> USE DEF StuckReadOnly, Masters, TypeOK
  <2>4. CASE UNCHANGED vars
    BY <2>4 DEF vars
  <2>5. ASSUME NEW p \in Pods, CreateSlave(p) \/ BootSlave(p) PROVE StuckReadOnly'
    BY <2>5 DEF CreateSlave, BootSlave
  <2>6. ASSUME NEW p \in Pods, BootFails(p) \/ Promote(p) \/ Start(p) PROVE StuckReadOnly'
    BY <2>6 DEF BootFails, ContainerGone, Promote, Start
  <2>7. ~\E p \in Pods : LosePod(p) \/ RestartContainer(p) \/ RestartBeforeRecoveryConf(p)
    BY <2>1 DEF FaultKinds, LosePod, RestartContainer, RestartBeforeRecoveryConf
  <2> QED
    BY <2>3, <2>4, <2>5, <2>6, <2>7 DEF Next, Cluster
<1> QED
  BY <1>1, TypeCorrect, PTL DEF Spec, ReadOnlyStays

-----------------------------------------------------------------------------
(* With pod losses as the only faults there is at most one master.         *)

LEMMA LossInit == ASSUME OnlyLosses PROVE Init /\ ~spaced => LossInv
<1> SUFFICES ASSUME Init, ~spaced PROVE LossInv
  OBVIOUS
<1>1. PICK S \in SUBSET (Pods \ {FirstMaster}) :
        label = [p \in Pods |-> IF p = FirstMaster THEN "master"
                                ELSE IF p \in S THEN "slave" ELSE "none"]
  BY DEF Init
<1>2. Masters = {FirstMaster}
  BY <1>1, PodsAssumption DEF Masters
<1>3. \A p \in Pods : HasData(p) <=> label[p] # "none"
  BY <1>1 DEF Init, HasData
<1>4. HasData(FirstMaster)
  BY <1>2, <1>3 DEF Masters
<1>5. TypeOK /\ \A k \in FaultKinds \ {"loss"} : left[k] = 0
  <2>1. spaced = FALSE
    BY InitType DEF TypeOK
  <2> QED
    BY <2>1, InitType DEF Init, OnlyLosses, AnytimeBudget
<1> QED
  BY <1>2, <1>3, <1>4, <1>5
  DEF Init, LossInv, RunsWithData, OneMaster, NoLiveMaster, ListCovers, DeadMaster,
      ListedAreSlaves, ServiceOrNoData, FencedPc, MastersPromote, ListOnlyInLoop, Choosing,
      Clearing, Lost

\* A kind of fault with no budget left does not happen.
LEMMA NoSpend ==
  ASSUME TypeOK, NEW k \in FaultKinds, left[k] = 0
  PROVE  ~Spend(k)
BY DEF TypeOK, Spend

LEMMA NoFault ==
  ASSUME LossInv
  PROVE  ~Spend("restart") /\ ~Spend("alarm") /\ ~Spend("watch") /\ ~Spend("oc")
BY NoSpend DEF LossInv, FaultKinds

LEMMA LossStep == LossInv /\ [Next]_vars => LossInv'
<1> SUFFICES ASSUME LossInv, [Next]_vars PROVE LossInv'
  OBVIOUS
<1>t. TypeOK'
  BY TypeStep DEF LossInv
<1>l. \A k \in FaultKinds \ {"loss"} : left'[k] = 0
  <2>1. CASE \E p \in Pods : LosePod(p)
    BY <2>1 DEF LosePod, Spend, LossInv, TypeOK, FaultKinds
  <2>2. CASE ~\E p \in Pods : LosePod(p)
    BY <2>2, NoFault
    DEF LossInv, Next, Watch, Script, Cluster, vars, ProbeRefused, ProbeMissed, SaveService,
        DeleteService, ListSlaves, TriggerFirstSlave, DeleteOtherSlave, LabelMaster,
        CreateService, FailoverDone, WatchRestart, CreateSlave, BootSlave, BootFails, Promote,
        Start, RestartContainer, RestartBeforeRecoveryConf
  <2> QED BY <2>1, <2>2
<1> USE NoFault
    DEF LossInv, RunsWithData, HasData, OneMaster, NoLiveMaster, ListCovers, DeadMaster,
        ListedAreSlaves, ServiceOrNoData, FencedPc, MastersPromote, ListOnlyInLoop, Choosing,
        Clearing, Masters, Lost, NoData
<1>1. CASE UNCHANGED vars
  BY <1>1, <1>t, <1>l DEF vars
<1>2. CASE ProbeRefused
  BY <1>2, <1>t, <1>l DEF ProbeRefused, Live, Endpoints, TypeOK
<1>3. CASE ProbeMissed
  BY <1>3, <1>t, <1>l DEF ProbeMissed, Live, Endpoints, TypeOK
<1>4. CASE SaveService
  BY <1>4, <1>t, <1>l DEF SaveService, TypeOK
<1>5. CASE DeleteService
  BY <1>5, <1>t, <1>l DEF DeleteService, TypeOK
<1>6. CASE ListSlaves
  BY <1>6, <1>t, <1>l DEF ListSlaves, Slaves, TypeOK, Labels
<1>7. ASSUME NEW p \in Pods, TriggerFirstSlave(p) PROVE LossInv'
  BY <1>7, <1>t, <1>l DEF TriggerFirstSlave, TypeOK
<1>8. ASSUME NEW p \in Pods, DeleteOtherSlave(p) PROVE LossInv'
  BY <1>8, <1>t, <1>l DEF DeleteOtherSlave, PodGone, ContainerGone, TypeOK
<1>9. CASE LabelMaster
  BY <1>9, <1>t, <1>l DEF LabelMaster, TypeOK
<1>10. CASE CreateService
  BY <1>10, <1>t, <1>l DEF CreateService, TypeOK
<1>11. CASE FailoverDone
  BY <1>11, <1>t, <1>l DEF FailoverDone, TypeOK
<1>12. CASE WatchRestart
  BY <1>12 DEF WatchRestart
<1>13. ASSUME NEW p \in Pods, CreateSlave(p) PROVE LossInv'
  BY <1>13, <1>t, <1>l DEF CreateSlave, TypeOK
<1>14. ASSUME NEW p \in Pods, BootSlave(p) PROVE LossInv'
  BY <1>14, <1>t, <1>l DEF BootSlave, Live, Endpoints, TypeOK
<1>15. ASSUME NEW p \in Pods, BootFails(p) PROVE LossInv'
  BY <1>15, <1>t, <1>l DEF BootFails, ContainerGone, TypeOK
<1>16. ASSUME NEW p \in Pods, Promote(p) PROVE LossInv'
  BY <1>16, <1>t, <1>l DEF Promote, TypeOK
<1>17. ASSUME NEW p \in Pods, Start(p) PROVE LossInv'
  BY <1>17, <1>t, <1>l DEF Start, TypeOK
<1>18. ASSUME NEW p \in Pods, LosePod(p) PROVE LossInv'
  BY <1>18, <1>t, <1>l DEF LosePod, PodGone, ContainerGone, TypeOK
<1>19. ASSUME NEW p \in Pods, RestartContainer(p) \/ RestartBeforeRecoveryConf(p) PROVE LossInv'
  BY <1>19 DEF RestartContainer, RestartBeforeRecoveryConf
<1> QED
  BY <1>1, <1>2, <1>3, <1>4, <1>5, <1>6, <1>7, <1>8, <1>9, <1>10, <1>11, <1>12, <1>13, <1>14,
     <1>15, <1>16, <1>17, <1>18, <1>19
  DEF Next, Watch, Script, Cluster

LEMMA LossInvariant == ASSUME OnlyLosses PROVE Spec => [](~spaced => LossInv)
<1>1. (~spaced => LossInv) /\ [Next]_vars => (~spaced => LossInv)'
  <2>1. [Next]_vars => UNCHANGED spaced
    BY DEF Next, vars
  <2> QED
    BY <2>1, LossStep
<1> QED
  BY <1>1, LossInit, PTL DEF Spec

-----------------------------------------------------------------------------
(* The fence: it needs no assumption on the faults of pods or of the watch. *)

FenceInv ==
  /\ TypeOK
  /\ left["oc"] <= Budget[spaced]["oc"]
  /\ OcWorks => FencedPc /\ (pc \in {"label", "create"} => chosen # {})

LEMMA FenceStep == FenceInv /\ [Next]_vars => FenceInv'
<1> SUFFICES ASSUME FenceInv, [Next]_vars PROVE FenceInv'
  OBVIOUS
<1> USE BudgetAssumption
<1>1. TypeOK'
  BY TypeStep DEF FenceInv
<1>2. left'["oc"] <= left["oc"]
  BY DEF FenceInv, TypeOK, FaultKinds, Spend, Next, Watch, Script, Cluster, vars, ProbeRefused,
      ProbeMissed, SaveService, DeleteService, ListSlaves, TriggerFirstSlave,
      DeleteOtherSlave, LabelMaster, CreateService, FailoverDone, WatchRestart, CreateSlave,
      BootSlave, BootFails, Promote, Start, LosePod, RestartContainer,
      RestartBeforeRecoveryConf
<1>3. left["oc"] \in Nat /\ left'["oc"] \in Nat /\ Budget[spaced]["oc"] \in Nat
  BY <1>1 DEF FenceInv, TypeOK, FaultKinds
<1>s. UNCHANGED spaced
  BY DEF Next, vars
<1>4. left'["oc"] <= Budget[spaced']["oc"]
  BY <1>2, <1>3, <1>s DEF FenceInv
<1>5. ASSUME OcWorks'
      PROVE  FencedPc' /\ (pc' \in {"label", "create"} => chosen' # {})
  <2>1. left'["oc"] = left["oc"] /\ OcWorks
    BY <1>2, <1>3, <1>5, <1>s DEF FenceInv, OcWorks
  <2>2. ~Spend("oc")
    BY <1>3, <2>1 DEF FenceInv, Spend, TypeOK, FaultKinds
  <2>3. FencedPc /\ (pc \in {"label", "create"} => chosen # {})
    BY <2>1 DEF FenceInv
  <2> USE <2>2, <2>3 DEF FencedPc, Choosing
  <2>4. CASE UNCHANGED <<pc, chosen, service>>
    BY <2>4
  <2>5. CASE ProbeRefused \/ ProbeMissed \/ SaveService \/ DeleteService \/ ListSlaves
    BY <2>5 DEF ProbeRefused, ProbeMissed, SaveService, DeleteService, ListSlaves
  <2>6. CASE LabelMaster \/ CreateService \/ FailoverDone \/ WatchRestart
    BY <2>6 DEF LabelMaster, CreateService, FailoverDone, WatchRestart
  <2>7. ASSUME NEW p \in Pods, TriggerFirstSlave(p)
        PROVE  FencedPc' /\ (pc' \in {"label", "create"} => chosen' # {})
    BY <2>7 DEF TriggerFirstSlave
  <2> QED
    BY <2>4, <2>5, <2>6, <2>7
    DEF Next, Watch, Script, Cluster, vars, watchVars, DeleteOtherSlave, CreateSlave, BootSlave,
        BootFails, Promote, Start, LosePod, RestartContainer, RestartBeforeRecoveryConf
<1> QED
  BY <1>1, <1>4, <1>5 DEF FenceInv

\* As long as the oc commands work, and whatever else fails, a slave is
\* relabelled as master only while the master service is deleted.
THEOREM RelabelIsFenced == Spec => Fenced
<1>1. Init => FenceInv
  <2> SUFFICES ASSUME Init PROVE FenceInv
    OBVIOUS
  <2>1. TypeOK /\ left["oc"] = Budget[spaced]["oc"] /\ left["oc"] \in Nat
    BY InitType DEF Init, TypeOK, FaultKinds
  <2>2. left["oc"] <= Budget[spaced]["oc"]
    BY <2>1
  <2> QED
    BY <2>1, <2>2 DEF Init, FenceInv, FencedPc, Choosing
<1>2. FenceInv /\ [Next]_vars =>
        [\A p \in Pods : OcWorks /\ label[p] = "slave" /\ label'[p] = "master" =>
             ~service /\ ~service']_vars
  <2> SUFFICES ASSUME FenceInv, [Next]_vars, NEW p \in Pods, OcWorks,
                      label[p] = "slave", label'[p] = "master"
               PROVE  ~service /\ ~service'
    BY DEF Fenced
  <2>1. pc = "label" /\ LabelMaster
    BY DEF FenceInv, TypeOK, Next, Watch, Script, Cluster, vars, ProbeRefused, ProbeMissed,
           SaveService, DeleteService, ListSlaves, TriggerFirstSlave, DeleteOtherSlave, PodGone,
           LabelMaster, CreateService, FailoverDone, WatchRestart, CreateSlave, BootSlave,
           BootFails, Promote, Start, LosePod, RestartContainer, RestartBeforeRecoveryConf
  <2> QED
    BY <2>1 DEF FenceInv, FencedPc, LabelMaster
<1> QED
  BY <1>1, <1>2, FenceStep, PTL DEF Spec, Fenced

-----------------------------------------------------------------------------
(* Losses that come one at a time, and a watch that restarts at any time.  *)

LEMMA SpacedInit == ASSUME SpacedLosses PROVE Init /\ spaced => SpacedInv
<1> SUFFICES ASSUME Init, spaced PROVE SpacedInv
  OBVIOUS
<1>1. TypeOK /\ \A k \in FaultKinds : left[k] = SpacedBudget[k] /\ SpacedBudget[k] \in Nat
  <2>1. spaced = TRUE
    BY InitType DEF TypeOK
  <2> QED
    BY <2>1, InitType, BudgetAssumption DEF Init, SpacedBudget
<1>2. PICK S \in SUBSET (Pods \ {FirstMaster}) :
        label = [p \in Pods |-> IF p = FirstMaster THEN "master"
                                ELSE IF p \in S THEN "slave" ELSE "none"]
  BY DEF Init
<1>3. Masters = {FirstMaster}
  BY <1>2, PodsAssumption DEF Masters
<1>4. \A p \in Pods : Claims(p) => p = FirstMaster
  BY <1>2 DEF Init, Claims
<1>5. \A p \in Pods : HasData(p) <=> label[p] # "none"
  BY <1>2 DEF Init, HasData
<1>6. ~Lost
  BY DEF Init, Lost
<1>7. WithDefinition
  BY <1>3, <1>4, <1>5
  DEF Init, WithDefinition, OneClaimant, OnlyChosenClaims, DefinitionAtHand, BeforeChoice,
      Choosing, Clearing, Masters
<1>8. MastersPromote
  BY <1>3 DEF Init, MastersPromote, HasData, Masters
<1>9. \A k \in {"restart", "alarm", "oc"} : left[k] = 0
  BY <1>1 DEF SpacedLosses, FaultKinds
<1>10. LostByRestart
  <2>1. "watch" \in FaultKinds
    BY DEF FaultKinds
  <2>2. left["watch"] = SpacedBudget["watch"] /\ left["watch"] \in Nat
    BY <1>1, <2>1
  <2> QED
    BY <1>6, <2>2 DEF LostByRestart
<1> QED
  BY <1>1, <1>5, <1>6, <1>7, <1>8, <1>9, <1>10
  DEF Init, SpacedInv, RunsWithData, ListedAreSlaves, ListOnlyInLoop, FencedPc, Choosing

\* Only pods are lost, and only the watch restarts.
LEMMA NoOtherFault ==
  ASSUME SpacedInv
  PROVE  ~Spend("restart") /\ ~Spend("alarm") /\ ~Spend("oc")
BY NoSpend DEF SpacedInv, FaultKinds

\* The part of the invariant that does not depend on the definition.
LEMMA SpacedPodsStep ==
  ASSUME SpacedInv, [Next]_vars
  PROVE  /\ \A k \in {"restart", "alarm", "oc"} : left'[k] = 0
         /\ RunsWithData'
         /\ \A p \in Pods : label'[p] = "none" => ~trigger'[p]
         /\ ListedAreSlaves'
         /\ ListOnlyInLoop'
         /\ FencedPc'
<1> DEFINE Goal == /\ \A k \in {"restart", "alarm", "oc"} : left'[k] = 0
                   /\ RunsWithData'
                   /\ \A p \in Pods : label'[p] = "none" => ~trigger'[p]
                   /\ ListedAreSlaves'
                   /\ ListOnlyInLoop'
                   /\ FencedPc'
<1> USE NoOtherFault
    DEF SpacedInv, RunsWithData, HasData, ListedAreSlaves, ListOnlyInLoop, FencedPc, Choosing,
        Masters, TypeOK
<1>1. CASE UNCHANGED vars
  BY <1>1 DEF vars
<1>2. CASE ProbeRefused \/ ProbeMissed \/ SaveService \/ DeleteService
  BY <1>2 DEF ProbeRefused, ProbeMissed, SaveService, DeleteService
<1>3. CASE ListSlaves
  BY <1>3 DEF ListSlaves, Slaves
<1>4. ASSUME NEW p \in Pods, TriggerFirstSlave(p) PROVE Goal
  BY <1>4 DEF TriggerFirstSlave
<1>5. ASSUME NEW p \in Pods, DeleteOtherSlave(p) PROVE Goal
  BY <1>5 DEF DeleteOtherSlave, PodGone, ContainerGone
<1>6. CASE LabelMaster \/ CreateService \/ FailoverDone
  BY <1>6 DEF LabelMaster, CreateService, FailoverDone
<1>7. CASE WatchRestart
  BY <1>7 DEF WatchRestart, Spend, FaultKinds
<1>8. ASSUME NEW p \in Pods,
             CreateSlave(p) \/ BootSlave(p) \/ BootFails(p) \/ Promote(p) \/ Start(p)
      PROVE  Goal
  BY <1>8 DEF CreateSlave, BootSlave, BootFails, ContainerGone, Promote, Start
<1>9. ASSUME NEW p \in Pods, LosePod(p) PROVE Goal
  BY <1>9 DEF LosePod, PodGone, ContainerGone, Spend, FaultKinds
<1>10. ASSUME NEW p \in Pods, RestartContainer(p) \/ RestartBeforeRecoveryConf(p) PROVE Goal
  BY <1>10 DEF RestartContainer, RestartBeforeRecoveryConf
<1> QED
  BY <1>1, <1>2, <1>3, <1>4, <1>5, <1>6, <1>7, <1>8, <1>9, <1>10
  DEF Next, Watch, Script, Cluster

\* A master with data may write or has been told to.
LEMMA SpacedPromoteStep == ASSUME SpacedInv, [Next]_vars PROVE MastersPromote'
<1> USE NoOtherFault
    DEF SpacedInv, RunsWithData, HasData, ListedAreSlaves, ListOnlyInLoop, MastersPromote,
        Masters, TypeOK
<1>1. CASE UNCHANGED podVars /\ (pc' = "label" => UNCHANGED <<pc, chosen>>)
  BY <1>1 DEF podVars
<1>2. ASSUME NEW p \in Pods, TriggerFirstSlave(p) PROVE MastersPromote'
  BY <1>2 DEF TriggerFirstSlave
<1>3. ASSUME NEW p \in Pods, DeleteOtherSlave(p) \/ LosePod(p) PROVE MastersPromote'
  BY <1>3 DEF DeleteOtherSlave, LosePod, PodGone, ContainerGone
<1>4. CASE LabelMaster
  BY <1>4 DEF LabelMaster
<1>5. ASSUME NEW p \in Pods, CreateSlave(p) \/ BootFails(p) \/ Promote(p) \/ Start(p)
      PROVE  MastersPromote'
  BY <1>5 DEF CreateSlave, BootFails, ContainerGone, Promote, Start
<1>6. ASSUME NEW p \in Pods, BootSlave(p) PROVE MastersPromote'
  <2>1. service /\ pc # "label" /\ WithDefinition
    BY <1>6 DEF BootSlave, Live, Endpoints, FencedPc, Lost
  <2>2. p \notin Masters
    BY <1>6, <2>1 DEF BootSlave, WithDefinition
  <2> QED
    BY <1>6, <2>1, <2>2 DEF BootSlave
<1>7. ASSUME NEW p \in Pods, RestartContainer(p) \/ RestartBeforeRecoveryConf(p)
      PROVE  MastersPromote'
  BY <1>7 DEF RestartContainer, RestartBeforeRecoveryConf
<1> QED
  BY <1>1, <1>2, <1>3, <1>4, <1>5, <1>6, <1>7
  DEF Next, Watch, Script, Cluster, vars, ProbeRefused, ProbeMissed, SaveService, DeleteService,
      ListSlaves, CreateService, FailoverDone, WatchRestart

\* With the service or its definition at hand every step keeps one of them,
\* unless the watch restarts.
LEMMA WithDefinitionStep ==
  ASSUME SpacedLosses, spaced, SpacedInv, ~Lost, [Next]_vars, ~WatchRestart
  PROVE  WithDefinition' /\ ~Lost'
<1>l. TypeOK' /\ RunsWithData' /\ ListOnlyInLoop' /\ spaced'
  BY SpacedPodsStep, TypeStep DEF SpacedInv, Next, vars
<1>e. Cardinality({}) = 0
  BY FS_EmptySet
<1> SUFFICES WithDefinition'
  BY <1>l DEF WithDefinition, DefinitionAtHand, TypeOK, PC, Choosing, Lost
<1> USE NoOtherFault, <1>l, ReplicasAssumption
    DEF SpacedInv, SpacedLosses, RunsWithData, HasData, ListedAreSlaves, FencedPc,
        ListOnlyInLoop, Claims, WithDefinition, OneClaimant, OnlyChosenClaims,
        AllSlavesHaveData, DefinitionAtHand, BeforeChoice, Choosing, Clearing, Masters, Slaves,
        TypeOK
<1>1. CASE UNCHANGED vars
  BY <1>1 DEF vars
<1>2. CASE ProbeRefused
  BY <1>2 DEF ProbeRefused, Live, Endpoints
<1>3. CASE ProbeMissed
  BY <1>3 DEF ProbeMissed, Live, Endpoints
<1>4. CASE SaveService
  BY <1>4 DEF SaveService
<1>5. CASE DeleteService
  BY <1>5 DEF DeleteService
<1>6. CASE ListSlaves
  BY <1>6 DEF ListSlaves
<1>7. ASSUME NEW p \in Pods, TriggerFirstSlave(p) PROVE WithDefinition'
  BY <1>7 DEF TriggerFirstSlave
<1>8. ASSUME NEW p \in Pods, DeleteOtherSlave(p) PROVE WithDefinition'
  BY <1>8 DEF DeleteOtherSlave, PodGone, ContainerGone
<1>9. CASE LabelMaster
  BY <1>9 DEF LabelMaster
<1>10. CASE CreateService
  BY <1>10 DEF CreateService
<1>11. CASE FailoverDone
  BY <1>11, <1>e DEF FailoverDone
<1>13. ASSUME NEW p \in Pods, CreateSlave(p) PROVE WithDefinition'
  BY <1>13 DEF CreateSlave
<1>14. ASSUME NEW p \in Pods, BootSlave(p) PROVE WithDefinition'
  BY <1>14 DEF BootSlave, Live, Endpoints
<1>15. ASSUME NEW p \in Pods, BootFails(p) PROVE WithDefinition'
  BY <1>15 DEF BootFails, ContainerGone
<1>16. ASSUME NEW p \in Pods, Promote(p) PROVE WithDefinition'
  BY <1>16 DEF Promote
<1>17. ASSUME NEW p \in Pods, Start(p) PROVE WithDefinition'
  BY <1>17 DEF Start
<1>18. ASSUME NEW p \in Pods, LosePod(p) PROVE WithDefinition'
  <2>1. Healed /\ PodGone(p) /\ UNCHANGED <<watchVars, service>>
    BY <1>18 DEF LosePod
  <2>2. PICK m \in Pods : Masters = {m}
    BY <2>1 DEF Healed
  <2>3. \A q \in Pods : Claims(q) => q = m
    BY <2>2
  <2>4. CASE p = m
    <3>1. Masters' = {} /\ Slaves' = Slaves /\ \A q \in Pods : ~Claims(q)'
      BY <2>1, <2>2, <2>3, <2>4 DEF PodGone, ContainerGone
    <3>2. \A q \in Slaves : disk[q] = "standby" /\ q # m
      BY <2>1, <2>2 DEF Healed
    <3>3. \A q \in Slaves : disk'[q] # "empty"
      BY <2>1, <2>4, <3>2 DEF PodGone
    <3>4. AllSlavesHaveData'
      BY <2>1, <3>1, <3>3 DEF Healed
    <3>5. DefinitionAtHand' /\ OnlyChosenClaims'
      BY <2>1, <3>1 DEF Healed
    <3>6. OneClaimant'
      BY <3>1
    <3> QED
      BY <2>1, <3>1, <3>4, <3>5, <3>6 DEF Healed
  <2>5. CASE p # m
    BY <2>1, <2>2, <2>3, <2>5 DEF PodGone, ContainerGone, Healed
  <2> QED
    BY <2>4, <2>5
<1>19. ASSUME NEW p \in Pods, RestartContainer(p) \/ RestartBeforeRecoveryConf(p)
       PROVE  WithDefinition'
  BY <1>19 DEF RestartContainer, RestartBeforeRecoveryConf
<1> QED
  BY <1>1, <1>2, <1>3, <1>4, <1>5, <1>6, <1>7, <1>8, <1>9, <1>10, <1>11, <1>13, <1>14,
     <1>15, <1>16, <1>17, <1>18, <1>19
  DEF Next, Watch, Script, Cluster

\* A watch that restarts loses the definition while the service is deleted; a
\* master with data is there by then, or every slave still has it.
LEMMA WatchRestartStep ==
  ASSUME SpacedInv, ~Lost, WatchRestart, UNCHANGED spaced
  PROVE  (Lost' => WithoutDefinition') /\ (~Lost' => WithDefinition')
<1> USE DEF SpacedInv, WithDefinition, WatchRestart, HasData, Masters, Slaves, Claims,
            AllSlavesHaveData, OnlyChosenClaims, BeforeChoice, Choosing, Clearing,
            DefinitionAtHand, ListOnlyInLoop, TypeOK, PC
<1>1. ASSUME Lost' PROVE WithoutDefinition'
  <2>1. pc \in {"list", "label", "create"} \/ Choosing
    BY <1>1 DEF Lost
  <2>2. CASE pc = "create"
    BY <2>2 DEF WithoutDefinition
  <2>3. CASE pc # "create"
    <3>1. BeforeChoice \/ pc = "label"
      BY <2>1, <2>3
    <3>2. Masters = {}
      BY <3>1
    <3> QED
      BY <3>1, <3>2 DEF WithoutDefinition
  <2> QED
    BY <2>2, <2>3
<1>2. ASSUME ~Lost' PROVE WithDefinition'
  <2>1. service /\ pc' = "probe" /\ UNCHANGED <<service, podVars>>
    BY <1>2 DEF Lost
  <2>2. Masters = {} => BeforeChoice
    BY <2>1 DEF FencedPc
  <2>3. OneClaimant' /\ DefinitionAtHand' /\ (\A p \in Masters' : HasData(p)')
    BY <2>1 DEF OneClaimant, vars
  <2>4. OnlyChosenClaims' /\ (BeforeChoice' => AllSlavesHaveData')
    BY <2>1, <2>2
  <2> QED
    BY <2>1, <2>3, <2>4
<1> QED
  BY <1>1, <1>2

\* Without service and definition no slave is lost or boots, and the watch
\* deletes slaves only after it has made one with data a master.
LEMMA WithoutDefinitionStep ==
  ASSUME SpacedLosses, spaced, SpacedInv, Lost, [Next]_vars
  PROVE  WithoutDefinition' /\ Lost'
<1>1. Live = {} /\ ~Healed
  BY DEF Lost, Live, Endpoints, Healed
<1>2. Lost'
  BY LostStep DEF SpacedInv
<1>e. Cardinality({}) = 0
  BY FS_EmptySet
<1>s. AllSlavesHaveData => Slaves # {}
  BY <1>e DEF AllSlavesHaveData, SpacedLosses
<1> USE NoOtherFault DEF SpacedInv, TypeOK
<1>3. ASSUME NEW m \in Masters, HasData(m) PROVE m \in Masters' /\ HasData(m)'
  <2> DEFINE Same == m \in Masters' /\ HasData(m)'
  <2> USE <1>3 DEF Masters, HasData
  <2>1. CASE UNCHANGED <<label, disk>>
    BY <2>1
  <2>2. ASSUME NEW p \in Pods, DeleteOtherSlave(p) PROVE Same
    BY <2>2 DEF DeleteOtherSlave, PodGone, ListedAreSlaves
  <2>3. CASE LabelMaster
    BY <2>3 DEF LabelMaster
  <2>4. ASSUME NEW p \in Pods, CreateSlave(p) \/ BootSlave(p) \/ Promote(p) PROVE Same
    BY <2>4 DEF CreateSlave, BootSlave, Promote
  <2>5. ASSUME NEW p \in Pods, LosePod(p) PROVE Same
    BY <1>1, <2>5 DEF LosePod
  <2>6. ASSUME NEW p \in Pods, RestartBeforeRecoveryConf(p) PROVE Same
    BY <2>6 DEF RestartBeforeRecoveryConf
  <2> QED
    BY <2>1, <2>2, <2>3, <2>4, <2>5, <2>6
    DEF Next, Watch, Script, Cluster, vars, ProbeRefused, ProbeMissed, SaveService,
        DeleteService, ListSlaves, TriggerFirstSlave, CreateService, FailoverDone, WatchRestart,
        BootFails, Start, RestartContainer
<1>4. ASSUME Masters = {}, AllSlavesHaveData, Choosing => todo = Slaves,
             pc = "label" => chosen \subseteq Slaves, ~Clearing
      PROVE  WithoutDefinition'
  <2>1. Slaves # {}
    BY <1>4, <1>s
  <2> USE <1>4, ReplicasAssumption
      DEF Masters, Slaves, HasData, AllSlavesHaveData, Choosing, Clearing, WithoutDefinition,
          ListOnlyInLoop
  <2>2. CASE UNCHANGED vars \/ ProbeRefused \/ ProbeMissed \/ SaveService \/ DeleteService
    BY <2>2 DEF vars, ProbeRefused, ProbeMissed, SaveService, DeleteService
  <2>3. CASE ListSlaves
    BY <2>3 DEF ListSlaves
  <2>4. ASSUME NEW p \in Pods, TriggerFirstSlave(p) PROVE WithoutDefinition'
    BY <2>4 DEF TriggerFirstSlave
  <2>5. CASE LabelMaster
    <3>1. PICK p \in Pods : chosen = {p} /\ label[p] = "slave" /\ disk[p] # "empty"
      BY <2>5 DEF LabelMaster
    <3>2. label'[p] = "master" /\ disk'[p] # "empty"
      BY <2>5, <3>1 DEF LabelMaster
    <3> QED
      BY <3>2
  <2>6. CASE FailoverDone \/ CreateService \/ \E p \in Pods : DeleteOtherSlave(p)
    BY <2>1, <2>6 DEF FailoverDone, CreateService, DeleteOtherSlave
  <2>7. CASE WatchRestart
    BY <2>7 DEF WatchRestart
  <2>8. ASSUME NEW p \in Pods, CreateSlave(p) \/ BootSlave(p) \/ LosePod(p)
        PROVE  WithoutDefinition'
    BY <1>1, <2>8 DEF CreateSlave, BootSlave, LosePod
  <2>9. ASSUME NEW p \in Pods, BootFails(p) \/ Promote(p) \/ Start(p) PROVE WithoutDefinition'
    <3>1. UNCHANGED <<label, watchVars, service>>
      BY <2>9 DEF BootFails, Promote, Start
    <3>2. \A q \in Slaves : disk'[q] # "empty"
      BY <2>9 DEF BootFails, Promote, Start
    <3> QED
      BY <3>1, <3>2
  <2>10. ASSUME NEW p \in Pods, RestartContainer(p) \/ RestartBeforeRecoveryConf(p)
         PROVE  WithoutDefinition'
    BY <2>10 DEF RestartContainer, RestartBeforeRecoveryConf
  <2> QED
    BY <2>2, <2>3, <2>4, <2>5, <2>6, <2>7, <2>8, <2>9, <2>10 DEF Next, Watch, Script, Cluster
<1> QED
  BY <1>2, <1>3, <1>4 DEF WithoutDefinition

LEMMA SpacedStep ==
  ASSUME SpacedLosses PROVE spaced /\ SpacedInv /\ [Next]_vars => SpacedInv'
<1> SUFFICES ASSUME spaced, SpacedInv, [Next]_vars PROVE SpacedInv'
  OBVIOUS
<1>1. TypeOK'
  BY TypeStep DEF SpacedInv
<1>2. (Lost' => WithoutDefinition') /\ (~Lost' => WithDefinition')
  <2>1. UNCHANGED spaced
    BY DEF Next, vars
  <2> QED
    BY <2>1, WithDefinitionStep, WatchRestartStep, WithoutDefinitionStep
<1> DEFINE most == SpacedBudget["watch"]
<1>3. LostByRestart'
  <2>w. "watch" \in FaultKinds /\ TypeOK
    BY DEF FaultKinds, SpacedInv
  <2>1. most \in Nat /\ left["watch"] \in Nat
    BY <2>w, BudgetAssumption DEF TypeOK, SpacedBudget
  <2>l. left["watch"] <= most /\ (left["watch"] = most => ~Lost)
    BY DEF SpacedInv, LostByRestart
  <2>2. CASE WatchRestart
    <3>1. left["watch"] > 0 /\ left'["watch"] = left["watch"] - 1
      BY <2>2, <2>w DEF WatchRestart, Spend, TypeOK
    <3> QED
      BY <2>1, <2>l, <3>1 DEF LostByRestart
  <2>3. CASE ~WatchRestart
    <3>1. left'["watch"] = left["watch"]
      BY <2>3, <2>w
      DEF TypeOK, FaultKinds, Spend, Next, Watch, Script, Cluster, vars, ProbeRefused,
          ProbeMissed, SaveService, DeleteService, ListSlaves, TriggerFirstSlave,
          DeleteOtherSlave, LabelMaster, CreateService, FailoverDone, CreateSlave, BootSlave,
          BootFails, Promote, Start, LosePod, RestartContainer, RestartBeforeRecoveryConf
    <3>2. ~Lost => ~Lost'
      BY <2>3, WithDefinitionStep
    <3> QED
      BY <2>1, <2>l, <3>1, <3>2 DEF LostByRestart
  <2> QED
    BY <2>2, <2>3
<1> QED
  BY <1>1, <1>2, <1>3, SpacedPodsStep, SpacedPromoteStep DEF SpacedInv

LEMMA SpacedInvariant == ASSUME SpacedLosses PROVE Spec => [](spaced => SpacedInv)
<1>1. Init => (spaced => SpacedInv)
  BY SpacedInit
<1>2. (spaced => SpacedInv) /\ [Next]_vars => (spaced => SpacedInv)'
  <2>1. [Next]_vars => UNCHANGED spaced
    BY DEF Next, vars
  <2> QED
    BY <2>1, SpacedStep
<1> QED
  BY <1>1, <1>2, PTL DEF Spec

\* If each loss comes after the cluster has healed no two pods ever are, or are
\* about to become, the master, whenever and however often the watch restarts.
THEOREM SpacedKeepsSinglePrimary == ASSUME SpacedLosses PROVE Spec => []SinglePrimary
<1>1. (spaced => SpacedInv) => SinglePrimary
  BY DEF SpacedInv, WithDefinition, SinglePrimary
<1> QED
  BY <1>1, SpacedInvariant, PTL

\* Under the same assumption there is always a pod with data.
THEOREM SpacedKeepsData == ASSUME SpacedLosses PROVE Spec => []DataSurvives
<1>1. (spaced => SpacedInv) => DataSurvives
  <2> SUFFICES ASSUME SpacedInv, NoData PROVE FALSE
    BY DEF DataSurvives
  <2>1. \A p \in Pods : ~HasData(p)
    BY DEF NoData, HasData
  <2>2. AllSlavesHaveData
    BY <2>1
    DEF SpacedInv, TypeOK, PC, WithDefinition, WithoutDefinition, OnlyChosenClaims,
        BeforeChoice, Choosing, Clearing, Masters
  <2>3. Slaves = {}
    BY <2>1, <2>2 DEF AllSlavesHaveData, Slaves
  <2> QED
    BY <2>2, <2>3, FS_EmptySet, ReplicasAssumption DEF AllSlavesHaveData, SpacedLosses
<1> QED
  BY <1>1, SpacedInvariant, PTL

-----------------------------------------------------------------------------
(* What holds in both scenarios: losses at any moment, or losses that come *)
(* one at a time and a watch that restarts at any time.                    *)

ScenarioInv == TypeOK /\ (~spaced => LossInv) /\ (spaced => SpacedInv)

LEMMA ScenarioInvariant == ASSUME OnlyLosses, SpacedLosses PROVE Spec => []ScenarioInv
BY TypeCorrect, LossInvariant, SpacedInvariant, PTL DEF ScenarioInv

\* A definition that is lost went with the data or with a watch that restarted.
THEOREM LossesKeepDefinition ==
  ASSUME OnlyLosses, SpacedLosses PROVE Spec => []DefinitionKept
<1>1. ScenarioInv => DefinitionKept
  <2> SUFFICES ASSUME ScenarioInv, Lost, left["watch"] = Budget[spaced]["watch"] PROVE NoData
    BY DEF DefinitionKept, WatchRestarted
  <2>1. CASE spaced
    <3>1. spaced = TRUE
      BY <2>1 DEF ScenarioInv, TypeOK
    <3> QED
      BY <2>1, <3>1 DEF ScenarioInv, SpacedInv, LostByRestart, SpacedBudget
  <2>2. CASE ~spaced
    BY <2>2 DEF ScenarioInv, LossInv, ServiceOrNoData
  <2> QED
    BY <2>1, <2>2
<1> QED
  BY <1>1, ScenarioInvariant, PTL

LEMMA OneServed == ScenarioInv => \A p, q \in Served : p = q
BY DEF ScenarioInv, LossInv, OneMaster, HasData, SpacedInv, WithDefinition, OneClaimant, Claims,
       Lost, Served, Live, Endpoints, Masters

\* Clients of the master service never write to two servers.
THEOREM LossesKeepOneMaster ==
  ASSUME OnlyLosses, SpacedLosses PROVE Spec => []NoSplitBrain
<1>1. ScenarioInv => NoSplitBrain
  BY OneServed DEF NoSplitBrain
<1> QED
  BY <1>1, ScenarioInvariant, PTL

\* The probe is never content with read-only standbys: a running master may
\* write or has been told to.
THEOREM LossesDoNotFoolProbe ==
  ASSUME OnlyLosses, SpacedLosses PROVE Spec => []ProbeNotFooled
<1>1. ScenarioInv => ProbeNotFooled
  BY DEF ScenarioInv, LossInv, SpacedInv, RunsWithData, MastersPromote, HasData, ProbeNotFooled,
         StuckReadOnly, Masters
<1> QED
  BY <1>1, ScenarioInvariant, PTL

\* A pod is made master by the relabelling only.
LEMMA NewMastersComeFromLabel ==
  ASSUME TypeOK, [Next]_vars, NEW q \in Masters', q \notin Masters
  PROVE  pc = "label"
BY DEF TypeOK, Masters, Next, Watch, Script, Cluster, vars, ProbeRefused, ProbeMissed,
       SaveService, DeleteService, ListSlaves, TriggerFirstSlave, DeleteOtherSlave, PodGone,
       LabelMaster, CreateService, FailoverDone, WatchRestart, CreateSlave, BootSlave,
       BootFails, Promote, Start, LosePod, RestartContainer, RestartBeforeRecoveryConf

\* No step leads clients from one primary to another: while a slave is made
\* master no other pod is one with data.
LEMMA NoSwitch ==
  ASSUME ScenarioInv, ScenarioInv', [Next]_vars, NEW p \in Served, NEW q \in Served'
  PROVE  p = q
<1> SUFFICES ASSUME p # q PROVE FALSE
  OBVIOUS
<1> USE DEF Served, Live, Endpoints
<1>1. UNCHANGED spaced
  BY DEF Next, vars
<1>2. q \notin Masters => pc = "label"
  BY NewMastersComeFromLabel DEF ScenarioInv
<1>3. CASE ~spaced
  BY <1>1, <1>2, <1>3 DEF ScenarioInv, LossInv, OneMaster, NoLiveMaster, HasData
<1>4. CASE spaced
  <2>1. p \in Masters /\ WithDefinition
    BY <1>4 DEF ScenarioInv, SpacedInv, Lost
  <2>2. q \notin Masters
    BY <2>1 DEF WithDefinition, OneClaimant, Claims, Masters
  <2> QED
    BY <1>2, <2>1, <2>2 DEF WithDefinition, OnlyChosenClaims
<1> QED
  BY <1>3, <1>4

\* The cluster implements MasterService: one primary is taken out of service
\* before another is put in its place.
THEOREM ClusterImplementsService ==
  ASSUME OnlyLosses, SpacedLosses PROVE Spec => NeverTwoMasters
<1>1. Init => Abstract!Init
  <2> SUFFICES ASSUME Init PROVE Served = {FirstMaster}
    BY PodsAssumption DEF Abstract!Init
  <2>1. Masters = {FirstMaster} /\ disk[FirstMaster] = "primary" /\ up[FirstMaster]
    BY PodsAssumption DEF Init, Masters
  <2> QED
    BY <2>1, PodsAssumption DEF Init, Served, Live, Endpoints
<1>2. ScenarioInv /\ ScenarioInv' /\ NoSplitBrain' /\ [Next]_vars
        => [Abstract!Next]_Served
  <2> SUFFICES ASSUME ScenarioInv, ScenarioInv', NoSplitBrain', [Next]_vars,
                      Served' # Served
               PROVE  Abstract!Next
    OBVIOUS
  <2>1. CASE Served = {}
    <3>1. PICK q \in Pods : q \in Served'
      BY <2>1 DEF Served, Live, Endpoints, Masters
    <3>2. Served' = {q}
      BY <3>1 DEF NoSplitBrain
    <3> QED
      BY <2>1, <3>2 DEF Abstract!Next, Abstract!PutInService
  <2>2. CASE Served # {}
    <3>1. PICK p \in Served : TRUE
      BY <2>2
    <3>2. Served = {p} /\ Served' \subseteq {p}
      BY <3>1, OneServed, NoSwitch
    <3>3. Served' = {}
      BY <3>2
    <3> QED
      BY <2>2, <3>3 DEF Abstract!Next, Abstract!TakeOutOfService
  <2> QED
    BY <2>1, <2>2
<1>3. ScenarioInv => NoSplitBrain
  BY OneServed DEF NoSplitBrain
<1> QED
  BY <1>1, <1>2, <1>3, ScenarioInvariant, PTL DEF Spec, NeverTwoMasters, Abstract!Spec

-----------------------------------------------------------------------------
(* Every pod is a PgPod.                                                   *)

\* A pod that is gone has left nothing behind, and the first master, which
\* nothing recreates, has its data as long as it is there.
PodInv ==
  /\ TypeOK
  /\ \A p \in Pods : label[p] = "none" => disk[p] = "empty" /\ ~up[p] /\ ~trigger[p]
  /\ disk[FirstMaster] = "empty" => label[FirstMaster] = "none"

\* PodInv holds in a cluster that has been deployed.
LEMMA PodInit == Init => PodInv
<1> SUFFICES ASSUME Init PROVE PodInv
  OBVIOUS
<1>1. label[FirstMaster] = "master" /\ disk[FirstMaster] = "primary"
  BY PodsAssumption DEF Init
<1> QED
  BY <1>1, InitType, PodsAssumption DEF Init, PodInv, TypeOK

\* No step of the watch, the controller or a pod breaks PodInv.
LEMMA PodInvStep == PodInv /\ [Next]_vars => PodInv'
<1> SUFFICES ASSUME PodInv, [Next]_vars PROVE PodInv'
  OBVIOUS
<1>t. TypeOK' /\ FirstMaster \in Pods
  BY TypeStep, PodsAssumption DEF PodInv
<1> USE <1>t DEF PodInv, TypeOK
<1>1. CASE UNCHANGED vars
  BY <1>1 DEF vars
<1>2. CASE UNCHANGED podVars
  BY <1>2
<1>3. ASSUME NEW p \in Pods, TriggerFirstSlave(p) PROVE PodInv'
  BY <1>3 DEF TriggerFirstSlave
<1>4. ASSUME NEW p \in Pods, DeleteOtherSlave(p) \/ LosePod(p) PROVE PodInv'
  BY <1>4 DEF DeleteOtherSlave, LosePod, PodGone, ContainerGone
<1>5. CASE LabelMaster
  BY <1>5 DEF LabelMaster
<1>6. ASSUME NEW p \in Pods, CreateSlave(p) PROVE PodInv'
  BY <1>6 DEF CreateSlave
<1>7. ASSUME NEW p \in Pods,
             BootSlave(p) \/ BootFails(p) \/ Promote(p) \/ Start(p)
               \/ RestartContainer(p) \/ RestartBeforeRecoveryConf(p)
      PROVE  PodInv'
  BY <1>7 DEF BootSlave, BootFails, Promote, Start, RestartContainer,
              RestartBeforeRecoveryConf, ContainerGone
<1> QED
  BY <1>1, <1>2, <1>3, <1>4, <1>5, <1>6, <1>7
  DEF Next, Watch, Script, Cluster, ProbeRefused, ProbeMissed, SaveService, DeleteService,
      ListSlaves, CreateService, FailoverDone, WatchRestart

\* Whatever happens in the cluster is, for each pod, a step of PgPod or none.
LEMMA PodMakesStep ==
  ASSUME PodInv, [Next]_vars, NEW p \in Pods
  PROVE  [Pod(p)!Next]_(Pod(p)!vars)
<1> DEFINE same == disk'[p] = disk[p] /\ up'[p] = up[p] /\ trigger'[p] = trigger[p]
<1> USE DEF PodInv, TypeOK, Pod!vars
<1>1. CASE same
  BY <1>1
<1>2. ASSUME NEW q \in Pods, TriggerFirstSlave(q) PROVE same \/ Pod(p)!Touch
  BY <1>2 DEF TriggerFirstSlave, Pod!Touch
<1>3. ASSUME NEW q \in Pods, DeleteOtherSlave(q) \/ LosePod(q) PROVE same \/ Pod(p)!Remove
  BY <1>3 DEF DeleteOtherSlave, LosePod, PodGone, ContainerGone, Pod!Remove
<1>4. ASSUME NEW q \in Pods, BootSlave(q) PROVE same \/ Pod(p)!Fill
  BY <1>4 DEF BootSlave, Pod!Fill
<1>5. ASSUME NEW q \in Pods, BootFails(q) \/ RestartContainer(q) PROVE same \/ Pod(p)!Die
  BY <1>5 DEF BootFails, RestartContainer, ContainerGone, Pod!Die
<1>6. ASSUME NEW q \in Pods, RestartBeforeRecoveryConf(q) PROVE same \/ Pod(p)!Die
  BY <1>6 DEF RestartBeforeRecoveryConf, ContainerGone, Pod!Die
<1>7. ASSUME NEW q \in Pods, Promote(q) PROVE same \/ Pod(p)!Promote
  BY <1>7 DEF Promote, Pod!Promote
<1>8. ASSUME NEW q \in Pods, Start(q) PROVE same \/ Pod(p)!Start
  BY <1>8 DEF Start, Pod!Start
<1>9. CASE UNCHANGED <<disk, up, trigger>>
  BY <1>9
<1> QED
  BY <1>1, <1>2, <1>3, <1>4, <1>5, <1>6, <1>7, <1>8, <1>9
  DEF vars, Next, Watch, Script, Cluster, ProbeRefused, ProbeMissed, SaveService, DeleteService,
      ListSlaves, LabelMaster, CreateService, FailoverDone, WatchRestart, CreateSlave,
      Pod!Next, Pod!Container

\* Every pod of the cluster makes only steps PgPod allows, under all faults;
\* PgContainer_proofs shows the same of the start script.
THEOREM PodsBehave == Spec => PodsArePgPods
<1>1. Init => \A p \in Pods : Pod(p)!Init
  <2> SUFFICES ASSUME Init, NEW p \in Pods PROVE Pod(p)!Init
    OBVIOUS
  <2>1. disk[p] \in Disks /\ up[p] = (label[p] # "none") /\ trigger[p] = FALSE
    BY InitType DEF Init, TypeOK
  <2>2. label[p] # "none" => disk[p] # "empty"
    BY DEF Init
  <2> QED
    BY <2>1, <2>2 DEF Pod!Init, Disks
<1>2. PodInv /\ [Next]_vars => [\A p \in Pods : [Pod(p)!Next]_(Pod(p)!vars)]_vars
  BY PodMakesStep
<1> QED
  BY <1>1, <1>2, PodInit, PodInvStep, PTL DEF Spec, PodsArePgPods
=============================================================================
