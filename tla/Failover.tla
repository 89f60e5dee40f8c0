------------------------------ MODULE Failover ------------------------------
(***************************************************************************)
(* The crunchy-watch container guarding a PostgreSQL master on OpenShift.  *)
(*                                                                         *)
(* bin/watch/start-watch.sh probes the master service with pg_isready and, *)
(* at the first probe that fails, runs ose_failover: a sequence of oc      *)
(* commands none of whose exit codes is looked at.  The rest of the        *)
(* cluster runs concurrently with the script: pods are lost, the slaves'   *)
(* deployment config replaces the missing ones, slave containers copy the  *)
(* master and follow it, a slave that finds its trigger file promotes      *)
(* itself, containers restart.                                             *)
(*                                                                         *)
(* What a fault may do is bounded by Budget, one number per scenario and   *)
(* kind of fault; everything that is not a fault is unbounded.             *)
(***************************************************************************)
EXTENDS Naturals, FiniteSets

CONSTANTS
  Pods,         \* the pod names a run uses
  FirstMaster,  \* the pod that is created with PG_MODE=master
  Replicas,     \* "replicas" of the slaves' deployment config
  Budget,       \* how many faults of each kind may happen in each scenario
  Scenarios     \* the values that spaced may take

FaultKinds ==
  { "loss",     \* a pod disappears (its host dies, somebody deletes it)
    "restart",  \* a container dies and is started again on the same volume
    "alarm",    \* pg_isready fails although the server it reaches is up
    "watch",    \* the watch container itself restarts
    "oc" }      \* an oc command of the watch fails

ASSUME PodsAssumption == FirstMaster \in Pods /\ IsFiniteSet(Pods)
ASSUME ReplicasAssumption == Replicas \in Nat /\ Replicas < Cardinality(Pods)
ASSUME BudgetAssumption == Budget \in [BOOLEAN -> [FaultKinds -> Nat]]
ASSUME ScenariosAssumption == Scenarios \subseteq BOOLEAN

VARIABLES
  pc,       \* the next command of the watch script
  saved,    \* /tmp/master-service.json holds the service's definition
  todo,     \* the slaves of $SLAVES the loop has not reached yet
  chosen,   \* {} while firstslave=true, then {the slave it triggered}
  service,  \* the master service exists
  label,    \* what the pod's "name" label selects; "none": there is no such pod
  disk,     \* what the pod's volume holds
  up,       \* postgres accepts connections in the pod
  trigger,  \* /tmp/pg-failover-trigger exists in the pod's container
  left,     \* the part of Budget[spaced] that is not used up
  spaced    \* the scenario, fixed at the start: TRUE if pods are lost only
            \* when the cluster has healed, FALSE if at any moment

watchVars == <<pc, saved, todo, chosen>>
podVars == <<label, disk, up, trigger>>
steps == <<pc, saved, todo, chosen, service, label, disk, up, trigger, left>>
vars == <<steps, spaced>>

PC == {"probe", "save", "delete", "list", "loop", "label", "create"}
Labels == {"none", "master", "slave"}

\* "standby" is a copy with a recovery.conf, "primary" data without one.
Disks == {"empty", "standby", "primary"}

TypeOK ==
  /\ pc \in PC
  /\ saved \in BOOLEAN
  /\ todo \in SUBSET Pods
  /\ chosen \in SUBSET Pods
  /\ service \in BOOLEAN
  /\ label \in [Pods -> Labels]
  /\ disk \in [Pods -> Disks]
  /\ up \in [Pods -> BOOLEAN]
  /\ trigger \in [Pods -> BOOLEAN]
  /\ left \in [FaultKinds -> Nat]
  /\ spaced \in BOOLEAN

-----------------------------------------------------------------------------
(* The cluster as the watch and the slaves see it.                         *)

Masters == {p \in Pods : label[p] = "master"}
Slaves == {p \in Pods : label[p] = "slave"}

\* The service selects pods by label only: no pod has a readiness probe.
Endpoints == IF service THEN Masters ELSE {}
Live == {p \in Endpoints : up[p]}

\* Where a client that writes through the master service can end up.
Served == {p \in Live : disk[p] = "primary"}

\* One running master, the wanted number of running standbys, an idle watch.
Healed ==
  /\ pc = "probe"
  /\ service
  /\ \E m \in Pods : Masters = {m} /\ up[m] /\ disk[m] = "primary"
  /\ Cardinality(Slaves) = Replicas
  /\ \A p \in Slaves : up[p] /\ disk[p] = "standby"

Spend(kind) == left[kind] > 0 /\ left' = [left EXCEPT ![kind] = @ - 1]

\* The container is replaced by a new one: its processes and its /tmp go.
ContainerGone(p) ==
  /\ up' = [up EXCEPT ![p] = FALSE]
  /\ trigger' = [trigger EXCEPT ![p] = FALSE]

\* The pod goes with its emptyDir volume.
PodGone(p) ==
  /\ label' = [label EXCEPT ![p] = "none"]
  /\ disk' = [disk EXCEPT ![p] = "empty"]
  /\ ContainerGone(p)

-----------------------------------------------------------------------------
(* The watch script, one action per oc command.  A probe that succeeds     *)
(* changes nothing, so it is a stuttering step.                            *)

\* Mutants: the failover starts without saving the service's definition; the
\* probe asks for a server that can be written to.
MutProbeSkipsSave ==
  /\ pc = "probe"
  /\ Live = {}
  /\ pc' = "delete"
  /\ UNCHANGED <<saved, todo, chosen, service, podVars, left>>

MutProbeWrites ==
  /\ pc = "probe"
  /\ Served = {}
  /\ pc' = "save"
  /\ UNCHANGED <<saved, todo, chosen, service, podVars, left>>

ProbeRefused ==
  /\ pc = "probe"
  /\ Live = {}
  /\ pc' = "save"
  /\ UNCHANGED <<saved, todo, chosen, service, podVars, left>>

\* The probe fails while a server is up: the service sent it to an endpoint
\* that is not up, or it is a false alarm.
ProbeMissed ==
  /\ pc = "probe"
  /\ Live # {}
  /\ IF Live = Endpoints THEN Spend("alarm") ELSE UNCHANGED left
  /\ pc' = "save"
  /\ UNCHANGED <<saved, todo, chosen, service, podVars>>

\* Mutant: an empty file passes for a definition.
MutSaveAnything ==
  /\ pc = "save"
  /\ saved' = TRUE
  /\ pc' = "delete"
  /\ UNCHANGED <<todo, chosen, service, podVars, left>>

\* The redirection empties the file also when oc get fails or finds nothing.
SaveService ==
  /\ pc = "save"
  /\ \/ saved' = service /\ UNCHANGED left
     \/ saved' = FALSE /\ Spend("oc")
  /\ pc' = "delete"
  /\ UNCHANGED <<todo, chosen, service, podVars>>

\* Mutant: the master service is not deleted.
MutServiceStays ==
  /\ pc = "delete"
  /\ pc' = "list"
  /\ UNCHANGED <<saved, todo, chosen, service, podVars, left>>

DeleteService ==
  /\ pc = "delete"
  /\ \/ service' = FALSE /\ UNCHANGED left
     \/ UNCHANGED service /\ Spend("oc")
  /\ pc' = "list"
  /\ UNCHANGED <<saved, todo, chosen, podVars>>

ListSlaves ==
  /\ pc = "list"
  /\ \/ todo' = Slaves /\ UNCHANGED left
     \/ todo' = {} /\ Spend("oc")
  /\ chosen' = {}
  /\ pc' = "loop"
  /\ UNCHANGED <<saved, service, podVars>>

\* Mutants: firstslave is never set to false; the chosen slave stays in the
\* list; the trigger file has the wrong name.
MutEverySlaveIsFirst(p) ==
  /\ pc = "loop"
  /\ p \in todo
  /\ todo' = todo \ {p}
  /\ trigger' = [trigger EXCEPT ![p] = label[p] # "none"]
  /\ UNCHANGED <<pc, saved, chosen, service, label, disk, up, left>>

MutChosenStaysListed(p) ==
  /\ pc = "loop"
  /\ chosen = {}
  /\ p \in todo
  /\ chosen' = {p}
  /\ trigger' = [trigger EXCEPT ![p] = label[p] # "none"]
  /\ pc' = "label"
  /\ UNCHANGED <<saved, todo, service, label, disk, up, left>>

MutWrongTrigger(p) ==
  /\ pc = "loop"
  /\ chosen = {}
  /\ p \in todo
  /\ todo' = todo \ {p}
  /\ chosen' = {p}
  /\ pc' = "label"
  /\ UNCHANGED <<saved, service, podVars, left>>

\* The touch misses when the pod is gone or its container is being restarted.
TriggerFirstSlave(p) ==
  /\ pc = "loop"
  /\ chosen = {}
  /\ p \in todo
  /\ todo' = todo \ {p}
  /\ chosen' = {p}
  /\ \/ /\ trigger' = [trigger EXCEPT ![p] = label[p] # "none"]
        /\ UNCHANGED left
     \/ /\ ~up[p] /\ disk[p] # "empty"
        /\ UNCHANGED <<trigger, left>>
     \/ UNCHANGED trigger /\ Spend("oc")
  /\ pc' = "label"
  /\ UNCHANGED <<saved, service, label, disk, up>>

LabelMaster ==
  /\ pc = "label"
  /\ \/ /\ label' = [p \in Pods |-> IF p \in chosen /\ label[p] # "none"
                                      THEN "master" ELSE label[p]]
        /\ UNCHANGED left
     \/ UNCHANGED label /\ Spend("oc")
  /\ pc' = "create"
  /\ UNCHANGED <<saved, todo, chosen, service, disk, up, trigger>>

\* Mutant: the service is not recreated.
MutNotRecreated ==
  /\ pc = "create"
  /\ pc' = "loop"
  /\ UNCHANGED <<saved, todo, chosen, service, podVars, left>>

\* oc create fails on an empty file and on a service that exists.
CreateService ==
  /\ pc = "create"
  /\ \/ service' = (service \/ saved) /\ UNCHANGED left
     \/ UNCHANGED service /\ Spend("oc")
  /\ pc' = "loop"
  /\ UNCHANGED <<saved, todo, chosen, podVars>>

\* Mutant: the other slaves are left alone.
MutSlavesStay(p) ==
  /\ pc = "loop"
  /\ chosen # {}
  /\ p \in todo
  /\ todo' = todo \ {p}
  /\ UNCHANGED <<pc, saved, chosen, service, podVars, left>>

DeleteOtherSlave(p) ==
  /\ pc = "loop"
  /\ chosen # {}
  /\ p \in todo
  /\ todo' = todo \ {p}
  /\ \/ PodGone(p) /\ UNCHANGED left
     \/ UNCHANGED podVars /\ Spend("oc")
  /\ UNCHANGED <<pc, saved, chosen, service>>

\* Mutant: the script exits after a failover, as standalone_failover does.
MutExitsWhenDone ==
  /\ pc = "loop"
  /\ todo = {}
  /\ chosen' = {}
  /\ pc' = "exit"
  /\ UNCHANGED <<saved, todo, service, podVars, left>>

FailoverDone ==
  /\ pc = "loop"
  /\ todo = {}
  /\ chosen' = {}
  /\ pc' = "probe"
  /\ UNCHANGED <<saved, todo, service, podVars, left>>

\* A new watch container has a new /tmp and starts at the top of the script.
WatchRestart ==
  /\ Spend("watch")
  /\ pc' = "probe"
  /\ saved' = FALSE
  /\ todo' = {}
  /\ chosen' = {}
  /\ UNCHANGED <<service, podVars>>

Script ==
  \/ SaveService \/ DeleteService \/ ListSlaves
  \/ \E p \in Pods : TriggerFirstSlave(p) \/ DeleteOtherSlave(p)
  \/ LabelMaster \/ CreateService \/ FailoverDone

Watch == ProbeRefused \/ ProbeMissed \/ Script \/ WatchRestart

-----------------------------------------------------------------------------
(* The pods.                                                               *)

\* The deployment config replaces a missing slave by a pod of a new name.
CreateSlave(p) ==
  /\ Cardinality(Slaves) < Replicas
  /\ label[p] = "none"
  /\ p \notin todo \cup chosen \cup {FirstMaster}
  /\ label' = [label EXCEPT ![p] = "slave"]
  /\ UNCHANGED <<watchVars, service, disk, up, trigger, left>>

\* initialize_replica copies the server behind the master service.
BootSlave(p) ==
  /\ label[p] # "none"
  /\ disk[p] = "empty"
  /\ Live # {}
  /\ disk' = [disk EXCEPT ![p] = "standby"]
  /\ up' = [up EXCEPT ![p] = TRUE]
  /\ UNCHANGED <<watchVars, service, label, trigger, left>>

\* The copy fails, postgres finds no data, the container exits and is
\* replaced: a trigger file it had is lost.
BootFails(p) ==
  /\ label[p] # "none"
  /\ disk[p] = "empty"
  /\ Live = {} \/ Live # Endpoints
  /\ trigger[p]
  /\ ContainerGone(p)
  /\ UNCHANGED <<watchVars, service, label, disk, left>>

\* A standby that finds its trigger file ends recovery; it removes the file
\* and renames recovery.conf.
Promote(p) ==
  /\ up[p]
  /\ disk[p] = "standby"
  /\ trigger[p]
  /\ disk' = [disk EXCEPT ![p] = "primary"]
  /\ trigger' = [trigger EXCEPT ![p] = FALSE]
  /\ UNCHANGED <<watchVars, service, label, up, left>>

\* Mutant: the start script leaves recovery.conf off a volume it finds filled.
MutStartsAsPrimary(p) ==
  /\ label[p] # "none"
  /\ disk[p] # "empty"
  /\ ~up[p]
  /\ up' = [up EXCEPT ![p] = TRUE]
  /\ disk' = [disk EXCEPT ![p] = "primary"]
  /\ UNCHANGED <<watchVars, service, label, trigger, left>>

\* A container that finds postgresql.conf on its volume just starts postgres.
Start(p) ==
  /\ label[p] # "none"
  /\ disk[p] # "empty"
  /\ ~up[p]
  /\ up' = [up EXCEPT ![p] = TRUE]
  /\ UNCHANGED <<watchVars, service, label, disk, trigger, left>>

LosePod(p) ==
  /\ label[p] # "none"
  /\ spaced => Healed
  /\ Spend("loss")
  /\ PodGone(p)
  /\ UNCHANGED <<watchVars, service>>

RestartContainer(p) ==
  /\ label[p] # "none"
  /\ up[p] \/ trigger[p]
  /\ Spend("restart")
  /\ ContainerGone(p)
  /\ UNCHANGED <<watchVars, service, label, disk>>

\* The container dies after pg_basebackup and before recovery.conf is put in
\* place: the volume holds data that the next container starts as a primary.
RestartBeforeRecoveryConf(p) ==
  /\ label[p] # "none"
  /\ disk[p] = "empty"
  /\ Live # {}
  /\ Spend("restart")
  /\ disk' = [disk EXCEPT ![p] = "primary"]
  /\ ContainerGone(p)
  /\ UNCHANGED <<watchVars, service, label>>

Cluster ==
  \E p \in Pods :
    \/ CreateSlave(p) \/ BootSlave(p) \/ BootFails(p) \/ Promote(p) \/ Start(p)
    \/ LosePod(p) \/ RestartContainer(p) \/ RestartBeforeRecoveryConf(p)

-----------------------------------------------------------------------------

\* A cluster that has been deployed and whose slaves have caught up.
Init ==
  /\ pc = "probe"
  /\ saved = FALSE
  /\ todo = {}
  /\ chosen = {}
  /\ service = TRUE
  /\ \E S \in SUBSET (Pods \ {FirstMaster}) :
       /\ Cardinality(S) = Replicas
       /\ label = [p \in Pods |-> IF p = FirstMaster THEN "master"
                                  ELSE IF p \in S THEN "slave" ELSE "none"]
  /\ disk = [p \in Pods |-> IF label[p] = "master" THEN "primary"
                            ELSE IF label[p] = "slave" THEN "standby" ELSE "empty"]
  /\ up = [p \in Pods |-> label[p] # "none"]
  /\ trigger = [p \in Pods |-> FALSE]
  /\ spaced \in Scenarios
  /\ left = Budget[spaced]

Next == (Watch \/ Cluster) /\ UNCHANGED spaced

Spec == Init /\ [][Next]_vars

\* The script never blocks, the kubelet restarts containers and the
\* controller recreates pods; no fault is ever forced to happen.
Fairness ==
  /\ WF_steps(ProbeRefused)
  /\ WF_steps(Script)
  /\ WF_steps(\E p \in Pods : CreateSlave(p))
  /\ \A p \in Pods : WF_steps(BootSlave(p)) /\ WF_steps(Promote(p)) /\ WF_steps(Start(p))

FairSpec == Spec /\ Fairness

-----------------------------------------------------------------------------
(* Properties.                                                             *)

\* Nothing brings the service back once it is gone and nobody holds its
\* definition (LostForGood, below).
Lost == ~service /\ ~saved
NoData == \A p \in Pods : disk[p] = "empty"

\* If each loss comes after the cluster has healed at most one pod is the
\* master, may write, or has been told to: the service can never lead two
\* clients to two masters, not even for a moment, and a watch that restarts
\* and chooses again does not change that while there is, or can be, a service.
Claims(p) == label[p] = "master" \/ disk[p] = "primary" \/ trigger[p]
OneClaimant == \A p, q \in Pods : Claims(p) /\ Claims(q) => p = q
SinglePrimary == spaced /\ ~Lost => OneClaimant

\* Clients of the master service write to one server only: the relabelled
\* slave never joins a running primary behind the service.
NoSplitBrain == \A p, q \in Served : p = q

\* The one copy of the service's definition is never lost: whenever the service
\* is deleted, the saved file can recreate it.  Only a watch that restarts, which
\* has its file in /tmp, can lose it while there is data to serve; losses of
\* pods, whenever and however many, cannot.
WatchRestarted == left["watch"] # Budget[spaced]["watch"]
DefinitionKept == Lost => NoData \/ WatchRestarted

\* If each loss comes after the cluster has healed the pods together always hold
\* the data: the loop of lines 78-95, which deletes every slave but one, never
\* leaves only pods without data, not even if it is cut off and begun anew.
DataSurvives == spaced => ~NoData

\* A failover that has relabelled a slave ends with clients of the master
\* service reaching data: the slave it chose had finished copying the master.
NewMasterHasData ==
  [][pc = "loop" /\ pc' = "probe" /\ chosen \cap Masters # {} =>
       \A p \in chosen : disk[p] # "empty"]_vars

\* As long as no oc command has failed a slave becomes a master only while the
\* service is deleted ("deleting master service to block slaves").
OcWorks == left["oc"] = Budget[spaced]["oc"]
Fenced ==
  [][\A p \in Pods :
       OcWorks /\ label[p] = "slave" /\ label'[p] = "master" => ~service /\ ~service']_vars

\* Once neither the service nor its definition is left, no step of the watch,
\* the controller or a pod brings the service back: saved is overwritten at
\* the start of every failover, with an empty file when there is no service.
LostForGood == [][Lost => Lost']_vars

\* If each loss comes after the cluster has healed every failover ends, and the
\* cluster has its master and all its standbys running again, unless a restart of
\* the watch has cost the service.
HealsAgain == spaced => []<>(Healed \/ (Lost /\ WatchRestarted))

\* Whenever pods are lost, a failover under way or not, clients are led to a
\* primary again unless the data is gone from every pod or, with a restart of
\* the watch, the service is.
ServedOrNoData == []<>(NoData \/ (Lost /\ WatchRestarted) \/ Served # {})

\* The cluster implements MasterService: clients see one primary taken out of
\* service before another is put in.
Abstract == INSTANCE MasterService WITH served <- Served
NeverTwoMasters == Abstract!Spec

\* A master service that leads to read-only standbys only, which is what a
\* trigger file lost with its container leaves behind, is never mended:
\* pg_isready reports success, so nothing but a further fault changes it.
StuckReadOnly ==
  /\ pc = "probe"
  /\ service
  /\ Masters # {}
  /\ \A p \in Masters : up[p] /\ disk[p] = "standby" /\ ~trigger[p]
ReadOnlyStays == [][StuckReadOnly => StuckReadOnly' \/ left' # left]_vars

\* Losses of pods, whenever and however many, do not bring that about: what the
\* probe takes for a master is one or becomes one.
ProbeNotFooled == ~StuckReadOnly

\* Every pod of the cluster behaves like the pod that PgContainer implements.
Pod(p) == INSTANCE PgPod WITH mode <- IF p = FirstMaster THEN "master" ELSE "slave",
                              disk <- disk[p], up <- up[p], trigger <- trigger[p]
PodsArePgPods ==
  /\ \A p \in Pods : Pod(p)!Init
  /\ [][\A p \in Pods : [Pod(p)!Next]_(Pod(p)!vars)]_vars

-----------------------------------------------------------------------------
(* The invariant that is inductive when pods are lost but nothing else     *)
(* fails.  Its idea: from the failed probe to the relabelling no master    *)
(* has data, and a slave that was chosen before it had data can only be    *)
(* made master when whatever data there is sits in slaves about to be      *)
(* deleted.                                                                *)

AnytimeBudget == Budget[FALSE]
OnlyLosses == \A k \in FaultKinds \ {"loss"} : AnytimeBudget[k] = 0

HasData(p) == disk[p] # "empty"

Choosing == pc = "loop" /\ chosen = {}
Clearing == pc = "create" \/ (pc = "loop" /\ chosen # {})

\* Without restarts a pod runs exactly when it has data.
RunsWithData ==
  \A p \in Pods : /\ up[p] <=> HasData(p)
                  /\ label[p] = "none" => ~HasData(p)

OneMaster == \A p, q \in Masters : HasData(p) => p = q

NoLiveMaster ==
  pc \in {"save", "delete", "list", "label"} \/ Choosing => \A p \in Masters : ~HasData(p)

\* The list the watch took still covers every pod with data.
ListCovers ==
  Choosing \/ pc = "label" => \A p \in Pods : HasData(p) => p \in todo \cup chosen

DeadMaster ==
  (\E p \in Masters : ~HasData(p)) => \A q \in Pods : HasData(q) => Clearing /\ q \in todo

ListedAreSlaves == todo \cap Masters = {} /\ todo \cap chosen = {}

ServiceOrNoData ==
  /\ Lost => NoData
  /\ pc \in {"probe", "save"} /\ ~service => NoData
  /\ pc = "delete" /\ ~saved => NoData
  /\ pc = "loop" /\ chosen # {} /\ ~service => NoData

FencedPc == pc \in {"list", "label", "create"} \/ Choosing => ~service

\* A master with data may write or has been told to.
MastersPromote ==
  \A p \in Pods : HasData(p) /\ (p \in Masters \/ (pc = "label" /\ p \in chosen))
                    => disk[p] = "primary" \/ trigger[p]

ListOnlyInLoop ==
  /\ pc \in {"probe", "save", "delete", "list"} => todo = {} /\ chosen = {}
  /\ Choosing => todo \cap chosen = {}
  /\ pc \in {"label", "create"} => \E p \in Pods : chosen = {p}

LossInv ==
  /\ TypeOK
  /\ \A k \in FaultKinds \ {"loss"} : left[k] = 0
  /\ RunsWithData
  /\ OneMaster
  /\ NoLiveMaster
  /\ ListCovers
  /\ DeadMaster
  /\ ListedAreSlaves
  /\ ServiceOrNoData
  /\ FencedPc
  /\ MastersPromote
  /\ ListOnlyInLoop

-----------------------------------------------------------------------------
(* The invariant of the scenario in which each loss comes after the        *)
(* cluster has healed, and the watch may restart.  While there is no       *)
(* master nothing but the chosen slave claims to be one, and every slave   *)
(* the watch can choose from has data.  A restart that costs the service   *)
(* ends that, but then no pod is lost, and none boots, any more: the data  *)
(* stays with a master, or with slaves of which the watch takes one.       *)

SpacedBudget == Budget[TRUE]
SpacedLosses == Replicas > 0 /\ \A k \in {"restart", "alarm", "oc"} : SpacedBudget[k] = 0

BeforeChoice == pc \in {"save", "delete", "list"} \/ Choosing \/ (pc = "probe" /\ Masters = {})

OnlyChosenClaims ==
  /\ BeforeChoice => \A p \in Pods : ~Claims(p)
  /\ pc = "label" => /\ \A p \in Pods : Claims(p) => p \in chosen
                     /\ Masters = {} /\ chosen \subseteq Slaves
  /\ Clearing => chosen # {} /\ chosen \subseteq Masters

AllSlavesHaveData == Cardinality(Slaves) = Replicas /\ \A p \in Slaves : HasData(p)

DefinitionAtHand ==
  /\ pc \in {"probe", "save", "delete"} \/ (pc = "loop" /\ chosen # {}) => service
  /\ pc \in {"delete", "list", "label", "create"} \/ Choosing => saved

WithDefinition ==
  /\ \A p \in Masters : HasData(p)
  /\ OneClaimant
  /\ OnlyChosenClaims
  /\ BeforeChoice \/ pc = "label" => AllSlavesHaveData
  /\ Choosing => todo = Slaves
  /\ DefinitionAtHand

WithoutDefinition ==
  \/ \E p \in Masters : HasData(p)
  \/ /\ Masters = {}
     /\ AllSlavesHaveData
     /\ Choosing => todo = Slaves
     /\ pc = "label" => chosen \subseteq Slaves
     /\ ~Clearing

LostByRestart ==
  /\ left["watch"] <= SpacedBudget["watch"]
  /\ left["watch"] = SpacedBudget["watch"] => ~Lost

SpacedInv ==
  /\ TypeOK
  /\ \A k \in {"restart", "alarm", "oc"} : left[k] = 0
  /\ RunsWithData
  /\ \A p \in Pods : label[p] = "none" => ~trigger[p]
  /\ ListedAreSlaves
  /\ ListOnlyInLoop
  /\ FencedPc
  /\ MastersPromote
  /\ Lost => WithoutDefinition
  /\ ~Lost => WithDefinition
  /\ LostByRestart
=============================================================================
