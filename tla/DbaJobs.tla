------------------------------- MODULE DbaJobs -------------------------------
(***************************************************************************)
(* crunchy-dba: dbaserver starts a goroutine whenever a cron schedule is   *)
(* due, and that runs a script which deletes the objects of the job before *)
(* and creates them anew.  Runs of the same schedule share the names of    *)
(* their objects and nothing keeps them apart; the pods of the jobs they   *)
(* create go on at their own pace.                                         *)
(*                                                                         *)
(* backup: create-backup-job.sh with job, claim (pvc) and volume (pv), and *)
(* start-backupjob.sh in the pod.  vac: create-vac-job.sh with a job only, *)
(* and the vacuum program in the pod.                                      *)
(***************************************************************************)
EXTENDS Vacuum, FiniteSets

CONSTANTS
  BackupRuns, VacRuns,  \* the times the two schedules are due
  Settings,             \* the environments dbaserver is started with
  MaxFaults             \* how many commands, copies, pods and dbaservers fail

Runs == BackupRuns \cup VacRuns
Kinds == {"backup", "vac"}
KindOf(r) == IF r \in BackupRuns THEN "backup" ELSE "vac"

ASSUME RunsAssumption == IsFiniteSet(Runs) /\ BackupRuns \cap VacRuns = {}
ASSUME SettingsAssumption == Settings \subseteq Variables
ASSUME BoundsAssumption == MaxFaults \in Nat

VARIABLES
  asked,       \* the environment of dbaserver
  step,        \* of each run: 0 before it is due, then the next oc command
  exists,      \* for each kind the objects there are: "job", "pvc", "pv"
  pod,         \* of each kind's job
  dir,         \* the newest directory a backup was or is written to
  kept,        \* how many complete backups there are in older directories
  parms,       \* <<>>, or what the vacuum program of the newest pod has read
  faults,      \* what is left of MaxFaults
  outcome,     \* history: of each kind, what its newest job since a run was
               \* last due came to, or that one since then has worked
  clean,       \* history: no script failed since one was due all by itself
  overlapped   \* history: the kinds of which two scripts ran at a time

vars == <<asked, step, exists, pod, dir, kept, parms, faults, outcome, clean,
          overlapped>>

Objects == {"job", "pvc", "pv"}

\* Mutants: the job is deleted after its claim; the old job is left.
MutJobLast(kind) ==
  IF kind = "backup"
    THEN << <<"delete", "pvc">>, <<"delete", "pv">>, <<"delete", "job">>,
            <<"create", "pv">>, <<"create", "pvc">>, <<"create", "job">> >>
    ELSE << <<"delete", "job">>, <<"create", "job">> >>

MutKeepsOldJob(kind) ==
  IF kind = "backup"
    THEN << <<"delete", "pvc">>, <<"delete", "pv">>,
            <<"create", "pv">>, <<"create", "pvc">>, <<"create", "job">> >>
    ELSE << <<"create", "job">> >>

\* The oc commands of the two scripts.
Commands(kind) ==
  IF kind = "backup"
    THEN << <<"delete", "job">>, <<"delete", "pvc">>, <<"delete", "pv">>,
            <<"create", "pv">>, <<"create", "pvc">>, <<"create", "job">> >>
    ELSE << <<"delete", "job">>, <<"create", "job">> >>
Volumes(kind) == IF kind = "backup" THEN {"pvc", "pv"} ELSE {}

Active(r) == step[r] \in 1..Len(Commands(KindOf(r)))
Finished(r) == step[r] > Len(Commands(KindOf(r)))
RunsOf(kind) == {r \in Runs : KindOf(r) = kind}
Busy(kind) == \E r \in RunsOf(kind) : Active(r)

\* GetBackupJobParms has no defaults; GetParms has one for PG_PORT. The variables that only a
\* backup needs (those of its volume) are required in the same way: PG_PORT stands for them.
Complete(kind) == IF kind = "backup" THEN Required(asked) /\ asked.PG_PORT # ""
                                     ELSE ~ParmsError(asked)

\* Types; the vacuum job has no volumes and there is no pod without its job.
TypeOK ==
  /\ asked \in Variables
  /\ step \in [Runs -> 0..7]
  /\ exists \in [Kinds -> SUBSET Objects]
  /\ pod \in [Kinds -> {"none", "waiting", "new", "old", "succeeded"}]
  /\ dir \in {"none", "empty", "partial", "complete"}
  /\ kept \in Nat
  /\ parms \in Seq(Parms) /\ Len(parms) < 2
  /\ faults \in 0..MaxFaults
  /\ outcome \in [Kinds -> {"none", "worked", "failed"}]
  /\ clean \in [Kinds -> BOOLEAN]
  /\ overlapped \subseteq Kinds
  /\ \A k \in Kinds : /\ exists[k] \subseteq {"job"} \cup Volumes(k)
                      /\ pod[k] # "none" => "job" \in exists[k]

-----------------------------------------------------------------------------

Fault == faults > 0 /\ faults' = faults - 1
data == <<dir, kept, parms>>

\* The script of a run begins.
Due(r) ==
  LET kind == KindOf(r) IN
  /\ step[r] = 0
  /\ Complete(kind)
  /\ step' = [step EXCEPT ![r] = 1]
  /\ outcome' = [outcome EXCEPT ![kind] = "none"]
  /\ pod' = [pod EXCEPT ![kind] = IF @ = "new" THEN "old" ELSE @]
  /\ clean' = [clean EXCEPT ![kind] = @ \/ ~Busy(kind)]
  /\ overlapped' = IF Busy(kind) THEN overlapped \cup {kind} ELSE overlapped
  /\ UNCHANGED <<asked, exists, data, faults>>

\* Mutant: the pod of a deleted job is left.
MutLeavesPod(kind, object) ==
  /\ exists' = [exists EXCEPT ![kind] = @ \ {object}]
  /\ UNCHANGED pod

\* oc delete takes the pods of a job with it.
Delete(kind, object) ==
  /\ exists' = [exists EXCEPT ![kind] = @ \ {object}]
  /\ pod' = [pod EXCEPT ![kind] = IF object = "job" THEN "none" ELSE @]

\* oc create fails if there is an object of the name.
Create(kind, object) ==
  /\ exists' = [exists EXCEPT ![kind] = @ \cup {object}]
  /\ pod' = [pod EXCEPT ![kind] =
               IF object = "job" /\ "job" \notin exists[kind] THEN "waiting" ELSE @]

\* One command of the script, whose exit code nobody looks at.
RunCommand(r) ==
  LET kind == KindOf(r)
      command == Commands(kind)[step[r]]
  IN /\ Active(r)
     /\ step' = [step EXCEPT ![r] = @ + 1]
     /\ \/ /\ IF command[1] = "delete" THEN Delete(kind, command[2])
                                       ELSE Create(kind, command[2])
           /\ UNCHANGED <<faults, clean>>
        \/ /\ Fault
           /\ clean' = [clean EXCEPT ![kind] = FALSE]
           /\ UNCHANGED <<exists, pod>>
     /\ outcome' = [outcome EXCEPT ![kind] =
                      IF @ = "failed" /\ pod'[kind] = "waiting" THEN "none" ELSE @]
     /\ UNCHANGED <<asked, data, overlapped>>

\* Scripts end before they are through.
BreakOff(runs) ==
  /\ step' = [r \in Runs |-> IF r \in runs THEN Len(Commands(KindOf(r))) + 1 ELSE step[r]]
  /\ clean' = [k \in Kinds |-> clean[k] /\ runs \cap RunsOf(k) = {}]
  /\ UNCHANGED <<asked, exists, pod, data, outcome, overlapped>>

\* dbaserver is killed with the scripts it runs.  It is started again and
\* knows nothing of them.
ServerDies ==
  /\ \E k \in Kinds : Busy(k)
  /\ Fault
  /\ BreakOff({r \in Runs : Active(r)})

\* A run panics without its parameters, in a goroutine of cron, which may
\* recover or go down with dbaserver.
Panics(r) ==
  /\ step[r] = 0
  /\ ~Complete(KindOf(r))
  /\ \/ BreakOff({r})
     \/ BreakOff({r} \cup {s \in Runs : Active(s)})
  /\ UNCHANGED faults

-----------------------------------------------------------------------------

\* A pod works on its job; "new" if it began since the last run was due.
Working(kind) == pod[kind] \in {"new", "old"}
Done(kind) == pod' = [pod EXCEPT ![kind] = "succeeded"]

\* Mutant: there is one directory, which is emptied.
MutOneDirectory == dir' = "empty" /\ UNCHANGED kept

\* The directory of a pod is named after the second.  Another pod may have
\* made it in the same second only if this one replaces it: the script that
\* creates jobs sleeps before it does.
MakeDirectory ==
  \/ /\ dir' = "empty"
     /\ kept' = kept + (IF dir = "complete" THEN 1 ELSE 0)
  \/ dir \in {"empty", "partial"} /\ UNCHANGED <<dir, kept>>

\* The pod of a backup waits for its claim to be bound.
StartPod(kind) ==
  /\ pod[kind] = "waiting"
  /\ Volumes(kind) \subseteq exists[kind]
  /\ pod' = [pod EXCEPT ![kind] = "new"]
  /\ IF kind = "backup"
       THEN MakeDirectory /\ UNCHANGED parms
       ELSE parms' = <<PodParms(asked)>> /\ UNCHANGED <<dir, kept>>
  /\ UNCHANGED <<asked, step, exists, faults, outcome, clean, overlapped>>

\* pg_basebackup takes an empty directory only, the server no statement that
\* it does not understand.
CanWork(kind) == IF kind = "backup" THEN dir = "empty"
                                    ELSE Understood(VacuumCommand(parms[1]))

JobWorks(kind) ==
  /\ Working(kind) /\ CanWork(kind)
  /\ Done(kind)
  /\ outcome' = [outcome EXCEPT ![kind] = IF pod[kind] = "new" THEN "worked" ELSE @]
  /\ dir' = IF kind = "backup" THEN "complete" ELSE dir
  /\ UNCHANGED <<asked, step, exists, kept, parms, faults, clean, overlapped>>

Breaks(kind) ==
  dir' \in IF kind = "backup" /\ dir = "empty" THEN {"empty", "partial"} ELSE {dir}

Failed(kind) ==
  [outcome EXCEPT ![kind] = IF pod[kind] = "new" /\ @ # "worked" THEN "failed" ELSE @]

\* Mutant: a failed job is tried again.
MutTriesAgain(kind) ==
  /\ Working(kind) /\ Fault
  /\ pod' = [pod EXCEPT ![kind] = "waiting"]
  /\ outcome' = Failed(kind)
  /\ UNCHANGED <<asked, step, exists, data, clean, overlapped>>

\* The script ends with an echo and the vacuum program with os.Exit(0), so
\* the job counts as done and is not tried again.
JobFails(kind) ==
  /\ Working(kind)
  /\ IF CanWork(kind) THEN Fault ELSE UNCHANGED faults
  /\ Done(kind)
  /\ outcome' = Failed(kind)
  /\ Breaks(kind)
  /\ UNCHANGED <<asked, step, exists, kept, parms, clean, overlapped>>

\* A pod that is killed is replaced by its job.
PodDies(kind) ==
  /\ Working(kind) /\ Fault
  /\ pod' = [pod EXCEPT ![kind] = "waiting"]
  /\ Breaks(kind)
  /\ UNCHANGED <<asked, step, exists, kept, parms, outcome, clean, overlapped>>

Pod(kind) == StartPod(kind) \/ JobWorks(kind) \/ JobFails(kind)

Init ==
  /\ asked \in Settings
  /\ step = [r \in Runs |-> 0]
  /\ exists = [k \in Kinds |-> {}]
  /\ pod = [k \in Kinds |-> "none"]
  /\ dir = "none" /\ kept = 0 /\ parms = <<>>
  /\ faults = MaxFaults
  /\ outcome = [k \in Kinds |-> "none"]
  /\ clean = [k \in Kinds |-> TRUE]
  /\ overlapped = {}

Next ==
  \/ \E r \in Runs : Due(r) \/ RunCommand(r) \/ Panics(r)
  \/ ServerDies
  \/ \E k \in Kinds : Pod(k) \/ PodDies(k)

Spec == Init /\ [][Next]_vars

\* The scripts sleep for seconds only and a pod whose volumes are there is
\* started and comes to an end.
FairSpec ==
  /\ Spec
  /\ \A r \in Runs : WF_vars(RunCommand(r))
  /\ \A k \in Kinds : WF_vars(Pod(k))

-----------------------------------------------------------------------------
(* Properties.                                                             *)

\* However many runs overlapped, after the last of them the job and its
\* volumes are there: no run deletes what another one has created last.  A
\* command that fails, or a dbaserver that dies with a script or panics for
\* want of the settings of the other kind, costs them until the next run that
\* has them for itself, and no longer.
JobIsThere ==
  \A k \in Kinds :
    clean[k] /\ ~Busy(k) /\ (\E r \in RunsOf(k) : Finished(r))
      => exists[k] = {"job"} \cup Volumes(k)

\* No run is in vain: when the scripts are through, a job is there, and it waits
\* or works for the run that was due last, or it has come to something since.
\* An older job that is still at work is never taken for it.
NothingInVain ==
  /\ JobIsThere
  /\ \A k \in Kinds :
       clean[k] /\ ~Busy(k) /\ (\E r \in RunsOf(k) : Finished(r))
         => outcome[k] # "none" \/ pod[k] \in {"waiting", "new"}

\* If no run starts before the one before has ended, and no command of it
\* fails, it does not delete the volumes under a pod that writes a backup.
VolumesKept ==
  [][\A k \in Kinds :
       clean[k] /\ k \notin overlapped /\ Working(k)' /\ Volumes(k) \subseteq exists[k]
         => Volumes(k) \subseteq exists'[k]]_vars

\* Every due run leads to a backup, or a vacuum, that was started after it
\* was due or to one that failed: overlapping runs, pods that die and what
\* failed in earlier runs delay it only.  (There is a last run: a schedule
\* shorter than a copy would delete every job before it has done its work.)
EveryRunWorks ==
  \A k \in Kinds : Busy(k) ~> (~Busy(k) /\ (outcome[k] # "none" \/ ~clean[k]))

\* A backup or a vacuum that failed is reported as done: nothing tries it
\* again, unless a script that was still running creates the job anew, before
\* the next run is due.
FailedForGood ==
  [][\A k \in Kinds : outcome[k] = "failed" => outcome'[k] # "worked"]_vars

\* No backup is lost: pods that die and runs that overlap or fail never cost
\* a backup that was complete, and one that is reported to have worked is
\* there.
CompleteBackups == kept + (IF dir = "complete" THEN 1 ELSE 0)
BackupKept ==
  [][/\ CompleteBackups' >= CompleteBackups
     /\ (outcome["backup"] # "worked" /\ outcome'["backup"] = "worked")
          => CompleteBackups' > CompleteBackups]_vars

\* Whatever dbaserver was given, a vacuum job is only there if its settings
\* could be read; the pod, whose program ignores the errors of a second
\* reading, has none, and what it sends, and where to, is as documented.  The
\* server understands it unless a table is asked for and every option is
\* turned off: it is then VACUUM and the table in one word.
StatementAsAsked ==
  /\ pod["vac"] # "none" => Complete("vac") /\ ~ParmsError(PodEnvironment(GetParms[asked]))
  /\ parms # <<>> => AsDocumented(asked, parms[1])
=============================================================================
