----------------------------- MODULE PgContainer -----------------------------
(***************************************************************************)
(* The start script of the crunchy-postgres container, bin/start.sh and    *)
(* bin/start-pg-wrapper.sh, run again and again on one volume: the         *)
(* container may die before any of its commands, or inside the long ones,  *)
(* and is started again: by the kubelet, which makes a new container, or   *)
(* by docker start, which runs the same one again.                         *)
(*                                                                         *)
(* The script decides by one file, $PGDATA/postgresql.conf, whether the    *)
(* volume has been initialised, and looks at no exit code.                 *)
(***************************************************************************)
EXTENDS Naturals

CONSTANTS
  Modes,       \* the values of PG_MODE considered
  Backups,     \* what /backup/$BACKUP_PATH may hold: "none", "partial", "complete"
  Keeps,       \* the values of keeps considered
  MaxCrashes,  \* how often the container dies
  MaxBroken    \* how often pg_basebackup or rsync breaks off in the middle

ASSUME ModesAssumption == Modes \subseteq {"master", "slave"}
ASSUME BackupsAssumption == Backups \subseteq {"none", "partial", "complete"}
ASSUME KeepsAssumption == Keeps \subseteq BOOLEAN
ASSUME BudgetAssumption == MaxCrashes \in Nat /\ MaxBroken \in Nat

VARIABLES
  mode, backup,   \* fixed for the life of the container
  keeps,          \* a container that is started again has its old /tmp
  master,         \* a server answers at PG_MASTER_HOST
  pc,             \* the next command of the script
  conf,           \* $PGDATA/postgresql.conf exists
  data,           \* the files postgres needs: "none", "partial" or "complete"
  recovery,       \* $PGDATA/recovery.conf exists
  setup,          \* setup.sql has been applied to the database
  created,        \* history: the database is one initdb made
  promoted,       \* history: a standby on this volume was promoted
  trigger,        \* /tmp/pg-failover-trigger exists
  crashes, broken   \* what is left of the two bounds

volume == <<conf, data, recovery, setup, created, promoted>>
given == <<mode, backup, keeps>>
budget == <<crashes, broken>>
vars == <<mode, backup, keeps, master, pc, conf, data, recovery, setup, created, promoted, trigger,
          crashes, broken>>

PC == {"down", "check", "wipe", "copy", "recoveryconf", "restore", "initdb", "overlay",
       "setup", "start", "running"}

TypeOK ==
  /\ mode \in Modes
  /\ backup \in Backups
  /\ keeps \in Keeps
  /\ master \in BOOLEAN
  /\ pc \in PC
  /\ conf \in BOOLEAN
  /\ data \in {"none", "partial", "complete"}
  /\ recovery \in BOOLEAN
  /\ setup \in BOOLEAN
  /\ created \in BOOLEAN
  /\ promoted \in BOOLEAN
  /\ trigger \in BOOLEAN
  /\ crashes \in Nat
  /\ broken \in Nat

-----------------------------------------------------------------------------

\* A copy that stops in the middle has or has not brought postgresql.conf.
\* What was there before stays.
CopiedInPart ==
  /\ data' = "partial"
  /\ conf' = TRUE \/ UNCHANGED conf
  /\ UNCHANGED <<recovery, setup, created, promoted>>

CopiedInFull ==
  /\ data' = "complete"
  /\ conf' = TRUE
  /\ UNCHANGED <<recovery, setup, created, promoted>>

\* The trigger file goes with /tmp when a new container takes over.
TmpAfterExit == trigger' = IF keeps THEN trigger ELSE FALSE

Breaks == broken > 0 /\ broken' = broken - 1

\* Mutant: the script removes an old trigger file as it does postmaster.pid.
MutCleansTmp ==
  /\ pc = "down"
  /\ pc' = "check"
  /\ trigger' = FALSE
  /\ UNCHANGED <<given, master, volume, budget>>

ContainerStart ==
  /\ pc = "down"
  /\ pc' = "check"
  /\ UNCHANGED <<given, master, volume, trigger, budget>>

\* Mutant: a slave copies the master at every start.
MutAlwaysCopies ==
  /\ pc = "check"
  /\ pc' = IF mode = "slave" THEN "wipe"
           ELSE IF conf THEN "start"
           ELSE IF backup = "none" THEN "initdb" ELSE "restore"
  /\ UNCHANGED <<given, master, volume, trigger, budget>>

\* Mutant: setup.sql is loaded at every start of a master.
MutSetupAgain ==
  /\ pc = "check"
  /\ pc' = IF mode = "master" /\ conf THEN "setup"
           ELSE IF conf THEN "start"
           ELSE IF mode = "slave" THEN "wipe"
           ELSE IF backup = "none" THEN "initdb" ELSE "restore"
  /\ UNCHANGED <<given, master, volume, trigger, budget>>

\* The branches of lines 171-183 and of lines 34 and 120.  The test of line
\* 38 looks for /pgdata/postgresql.conf, which no start script ever writes.
Check ==
  /\ pc = "check"
  /\ pc' = IF conf THEN "start"
           ELSE IF mode = "slave" THEN "wipe"
           ELSE IF backup = "none" THEN "initdb" ELSE "restore"
  /\ UNCHANGED <<given, master, volume, trigger, budget>>

\* Mutant: the configuration is put in place before the copy.
MutConfFirst ==
  /\ pc = "wipe"
  /\ data' = "none"
  /\ conf' = TRUE
  /\ recovery' = FALSE
  /\ pc' = "copy"
  /\ promoted' = FALSE
  /\ UNCHANGED <<given, master, setup, created, trigger, budget>>

WipeReplica ==
  /\ pc = "wipe"
  /\ data' = "none"
  /\ conf' = FALSE
  /\ recovery' = FALSE
  /\ pc' = "copy"
  /\ promoted' = FALSE
  /\ UNCHANGED <<given, master, setup, created, trigger, budget>>

BaseBackup ==
  /\ pc = "copy"
  /\ \/ master /\ CopiedInFull /\ UNCHANGED budget
     \/ master /\ Breaks /\ CopiedInPart /\ UNCHANGED crashes
     \/ ~master /\ UNCHANGED <<volume, budget>>
  /\ pc' = "recoveryconf"
  /\ UNCHANGED <<given, master, trigger>>

\* Mutant: recovery.conf is copied to where postgres does not look for it.
MutNoRecoveryConf ==
  /\ pc = "recoveryconf"
  /\ pc' = "start"
  /\ UNCHANGED <<given, master, volume, trigger, budget>>

RecoveryConf ==
  /\ pc = "recoveryconf"
  /\ recovery' = TRUE
  /\ pc' = "start"
  /\ UNCHANGED <<given, master, conf, data, setup, created, promoted, trigger, budget>>

\* rsync completes what an earlier attempt has left; the result is as good
\* as the backup.
Restore ==
  /\ pc = "restore"
  /\ \/ backup = "complete" /\ CopiedInFull /\ UNCHANGED budget
     \/ /\ backup = "partial"
        /\ data' = "partial" /\ conf' = TRUE
        /\ UNCHANGED <<recovery, setup, created, promoted, budget>>
     \/ Breaks /\ CopiedInPart /\ UNCHANGED crashes
  /\ pc' = "setup"
  /\ UNCHANGED <<given, master, trigger>>

\* initdb refuses a directory that is not empty.
InitDb ==
  /\ pc = "initdb"
  /\ IF data = "none"
       THEN /\ data' = "complete" /\ conf' = TRUE
            /\ created' = TRUE /\ setup' = FALSE
            /\ UNCHANGED <<recovery, promoted>>
       ELSE UNCHANGED volume
  /\ pc' = "overlay"
  /\ UNCHANGED <<given, master, trigger, budget>>

\* Mutant: the configuration stays in /tmp.
MutNoOverlay ==
  /\ pc = "overlay"
  /\ pc' = "setup"
  /\ UNCHANGED <<given, master, volume, trigger, budget>>

OverlayConf ==
  /\ pc = "overlay"
  /\ conf' = TRUE
  /\ pc' = "setup"
  /\ UNCHANGED <<given, master, data, recovery, setup, created, promoted,
                 trigger, budget>>

\* psql reaches the temporary server if that was started and is ready after
\* three seconds; either way the server is stopped again.
LoadSetup ==
  /\ pc = "setup"
  /\ \/ data = "complete" /\ setup' = TRUE
     \/ UNCHANGED setup
  /\ pc' = "start"
  /\ UNCHANGED <<given, master, conf, data, recovery, created, promoted, trigger, budget>>

\* Mutant: a container whose postgres exits is not started again.
MutStaysDown ==
  /\ pc = "start"
  /\ pc' = IF data = "complete" THEN "running" ELSE "exited"
  /\ UNCHANGED <<given, master, volume, trigger, budget>>

\* postgres refuses to run on a volume that lacks files; the container exits.
StartPostgres ==
  /\ pc = "start"
  /\ \/ data = "complete" /\ pc' = "running" /\ UNCHANGED trigger
     \/ data # "complete" /\ pc' = "down" /\ TmpAfterExit
  /\ UNCHANGED <<given, master, volume, budget>>

Promote ==
  /\ pc = "running"
  /\ recovery
  /\ trigger
  /\ recovery' = FALSE
  /\ trigger' = FALSE
  /\ promoted' = TRUE
  /\ UNCHANGED <<given, master, pc, conf, data, setup, created, budget>>

\* The watch puts the trigger file into a container that runs as a slave.
Touch ==
  /\ pc # "down"
  /\ mode = "slave"
  /\ trigger' = TRUE
  /\ UNCHANGED <<given, master, pc, volume, budget>>

\* A container that dies inside a long command leaves part of its result.
Crash ==
  /\ pc # "down"
  /\ crashes > 0 /\ crashes' = crashes - 1
  /\ pc' = "down"
  /\ TmpAfterExit
  /\ \/ UNCHANGED volume
     \/ /\ pc = "wipe"
        /\ data' \in {data, "none"}
        /\ conf' = FALSE \/ UNCHANGED conf
        /\ UNCHANGED <<recovery, setup, created, promoted>>
     \/ pc \in {"copy", "restore"} /\ CopiedInPart
     \/ pc = "initdb" /\ data = "none" /\ CopiedInPart
  /\ UNCHANGED <<given, master, broken>>

\* The server behind PG_MASTER_HOST comes and goes as it likes.
MasterLost ==
  /\ master
  /\ master' = FALSE
  /\ UNCHANGED <<given, pc, volume, trigger, budget>>

MasterBack ==
  /\ ~master
  /\ master' = TRUE
  /\ UNCHANGED <<given, pc, volume, trigger, budget>>

Script ==
  \/ ContainerStart \/ Check \/ WipeReplica \/ BaseBackup \/ RecoveryConf
  \/ Restore \/ InitDb \/ OverlayConf \/ LoadSetup \/ StartPostgres

Init ==
  /\ mode \in Modes
  /\ backup \in Backups
  /\ keeps \in Keeps
  /\ master \in BOOLEAN
  /\ pc = "down"
  /\ conf = FALSE
  /\ data = "none"
  /\ recovery = FALSE
  /\ setup = FALSE
  /\ created = FALSE
  /\ promoted = FALSE
  /\ trigger = FALSE
  /\ crashes = MaxCrashes
  /\ broken = MaxBroken

Next == Script \/ Promote \/ Touch \/ Crash \/ MasterLost \/ MasterBack

Spec == Init /\ [][Next]_vars

-----------------------------------------------------------------------------
(* Properties.                                                             *)

\* A database that is complete is never destroyed by a later start: the file
\* that keeps "rm -rf $PGDATA/*" and initdb away is there before the data is.
DatabaseKept == [][data = "complete" => data' = "complete"]_vars

\* A volume with postgresql.conf but without all of the data.
Stuck == conf /\ data # "complete" /\ pc \in {"down", "check", "start"}

\* Such a volume is never repaired: every start skips the initialisation.
StuckForGood == [][Stuck => Stuck']_vars

\* Once the master stays up a container on OpenShift ends up running for good,
\* unless its volume is stuck.
RunsUnlessStuck ==
  ~keeps /\ (mode = "slave" => <>[]master) => <>[](pc = "running") \/ <>[]Stuck

\* If nothing breaks off in the middle and the backup is whole, a container on
\* OpenShift ends up running on a volume that was empty, however often the
\* master was not there yet.
NothingBreaks == crashes = MaxCrashes /\ broken = MaxBroken /\ backup # "partial"
AlwaysRuns ==
  ~keeps /\ []NothingBreaks /\ (mode = "slave" => <>[]master) => <>[](pc = "running")

\* It takes a container that died, a copy that broke off or half a backup to
\* leave such a volume: the file the script goes by, postgresql.conf, is not
\* put on it by an initialisation that merely fails, however often.
StuckOnlyAfterBreak == Stuck => ~NothingBreaks

\* A slave does not accept writes before the watch has promoted it ("Postgres
\* slaves are read-only").
SlaveIsReadOnly == pc = "running" /\ mode = "slave" /\ ~recovery => promoted

\* That holds as long as the container does not die: neither copies that fail
\* or break off nor the starts after them leave a slave without recovery.conf.
ReadOnlyUnlessCrashed == crashes = MaxCrashes => SlaveIsReadOnly

\* A database that initdb created and that setup.sql did not reach when it
\* was created ("sleep 3" was too short) never gets it: later starts skip it.
SetupMissed ==
  created /\ ~setup /\ data = "complete" /\ pc \in {"down", "check", "start", "running"}
SetupMissedForGood == [][SetupMissed => SetupMissed']_vars

\* No later start makes up for what an earlier one has left undone.
NothingIsMadeUpFor == StuckForGood /\ SetupMissedForGood

\* The container is a PgPod that is never removed.  Between the base backup and
\* recovery.conf its volume still counts as empty, for postgres has not been
\* started on it.
podDisk ==
  IF data # "complete" \/ pc = "recoveryconf" THEN "empty"
  ELSE IF recovery THEN "standby" ELSE "primary"
podUp == data = "complete" /\ pc \in {"setup", "running"}
Pod == INSTANCE PgPod WITH disk <- podDisk, up <- podUp
ImplementsPgPod == Pod!ContainerSpec

-----------------------------------------------------------------------------
(* The inductive invariant behind these properties: postgresql.conf is on  *)
(* the volume before the data is complete, so no initialisation runs on a  *)
(* complete database.                                                      *)

Initialising == pc \in {"wipe", "copy", "restore", "initdb"}

ScriptInv ==
  /\ data = "complete" => conf
  /\ Initialising => data # "complete"
  /\ pc \in {"wipe", "copy", "recoveryconf"} => mode = "slave"
  /\ pc \in {"restore", "initdb", "overlay", "setup"} => mode = "master"
  /\ mode = "master" => ~recovery
  /\ pc \in {"copy", "recoveryconf"} => ~recovery
  /\ pc = "down" /\ ~keeps => ~trigger
  /\ trigger => mode = "slave"
  /\ pc = "running" => data = "complete"

\* Without a break an initialisation leaves everything or nothing.
WholeInv ==
  /\ crashes <= MaxCrashes
  /\ broken <= MaxBroken
  /\ NothingBreaks => /\ data # "partial"
                      /\ conf <=> data = "complete"
                      /\ pc = "overlay" => data = "complete"

\* What is known of a slave whose container has not died: its complete copy
\* has a recovery.conf, or is about to get it, until it is promoted.
StandbyInv ==
  /\ crashes <= MaxCrashes
  /\ crashes = MaxCrashes /\ mode = "slave" /\ data = "complete" /\ ~recovery
       => promoted \/ pc = "recoveryconf"
=============================================================================
