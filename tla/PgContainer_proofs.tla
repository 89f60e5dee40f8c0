-------------------------- MODULE PgContainer_proofs --------------------------
(***************************************************************************)
(* Proofs about PgContainer for any number of crashes and broken copies.   *)
(***************************************************************************)
EXTENDS PgContainer, TLAPS

USE DEF volume, budget, given, TmpAfterExit

LEMMA TypeInit == Init => TypeOK
BY BudgetAssumption, KeepsAssumption DEF Init, TypeOK, PC

LEMMA CopyType ==
  ASSUME TypeOK, CopiedInPart \/ CopiedInFull
  PROVE  /\ data' \in {"partial", "complete"} /\ conf' \in BOOLEAN
         /\ UNCHANGED <<recovery, setup, created, promoted>>
BY DEF TypeOK, CopiedInPart, CopiedInFull

\* Every step keeps every variable in its type.
LEMMA TypeStep == TypeOK /\ [Next]_vars => TypeOK'
<1> SUFFICES ASSUME TypeOK, [Next]_vars PROVE TypeOK'
  OBVIOUS
<1> USE DEF TypeOK, PC, Breaks
<1>1. CASE UNCHANGED vars
  BY <1>1 DEF vars
<1>2. CASE ContainerStart
  BY <1>2 DEF ContainerStart
<1>3. CASE Check
  BY <1>3 DEF Check
<1>4. CASE WipeReplica
  BY <1>4 DEF WipeReplica
<1>5. CASE BaseBackup
  BY <1>5, CopyType DEF BaseBackup
<1>6. CASE RecoveryConf
  BY <1>6 DEF RecoveryConf
<1>7. CASE Restore
  <2>1. conf' \in BOOLEAN /\ data' \in {"none", "partial", "complete"}
    BY <1>7, CopyType DEF Restore
  <2>2. recovery' \in BOOLEAN /\ setup' \in BOOLEAN /\ created' \in BOOLEAN /\ promoted' \in BOOLEAN
    BY <1>7, CopyType DEF Restore
  <2>3. crashes' \in Nat
    BY <1>7, CopyType DEF Restore
  <2>5. broken' \in Nat
    BY <1>7, CopyType DEF Restore
  <2>4. /\ mode' \in Modes /\ backup' \in Backups /\ keeps' \in Keeps
        /\ master' \in BOOLEAN /\ pc' \in PC /\ trigger' \in BOOLEAN
    BY <1>7, CopyType DEF Restore
  <2> QED BY <2>1, <2>2, <2>3, <2>4, <2>5
<1>8. CASE InitDb
  BY <1>8 DEF InitDb
<1>9. CASE OverlayConf
  BY <1>9 DEF OverlayConf
<1>10. CASE LoadSetup
  BY <1>10 DEF LoadSetup
<1>11. CASE StartPostgres
  BY <1>11 DEF StartPostgres
<1>12. CASE Promote
  BY <1>12 DEF Promote
<1>13. CASE Touch
  BY <1>13 DEF Touch
<1>14. CASE Crash
  <2>1. conf' \in BOOLEAN /\ data' \in {"none", "partial", "complete"}
    BY <1>14, CopyType DEF Crash
  <2>2. recovery' \in BOOLEAN /\ setup' \in BOOLEAN /\ created' \in BOOLEAN /\ promoted' \in BOOLEAN
    BY <1>14, CopyType DEF Crash
  <2>3. crashes' \in Nat /\ broken' \in Nat
    BY <1>14 DEF Crash
  <2>4. /\ mode' \in Modes /\ backup' \in Backups /\ keeps' \in Keeps
        /\ master' \in BOOLEAN /\ pc' \in PC /\ trigger' \in BOOLEAN
    BY <1>14 DEF Crash
  <2> QED BY <2>1, <2>2, <2>3, <2>4
<1>15. CASE MasterLost \/ MasterBack
  BY <1>15 DEF MasterLost, MasterBack
<1> QED
  BY <1>1, <1>2, <1>3, <1>4, <1>5, <1>6, <1>7, <1>8, <1>9, <1>10, <1>11, <1>12, <1>13, <1>14, <1>15
  DEF Next, Script

\* Every variable keeps its type.
THEOREM TypeCorrect == Spec => []TypeOK
BY TypeInit, TypeStep, PTL DEF Spec

-----------------------------------------------------------------------------

LEMMA ScriptInit == Init => ScriptInv
BY DEF Init, ScriptInv, Initialising

LEMMA ScriptStep == TypeOK /\ ScriptInv /\ [Next]_vars => ScriptInv'
<1> SUFFICES ASSUME TypeOK, ScriptInv, [Next]_vars PROVE ScriptInv'
  OBVIOUS
<1> USE DEF TypeOK, ScriptInv, Initialising, CopiedInPart, CopiedInFull
<1>1. CASE UNCHANGED vars
  BY <1>1 DEF vars
<1>2. CASE ContainerStart
  BY <1>2 DEF ContainerStart
<1>3. CASE Check
  BY <1>3, ModesAssumption DEF Check
<1>4. CASE WipeReplica
  BY <1>4 DEF WipeReplica
<1>5. CASE BaseBackup
  BY <1>5 DEF BaseBackup
<1>6. CASE RecoveryConf
  BY <1>6 DEF RecoveryConf
<1>7. CASE Restore
  BY <1>7 DEF Restore
<1>8. CASE InitDb
  BY <1>8 DEF InitDb
<1>9. CASE OverlayConf
  BY <1>9 DEF OverlayConf
<1>10. CASE LoadSetup
  BY <1>10 DEF LoadSetup
<1>11. CASE StartPostgres
  BY <1>11 DEF StartPostgres
<1>12. CASE Promote
  BY <1>12 DEF Promote
<1>13. CASE Touch
  BY <1>13 DEF Touch
<1>14. CASE Crash
  BY <1>14 DEF Crash
<1>15. CASE MasterLost \/ MasterBack
  BY <1>15 DEF MasterLost, MasterBack
<1> QED
  BY <1>1, <1>2, <1>3, <1>4, <1>5, <1>6, <1>7, <1>8, <1>9, <1>10, <1>11, <1>12, <1>13, <1>14, <1>15
  DEF Next, Script

LEMMA ScriptInvariant == Spec => [](TypeOK /\ ScriptInv)
BY TypeInit, TypeStep, ScriptInit, ScriptStep, PTL DEF Spec

\* No start of the container destroys a complete database, wherever the
\* earlier ones were cut off.
THEOREM DatabaseIsKept == Spec => DatabaseKept
<1>1. TypeOK /\ ScriptInv /\ [Next]_vars => [data = "complete" => data' = "complete"]_vars
  BY DEF TypeOK, ScriptInv, Initialising, vars, Next, Script, ContainerStart, Check, WipeReplica,
         BaseBackup, RecoveryConf, Restore, InitDb, OverlayConf, LoadSetup, StartPostgres,
         Promote, Touch, Crash, MasterLost, MasterBack, CopiedInPart, CopiedInFull
<1> QED
  BY <1>1, ScriptInvariant, PTL DEF Spec, DatabaseKept

\* A volume that has postgresql.conf but not all of the data stays so.
THEOREM StuckStaysStuck == Spec => StuckForGood
<1>1. [Next]_vars => [Stuck => Stuck']_vars
  BY DEF Stuck, vars, Next, Script, ContainerStart, Check, WipeReplica,
         BaseBackup, RecoveryConf, Restore, InitDb, OverlayConf, LoadSetup, StartPostgres,
         Promote, Touch, Crash, MasterLost, MasterBack, CopiedInPart, CopiedInFull
<1> QED
  BY <1>1, PTL DEF Spec, StuckForGood

\* The bounds are only used up, and what was given to the container stays.
LEMMA BudgetStep ==
  ASSUME TypeOK, [Next]_vars
  PROVE  /\ UNCHANGED given
         /\ (crashes' = crashes /\ ~Crash) \/ crashes' < crashes
         /\ broken' <= broken
<1> USE DEF TypeOK
<1>0. crashes' = crashes => ~Crash
  <2>1. crashes - 1 # crashes
    OBVIOUS
  <2> QED
    BY <2>1 DEF Crash
<1>1. CASE UNCHANGED <<given, budget>>
  BY <1>0, <1>1
<1>2. CASE BaseBackup \/ Restore
  <2>1. UNCHANGED <<given, crashes>> /\ (broken' = broken \/ broken' = broken - 1)
    BY <1>2 DEF BaseBackup, Restore, Breaks
  <2> QED
    BY <1>0, <2>1
<1>3. CASE Crash
  BY <1>3 DEF Crash
<1>4. CASE ~(BaseBackup \/ Restore \/ Crash)
  <2>1. UNCHANGED <<given, budget>>
    BY <1>4
    DEF vars, Next, Script, ContainerStart, Check, WipeReplica, RecoveryConf, InitDb, OverlayConf,
        LoadSetup, StartPostgres, Promote, Touch, MasterLost, MasterBack
  <2> QED
    BY <1>1, <2>1
<1> QED
  BY <1>2, <1>3, <1>4

LEMMA WholeStep == TypeOK /\ TypeOK' /\ ScriptInv /\ WholeInv /\ [Next]_vars => WholeInv'
<1> SUFFICES ASSUME TypeOK, TypeOK', ScriptInv, WholeInv, [Next]_vars PROVE WholeInv'
  OBVIOUS
<1>1. UNCHANGED given /\ crashes' <= crashes /\ broken' <= broken
  BY BudgetStep DEF TypeOK
<1>2. crashes' <= MaxCrashes /\ broken' <= MaxBroken
  BY <1>1, BudgetAssumption DEF TypeOK, WholeInv
<1>3. ASSUME NothingBreaks'
      PROVE  /\ data' # "partial"
             /\ conf' <=> data' = "complete"
             /\ pc' = "overlay" => data' = "complete"
  <2>1. NothingBreaks /\ crashes' = crashes /\ broken' = broken
    BY <1>1, <1>3, BudgetAssumption DEF TypeOK, WholeInv, NothingBreaks
  <2>2. ~Crash
    BY <2>1, BudgetStep DEF TypeOK
  <2>3. broken' # broken - 1
    BY <2>1 DEF TypeOK
  <2>4. ~Breaks
    BY <2>3 DEF Breaks
  <2> USE <2>1, <2>2, <2>4 DEF TypeOK, ScriptInv, Initialising, WholeInv
  <2>5. CASE BaseBackup \/ Restore
    <3>1. UNCHANGED volume \/ CopiedInFull
      BY <2>5 DEF BaseBackup, Restore, NothingBreaks
    <3>2. pc' # "overlay"
      BY <2>5 DEF BaseBackup, Restore
    <3> QED
      BY <3>1, <3>2 DEF CopiedInFull
  <2>6. CASE InitDb
    BY <2>6 DEF InitDb
  <2>7. CASE OverlayConf
    BY <2>7 DEF OverlayConf
  <2>8. CASE WipeReplica
    BY <2>8 DEF WipeReplica
  <2> QED
    BY <2>5, <2>6, <2>7, <2>8
    DEF vars, Next, Script, ContainerStart, Check, RecoveryConf, LoadSetup, StartPostgres,
        Promote, Touch, MasterLost, MasterBack
<1> QED
  BY <1>2, <1>3 DEF WholeInv

\* Initialisations that merely fail, however often, leave no volume that later
\* starts cannot make use of.
THEOREM StuckTakesABreak == Spec => []StuckOnlyAfterBreak
<1>1. Init => WholeInv
  BY BudgetAssumption DEF Init, WholeInv
<1>2. WholeInv => StuckOnlyAfterBreak
  BY DEF WholeInv, StuckOnlyAfterBreak, Stuck
<1> QED
  BY <1>1, <1>2, WholeStep, ScriptInvariant, PTL DEF Spec

LEMMA StandbyStep == TypeOK /\ TypeOK' /\ ScriptInv /\ StandbyInv /\ [Next]_vars => StandbyInv'
<1> SUFFICES ASSUME TypeOK, TypeOK', ScriptInv, StandbyInv, [Next]_vars PROVE StandbyInv'
  OBVIOUS
<1>1. UNCHANGED mode /\ crashes' <= crashes /\ (Crash => crashes' < crashes)
  BY BudgetStep DEF TypeOK
<1>2. crashes' <= MaxCrashes
  BY <1>1, BudgetAssumption DEF TypeOK, StandbyInv
<1>3. ASSUME crashes' = MaxCrashes, mode' = "slave", data' = "complete", ~recovery'
      PROVE  promoted' \/ pc' = "recoveryconf"
  <2>1. crashes = MaxCrashes /\ ~Crash /\ mode = "slave"
    BY <1>1, <1>3, BudgetAssumption DEF TypeOK, StandbyInv
  <2> USE <1>3, <2>1 DEF TypeOK, ScriptInv, StandbyInv
  <2>2. CASE RecoveryConf \/ Promote \/ WipeReplica
    BY <2>2 DEF RecoveryConf, Promote, WipeReplica
  <2>3. CASE BaseBackup
    BY <2>3 DEF BaseBackup
  <2> QED
    BY <2>2, <2>3
    DEF vars, Next, Script, ContainerStart, Check, Restore, InitDb, OverlayConf, LoadSetup,
        StartPostgres, Touch, MasterLost, MasterBack
<1> QED
  BY <1>2, <1>3 DEF StandbyInv

\* As long as its container does not die a slave that was not promoted is read-only.
THEOREM SlaveStaysReadOnly == Spec => []ReadOnlyUnlessCrashed
<1>1. Init => StandbyInv
  BY BudgetAssumption DEF Init, StandbyInv
<1>2. ScriptInv /\ StandbyInv => ReadOnlyUnlessCrashed
  BY DEF ScriptInv, StandbyInv, ReadOnlyUnlessCrashed, SlaveIsReadOnly
<1> QED
  BY <1>1, <1>2, StandbyStep, ScriptInvariant, PTL DEF Spec

\* A database that was created without setup.sql never gets it.
THEOREM MissedSetupStaysMissed == Spec => SetupMissedForGood
<1>1. TypeOK /\ ScriptInv /\ [Next]_vars => [SetupMissed => SetupMissed']_vars
  <2> SUFFICES ASSUME TypeOK, ScriptInv, Next, SetupMissed PROVE SetupMissed'
    BY DEF SetupMissed, vars
  <2>t. created' \in BOOLEAN /\ setup' \in BOOLEAN
    BY TypeStep DEF TypeOK
  <2> USE <2>t DEF TypeOK, ScriptInv, SetupMissed
  <2>1. CASE ContainerStart \/ Check \/ StartPostgres \/ Promote \/ Touch
    BY <2>1 DEF ContainerStart, Check, StartPostgres, Promote, Touch
  <2>2. CASE MasterLost \/ MasterBack
    BY <2>2 DEF MasterLost, MasterBack
  <2>3. CASE Crash
    <3>1. pc' = "down" /\ UNCHANGED volume
      BY <2>3 DEF Crash
    <3> QED
      BY <3>1
  <2>4. ~(\/ WipeReplica \/ BaseBackup \/ RecoveryConf \/ Restore \/ InitDb \/ OverlayConf
          \/ LoadSetup)
    BY DEF WipeReplica, BaseBackup, RecoveryConf, Restore, InitDb, OverlayConf, LoadSetup
  <2> QED
    BY <2>1, <2>2, <2>3, <2>4 DEF Next, Script
<1> QED
  BY <1>1, ScriptInvariant, PTL DEF Spec, SetupMissedForGood

\* No later start makes up for what an earlier one has left undone.
THEOREM StartsMakeUpForNothing == Spec => NothingIsMadeUpFor
  BY StuckStaysStuck, MissedSetupStaysMissed DEF NothingIsMadeUpFor

-----------------------------------------------------------------------------
(* The start script implements the pod that the failover relies on.        *)

LEMMA PodStep ==
  ASSUME TypeOK, TypeOK', ScriptInv, ScriptInv', [Next]_vars
  PROVE  [Pod!Container]_(Pod!vars)
<1> USE DEF TypeOK, ScriptInv, Initialising, CopiedInPart, CopiedInFull, podDisk, podUp, Pod!vars
<1>1. CASE UNCHANGED vars
  BY <1>1 DEF vars
<1>2. CASE ContainerStart \/ Check \/ WipeReplica \/ BaseBackup
  BY <1>2 DEF ContainerStart, Check, WipeReplica, BaseBackup
<1>3. CASE RecoveryConf
  BY <1>3 DEF RecoveryConf, Pod!Container, Pod!Fill
<1>4. CASE Restore
  BY <1>4 DEF Restore, Pod!Container, Pod!Fill
<1>5. CASE InitDb
  BY <1>5 DEF InitDb, Pod!Container, Pod!Fill
<1>6. CASE OverlayConf
  BY <1>6 DEF OverlayConf, Pod!Container, Pod!Start
<1>7. CASE LoadSetup
  BY <1>7 DEF LoadSetup, Pod!Container, Pod!Stop
<1>8. CASE StartPostgres
  BY <1>8 DEF StartPostgres, Pod!Container, Pod!Start, Pod!Die
<1>9. CASE Promote
  BY <1>9 DEF Promote, Pod!Container, Pod!Promote
<1>10. CASE Touch
  BY <1>10 DEF Touch, Pod!Container, Pod!Touch
<1>11. CASE Crash
  <2>1. podUp' = FALSE /\ UNCHANGED mode
    BY <1>11 DEF Crash
  <2>2. trigger' \in {FALSE, trigger}
    BY <1>11 DEF Crash
  <2>3. UNCHANGED podDisk \/ (mode = "slave" /\ podDisk = "empty" /\ podDisk' = "primary")
    BY <1>11 DEF Crash
  <2> QED
    BY <2>1, <2>2, <2>3 DEF Pod!Container, Pod!Die
<1>12. CASE MasterLost \/ MasterBack
  BY <1>12 DEF MasterLost, MasterBack
<1> QED
  BY <1>1, <1>2, <1>3, <1>4, <1>5, <1>6, <1>7, <1>8, <1>9, <1>10, <1>11, <1>12 DEF Next, Script

\* A running standby turns into a primary only when it is triggered; a slave
\* that was never promoted is writable only if its container died between
\* pg_basebackup and the copy of recovery.conf.
THEOREM ContainerIsPgPod == Spec => ImplementsPgPod
<1>1. Init => Pod!Init
  BY ModesAssumption DEF Init, Pod!Init, podDisk, podUp
<1> QED
  BY <1>1, PodStep, ScriptInvariant, PTL DEF Spec, ImplementsPgPod, Pod!ContainerSpec
=============================================================================
