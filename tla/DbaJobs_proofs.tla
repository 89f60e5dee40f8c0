---------------------------- MODULE DbaJobs_proofs ----------------------------
(***************************************************************************)
(* Theorems about DbaJobs, for any number of runs of either schedule, that *)
(* overlap in any way, and any number of faults.                           *)
(***************************************************************************)
EXTENDS DbaJobs, Vacuum_proofs

LEMMA KindFacts ==
  /\ \A r \in Runs : KindOf(r) \in Kinds
  /\ \A k \in Kinds : RunsOf(k) \subseteq Runs
  /\ Len(Commands("backup")) = 6 /\ Len(Commands("vac")) = 2
  /\ \A k \in Kinds : Volumes(k) \subseteq Objects
  BY DEF KindOf, Kinds, RunsOf, Commands, Volumes, Objects

\* The commands one by one.
LEMMA CommandFacts ==
  /\ Commands("backup")[1] = <<"delete", "job">> /\ Commands("backup")[2] = <<"delete", "pvc">>
  /\ Commands("backup")[3] = <<"delete", "pv">>  /\ Commands("backup")[4] = <<"create", "pv">>
  /\ Commands("backup")[5] = <<"create", "pvc">> /\ Commands("backup")[6] = <<"create", "job">>
  /\ Commands("vac")[1] = <<"delete", "job">>    /\ Commands("vac")[2] = <<"create", "job">>
  BY DEF Commands

\* Where the script of a kind creates an object.
CreatedAt(kind, object) ==
  IF kind = "vac" THEN 2 ELSE IF object = "pv" THEN 4 ELSE IF object = "pvc" THEN 5 ELSE 6

\* A step of a script: the run that takes it, and its command.
LEMMA ScriptStep ==
  ASSUME TypeOK, NEW r \in Runs, RunCommand(r)
  PROVE  /\ KindOf(r) \in Kinds
         /\ step' = [step EXCEPT ![r] = @ + 1]
         /\ step[r] \in 1..(IF KindOf(r) = "backup" THEN 6 ELSE 2)
         /\ Commands(KindOf(r))[step[r]][1] \in {"create", "delete"}
         /\ Commands(KindOf(r))[step[r]][2] \in {"job"} \cup Volumes(KindOf(r))
         /\ Commands(KindOf(r))[step[r]][1] = "delete"
              => step[r] < CreatedAt(KindOf(r), Commands(KindOf(r))[step[r]][2])
         /\ \A o \in {"job"} \cup Volumes(KindOf(r)) :
              step[r] = CreatedAt(KindOf(r), o) => Commands(KindOf(r))[step[r]] = <<"create", o>>
  <1>1. KindOf(r) \in Kinds
    BY KindFacts
  <1>2. step[r] \in 1..Len(Commands(KindOf(r))) /\ step' = [step EXCEPT ![r] = @ + 1]
    BY DEF RunCommand, Active
  <1>3. CASE KindOf(r) = "backup"
    <2>1. step[r] \in 1..6
      BY <1>2, <1>3, KindFacts
    <2>2. step[r] = 1 \/ step[r] = 2 \/ step[r] = 3 \/ step[r] = 4 \/ step[r] = 5 \/ step[r] = 6
      BY <2>1
    <2> QED
      BY <1>1, <1>2, <1>3, <2>1, <2>2, CommandFacts DEF CreatedAt, Volumes, Objects
  <1>4. CASE KindOf(r) = "vac"
    <2>1. step[r] \in 1..2
      BY <1>2, <1>4, KindFacts
    <2>2. step[r] = 1 \/ step[r] = 2
      BY <2>1
    <2> QED
      BY <1>1, <1>2, <1>4, <2>1, <2>2, CommandFacts DEF CreatedAt, Volumes, Objects
  <1> QED
    BY <1>1, <1>3, <1>4 DEF Kinds

-----------------------------------------------------------------------------
(* Types.                                                                  *)

\* Every step keeps the types.
LEMMA TypeStep == TypeOK /\ [Next]_vars => TypeOK'
  <1> SUFFICES ASSUME TypeOK, [Next]_vars PROVE TypeOK'
    OBVIOUS
  <1> USE BoundsAssumption
  <1>k. \A r \in Runs : KindOf(r) \in Kinds
    BY KindFacts
  <1>1. ASSUME NEW r \in Runs, Due(r)
        PROVE  TypeOK'
    BY <1>1, <1>k DEF TypeOK, Due, data
  <1>2. ASSUME NEW r \in Runs, RunCommand(r)
        PROVE  TypeOK'
    <2> DEFINE kind == KindOf(r)
               command == Commands(kind)[step[r]]
    <2>1. /\ kind \in Kinds /\ step' \in [Runs -> 0..7]
          /\ command[1] \in {"create", "delete"} /\ command[2] \in {"job"} \cup Volumes(kind)
      BY <1>2, ScriptStep DEF TypeOK
    <2>2. /\ exists' \in [Kinds -> SUBSET Objects]
          /\ pod' \in [Kinds -> {"none", "waiting", "new", "old", "succeeded"}]
          /\ \A k \in Kinds : /\ exists'[k] \subseteq {"job"} \cup Volumes(k)
                              /\ pod'[k] # "none" => "job" \in exists'[k]
      <3>1. CASE UNCHANGED <<exists, pod>>
        BY <3>1 DEF TypeOK
      <3>2. CASE Delete(kind, command[2])
        BY <2>1, <3>2 DEF TypeOK, Delete
      <3>3. CASE Create(kind, command[2])
        BY <2>1, <3>3, KindFacts DEF TypeOK, Create, Objects
      <3> QED
        BY <1>2, <3>1, <3>2, <3>3 DEF RunCommand
    <2>3. faults' \in 0..MaxFaults /\ clean' \in [Kinds -> BOOLEAN]
      <3>1. \/ UNCHANGED <<faults, clean>>
            \/ Fault /\ clean' = [clean EXCEPT ![kind] = FALSE]
        BY <1>2 DEF RunCommand
      <3>2. faults' \in 0..MaxFaults
        BY <3>1 DEF TypeOK, Fault
      <3>3. clean' = clean \/ clean' = [clean EXCEPT ![kind] = FALSE]
        BY <3>1
      <3>4. clean' \in [Kinds -> BOOLEAN]
        BY <3>3, Zenon DEF TypeOK
      <3> QED
        BY <3>2, <3>4
    <2>4. outcome' \in [Kinds -> {"none", "worked", "failed"}]
      <3>1. PICK x \in {"none", outcome[kind]} : outcome' = [outcome EXCEPT ![kind] = x]
        BY <1>2 DEF RunCommand
      <3>2. outcome[kind] \in {"none", "worked", "failed"}
        BY <2>1 DEF TypeOK
      <3> QED
        BY <3>1, <3>2 DEF TypeOK
    <2>5. UNCHANGED <<asked, dir, kept, parms, overlapped>>
      BY <1>2 DEF RunCommand, data
    <2> QED
      BY <2>1, <2>2, <2>3, <2>4, <2>5 DEF TypeOK
  <1>3. ASSUME NEW runs, BreakOff(runs), Fault \/ UNCHANGED faults
        PROVE  TypeOK'
    <2>1. step' \in [Runs -> 0..7]
      <3>1. \A r \in Runs : Len(Commands(KindOf(r))) + 1 \in 0..7
        <4> SUFFICES ASSUME NEW r \in Runs PROVE Len(Commands(KindOf(r))) + 1 \in 0..7
          OBVIOUS
        <4>1. KindOf(r) = "backup" \/ KindOf(r) = "vac"
          BY <1>k DEF Kinds
        <4>2. Len(Commands("backup")) = 6 /\ Len(Commands("vac")) = 2
          BY KindFacts
        <4>3. PICK n \in {6, 2} : Len(Commands(KindOf(r))) = n
          BY <4>1, <4>2, Zenon
        <4>4. n + 1 \in 0..7
          OBVIOUS
        <4> QED
          BY <4>3, <4>4, Zenon
      <3> QED
        BY <1>3, <3>1 DEF TypeOK, BreakOff
    <2>2. clean' \in [Kinds -> BOOLEAN]
      BY <1>3 DEF TypeOK, BreakOff
    <2>3. faults' \in 0..MaxFaults
      BY <1>3 DEF TypeOK, Fault
    <2>4. UNCHANGED <<asked, exists, pod, dir, kept, parms, outcome, overlapped>>
      BY <1>3 DEF BreakOff, data
    <2> QED
      BY <2>1, <2>2, <2>3, <2>4 DEF TypeOK
  <1>4. ASSUME NEW k \in Kinds, StartPod(k)
        PROVE  TypeOK'
    <2>1. dir' \in {"none", "empty", "partial", "complete"} /\ kept' \in Nat
      BY <1>4 DEF TypeOK, StartPod, MakeDirectory
    <2>2. parms' \in Seq(Parms) /\ Len(parms') < 2
      <3>1. PodParms(asked) \in Parms
        BY PodParmsType DEF TypeOK
      <3>2. <<PodParms(asked)>> \in Seq(Parms) /\ Len(<<PodParms(asked)>>) = 1
        BY <3>1
      <3>3. parms' = parms \/ parms' = <<PodParms(asked)>>
        BY <1>4 DEF StartPod
      <3>4. CASE parms' = parms
        BY <3>4, Zenon DEF TypeOK
      <3>5. CASE parms' = <<PodParms(asked)>>
        <4>1. <<PodParms(asked)>> \in Seq(Parms) /\ Len(<<PodParms(asked)>>) < 2
          BY <3>2
        <4> QED
          BY <4>1, <3>5, Zenon
      <3> QED
        BY <3>3, <3>4, <3>5
    <2> QED
      BY <1>4, <2>1, <2>2 DEF TypeOK, StartPod
  <1>5. ASSUME NEW k \in Kinds, JobWorks(k)
        PROVE  TypeOK'
    BY <1>5 DEF TypeOK, JobWorks, Done, Working
  <1>6. ASSUME NEW k \in Kinds, JobFails(k)
        PROVE  TypeOK'
    <2>1. faults' \in 0..MaxFaults
      BY <1>6 DEF TypeOK, JobFails, Fault
    <2>2. dir' \in {"none", "empty", "partial", "complete"}
      BY <1>6 DEF TypeOK, JobFails, Breaks
    <2>3. outcome' \in [Kinds -> {"none", "worked", "failed"}]
      BY <1>6 DEF TypeOK, JobFails, Failed
    <2> QED
      BY <1>6, <2>1, <2>2, <2>3 DEF TypeOK, JobFails, Done, Working
  <1>7. ASSUME NEW k \in Kinds, PodDies(k)
        PROVE  TypeOK'
    <2>1. dir' \in {"none", "empty", "partial", "complete"}
      BY <1>7 DEF TypeOK, PodDies, Breaks
    <2> QED
      BY <1>7, <2>1 DEF TypeOK, PodDies, Fault, Working
  <1>8. CASE UNCHANGED vars
    BY <1>8 DEF TypeOK, vars
  <1> QED
    BY <1>1, <1>2, <1>3, <1>4, <1>5, <1>6, <1>7, <1>8 DEF Next, Pod, ServerDies, Panics

\* Jobs, claims and volumes are of the kind that has them, no pod is without
\* its job, and what a vacuum program has read is what GetParms returns.
THEOREM TypeCorrect == Spec => []TypeOK
  <1>1. Init => TypeOK
    BY SettingsAssumption, BoundsAssumption DEF Init, TypeOK
  <1> QED
    BY <1>1, TypeStep, PTL DEF Spec

-----------------------------------------------------------------------------
(* What overlapping runs leave behind.                                     *)

\* Unless a script failed, what some run has created is there, or there is a
\* run that has yet to create it.
StillToCome(k, o) == \E r \in RunsOf(k) : Active(r) /\ step[r] <= CreatedAt(k, o)
CreatedIfDue ==
  \A k \in Kinds : \A o \in {"job"} \cup Volumes(k) :
    clean[k] /\ (\E r \in RunsOf(k) : step[r] > CreatedAt(k, o))
      => o \in exists[k] \/ StillToCome(k, o)

\* A run that is at a command before the end of its script is active.
LEMMA ActiveAt ==
  /\ \A k \in Kinds, o \in Objects : CreatedAt(k, o) \in 1..Len(Commands(k))
  /\ \A r \in Runs : KindOf(r) \in Kinds /\ Len(Commands(KindOf(r))) \in {2, 6}
  <1>1. \A k \in Kinds : Len(Commands(k)) = (IF k = "vac" THEN 2 ELSE 6)
    <2> SUFFICES ASSUME NEW k \in Kinds
                 PROVE  Len(Commands(k)) = (IF k = "vac" THEN 2 ELSE 6)
      OBVIOUS
    <2>1. CASE k = "backup"
      BY <2>1, KindFacts, Zenon
    <2>2. CASE k = "vac"
      BY <2>2, KindFacts, Zenon
    <2> QED
      BY <2>1, <2>2 DEF Kinds
  <1>2. \A k \in Kinds, o \in Objects : CreatedAt(k, o) \in 1..(IF k = "vac" THEN 2 ELSE 6)
    BY DEF CreatedAt, Kinds, Objects
  <1>3. \A r \in Runs : Len(Commands(KindOf(r))) = 2 \/ Len(Commands(KindOf(r))) = 6
    BY <1>1, KindFacts
  <1> QED
    BY <1>1, <1>2, <1>3, KindFacts

\* A step of a script keeps it: it is the run's own next command that
\* creates what the run has yet to create, and a run has yet to create what
\* it deletes.
LEMMA ScriptKeepsDue ==
  ASSUME TypeOK, TypeOK', CreatedIfDue, NEW r \in Runs, RunCommand(r)
  PROVE  CreatedIfDue'
  <1> DEFINE kind == KindOf(r)
             command == Commands(kind)[step[r]]
  <1>1. /\ kind \in Kinds /\ step' = [step EXCEPT ![r] = @ + 1] /\ step \in [Runs -> 0..7]
        /\ step[r] \in 1..Len(Commands(kind))
        /\ exists \in [Kinds -> SUBSET Objects] /\ clean \in [Kinds -> BOOLEAN]
    BY ScriptStep DEF TypeOK, RunCommand, Active
  <1>2. SUFFICES ASSUME NEW k \in Kinds, NEW o \in {"job"} \cup Volumes(k), clean'[k],
                        NEW s \in RunsOf(k), step'[s] > CreatedAt(k, o)
                 PROVE  o \in exists'[k] \/ StillToCome(k, o)'
    BY DEF CreatedIfDue
  <1>3. o \in Objects /\ CreatedAt(k, o) \in 1..Len(Commands(k)) /\ CreatedAt(k, o) \in Nat
    <2>1. o \in Objects
      BY KindFacts DEF Objects
    <2> QED
      BY <2>1, ActiveAt
  <1>4. \A q \in RunsOf(k) : q \in Runs /\ KindOf(q) = k /\ step[q] \in Nat
    BY <1>1 DEF RunsOf
  <1>5. ASSUME NEW q \in RunsOf(k), step'[q] <= CreatedAt(k, o), step'[q] > 0
        PROVE  StillToCome(k, o)'
    <2>1. step'[q] \in Nat /\ KindOf(q) = k
      BY <1>1, <1>4
    <2>2. step'[q] \in 1..Len(Commands(KindOf(q)))
      BY <1>3, <1>5, <2>1, ActiveAt
    <2> QED
      BY <1>5, <2>2 DEF StillToCome, Active
  <1>6. CASE k # kind
    <2>1. exists'[k] = exists[k] /\ clean'[k] = clean[k]
      BY <1>1, <1>6 DEF RunCommand, Delete, Create
    <2>2. \A q \in RunsOf(k) : step'[q] = step[q]
      BY <1>1, <1>4, <1>6
    <2>3. o \in exists[k] \/ StillToCome(k, o)
      BY <1>2, <2>1, <2>2 DEF CreatedIfDue
    <2> QED
      BY <1>5, <2>1, <2>2, <2>3 DEF StillToCome, Active
  <1>7. CASE k = kind
    <2>1. clean[k] /\ (Delete(kind, command[2]) \/ Create(kind, command[2]))
          /\ (command[1] = "delete" => Delete(kind, command[2]))
          /\ (command[1] # "delete" => Create(kind, command[2]))
      BY <1>1, <1>2, <1>7 DEF RunCommand
    <2>2. r \in RunsOf(k) /\ step'[r] = step[r] + 1 /\ step'[r] > 0
      BY <1>1, <1>7 DEF RunsOf
    <2>3. CASE step[r] = CreatedAt(k, o)
      <3>1. command = <<"create", o>>
        BY <1>2, <1>7, <2>3, ScriptStep
      <3> QED
        BY <1>1, <1>7, <2>1, <3>1 DEF Create
    <2>4. CASE step[r] < CreatedAt(k, o)
      <3>1. step'[r] <= CreatedAt(k, o)
        BY <1>1, <1>3, <2>2, <2>4
      <3> QED
        BY <1>5, <2>2, <3>1
    <2>5. CASE step[r] > CreatedAt(k, o)
      <3>1. ~(command[1] = "delete" /\ command[2] = o)
        BY <1>1, <1>3, <1>7, <2>5, ScriptStep
      <3>2. o \in exists[k] => o \in exists'[k]
        BY <1>1, <1>7, <2>1, <3>1 DEF Delete, Create
      <3>3. CASE o \in exists[k]
        BY <3>2, <3>3
      <3>4. CASE StillToCome(k, o)
        <4>1. PICK q \in RunsOf(k) : step[q] > 0 /\ step[q] <= CreatedAt(k, o)
          BY <1>4, <3>4, ActiveAt DEF StillToCome, Active
        <4>2. q # r
          BY <1>1, <1>3, <2>5, <4>1
        <4>3. step'[q] = step[q]
          BY <1>1, <1>4, <4>2
        <4> QED
          BY <1>5, <4>1, <4>3
      <3> QED
        BY <2>1, <2>2, <2>5, <3>3, <3>4 DEF CreatedIfDue
    <2> QED
      BY <1>1, <1>3, <2>3, <2>4, <2>5
  <1> QED
    BY <1>6, <1>7

\* A run that becomes due has all of it before itself; a script that breaks
\* off is one that failed; the pods leave scripts and objects alone.
LEMMA DueStep == TypeOK /\ TypeOK' /\ CreatedIfDue /\ [Next]_vars => CreatedIfDue'
  <1> SUFFICES ASSUME TypeOK, TypeOK', CreatedIfDue, [Next]_vars PROVE CreatedIfDue'
    OBVIOUS
  <1>k. \A r \in Runs : KindOf(r) \in Kinds
    BY KindFacts
  <1>r. \A k \in Kinds : \A q \in RunsOf(k) : q \in Runs /\ KindOf(q) = k
    BY DEF RunsOf
  <1>1. ASSUME NEW r \in Runs, Due(r)
        PROVE  CreatedIfDue'
    <2>1. /\ KindOf(r) \in Kinds /\ step[r] = 0 /\ step' = [step EXCEPT ![r] = 1]
          /\ exists' = exists /\ step \in [Runs -> 0..7]
          /\ clean' = [clean EXCEPT ![KindOf(r)] = @ \/ ~Busy(KindOf(r))]
      BY <1>1, <1>k DEF Due, TypeOK
    <2> SUFFICES ASSUME NEW k \in Kinds, NEW o \in {"job"} \cup Volumes(k), clean'[k],
                        NEW s \in RunsOf(k), step'[s] > CreatedAt(k, o)
                 PROVE  o \in exists'[k] \/ StillToCome(k, o)'
      BY DEF CreatedIfDue
    <2>2. CreatedAt(k, o) \in 1..Len(Commands(k))
      BY ActiveAt, KindFacts DEF Objects
    <2>3. CASE KindOf(r) = k
      <3>1. r \in RunsOf(k) /\ step'[r] = 1
        BY <2>1, <2>3 DEF RunsOf
      <3>2. step'[r] \in 1..Len(Commands(KindOf(r))) /\ step'[r] <= CreatedAt(k, o)
        BY <2>2, <2>3, <3>1, ActiveAt
      <3> QED
        BY <3>1, <3>2 DEF StillToCome, Active
    <2>4. CASE KindOf(r) # k
      <3>1. clean'[k] = clean[k] /\ \A q \in RunsOf(k) : step'[q] = step[q]
        BY <1>r, <2>1, <2>4 DEF TypeOK
      <3>2. o \in exists[k] \/ StillToCome(k, o)
        BY <3>1 DEF CreatedIfDue
      <3> QED
        BY <2>1, <3>1, <3>2 DEF StillToCome, Active
    <2> QED
      BY <2>3, <2>4
  <1>2. ASSUME NEW r \in Runs, RunCommand(r)
        PROVE  CreatedIfDue'
    BY <1>2, ScriptKeepsDue
  <1>3. ASSUME NEW runs, BreakOff(runs)
        PROVE  CreatedIfDue'
    <2> SUFFICES ASSUME NEW k \in Kinds, NEW o \in {"job"} \cup Volumes(k), clean'[k],
                        NEW s \in RunsOf(k), step'[s] > CreatedAt(k, o)
                 PROVE  o \in exists'[k] \/ StillToCome(k, o)'
      BY DEF CreatedIfDue
    <2>1. clean[k] /\ runs \cap RunsOf(k) = {} /\ exists' = exists
      BY <1>3 DEF BreakOff
    <2>2. \A q \in RunsOf(k) : step'[q] = step[q]
      BY <1>3, <1>r, <2>1 DEF BreakOff
    <2>3. o \in exists[k] \/ StillToCome(k, o)
      BY <2>1, <2>2 DEF CreatedIfDue
    <2> QED
      BY <2>1, <2>2, <2>3 DEF StillToCome, Active
  <1>4. ASSUME UNCHANGED <<step, exists, clean>>
        PROVE  CreatedIfDue'
    BY <1>4 DEF CreatedIfDue, StillToCome, Active
  <1>5. ASSUME NEW k \in Kinds, Pod(k) \/ PodDies(k)
        PROVE  UNCHANGED <<step, exists, clean>>
    BY <1>5 DEF Pod, PodDies, StartPod, JobWorks, JobFails
  <1>6. UNCHANGED vars => UNCHANGED <<step, exists, clean>>
    BY DEF vars
  <1> QED
    BY <1>1, <1>2, <1>3, <1>4, <1>5, <1>6 DEF Next, ServerDies, Panics

\* When the last of the overlapping runs has ended, the job and its volumes
\* are there, unless a script failed since one last had them for itself.
THEOREM JobIsThereAlways == Spec => []JobIsThere
  <1>1. Init => CreatedIfDue
    <2> SUFFICES ASSUME Init PROVE CreatedIfDue
      OBVIOUS
    <2>1. \A k \in Kinds : \A r \in RunsOf(k) : step[r] = 0
      BY DEF Init, RunsOf
    <2>2. \A k \in Kinds : \A o \in {"job"} \cup Volumes(k) : CreatedAt(k, o) >= 1
      BY DEF CreatedAt
    <2> QED
      BY <2>1, <2>2 DEF CreatedIfDue, CreatedAt
  <1>2. TypeOK /\ CreatedIfDue => JobIsThere
    <2> SUFFICES ASSUME TypeOK, CreatedIfDue, NEW k \in Kinds, clean[k], ~Busy(k),
                        NEW r \in RunsOf(k), Finished(r)
                 PROVE  exists[k] = {"job"} \cup Volumes(k)
      BY DEF JobIsThere
    <2>1. r \in Runs /\ KindOf(r) = k
      BY DEF RunsOf
    <2>2. ASSUME NEW o \in {"job"} \cup Volumes(k)
          PROVE  o \in exists[k]
      <3>1. CreatedAt(k, o) \in 1..Len(Commands(k)) /\ Len(Commands(k)) \in {2, 6}
        BY <2>1, ActiveAt, KindFacts DEF Objects
      <3>2. step[r] > Len(Commands(k)) /\ step[r] \in Nat
        BY <2>1 DEF Finished, TypeOK
      <3>3. step[r] > CreatedAt(k, o)
        BY <3>1, <3>2
      <3>4. ~StillToCome(k, o)
        BY DEF StillToCome, Busy
      <3> QED
        BY <3>3, <3>4 DEF CreatedIfDue
    <2>3. exists[k] \subseteq {"job"} \cup Volumes(k)
      BY DEF TypeOK
    <2> QED
      BY <2>2, <2>3
  <1> QED
    BY <1>1, <1>2, DueStep, TypeCorrect, PTL DEF Spec

-----------------------------------------------------------------------------
(* What a job comes to.                                                    *)

\* No pod of any backup that dies, and no run, costs a complete backup, and
\* one that is reported to have worked is there.
THEOREM NoBackupLost == Spec => BackupKept
  <1>1. TypeOK /\ [Next]_vars =>
          /\ CompleteBackups' >= CompleteBackups
          /\ (outcome["backup"] # "worked" /\ outcome'["backup"] = "worked")
               => CompleteBackups' > CompleteBackups
    <2> DEFINE Kept == /\ CompleteBackups' >= CompleteBackups
                       /\ (outcome["backup"] # "worked" /\ outcome'["backup"] = "worked")
                            => CompleteBackups' > CompleteBackups
    <2> SUFFICES ASSUME TypeOK, [Next]_vars PROVE Kept
      OBVIOUS
    <2>1. /\ kept \in Nat /\ outcome \in [Kinds -> {"none", "worked", "failed"}]
          /\ "backup" \in Kinds /\ \A r \in Runs : KindOf(r) \in Kinds
      BY KindFacts DEF TypeOK, Kinds
    <2>2. ASSUME UNCHANGED <<dir, kept>>, outcome'["backup"] \in {outcome["backup"], "none", "failed"}
          PROVE  Kept
      BY <2>1, <2>2 DEF CompleteBackups
    <2>3. ASSUME NEW r \in Runs, Due(r) \/ RunCommand(r)
          PROVE  Kept
      <3>1. UNCHANGED <<dir, kept>>
        BY <2>3 DEF Due, RunCommand, data
      <3>2. PICK x \in {"none", outcome[KindOf(r)]} : outcome' = [outcome EXCEPT ![KindOf(r)] = x]
        BY <2>3 DEF Due, RunCommand
      <3>3. outcome'["backup"] \in {outcome["backup"], "none", "failed"}
        BY <2>1, <3>2
      <3> QED
        BY <2>2, <3>1, <3>3
    <2>4. ASSUME NEW runs, BreakOff(runs)
          PROVE  Kept
      BY <2>2, <2>4 DEF BreakOff, data
    <2>5. ASSUME NEW k \in Kinds, StartPod(k)
          PROVE  Kept
      <3>1. outcome' = outcome /\ (UNCHANGED <<dir, kept>> \/ MakeDirectory)
        BY <2>5 DEF StartPod
      <3>2. CASE UNCHANGED <<dir, kept>>
        BY <2>2, <3>1, <3>2
      <3>3. CASE MakeDirectory
        BY <2>1, <3>1, <3>3 DEF MakeDirectory, CompleteBackups
      <3> QED
        BY <3>1, <3>2, <3>3
    <2>6. ASSUME NEW k \in Kinds, JobWorks(k)
          PROVE  Kept
      <3>1. kept' = kept /\ dir' = (IF k = "backup" THEN "complete" ELSE dir)
        BY <2>6 DEF JobWorks
      <3>2. CASE k = "backup"
        <4>1. dir = "empty"
          BY <2>6, <3>2 DEF JobWorks, CanWork
        <4> QED
          BY <2>1, <3>1, <3>2, <4>1 DEF CompleteBackups
      <3>3. CASE k # "backup"
        <4>1. outcome'["backup"] = outcome["backup"]
          BY <2>1, <2>6, <3>3 DEF JobWorks
        <4> QED
          BY <2>2, <3>1, <3>3, <4>1
      <3> QED
        BY <3>2, <3>3
    <2>7. ASSUME NEW k \in Kinds, JobFails(k) \/ PodDies(k)
          PROVE  Kept
      <3>1. kept' = kept /\ Breaks(k)
        BY <2>7 DEF JobFails, PodDies
      <3>2. (dir = "complete" <=> dir' = "complete")
        BY <3>1 DEF Breaks
      <3>3. outcome'["backup"] \in {outcome["backup"], "none", "failed"}
        BY <2>1, <2>7 DEF JobFails, PodDies, Failed
      <3> QED
        BY <2>1, <3>1, <3>2, <3>3 DEF CompleteBackups
    <2>8. CASE UNCHANGED vars
      BY <2>2, <2>8 DEF vars
    <2> QED
      BY <2>3, <2>4, <2>5, <2>6, <2>7, <2>8 DEF Next, Pod, ServerDies, Panics
  <1> QED
    BY <1>1, TypeCorrect, PTL DEF Spec, BackupKept

\* A job that failed has no pod that waits or works.
FailedIsOver == \A k \in Kinds : outcome[k] = "failed" => pod[k] \in {"none", "succeeded"}

LEMMA FailedStep == TypeOK /\ FailedIsOver /\ [Next]_vars => FailedIsOver'
  <1> SUFFICES ASSUME TypeOK, FailedIsOver, [Next]_vars PROVE FailedIsOver'
    OBVIOUS
  <1>t. /\ outcome \in [Kinds -> {"none", "worked", "failed"}]
        /\ pod \in [Kinds -> {"none", "waiting", "new", "old", "succeeded"}]
        /\ \A r \in Runs : KindOf(r) \in Kinds
    BY KindFacts DEF TypeOK
  <1>1. ASSUME NEW r \in Runs, Due(r)
        PROVE  FailedIsOver'
    BY <1>1, <1>t DEF Due, FailedIsOver
  <1>2. ASSUME NEW r \in Runs, RunCommand(r)
        PROVE  FailedIsOver'
    <2> DEFINE kind == KindOf(r)
    <2>1. PICK x \in {pod[kind], "none", "waiting"} : pod' = [pod EXCEPT ![kind] = x]
      <3>1. pod = [pod EXCEPT ![kind] = pod[kind]]
        BY <1>t
      <3> QED
        BY <1>2, <3>1 DEF RunCommand, Delete, Create
    <2>2. outcome' = [outcome EXCEPT ![kind] =
                        IF @ = "failed" /\ pod'[kind] = "waiting" THEN "none" ELSE @]
      BY <1>2 DEF RunCommand
    <2> QED
      BY <1>t, <2>1, <2>2 DEF FailedIsOver
  <1>3. ASSUME UNCHANGED <<pod, outcome>>
        PROVE  FailedIsOver'
    BY <1>3 DEF FailedIsOver
  <1>4. ASSUME NEW k \in Kinds, Pod(k) \/ PodDies(k)
        PROVE  FailedIsOver'
    <2>1. PICK x \in {"new", "succeeded", "waiting"} : pod' = [pod EXCEPT ![k] = x]
      BY <1>4 DEF Pod, StartPod, JobWorks, JobFails, PodDies, Done
    <2>2. PICK y \in {outcome[k], "worked", "failed"} :
            /\ outcome' = [outcome EXCEPT ![k] = y]
            /\ y = "failed" => outcome[k] = "failed" \/ x = "succeeded"
      <3>1. outcome = [outcome EXCEPT ![k] = outcome[k]]
        BY <1>t
      <3>2. CASE JobFails(k)
        <4>1. x = "succeeded"
          BY <1>t, <2>1, <3>2 DEF JobFails, Done
        <4> QED
          BY <3>1, <3>2, <4>1 DEF JobFails, Failed
      <3> QED
        BY <1>4, <3>1, <3>2 DEF Pod, StartPod, JobWorks, PodDies
    <2>3. pod[k] \notin {"none", "succeeded"}
      BY <1>4 DEF Pod, StartPod, JobWorks, JobFails, PodDies, Working
    <2> QED
      BY <1>t, <2>1, <2>2, <2>3 DEF FailedIsOver
  <1>5. \A runs : BreakOff(runs) => UNCHANGED <<pod, outcome>>
    BY DEF BreakOff
  <1>6. UNCHANGED vars => UNCHANGED <<pod, outcome>>
    BY DEF vars
  <1> QED
    BY <1>1, <1>2, <1>3, <1>4, <1>5, <1>6 DEF Next, ServerDies, Panics

\* What failed was reported as done, so nothing makes it work before the next
\* run is due.
THEOREM FailureIsFinal == Spec => FailedForGood
  <1>1. Init => FailedIsOver
    BY DEF Init, FailedIsOver
  <1>2. TypeOK /\ FailedIsOver /\ [Next]_vars
          => \A k \in Kinds : outcome[k] = "failed" => outcome'[k] # "worked"
    <2> SUFFICES ASSUME TypeOK, FailedIsOver, [Next]_vars, NEW k \in Kinds, outcome[k] = "failed"
                 PROVE  outcome'[k] # "worked"
      OBVIOUS
    <2>t. outcome \in [Kinds -> {"none", "worked", "failed"}] /\ ~Working(k)
      BY DEF TypeOK, FailedIsOver, Working
    <2>1. ASSUME NEW r \in Runs, Due(r) \/ RunCommand(r)
          PROVE  outcome'[k] # "worked"
      <3>1. PICK x \in {"none", outcome[KindOf(r)]} : outcome' = [outcome EXCEPT ![KindOf(r)] = x]
        BY <2>1 DEF Due, RunCommand
      <3> QED
        BY <2>t, <3>1
    <2>2. ASSUME NEW j \in Kinds, JobWorks(j) \/ JobFails(j)
          PROVE  outcome'[k] # "worked"
      <3>1. j # k
        BY <2>2, <2>t DEF JobWorks, JobFails
      <3> QED
        BY <2>2, <2>t, <3>1 DEF JobWorks, JobFails, Failed
    <2>3. ASSUME UNCHANGED outcome
          PROVE  outcome'[k] # "worked"
      BY <2>3
    <2> QED
      BY <2>1, <2>2, <2>3 DEF Next, Pod, StartPod, PodDies, ServerDies, Panics, BreakOff, vars
  <1> QED
    BY <1>1, <1>2, FailedStep, TypeCorrect, PTL DEF Spec, FailedForGood

-----------------------------------------------------------------------------
(* Runs that do not overlap.                                               *)

\* One script runs at a time, and between the command that deletes the job
\* and the one that creates it there is none.
OneAtATime ==
  \A k \in Kinds : k \notin overlapped =>
    \A r, s \in RunsOf(k) : Active(r) /\ Active(s) => r = s
NoJobMeanwhile ==
  \A k \in Kinds : \A r \in RunsOf(k) :
    k \notin overlapped /\ clean[k] /\ Active(r) /\ step[r] >= 2 => "job" \notin exists[k]

LEMMA AloneStep ==
  TypeOK /\ TypeOK' /\ OneAtATime /\ NoJobMeanwhile /\ [Next]_vars
    => OneAtATime' /\ NoJobMeanwhile'
  <1> SUFFICES ASSUME TypeOK, TypeOK', OneAtATime, NoJobMeanwhile, [Next]_vars
               PROVE  OneAtATime' /\ NoJobMeanwhile'
    OBVIOUS
  <1>t. /\ step \in [Runs -> 0..7] /\ exists \in [Kinds -> SUBSET Objects]
        /\ clean \in [Kinds -> BOOLEAN] /\ \A r \in Runs : KindOf(r) \in Kinds
        /\ \A k \in Kinds : \A r \in RunsOf(k) : r \in Runs /\ KindOf(r) = k
        /\ \A r \in Runs : r \in RunsOf(KindOf(r))
        /\ \A r \in Runs : Len(Commands(KindOf(r))) \in {2, 6}
    BY KindFacts, ActiveAt DEF TypeOK, RunsOf
  <1>1. ASSUME NEW r \in Runs, Due(r)
        PROVE  OneAtATime' /\ NoJobMeanwhile'
    <2> DEFINE kind == KindOf(r)
    <2>1. /\ step' = [step EXCEPT ![r] = 1] /\ exists' = exists
          /\ clean' = [clean EXCEPT ![kind] = @ \/ ~Busy(kind)]
          /\ Busy(kind) => kind \in overlapped'
          /\ \A k \in Kinds : k \notin overlapped' => k \notin overlapped
      BY <1>1 DEF Due
    <2>2. \A s \in Runs : s # r => (Active(s)' <=> Active(s)) /\ step'[s] = step[s]
      BY <1>t, <2>1 DEF Active
    <2>3. step'[r] = 1
      BY <1>t, <2>1
    <2>4. ASSUME NEW k \in Kinds, k \notin overlapped', NEW s \in RunsOf(k), s # r, Active(s)'
          PROVE  Active(s) /\ k # kind
      BY <1>t, <2>1, <2>2, <2>4 DEF Busy
    <2>5. OneAtATime'
      <3> SUFFICES ASSUME NEW k \in Kinds, k \notin overlapped', NEW s \in RunsOf(k),
                          NEW q \in RunsOf(k), Active(s)', Active(q)'
                   PROVE  s = q
        BY DEF OneAtATime
      <3>1. CASE s = r \/ q = r
        BY <1>t, <2>4, <3>1
      <3>2. CASE s # r /\ q # r
        BY <2>1, <2>4, <3>2 DEF OneAtATime
      <3> QED
        BY <3>1, <3>2
    <2>6. NoJobMeanwhile'
      <3> SUFFICES ASSUME NEW k \in Kinds, k \notin overlapped', NEW s \in RunsOf(k),
                          Active(s)', step'[s] >= 2, clean'[k]
                   PROVE  "job" \notin exists'[k]
        BY DEF NoJobMeanwhile
      <3>1. s # r
        BY <2>3
      <3>2. Active(s) /\ k # kind /\ step'[s] = step[s]
        BY <1>t, <2>2, <2>4, <3>1
      <3>3. clean[k]
        BY <1>t, <2>1, <3>2
      <3> QED
        BY <2>1, <3>2, <3>3 DEF NoJobMeanwhile
    <2> QED
      BY <2>5, <2>6
  <1>2. ASSUME NEW r \in Runs, RunCommand(r)
        PROVE  OneAtATime' /\ NoJobMeanwhile'
    <2> DEFINE kind == KindOf(r)
               command == Commands(kind)[step[r]]
    <2>1. /\ step' = [step EXCEPT ![r] = @ + 1] /\ overlapped' = overlapped /\ Active(r)
      BY <1>2 DEF RunCommand
    <2>2. \A s \in Runs : s # r => (Active(s)' <=> Active(s)) /\ step'[s] = step[s]
      BY <1>t, <2>1 DEF Active
    <2>3. \A s \in Runs : Active(s)' => Active(s)
      BY <2>1, <2>2
    <2>4. OneAtATime'
      BY <1>t, <2>1, <2>3 DEF OneAtATime
    <2>5. NoJobMeanwhile'
      <3> SUFFICES ASSUME NEW k \in Kinds, k \notin overlapped', NEW s \in RunsOf(k),
                          Active(s)', step'[s] >= 2, clean'[k]
                   PROVE  "job" \notin exists'[k]
        BY DEF NoJobMeanwhile
      <3>1. Active(s) /\ s \in Runs /\ KindOf(s) = k
        BY <1>t, <2>3
      <3>2. CASE k # kind
        <4>1. s # r /\ exists'[k] = exists[k] /\ clean[k]
          BY <1>2, <1>t, <3>1, <3>2 DEF RunCommand, Delete, Create
        <4> QED
          BY <2>1, <2>2, <3>1, <4>1 DEF NoJobMeanwhile
      <3>3. CASE k = kind
        <4>1. s = r
          BY <1>t, <2>1, <3>1, <3>3 DEF OneAtATime
        <4>2. /\ clean[k]
              /\ (command[1] = "delete" /\ Delete(kind, command[2]))
                   \/ (command[1] # "delete" /\ Create(kind, command[2]))
          BY <1>2, <1>t, <3>3 DEF RunCommand
        <4>3. step'[r] = step[r] + 1 /\ step[r] \in 1..(Len(Commands(kind)) - 1)
          BY <1>t, <2>1, <3>1, <4>1 DEF Active
        <4>4. "job" \in {"job"} \cup Volumes(kind) /\ kind \in Kinds
          BY <1>t
        <4>5. CASE step[r] = 1
          <5>1. command = <<"delete", "job">>
            BY <1>t, <4>5, CommandFacts DEF Kinds
          <5> QED
            BY <1>t, <3>3, <4>2, <4>4, <5>1 DEF Delete
        <4>6. CASE step[r] >= 2
          <5>1. "job" \notin exists[k]
            BY <2>1, <3>1, <3>3, <4>1, <4>2, <4>6 DEF NoJobMeanwhile
          <5>2. ~(command[1] # "delete" /\ command[2] = "job")
            <6>1. CASE kind = "backup"
              <7>1. Len(Commands(kind)) = 6
                BY <6>1, KindFacts, Zenon
              <7>2. step[r] = 2 \/ step[r] = 3 \/ step[r] = 4 \/ step[r] = 5
                BY <4>3, <4>6, <7>1
              <7> QED
                BY <6>1, <7>2, CommandFacts
            <6>2. CASE kind = "vac"
              <7>1. Len(Commands(kind)) = 2
                BY <6>2, KindFacts, Zenon
              <7> QED
                BY <4>3, <4>6, <7>1
            <6> QED
              BY <4>4, <6>1, <6>2 DEF Kinds
          <5> QED
            BY <1>t, <3>3, <4>2, <4>4, <5>1, <5>2 DEF Delete, Create
        <4> QED
          BY <4>3, <4>5, <4>6
      <3> QED
        BY <3>2, <3>3
    <2> QED
      BY <2>4, <2>5
  <1>3. ASSUME NEW runs, BreakOff(runs)
        PROVE  OneAtATime' /\ NoJobMeanwhile'
    <2>1. UNCHANGED <<exists, overlapped>> /\ \A k \in Kinds : clean'[k] => clean[k]
      BY <1>3 DEF BreakOff
    <2>2. \A s \in Runs : Active(s)' => Active(s) /\ step'[s] = step[s]
      <3> SUFFICES ASSUME NEW s \in Runs, Active(s)' PROVE Active(s) /\ step'[s] = step[s]
        OBVIOUS
      <3>1. CASE s \in runs
        <4>1. step'[s] = Len(Commands(KindOf(s))) + 1
          BY <1>3, <3>1 DEF BreakOff
        <4> QED
          BY <1>t, <4>1 DEF Active
      <3>2. CASE s \notin runs
        BY <1>3, <3>2 DEF BreakOff, Active
      <3> QED
        BY <3>1, <3>2
    <2> QED
      BY <1>t, <2>1, <2>2 DEF OneAtATime, NoJobMeanwhile
  <1>4. ASSUME UNCHANGED <<step, exists, clean, overlapped>>
        PROVE  OneAtATime' /\ NoJobMeanwhile'
    BY <1>4 DEF OneAtATime, NoJobMeanwhile, Active
  <1>5. ASSUME NEW k \in Kinds, Pod(k) \/ PodDies(k)
        PROVE  UNCHANGED <<step, exists, clean, overlapped>>
    BY <1>5 DEF Pod, PodDies, StartPod, JobWorks, JobFails
  <1>6. UNCHANGED vars => UNCHANGED <<step, exists, clean, overlapped>>
    BY DEF vars
  <1> QED
    BY <1>1, <1>2, <1>3, <1>4, <1>5, <1>6 DEF Next, ServerDies, Panics

\* A backup is not deleted from under its pod by runs that do not overlap.
THEOREM VolumesStay == Spec => VolumesKept
  <1>1. Init => OneAtATime /\ NoJobMeanwhile
    <2>1. Init => \A k \in Kinds : \A r \in RunsOf(k) : step[r] = 0 /\ ~Active(r)
      BY DEF Init, RunsOf, Active
    <2> QED
      BY <2>1 DEF OneAtATime, NoJobMeanwhile
  <1>2. TypeOK /\ TypeOK' /\ NoJobMeanwhile /\ [Next]_vars
          => \A k \in Kinds :
               clean[k] /\ k \notin overlapped /\ Working(k)' /\ Volumes(k) \subseteq exists[k]
                 => Volumes(k) \subseteq exists'[k]
    <2> SUFFICES ASSUME TypeOK, TypeOK', NoJobMeanwhile, [Next]_vars, NEW k \in Kinds,
                        clean[k], k \notin overlapped, Working(k)', Volumes(k) \subseteq exists[k]
                 PROVE  Volumes(k) \subseteq exists'[k]
      OBVIOUS
    <2>1. ASSUME NEW r \in Runs, RunCommand(r)
          PROVE  Volumes(k) \subseteq exists'[k]
      <3> DEFINE kind == KindOf(r)
                 command == Commands(kind)[step[r]]
      <3>1. kind \in Kinds /\ exists \in [Kinds -> SUBSET Objects]
            /\ step[r] \in 1..Len(Commands(kind)) /\ Active(r) /\ r \in RunsOf(kind)
        BY <2>1, KindFacts DEF TypeOK, RunCommand, Active, RunsOf
      <3>2. "job" \in exists'[k]
        BY DEF TypeOK, Working
      <3>3. CASE k # kind \/ UNCHANGED <<exists, pod>>
        BY <2>1, <3>1, <3>3 DEF RunCommand, Delete, Create
      <3>4. CASE k = kind /\ command[1] # "delete" /\ Create(kind, command[2])
        BY <3>1, <3>4 DEF Create
      <3>5. CASE k = kind /\ command[1] = "delete" /\ Delete(kind, command[2])
        <4>1. "job" \in exists[k] /\ command[2] # "job"
          BY <3>1, <3>2, <3>5 DEF Delete
        <4>2. ~(step[r] >= 2)
          BY <3>1, <3>5, <4>1 DEF NoJobMeanwhile
        <4>3. step[r] = 1
          BY <3>1, <4>2, ActiveAt
        <4>4. command = <<"delete", "job">>
          BY <3>1, <4>3, CommandFacts DEF Kinds
        <4> QED
          BY <4>1, <4>4
      <3> QED
        BY <2>1, <3>3, <3>4, <3>5 DEF RunCommand
    <2>2. ASSUME UNCHANGED exists
          PROVE  Volumes(k) \subseteq exists'[k]
      BY <2>2
    <2> QED
      BY <2>1, <2>2 DEF Next, Due, Pod, StartPod, JobWorks, JobFails, PodDies, ServerDies,
                        Panics, BreakOff, vars
  <1> QED
    BY <1>1, <1>2, AloneStep, TypeCorrect, PTL DEF Spec, VolumesKept

-----------------------------------------------------------------------------
(* What comes of a run.                                                    *)

\* There is no job without a pod; and a pod that is older than the run that
\* was due last, or ended with it, is still to be deleted by some run.
NewerPodToCome ==
  /\ \A k \in Kinds : "job" \in exists[k] => pod[k] # "none"
  /\ \A k \in Kinds :
       clean[k] /\ (pod[k] = "old" \/ (pod[k] = "succeeded" /\ outcome[k] = "none"))
         => \E r \in RunsOf(k) : step[r] = 1

LEMMA VainStep == TypeOK /\ TypeOK' /\ NewerPodToCome /\ [Next]_vars => NewerPodToCome'
  <1> SUFFICES ASSUME TypeOK, TypeOK', NewerPodToCome, [Next]_vars PROVE NewerPodToCome'
    OBVIOUS
  <1>k. \A r \in Runs : KindOf(r) \in Kinds
    BY KindFacts
  <1>r. \A k \in Kinds : \A q \in RunsOf(k) : q \in Runs /\ KindOf(q) = k
    BY DEF RunsOf
  <1>t. /\ outcome \in [Kinds -> {"none", "worked", "failed"}]
        /\ pod \in [Kinds -> {"none", "waiting", "new", "old", "succeeded"}]
        /\ step \in [Runs -> 0..7]
        /\ exists \in [Kinds -> SUBSET Objects]
        /\ clean \in [Kinds -> BOOLEAN]
    BY DEF TypeOK
  <1>1. ASSUME NEW r \in Runs, Due(r)
        PROVE  NewerPodToCome'
    <2>1. /\ KindOf(r) \in Kinds /\ step' = [step EXCEPT ![r] = 1] /\ exists' = exists
          /\ pod' = [pod EXCEPT ![KindOf(r)] = IF @ = "new" THEN "old" ELSE @]
          /\ outcome' = [outcome EXCEPT ![KindOf(r)] = "none"]
          /\ clean' = [clean EXCEPT ![KindOf(r)] = @ \/ ~Busy(KindOf(r))]
      BY <1>1, <1>k DEF Due
    <2>2. \A k \in Kinds : "job" \in exists'[k] => pod'[k] # "none"
      BY <1>t, <2>1 DEF NewerPodToCome
    <2>3. ASSUME NEW k \in Kinds, clean'[k],
                 pod'[k] = "old" \/ (pod'[k] = "succeeded" /\ outcome'[k] = "none")
          PROVE  \E q \in RunsOf(k) : step'[q] = 1
      <3>1. CASE KindOf(r) = k
        <4>1. r \in RunsOf(k) /\ step'[r] = 1
          BY <1>t, <2>1, <3>1 DEF RunsOf
        <4> QED
          BY <4>1
      <3>2. CASE KindOf(r) # k
        <4>1. clean'[k] = clean[k] /\ pod'[k] = pod[k] /\ outcome'[k] = outcome[k]
          BY <1>t, <2>1, <3>2
        <4>2. PICK q \in RunsOf(k) : step[q] = 1
          BY <2>3, <4>1 DEF NewerPodToCome
        <4> QED
          BY <1>r, <1>t, <2>1, <3>2, <4>2
      <3> QED
        BY <3>1, <3>2
    <2> QED
      BY <2>2, <2>3 DEF NewerPodToCome
  <1>2. ASSUME NEW r \in Runs, RunCommand(r)
        PROVE  NewerPodToCome'
    <2> DEFINE kind == KindOf(r)
               command == Commands(kind)[step[r]]
    <2>1. /\ kind \in Kinds /\ step' = [step EXCEPT ![r] = @ + 1]
          /\ step[r] \in 1..(IF kind = "backup" THEN 6 ELSE 2)
      BY <1>2, ScriptStep
    <2>2. outcome' = [outcome EXCEPT ![kind] =
                        IF @ = "failed" /\ pod'[kind] = "waiting" THEN "none" ELSE @]
      BY <1>2 DEF RunCommand
    <2>3. \A k \in Kinds : "job" \in exists'[k] => pod'[k] # "none"
      <3>1. CASE UNCHANGED <<exists, pod>>
        BY <3>1 DEF NewerPodToCome
      <3>2. CASE Delete(kind, command[2])
        BY <1>t, <2>1, <3>2 DEF NewerPodToCome, Delete
      <3>3. CASE Create(kind, command[2])
        BY <1>t, <2>1, <3>3 DEF NewerPodToCome, Create
      <3> QED
        BY <1>2, <3>1, <3>2, <3>3 DEF RunCommand
    <2>4. ASSUME NEW k \in Kinds, clean'[k],
                 pod'[k] = "old" \/ (pod'[k] = "succeeded" /\ outcome'[k] = "none")
          PROVE  \E q \in RunsOf(k) : step'[q] = 1
      <3>1. CASE kind # k
        <4>1. pod'[k] = pod[k] /\ clean'[k] = clean[k] /\ outcome'[k] = outcome[k]
          BY <1>2, <1>t, <2>1, <2>2, <3>1 DEF RunCommand, Delete, Create
        <4>2. PICK q \in RunsOf(k) : step[q] = 1
          BY <2>4, <4>1 DEF NewerPodToCome
        <4> QED
          BY <1>r, <1>t, <2>1, <3>1, <4>2
      <3>2. CASE kind = k
        <4>1. UNCHANGED clean /\ IF command[1] = "delete" THEN Delete(kind, command[2])
                                                        ELSE Create(kind, command[2])
          BY <1>2, <1>t, <2>4, <3>2 DEF RunCommand
        <4>2. pod'[k] = pod[k]
          BY <1>t, <2>4, <3>2, <4>1 DEF Delete, Create
        <4>3. outcome'[k] = outcome[k]
          BY <1>t, <2>2, <2>4, <3>2
        <4>4. PICK q \in RunsOf(k) : step[q] = 1
          BY <2>4, <4>1, <4>2, <4>3 DEF NewerPodToCome
        <4>5. q # r
          <5> SUFFICES ASSUME step[r] = 1 PROVE FALSE
            BY <4>4
          <5>1. command = <<"delete", "job">>
            BY <2>1, CommandFacts DEF Kinds
          <5>2. pod'[k] = "none"
            BY <1>t, <3>2, <4>1, <5>1 DEF Delete
          <5> QED
            BY <2>4, <5>2
        <4> QED
          BY <1>r, <1>t, <2>1, <4>4, <4>5
      <3> QED
        BY <3>1, <3>2
    <2> QED
      BY <2>3, <2>4 DEF NewerPodToCome
  <1>3. ASSUME NEW runs, BreakOff(runs)
        PROVE  NewerPodToCome'
    <2>1. /\ UNCHANGED <<exists, pod, outcome>>
          /\ \A k \in Kinds : clean'[k] => clean[k] /\ runs \cap RunsOf(k) = {}
      BY <1>3 DEF BreakOff
    <2>2. \A k \in Kinds : clean'[k] => \A q \in RunsOf(k) : step'[q] = step[q]
      BY <1>3, <1>r, <2>1 DEF BreakOff
    <2> QED
      BY <2>1, <2>2 DEF NewerPodToCome
  <1>4. ASSUME NEW k \in Kinds, Pod(k) \/ PodDies(k)
        PROVE  NewerPodToCome'
    <2>1. UNCHANGED <<step, exists, clean>>
      BY <1>4 DEF Pod, PodDies, StartPod, JobWorks, JobFails
    <2>2. PICK x \in {"waiting", "new", "succeeded"} : pod' = [pod EXCEPT ![k] = x]
      BY <1>4 DEF Pod, StartPod, JobWorks, JobFails, PodDies, Done
    <2>3. \A j \in Kinds : j # k => pod'[j] = pod[j] /\ outcome'[j] = outcome[j]
      BY <1>4, <1>t, <2>2 DEF Pod, StartPod, JobWorks, JobFails, PodDies, Failed
    <2>4. pod'[k] = "succeeded" /\ outcome'[k] = "none" => pod[k] = "old"
      BY <1>4, <1>t, <2>2 DEF Pod, StartPod, JobWorks, JobFails, PodDies, Failed, Working
    <2>5. pod'[k] = x
      BY <1>t, <2>2
    <2> QED
      BY <2>1, <2>3, <2>4, <2>5 DEF NewerPodToCome
  <1>5. CASE UNCHANGED vars
    BY <1>5 DEF vars, NewerPodToCome
  <1> QED
    BY <1>1, <1>2, <1>3, <1>4, <1>5 DEF Next, ServerDies, Panics

\* Every run that was due comes to a job of its own, and that to something,
\* however many runs overlap it.
THEOREM NoRunInVain == Spec => []NothingInVain
  <1>1. Init => NewerPodToCome
    BY DEF Init, NewerPodToCome
  <1>2. TypeOK /\ NewerPodToCome /\ JobIsThere => NothingInVain
    <2> SUFFICES ASSUME TypeOK, NewerPodToCome, JobIsThere, NEW k \in Kinds, clean[k], ~Busy(k),
                        NEW r \in RunsOf(k), Finished(r), outcome[k] = "none"
                 PROVE  pod[k] \in {"waiting", "new"}
      BY DEF NothingInVain
    <2>1. "job" \in exists[k]
      BY DEF JobIsThere
    <2>2. \A q \in RunsOf(k) : step[q] # 1
      <3>1. \A n \in {2, 6} : 1 \in 1..n
        OBVIOUS
      <3>2. \A q \in RunsOf(k) : q \in Runs /\ 1 \in 1..Len(Commands(KindOf(q)))
        BY <3>1, ActiveAt, Zenon DEF RunsOf
      <3> QED
        BY <3>2 DEF Busy, Active
    <2> QED
      BY <2>1, <2>2 DEF NewerPodToCome, TypeOK
  <1> QED
    BY <1>1, <1>2, VainStep, JobIsThereAlways, TypeCorrect, PTL DEF Spec

-----------------------------------------------------------------------------
(* What the vacuum job sends.                                              *)

\* A script runs, and a job is there, only if its settings are complete; and
\* the program in its pod has read what they come to.
SettingsRead ==
  /\ \A r \in Runs : Active(r) => Complete(KindOf(r))
  /\ "job" \in exists["vac"] => Complete("vac")
  /\ parms # <<>> => Complete("vac") /\ parms = <<PodParms(asked)>>

LEMMA SettingsStep == TypeOK /\ TypeOK' /\ SettingsRead /\ [Next]_vars => SettingsRead'
  <1> SUFFICES ASSUME TypeOK, TypeOK', SettingsRead, [Next]_vars PROVE SettingsRead'
    OBVIOUS
  <1>a. asked' = asked /\ \A k \in Kinds : Complete(k)' <=> Complete(k)
    <2>1. asked' = asked
      BY DEF Next, Due, RunCommand, Panics, BreakOff, ServerDies, Pod, StartPod, JobWorks,
             JobFails, PodDies, vars
    <2> QED
      BY <2>1 DEF Complete
  <1>k. /\ \A r \in Runs : KindOf(r) \in Kinds
        /\ "vac" \in Kinds /\ Volumes("vac") = {}
    BY KindFacts DEF Kinds, Volumes
  <1>t. step \in [Runs -> 0..7] /\ exists \in [Kinds -> SUBSET Objects]
    BY DEF TypeOK
  <1>1. ASSUME NEW r \in Runs, Due(r)
        PROVE  SettingsRead'
    <2>1. \A q \in Runs : Active(q)' => q = r \/ Active(q)
      BY <1>1, <1>t DEF Due, Active
    <2>2. Complete(KindOf(r)) /\ UNCHANGED <<exists, parms>>
      BY <1>1 DEF Due, data
    <2> QED
      BY <1>a, <1>k, <2>1, <2>2 DEF SettingsRead
  <1>2. ASSUME NEW r \in Runs, RunCommand(r)
        PROVE  SettingsRead'
    <2>1. /\ Active(r) /\ UNCHANGED parms
          /\ step' = [step EXCEPT ![r] = @ + 1]
      BY <1>2 DEF RunCommand, data
    <2>2. \A q \in Runs : Active(q)' => Active(q)
      BY <1>t, <2>1 DEF Active
    <2>3. "job" \in exists'["vac"] => "job" \in exists["vac"] \/ KindOf(r) = "vac"
      BY <1>2, <1>t, <1>k DEF RunCommand, Delete, Create
    <2> QED
      BY <1>a, <1>k, <2>1, <2>2, <2>3 DEF SettingsRead
  <1>3. ASSUME NEW runs, BreakOff(runs)
        PROVE  SettingsRead'
    <2>1. \A r \in Runs : Len(Commands(KindOf(r))) \in Nat
      BY ActiveAt
    <2>2. \A q \in Runs : Active(q)' => Active(q)
      BY <1>3, <2>1 DEF BreakOff, Active
    <2>3. UNCHANGED <<exists, parms>>
      BY <1>3 DEF BreakOff, data
    <2> QED
      BY <1>a, <1>k, <2>2, <2>3 DEF SettingsRead
  <1>4. ASSUME NEW k \in Kinds, Pod(k) \/ PodDies(k)
        PROVE  SettingsRead'
    <2>1. UNCHANGED <<step, exists>>
      BY <1>4 DEF Pod, PodDies, StartPod, JobWorks, JobFails
    <2>2. CASE UNCHANGED parms
      BY <1>a, <1>k, <2>1, <2>2 DEF SettingsRead, Active
    <2>3. CASE k = "vac" /\ StartPod(k)
      <3>1. "job" \in exists["vac"]
        BY <2>3 DEF StartPod, TypeOK
      <3>2. parms' = <<PodParms(asked)>>
        BY <2>3 DEF StartPod
      <3> QED
        BY <1>a, <1>k, <2>1, <3>1, <3>2 DEF SettingsRead, Active
    <2> QED
      BY <1>4, <2>2, <2>3 DEF Pod, PodDies, StartPod, JobWorks, JobFails, Kinds
  <1>5. CASE UNCHANGED vars
    BY <1>5 DEF vars, SettingsRead, Active, Complete
  <1> QED
    BY <1>1, <1>2, <1>3, <1>4, <1>5 DEF Next, ServerDies, Panics

\* Whatever dbaserver is started with, a vacuum job is only there if its
\* settings could be read, and its pod reads them again without an error and
\* sends what the documentation says they mean.
THEOREM StatementIsAsAsked == Spec => []StatementAsAsked
  <1>1. Init => SettingsRead
    <2> SUFFICES ASSUME Init PROVE SettingsRead
      OBVIOUS
    <2>1. exists["vac"] = {} /\ parms = <<>> /\ \A r \in Runs : step[r] = 0
      BY DEF Init, Kinds
    <2> QED
      BY <2>1 DEF SettingsRead, Active
  <1>2. TypeOK /\ SettingsRead => StatementAsAsked
    <2> SUFFICES ASSUME TypeOK, SettingsRead PROVE StatementAsAsked
      OBVIOUS
    <2>1. asked \in Variables /\ (Complete("vac") <=> ~ParmsError(asked))
      BY DEF TypeOK, Complete
    <2>2. pod["vac"] # "none" => Complete("vac")
      BY DEF TypeOK, SettingsRead, Kinds
    <2>3. parms # <<>> => Complete("vac") /\ parms[1] = PodParms(asked)
      BY DEF SettingsRead
    <2> QED
      BY <2>1, <2>2, <2>3, TwoReadings, PodSendsAsDocumented DEF StatementAsAsked
  <1> QED
    BY <1>1, <1>2, SettingsStep, TypeCorrect, PTL DEF Spec
=============================================================================
