------------------------------ MODULE MCDbaJobs ------------------------------
(* Instances of DbaJobs for TLC.                                           *)
EXTENDS DbaJobs

CONSTANTS b1, b2, b3, v1

MCBackupRuns == {b1, b2, b3}
MCVacRuns == {v1}

MCTexts == {"", "host", "user", "password", "port", "5432", "database", "postgres"}
MCTables == {"", "table"}

\* Everything by default; an option that keeps vacuum jobs from running; and
\* every environment without a port, which keeps backups from running.
Plain == [JOB_HOST |-> "host", PG_USER |-> "user", PG_PASSWORD |-> "password",
          PG_PORT |-> "port", PG_DATABASE |-> "", VAC_TABLE |-> "", VAC_FULL |-> "",
          VAC_ANALYZE |-> "", VAC_VERBOSE |-> "", VAC_FREEZE |-> ""]
WithoutPort ==
  [JOB_HOST : {"", "host"}, PG_USER : {"", "user"}, PG_PASSWORD : {"", "password"},
   PG_PORT : {""}, PG_DATABASE : {"", "database"}, VAC_TABLE : {"", "table"},
   VAC_FULL : Flags, VAC_ANALYZE : Flags, VAC_VERBOSE : Flags, VAC_FREEZE : Flags]
MCSettings == {Plain, [Plain EXCEPT !.VAC_FULL = "malformed"]} \cup WithoutPort
=============================================================================
