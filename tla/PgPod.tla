-------------------------------- MODULE PgPod --------------------------------
(***************************************************************************)
(* What a crunchy-postgres pod does as seen from outside: how its volume,  *)
(* its server and its trigger file change.  Failover builds its cluster    *)
(* from pods like this; PgContainer is the start script that must make the *)
(* container behave so.                                                    *)
(***************************************************************************)
VARIABLES
  mode,     \* PG_MODE of the container
  disk,     \* "empty" until the volume holds a complete database
  up,       \* postgres accepts connections
  trigger   \* the trigger file exists

vars == <<mode, disk, up, trigger>>

Init ==
  /\ mode \in {"master", "slave"}
  /\ disk \in {"empty", "standby", "primary"}
  /\ up \in BOOLEAN /\ (up => disk # "empty")
  /\ trigger = FALSE

\* The start script fills an empty volume; it may start postgres at once.
Fill ==
  /\ disk = "empty"
  /\ disk' = IF mode = "slave" THEN "standby" ELSE "primary"
  /\ up' \in BOOLEAN
  /\ UNCHANGED <<mode, trigger>>

Start ==
  /\ disk # "empty" /\ ~up
  /\ up' = TRUE
  /\ UNCHANGED <<mode, disk, trigger>>

\* Only the first start of a master stops the server it has started.
Stop ==
  /\ mode = "master" /\ up
  /\ up' = FALSE
  /\ UNCHANGED <<mode, disk, trigger>>

Touch ==
  /\ trigger' = TRUE
  /\ UNCHANGED <<mode, disk, up>>

\* The only way a running standby becomes a primary.
Promote ==
  /\ up /\ disk = "standby" /\ trigger
  /\ disk' = "primary"
  /\ trigger' = FALSE
  /\ UNCHANGED <<mode, up>>

\* The container dies; a trigger file is lost unless the same container is
\* started again.  A slave that was being filled may be left with the
\* data of a primary and nothing that says it is a standby.
Die ==
  /\ up' = FALSE
  /\ trigger' \in {FALSE, trigger}
  /\ \/ UNCHANGED disk
     \/ mode = "slave" /\ disk = "empty" /\ disk' = "primary"
  /\ UNCHANGED mode

\* The pod goes, and its volume with it.
Remove ==
  /\ disk' = "empty"
  /\ up' = FALSE
  /\ trigger' = FALSE
  /\ UNCHANGED mode

\* What happens to one container: it keeps its volume, and so a database that
\* is complete stays on it.
Container == Fill \/ Start \/ Stop \/ Touch \/ Promote \/ Die

Next == Container \/ Remove

Spec == Init /\ [][Next]_vars
ContainerSpec == Init /\ [][Container]_vars
=============================================================================
