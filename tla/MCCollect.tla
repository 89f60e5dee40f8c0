------------------------------ MODULE MCCollect ------------------------------
(* Instances of Collect for TLC.                                           *)
EXTENDS Collect

CONSTANTS postgres, userdb

MCDatabases == {postgres, userdb}
OneBare == {userdb}
NoneBare == {}

MCSettings == Environments
Complete == [POLL_INT |-> "good", HOSTNAME |-> TRUE, PROM_GATEWAY |-> TRUE,
             PG_ROOT_PASSWORD |-> TRUE, PG_PORT |-> TRUE]
CompleteOnly == {Complete}
=============================================================================
