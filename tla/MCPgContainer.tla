---------------------------- MODULE MCPgContainer ----------------------------
(* Instances of PgContainer and of StandaloneWatch for TLC.                *)
EXTENDS StandaloneWatch

BothModes == {"master", "slave"}
SlaveOnly == {"slave"}
NoBackup == {"none"}
AllBackups == {"none", "partial", "complete"}
=============================================================================
