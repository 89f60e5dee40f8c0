--------------------------- MODULE StandaloneWatch ---------------------------
(***************************************************************************)
(* A crunchy-watch container and the replica container it guards.          *)
(*                                                                         *)
(* On plain Docker (keeps) bin/watch/start-watch.sh probes the master and, *)
(* at the first probe that fails, puts the trigger file into the replica   *)
(* by one docker exec and exits; neither container has a restart policy.   *)
(* On OpenShift the watch that Failover models may touch the file at any   *)
(* time, and the kubelet starts the container again.                       *)
(***************************************************************************)
EXTENDS PgContainer

VARIABLE watch   \* "probe" and "exec" are commands of the script, "exited" its end

watchedVars == <<vars, watch>>

Watches == {"probe", "exec", "exited"}

WatchedTypeOK == TypeOK /\ watch \in Watches

-----------------------------------------------------------------------------

Standalone == keeps /\ mode = "slave"

\* Mutant: the script goes on probing after a failover.
MutProbesOn ==
  /\ Standalone
  /\ watch # "exec"
  /\ ~master
  /\ watch' = "exec"
  /\ UNCHANGED vars

ProbeRefused ==
  /\ Standalone
  /\ watch = "probe"
  /\ ~master
  /\ watch' = "exec"
  /\ UNCHANGED vars

\* pg_isready may fail although the master is up.
ProbeMissed ==
  /\ Standalone
  /\ watch = "probe"
  /\ master
  /\ watch' = "exec"
  /\ UNCHANGED vars

\* Mutant: the watch exits before it has touched the file.
MutExitsFirst ==
  /\ Standalone
  /\ watch = "exec"
  /\ watch' = "exited"
  /\ UNCHANGED vars

\* docker exec fails if the replica's container is not running; the script
\* exits in either case.
StandaloneFailover ==
  /\ Standalone
  /\ watch = "exec"
  /\ Touch \/ (pc = "down" /\ UNCHANGED vars)
  /\ watch' = "exited"

OpenShiftTouch == ~keeps /\ Touch /\ UNCHANGED watch

Container ==
  /\ Script \/ Promote \/ Crash \/ MasterLost \/ MasterBack
  /\ UNCHANGED watch

WatchedInit == Init /\ watch = "probe"

WatchedNext ==
  \/ ProbeRefused \/ ProbeMissed \/ StandaloneFailover
  \/ OpenShiftTouch
  \/ Container

WatchedSpec == WatchedInit /\ [][WatchedNext]_watchedVars

\* The scripts do not block, postgres looks for its trigger file, and the
\* kubelet starts a container again; nobody has to do so on plain Docker.
WatchedFairness ==
  /\ WF_vars(Script /\ (pc = "down" => ~keeps))
  /\ WF_vars(Promote)
  /\ WF_watchedVars(ProbeRefused)
  /\ WF_watchedVars(StandaloneFailover)

WatchedFairSpec == WatchedSpec /\ WatchedFairness

-----------------------------------------------------------------------------
(* Properties of the pair on plain Docker.                                 *)

StandsBy == pc = "running" /\ recovery

\* While the watch is there, a replica that stands by takes over from a master
\* that is down, unless the master comes back or the replica stops first.
StandbyTakesOver ==
  Standalone /\ watch = "probe" /\ ~master /\ StandsBy ~>
    promoted \/ master \/ pc # "running"

\* A failover whose docker exec found the replica stopped is never made up
\* for: the watch has exited, and the replica stays a standby for good.
Missed == Standalone /\ watch = "exited" /\ ~trigger /\ ~promoted
MissedForGood == [][Missed => Missed']_watchedVars

\* A standby that dies between the touch and its promotion is promoted when it
\* is started again: /tmp is still there, other than on OpenShift.
TouchSurvivesRestart ==
  Standalone /\ []<>(pc = "running") =>
    (trigger /\ recovery /\ data = "complete" ~> promoted)
=============================================================================
