# Verification of crunchy-containers

The repository builds Docker images that run PostgreSQL, replicate it, back it up, watch it and
collect metrics from it, on plain Docker or on OpenShift 3. Almost all of its own logic is shell
scripts started as container entry points (`bin/`) and a few small Go programs (`dba`, `collect`,
`dnsbridge`, `badger`, `vacuum`). This directory holds TLA+ models of that logic, TLC
configurations that check them on small instances and TLAPS proofs about them.

    tlc -config FailoverLosses.cfg MCFailover      # any row of "Runs" below
    tlapm Failover_proofs.tla                      # and the other *_proofs modules

The repository's JavaScript is vendored into generated documentation pages (jQuery, Bootstrap);
none of it belongs to the system, and no model is about it.

## 1. Inventory

| part | code | state it keeps | operations | interacts with |
|---|---|---|---|---|
| crunchy-watch, OpenShift | `bin/watch/start-watch.sh` | place in the script, `/tmp/master-service.json`, `$SLAVES`, `firstslave` | probe, nine `oc` commands of `ose_failover` | master service, pod labels, pods, the trigger file in a slave |
| crunchy-watch, standalone | same, lines 51-61 | place in the script | probe, touch, exit | one slave container |
| crunchy-postgres | `bin/start.sh`, `bin/start-pg-wrapper.sh`, `conf/` | `$PGDATA`, `/tmp` of the container | initdb, restore, base backup, recovery.conf, setup.sql, start | master service, `/backup` volume, watch (trigger file) |
| dnsbridge | `dnsbridge/`, `dnsbridgeapi/` | names registered in consul | handle an event, deregister, register | Docker events and inspect, consul |
| collect | `collect/`, `collectapi/` | settings, metrics of one poll, open connections | read the settings, ten collectors, push | PostgreSQL, Prometheus push gateway |
| dba | `dba/`, `dbaapi/`, `bin/dba/` | settings, cron entries | run of a schedule: delete and create job, claim, volume | OpenShift |
| backup job | `bin/backup/` | one directory per pod | make it, copy | master, the volume `dba` made |
| vacuum job | `vacuum/`, `vacuumapi/` | its parameters | read them, write the statement, send it | master, `dba` (environment) |
| badger | `badger/`, `bin/pgbadger/` | `/tmp/badger.html` | generate and send a report per request | log directory |
| pgpool, prometheus, grafana, consul | `bin/*/start*.sh` | third party | start | |

How they meet: the watch and the pods share labels, the service and the trigger file; a slave that
starts copies whatever answers behind the master service, which the watch deletes and recreates;
`dba` runs overlap on objects of fixed names, and their pods go on at their own pace; the settings
of a vacuum pass through `dba`, a template and the pod's environment before they are a statement;
dnsbridge reads Docker's state after, not at, the event that made it look; each push of collect
replaces what the gateway holds for that metric; all requests to badger share one file.

What is hard, and what makes each part correct:

- **Watch.** Nothing synchronises the script with the pods but `sleep`, no exit code is looked at,
  and the failover starts at the first failed probe. Correct means: clients never write to two
  primaries, the service can always be recreated, the data survives the deletion of the other
  slaves, and the cluster heals.
- **Postgres container.** It is restarted on the same volume and decides by one file what an
  earlier, possibly broken-off start has done. Correct means: a complete database is never wiped,
  a slave is read-only, the container comes up.
- **dnsbridge.** State read after the event. Correct means: once the events are handled every
  running container resolves to its address.
- **collect.** Each of many queries and pushes may fail, and so may the reading of the settings.
  Correct means: a failure costs its own metrics only, connections do not pile up, polling goes on.
- **dba and its jobs.** Runs overlap each other and the pods they create; commands, copies, pods
  and dbaserver itself die. Correct means: the job is there afterwards, its volumes stay under a
  working pod, no backup is lost, each run leads to a backup or a failure, and the server is sent
  the VACUUM that was asked for.
- **badger.** Overlapping requests. Correct means: a reply holds nothing an earlier request left.

`PROJECT.json` lists every component with what is left out of it, and every hazard at its line.

## 2. Modules

| module | models | builds on |
|---|---|---|
| `MasterService` | what clients of the master service are promised | |
| `PgPod` | a PostgreSQL pod seen from outside | |
| `Failover` | the watch, service, labels, pods, slave controller | INSTANCEs the two above |
| `PgContainer` | the start script on one volume over many starts | INSTANCEs `PgPod` |
| `StandaloneWatch` | the watch on plain Docker beside the replica it guards | composes with `PgContainer` |
| `DnsBridge` | Docker, its events, the bridge, consul | |
| `Collect` | the settings, one poll after another, and the gateway | |
| `Vacuum` | from settings to a VACUUM statement, as functions | |
| `DbaJobs` | cron runs, the two scripts, jobs, their pods, backups | extends `Vacuum` |
| `Badger` | requests that share a report file | |
| `Failover_proofs`, `PgContainer_proofs`, `StandaloneWatch_proofs`, `DnsBridge_proofs`, `Collect_proofs`, `Vacuum_proofs`, `DbaJobs_proofs`, `Badger_proofs` | theorems | the modules they are named after |
| `MC...` | instances for TLC | |

`PgPod` ties the two large modules together: `Failover` treats a pod as four variables (label,
disk, up, trigger), `PodsArePgPods` says that each of its pods makes only steps `PgPod` allows,
and `ImplementsPgPod` that the real start script makes only such steps, too, and never the one
that takes the volume away (`Remove`). Both are proved.

Definitions named `Mut...` are wrong variants of the definition after them (a dropped guard, a
changed order). They are used by no specification; replacing the definition by its variant must
break the property that is there to catch such a mistake.

### Failover

`pc` is the next command of the script; the names follow the commands.

| action | code |
|---|---|
| `ProbeRefused`, `ProbeMissed` | lines 99-107, pg_isready fails |
| `SaveService` | line 70; the redirection empties the file in any case |
| `DeleteService`, `ListSlaves` | lines 71, 75 |
| `TriggerFirstSlave`, `LabelMaster`, `CreateService` | lines 80-90, the first of the list |
| `DeleteOtherSlave`, `FailoverDone` | lines 91-96 |
| `WatchRestart` | the watch container is replaced and starts at line 1 with a new `/tmp` |
| `CreateSlave` | the slaves' deployment config |
| `BootSlave`, `BootFails`, `Start`, `Promote` | the pod, as seen from the cluster |
| `LosePod`, `RestartContainer`, `RestartBeforeRecoveryConf` | faults |

A probe that succeeds changes nothing and is a stuttering step. `Budget` bounds each kind of fault
in each scenario: a pod is lost, a container restarts, a probe fails although the server is up, the
watch restarts, an `oc` command fails. Everything else is unbounded. `spaced` is fixed at the start
and is one of two scenarios: TRUE, a pod is lost only when the cluster is healed, which is what the
documentation has in mind; FALSE, at any moment, in the middle of a failover too. Properties that
need the first say `spaced =>`.

Abstractions: `oc delete pod` takes effect at once; a pod's volume and its trigger file go with it
(the templates use emptyDir, the trigger is in `/tmp`); replication lag is not modelled, a copy is
a copy; a pod name is not reused while the script still refers to it, for the controller makes new
names; the order of `$SLAVES` is arbitrary.

### PgContainer and StandaloneWatch

The state is what the script can tell apart on the volume: is `postgresql.conf` there, is the data
none, partial or complete, is there a `recovery.conf`; and the history (`setup`, `created`,
`promoted`) the properties need. `Check` is every test of the script before a command that changes
the volume; the other actions are the commands in order. Copies (pg_basebackup, rsync, initdb) may
break off and leave any part, in any order of files, except that pg_basebackup and initdb do not
count as complete without `postgresql.conf`. The master a slave copies comes and goes as it likes.
postgres refuses to start on partial data. `keeps` says who starts the container again: the kubelet
makes a new one, whose `/tmp` is empty, `docker start` runs the old one with its `/tmp`. The
wording of the configuration files and the overrides in `/pgconf` are left out.

On plain Docker `StandaloneWatch` puts the watch beside it: `ProbeRefused` and `ProbeMissed` as
above, `StandaloneFailover` is the one `docker exec`, which does nothing if the replica is not
running, and the exit that follows in either case. On OpenShift the touch may come at any time
(`OpenShiftTouch`); `Failover` says when it does.

### DnsBridge

`events` is Docker's stream, taken to arrive in order. `HandleEvent` is `Action` up to its switch,
with the inspection of the container as it is at that moment; `Deregister` and `Register` are the
two calls to consul; between any two of them containers start, stop, die and go. Ids are never
reused, names are, and addresses are given out again at once. `RestartBridge` loses what waits.
`spoilt` is the history the properties need: the names whose last start was lost with the bridge
or whose call to consul failed.

### Collect

`env` is the environment: `HostKnown`, `GatewayKnown`, `PasswordKnown` and `PortKnown` are what
`getEnvVars` knows when it has returned, early or not, and `ServerKnown` whether queries can reach
the server at all. `pc` follows `GetMetrics` collector by collector; collectors that go through the
databases make a step per database. A query that fails ends its collector with what it has
(`GivesUp`); so does the absence of rows where the code takes that for an error (`LockMetrics`,
`TableSizesMetrics`). `XlogCountMetrics` asks nobody: it runs a script that counts files and appends
its metric whatever the settings. Names collected by one query and pushed together count as one
group. The gateway keeps one value set per metric name and host and replaces it at each push, as
`PushCollectors` of the Prometheus client (which is not in the repository) does. That an empty port
or host reaches no server is what its `host=` and `port=` make of them in lib/pq, which is not in
the repository either. Values are left out.

### Vacuum and DbaJobs

`Vacuum` is data: `GetParms` is the function of that name, early returns and defaults included;
`PodEnvironment` is the template `VacJob` fills; `VacuumCommand` the pieces of the statement with
the blanks they bring. An environment goes through `GetParms` twice, once in `dbaserver` and once
in the pod (`PodParms`), and the second time all errors are ignored. `AsDocumented` is what the
documentation says of the settings, and `Understood` whether the server can tell the words apart.
A word is a token and a blank is one, too, so that a statement is a sequence of them; `Tables` is
what `VAC_TABLE` may be, and `TablesAssumption` excludes that a table is called like a keyword,
where the statement alone does not say which of the two was meant.

In `DbaJobs` `step[r]` is the next `oc` command of run `r`'s script; the scripts are data
(`Commands`). Cron starts a goroutine per due run, so any number of scripts run side by side. A run
whose settings are not complete panics instead (`Panics`), which may or may not take `dbaserver`
and its scripts along; it also dies by itself (`ServerDies`). `GetBackupJobParms` has no default,
and of its variables `PG_PORT` stands for all that only it needs: they are read in the same place
and fail in the same way.

A pod is one of none, waiting (for its volumes), new, old (it began before the last run was due),
succeeded. Deleting a job deletes its pod; a claim and a volume of fixed names are bound whenever
both exist. A backup pod makes a directory named after the second (`MakeDirectory`: only a pod that
replaces one that died can meet an existing one), and a directory that is not empty makes
pg_basebackup fail. `dir` is the newest directory and `kept` counts the complete backups in older
ones. A failed copy and a failed VACUUM end with exit code 0 (`JobFails`). Histories: `outcome` is
what the newest job since a run was last due came to, `clean` that no script failed since one had
the objects to itself, `overlapped` the kinds of which two scripts ran at a time.

### Badger

Each request is a goroutine: `BadgerGenerate` starts pgbadger, `OpenReport` empties the one file,
`WriteReport` writes a chunk at the run's own offset, `RunEnds` and `RunFails` end it, `ReadReport`
reads a chunk, `Answer` ends at the end of the file and `ReadFails` with ReadFile's error. A chunk
is only who wrote it. `met` is the history of which requests were handled at the same time.

## 3. Runs

Numbers are distinct states. Deadlock is not checked where a state in which nothing happens is as
it should be: a healed cluster whose faults are used up (successful probes stutter), a postgres
that runs, containers that are all gone, schedules that have all been run, requests that are all
answered. `Collect` never stops, and there it is checked.

| run | instance | what it shows |
|---|---|---|
| `failover_losses` (178 k) | 5 pods, 2 replicas, 3 losses; in the scenario of spaced losses also 2 restarts of the watch | losses at any moment: never two primaries behind the service (`NeverTwoMasters`), its definition is lost only with all data (`DefinitionKept`), and a primary again unless no pod has the data (`ServedOrNoData`); each loss after healing, and a watch that restarts in the middle of a failover: one claimant to the master role, the data survives, and the cluster heals every time unless a restart has cost the definition (`HealsAgain`) |
| `failover_faults` (327 k, symmetric) | 4 pods, one fault of each of five kinds | types; a lost service stays lost; the relabelling is fenced; a read-only master stays one; pods are `PgPod`s |
| `pg_faults` (6 k) | both modes, every backup, both ways of starting again, 2 crashes, 1 broken copy, beside a watch | a database is never wiped; a stuck volume and a missed `setup.sql` stay so (`NothingIsMadeUpFor`); a volume gets stuck only by a crash, a broken copy or half a backup, and a slave is read-only unless it crashed; runs unless stuck; is a `PgPod`; the standby takes over, once, if the touch found it |
| `dns` (1.5 M) | 3 containers, two of one name, 2 addresses, 3 events waiting, one failed call, one restart | running containers resolve unless their last start was spoilt, and in the end do |
| `collect` (166 k) | 2 databases, one without tables, 1 fault, every environment | failures are isolated and the total kept (`PollsDeliver`), connections bounded; polls deliver again if every variable is set, and otherwise at most the count of the WAL files, which needs no server (`OnlyCountWithoutSettings`) |
| `dba_jobs` (591 k) | 3 backup runs, 1 vacuum run, 2 faults of any kind, the default settings, a malformed option, and every environment without a port | job and volumes are there after any overlap, and that job is for the run due last (`NothingInVain`); every run leads to a backup or a final failure; no backup is lost; the statement is the one asked for |
| `badger` (199 k, symmetric) | 3 requests, a report of 3 chunks, any run or reading fails | replies are fresh, and whole if alone |
| `split_brain`, `empty_master`, `pg_read_only`, `dns_stale`, `collect_overwrites` | | violations, section 5 |

Why these bounds are enough for the cases to happen: five pods let three losses be replaced, so a
second failover runs on pods the first one created, and two replicas are what makes the loop choose
one slave and delete another. Four pods with all faults let a fault meet a failover that follows
another fault. Two restarts of the watch let a failover that lost the definition be followed by one
that is cut off again, which is where a second slave is promoted. Two crashes of a container reach
a start on what a crashed start left when it was itself crashed. Three events waiting are a stop, a
destroy and a start of the next container of that name. Two databases tell the first, the last and
"all" apart. Three backup runs put a script between the deletes and the creates of two others, and
two faults a pod that dies in one and a command that fails in the next. A backup never runs without
a port, so the environments without one cost a vacuum only, and every combination of its options is
tried. Three requests let one overlap two that do not overlap each other, and three chunks leave a
hole between two owners. The budgets are small on purpose where a property says "as long as no such
fault has happened": the states after the fault are explored but the property is then silent, and
that is said in its comment.

### Fairness

- `Failover`: `ProbeRefused` and `Script` weakly fair, since the script only sleeps for a finite
  time and runs commands that are assumed to return; `CreateSlave`, `BootSlave`, `Start` and
  `Promote` since controller, kubelet and postgres keep trying. `ProbeMissed` and all faults are
  not fair: nothing that goes wrong has to.
- `StandaloneWatch`: the start script, except that on plain Docker nobody has to start a container
  that is down; postgres looking for its trigger file; the probe of a master that is down and the
  `docker exec` after it. The master is not fair; liveness of a slave on OpenShift is stated for a
  master that stays up in the end.
- `DnsBridge`: the bridge's loop. Containers do as they like.
- `Collect`: the loop of `main`. That each query and push returns is an assumption; the code sets
  no timeout (listed as a hazard).
- `DbaJobs`: scripts only sleep; a pod whose volumes exist is started and ends. `Due` is not fair.
- `Badger` has only safety properties.

## 4. Proofs

Each theorem holds for every value of the constants that meets the named assumptions of the module:
any finite set of pods, any number of databases, runs, containers, requests, and any bound on
faults. Every proof module proves the type invariant of its component (`TypeCorrect`, and
`WatchedTypeCorrect` for the standalone watch).

`Failover_proofs`:

- `LostStaysLost`, `ReadOnlyStaysReadOnly` under all faults.
- `RelabelIsFenced`, under all faults: as long as `oc` has worked, a slave is relabelled only while
  the service is gone. The invariant (`FenceInv`) says that `oc` has worked so far and the script
  is past the delete and before the create implies there is no service; a watch restart is
  harmless because it goes back to the probe.
- `ClusterImplementsService`: the cluster refines `MasterService`, and with it
  `LossesKeepOneMaster`, `LossesKeepDefinition` and `LossesDoNotFoolProbe`, in either scenario:
  losses at any moment and no other fault (`OnlyLosses`), or each loss after healing, at least one
  replica, and any number of restarts of the watch (`SpacedLosses`). Each scenario has an invariant
  of its own, and `ScenarioInv` is the two together.
- Losses at any moment: `NoSplitBrain` is not inductive. That the slave about to be relabelled does
  not join another primary depends on no master having data from the failed probe to the
  relabelling (`NoLiveMaster`), on every pod with data still being in the list (`ListCovers`), and
  on a master without data staying without it until the slaves that have some are deleted
  (`DeadMaster`). The service is lost only with the data (`ServiceOrNoData`), and a master with
  data is a primary or has its trigger file (`MastersPromote`), which is what a container that
  restarts breaks. `LossInv` collects these.
- Spaced losses: `SpacedInv` has two halves. With the service or its definition at hand
  (`WithDefinition`), before the choice nobody claims to be master and every slave to choose from
  has data. Without both (`WithoutDefinition`), no pod boots or is lost any more, and the data is
  with a master, which the script does not delete, or with all slaves, of which it makes one a
  master before it deletes any. A restart leads from the first half to the second
  (`WatchRestartStep`, `LostByRestart`), nothing leads back (`LostStep`). A second master may come
  about there, but behind no service. `SpacedKeepsSinglePrimary` and `SpacedKeepsData` follow from
  it too.
- `PodsBehave`, under all faults: every pod is a `PgPod`. `PodInv` says that a pod that is gone has
  left nothing behind, and that the first master has its data while it is there; without it the
  copy of `BootSlave` could fill a master as `PgPod` never does.

`PgContainer_proofs` and `StandaloneWatch_proofs`:

- With `ScriptInv` (`postgresql.conf` is there before the data is complete, so no initialisation is
  under way on a complete database; each command belongs to one mode): `DatabaseIsKept`,
  `StuckStaysStuck`, `MissedSetupStaysMissed` (together `StartsMakeUpForNothing`),
- with `WholeInv` (until something breaks off, the data is complete exactly when `postgresql.conf`
  is there) `StuckTakesABreak`, and with `StandbyInv` (a slave that has not crashed has a
  `recovery.conf` beside a complete copy, or is about to get it, until it is promoted)
  `SlaveStaysReadOnly`, the counterpart of the run `pg_read_only`, and
- `ContainerIsPgPod`: the script is a refinement of `PgPod`. Between the base backup and
  `recovery.conf` the volume counts as empty; a crash there is `PgPod`'s `Die` with its odd outcome.
- `WatchedIsPgContainer`: beside its watch the replica makes only steps of `PgContainer`, so the
  theorems above hold of the pair. `MissedStaysMissed` needs no more than the types.

`DnsBridge_proofs`: `HandledMeansResolved`. `RunningResolves` says nothing while events wait, so
`BridgeInv` says who will still correct a wrong entry: a stop that waits is followed by the start
that made it out of date (`StopsAreFollowed`); if no start of a running container waits, the job at
hand for its name is its start with its present address (`JobIsCurrent`), and without such a job
the name is registered (`RegisteredOrWaits`). Docker's part is that only running containers have
addresses and names are unique among them.

`Collect_proofs`: `ConnectionsAreBounded` from the exact count of pools at each step (`PoolInv`);
`FailuresStayIsolated` from `DeliveredInv` (a collector the poll is past, or the databases one is
past, have delivered unless it failed) and `PushInv` (a poll that ends without a failed push has
pushed everything); `TotalIsKept` from `TotalInv` (the total is the last of its group, so that its
push is the one that stays). `UnsetDeliversNoAnswer` from `UnsetInv`: without a setting no query
works, so there is no database to go through, and all that is collected is the metric without a
name, always the first, and the count of the WAL files. The collectors share one lemma,
`CollectorStep`, for what a step of any of them does.

`DbaJobs_proofs`:

- `JobIsThereAlways`, from `CreatedIfDue`: while `clean` holds, whatever is missing will still be
  created, by a run whose script has not come to that command.
- `NoRunInVain`, from `NewerPodToCome`: a job whose pod is older than the last due run is only
  there while a script still has its first command, the deletion of that job, before it.
- `StatementIsAsAsked`, for every environment. `SettingsRead` says that a run's script, and the job
  it makes, are only there if the settings were complete, and that the pod's program has read what
  they come to; the rest is a lemma of `Vacuum_proofs`, `PodSendsAsDocumented`: reading the
  settings twice, the second time from what the template printed, gives what one reading gives
  (`TwoReadings`), and the words of the statement are those asked for and in order, one option
  after the other (`StatementWords`), whatever the table.
- `NoBackupLost`, a step property without a strengthening beyond the types.
- `FailureIsFinal`, from `FailedIsOver`: a job that failed has no pod that waits or works.
- `VolumesStay`, from `OneAtATime` and `NoJobMeanwhile`: without overlaps one script runs, and
  between its first command and its last there is no job whose pod could lose its volumes.

`Badger_proofs`: `RepliesAreFresh` and `AloneIsWhole`, from `BadgerInv`: from the moment its
pgbadger has emptied the file, the file holds chunks of that request and of requests beside it
only (`FileIsFresh`), and if there were none, all that it has written or read so far is its own.

Only model-checked: all liveness (`HealsAgain`, `ServedOrNoData`, `RunsUnlessStuck`, `AlwaysRuns`,
`StandbyTakesOver`, `TouchSurvivesRestart`, `ResolvesInTheEnd`, `CollectionResumes`,
`EveryRunWorks`), which is out of the prover's reach. Every invariant and every action property
that a passing run checks is proved.

## 5. Where code and documents disagree

Each of the first five is a run that ends in a counterexample.

1. `split_brain`: the failover starts at the first failed probe, and the old master keeps its
   label. If it merely restarted, the recreated service leads to both primaries.
2. `empty_master`: the first slave of the list is promoted although it may not have any data yet,
   and the good standby is deleted.
3. `pg_read_only`: a slave container that dies between its base backup and `recovery.conf` starts
   as a primary.
4. `dns_stale`: the name of a stopped or destroyed container stays registered, because `Action`
   returns early for a container without an address.
5. `collect_overwrites`: only the last database's size survives a poll.

Met while modelling, and shown by a property that holds rather than by one that fails:

- The definition of the service is lost for good when the watch restarts between lines 71 and 90
  (`LostForGood`): the next failover saves an empty file. It costs nothing else
  (`HealsAgain`, `DataSurvives`, `NeverTwoMasters`).
- A container restart of the slave around the touch loses the trigger file; the slave is relabelled
  all the same and stays read-only, while pg_isready succeeds (`ReadOnlyStays`). So `HealsAgain` is
  checked without such restarts.
- `docs/containers.asciidoc:226` says that the standalone watch goes on with the new master. The
  script exits after its failover, and if its `docker exec` found the replica stopped, it has
  exited all the same and the failover is never made up for (`MissedForGood`).
- A database whose `setup.sql` did not get through within three seconds never gets it
  (`SetupMissedForGood`).
- `start-backupjob.sh` and `vacuum` report success when they have failed, so their jobs are not
  tried again (`FailedForGood`).
- With a table and every option turned off, VACUUM and the name of the table are sent as one word,
  which no server understands; the job is reported as done (`StatementAsAsked`, `FailedForGood`).
- The vacuum program ignores the errors of `GetParms`. As `dba` starts it there are none
  (`StatementAsAsked`); started by hand with a malformed option it uses that one as false and the
  defaults for those after it.
- `docs/containers.asciidoc:115` gives a default for `PROM_GATEWAY`. `getEnvVars` overwrites it
  before it tests the variable, and returns; so it does with `PG_PORT`, where it tests another
  variable by mistake. With either unset, or with a `POLL_INT` that is no number (which makes the
  interval zero), the collector polls and never delivers what it asks the server for. The count of
  the WAL files, which it takes without the server, arrives if a gateway is known and accepts the
  metric without a name that is pushed before it (`OnlyCountWithoutSettings`).

## 6. Not modelled

Nothing to model: pgpool, prometheus, grafana and consul (third party, started with fixed
arguments), secrets, images and makefiles, examples and tests, documentation, and code that nothing
runs (two collectors among it). The OpenShift templates are modelled as far as they say how the
controllers of a cluster behave (`Failover`); beyond that they differ in volumes and variables.

Left out of modelled parts:

- The values of metrics, and with them the conversion of an infinite hit ratio
  (`pgstatdatabase.go:155`).
- Calls that never return: every command, query and push is taken to end, with or without an
  error.
- The environment of `dnsbridgeserver`: it is read once, and its errors are dropped.
- Whether Docker's events can overtake one another on their way through the client library, which
  is not in the repository. `RunningResolves` depends on their order: a stop that is handled after
  the start that followed it takes the name of a running container away.
- Replication lag, and what clients do.
- The `trust` lines of `pg_hba.conf`, for connections of the server's own container: a collector in
  a container of its own comes over the network, where a password is asked for.
- The aborts of `start.sh` on a missing variable: the container is started with what it needs.
- Schedules so short that a run deletes the job of the one before it every time: no backup would
  ever come to its end. `EveryRunWorks` is about finitely many runs, so that one is the last.

What could be added: a model of the conversion of metrics.
