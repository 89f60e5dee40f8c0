------------------------------- MODULE Collect -------------------------------
(***************************************************************************)
(* crunchy-collect: collectserver wakes up every few minutes, queries      *)
(* PostgreSQL collector by collector and then pushes what it has, metric   *)
(* by metric, to the Prometheus push gateway.                              *)
(*                                                                         *)
(* Any query and any push may fail.  A collector whose query fails returns *)
(* what it has so far, and a push that fails ends the poll.  The gateway   *)
(* keeps one group per metric name and host: a push replaces the group.    *)
(*                                                                         *)
(* The sixteen names of pg_stat_database, the ten of the background writer *)
(* and the three of the table sizes each stand together as one group, for  *)
(* they are collected by one query and pushed in the same order.           *)
(***************************************************************************)
EXTENDS Naturals, Sequences, FiniteSets

CONSTANTS
  Databases,  \* the databases of the cluster, without the templates
  HomeDb,     \* the database the collector is connected to
  Bare,       \* the databases without tables of their users
  MaxFaults,  \* how many queries and pushes fail
  Settings    \* the environments collectserver is started with

ASSUME DatabasesAssumption == IsFiniteSet(Databases) /\ HomeDb \in Databases
ASSUME BareAssumption == Bare \subseteq Databases
ASSUME FaultsAssumption == MaxFaults \in Nat

\* Which variables are set; an interval that is not set is as good as one that is.
Environments ==
  [POLL_INT : {"good", "malformed"}, HOSTNAME : BOOLEAN, PROM_GATEWAY : BOOLEAN,
   PG_ROOT_PASSWORD : BOOLEAN, PG_PORT : BOOLEAN]
ASSUME SettingsAssumption == Settings \subseteq Environments

VARIABLES
  env,      \* the environment of collectserver
  pc,       \* the collector that runs, "push" or "sleep"
  dbs,      \* the names GetDatabases returned
  i,        \* the loop index of the collectors that go through dbs
  metrics,  \* what has been collected in this poll
  pushed,   \* how many of them have been pushed
  pools,    \* the sql.DB objects that are open
  gateway,  \* for each group the databases it holds a metric of
  failed,   \* history: what went wrong in this poll
  faults    \* what is left of MaxFaults

poll == <<pc, dbs, i, metrics, pushed, pools, gateway, failed, faults>>
vars == <<poll, env>>

\* The order of GetMetrics.
Order == <<"databases", "connections", "connectionutil", "databasesize", "pg_stat",
           "bgwriter", "lock_count", "table_size", "pct_dead", "xlog_count", "push">>
Steps == {Order[k] : k \in 1..Len(Order)}
Groups == Steps \ {"databases", "push"}
After(step) == Order[(CHOOSE k \in 1..Len(Order) : Order[k] = step) + 1]

\* "cluster" is not a database; a collector that failed may return a metric
\* that has no name.
Metric == [group : Groups \cup {"noname"}, db : Databases \cup {"cluster"}]
ClusterMetric(group) == [group |-> group, db |-> "cluster"]

TypeOK ==
  /\ env \in Environments
  /\ pc \in Steps \cup {"sleep"}
  /\ dbs \in Seq(Databases)
  /\ i \in Nat
  /\ metrics \in Seq(Metric)
  /\ pushed \in 0..Len(metrics)
  /\ pools \in Nat
  /\ gateway \in [Groups \cup {"noname"} -> SUBSET (Databases \cup {"cluster"})]
  /\ failed \subseteq Steps
  /\ faults \in 0..MaxFaults

-----------------------------------------------------------------------------

Lists == {s \in [1..Cardinality(Databases) -> Databases] :
            \A j, k \in DOMAIN s : s[j] = s[k] => j = k}
Firsts(s) == {SubSeq(s, 1, n) : n \in 0..(Len(s) - 1)}

\* getEnvVars reads the variables in the order they have in Environments and
\* returns at the first that is missing; nobody looks at its error.  The
\* gateway and the port have defaults, which a variable that is read and not
\* set overwrites all the same.
HostKnown == env.POLL_INT = "good" /\ env.HOSTNAME
GatewayKnown == HostKnown => env.PROM_GATEWAY
PasswordKnown == HostKnown /\ env.PROM_GATEWAY /\ env.PG_ROOT_PASSWORD
PortKnown == PasswordKnown => env.PG_PORT

\* pg_hba.conf lets nobody in without a password.
ServerKnown == HostKnown /\ PasswordKnown /\ PortKnown

Fault == faults > 0 /\ faults' = faults - 1

\* The collector ends with what it has, or there is an error in its way.
Done == pc' = After(pc) /\ i' = 1
Succeeds == UNCHANGED <<failed, faults>>
GivesUp == failed' = failed \cup {pc}

\* Without its settings collectserver asks a server that is not there.
QueryWorks == ServerKnown /\ Succeeds
QueryFails == GivesUp /\ IF ServerKnown THEN Fault ELSE UNCHANGED faults

\* Mutants: the count of pushed metrics is not reset; a failed push makes the
\* collector skip its polls.
MutKeepsCount ==
  /\ pc = "sleep"
  /\ pc' = "databases"
  /\ dbs' = <<>> /\ i' = 1 /\ metrics' = <<>>
  /\ pools' = 1
  /\ failed' = {}
  /\ UNCHANGED <<pushed, gateway, faults>>

MutSkipsPolls ==
  /\ pc = "sleep"
  /\ IF "push" \in failed
       THEN UNCHANGED <<pc, dbs, i, metrics, pushed, pools, failed>>
       ELSE /\ pc' = "databases"
            /\ dbs' = <<>> /\ i' = 1 /\ metrics' = <<>> /\ pushed' = 0
            /\ pools' = 1
            /\ failed' = {}
  /\ UNCHANGED <<gateway, faults>>

\* sql.Open connects to nothing yet, so it does not fail.
Wake ==
  /\ pc = "sleep"
  /\ pc' = "databases"
  /\ dbs' = <<>> /\ i' = 1 /\ metrics' = <<>> /\ pushed' = 0
  /\ pools' = 1
  /\ failed' = {}
  /\ UNCHANGED <<gateway, faults>>

\* A connection that breaks while the rows are read shortens the list; the
\* loop does not ask for the error.
GetDatabases ==
  /\ pc = "databases"
  /\ \E s \in Lists :
       \/ dbs' = s /\ QueryWorks
       \/ dbs' \in Firsts(s) /\ (ServerKnown \/ dbs' = <<>>) /\ QueryFails
  /\ Done
  /\ UNCHANGED <<metrics, pushed, pools, gateway>>

GetConnectionMetrics ==
  /\ pc = "connections"
  /\ \E s \in Lists :
       LET rows == [k \in 1..Len(s) |-> [group |-> pc, db |-> s[k]]] IN
       \/ metrics' = metrics \o Append(rows, ClusterMetric(pc)) /\ QueryWorks
       \/ \E some \in Firsts(rows) :
            metrics' = metrics \o some /\ (ServerKnown \/ some = <<>>) /\ QueryFails
  /\ Done
  /\ UNCHANGED <<dbs, pushed, pools, gateway>>

\* Mutant: the metric has its name also if the query fails.
MutNamedFirst ==
  /\ pc = "connectionutil"
  /\ metrics' = Append(metrics, ClusterMetric(pc))
  /\ QueryWorks \/ QueryFails
  /\ Done
  /\ UNCHANGED <<dbs, pushed, pools, gateway>>

GetConnectionUtilMetrics ==
  /\ pc = "connectionutil"
  /\ \/ metrics' = Append(metrics, ClusterMetric(pc)) /\ QueryWorks
     \/ metrics' = Append(metrics, ClusterMetric("noname")) /\ QueryFails
  /\ Done
  /\ UNCHANGED <<dbs, pushed, pools, gateway>>

\* One row, or nothing.
BgwriterMetrics ==
  /\ pc = "bgwriter"
  /\ \/ metrics' = Append(metrics, ClusterMetric(pc)) /\ QueryWorks
     \/ UNCHANGED metrics /\ QueryFails
  /\ Done
  /\ UNCHANGED <<dbs, pushed, pools, gateway>>

\* The server has no part in it: xlog-count.sh counts files below /pgdata and
\* ends well, with or without files, so only a script that cannot be run costs
\* the metric.
XlogCountMetrics ==
  /\ pc = "xlog_count"
  /\ \/ metrics' = Append(metrics, ClusterMetric(pc)) /\ Succeeds
     \/ UNCHANGED metrics /\ GivesUp /\ Fault
  /\ Done
  /\ UNCHANGED <<dbs, pushed, pools, gateway>>

\* Mutant: the loop stops before the last database.
MutLoopEndsEarly ==
  /\ i >= Len(dbs)
  /\ Done
  /\ Succeeds
  /\ UNCHANGED <<dbs, metrics, pushed, pools, gateway>>

LoopEnds ==
  /\ i > Len(dbs)
  /\ Done
  /\ Succeeds
  /\ UNCHANGED <<dbs, metrics, pushed, pools, gateway>>

Row ==
  /\ metrics' = Append(metrics, [group |-> pc, db |-> dbs[i]])
  /\ pc' = pc /\ i' = i + 1
  /\ Succeeds

\* GetDatabaseSizeMetrics, PgStatDatabaseMetrics and LockMetrics: a query per
\* database over the one connection; the first that fails ends the loop.
PerDatabase ==
  \/ LoopEnds
  \/ /\ i <= Len(dbs)
     /\ \/ Row
        \/ UNCHANGED metrics /\ Done /\ GivesUp /\ Fault
     /\ UNCHANGED <<dbs, pushed, pools, gateway>>

GetDatabaseSizeMetrics == pc = "databasesize" /\ PerDatabase
PgStatDatabaseMetrics == pc = "pg_stat" /\ PerDatabase

\* No row is an error as well: nobody has to hold a lock in a database other
\* than the one the query itself runs in.
LockMetrics ==
  /\ pc = "lock_count"
  /\ \/ PerDatabase
     \/ /\ i <= Len(dbs) /\ dbs[i] # HomeDb
        /\ Done /\ GivesUp
        /\ UNCHANGED <<dbs, metrics, pushed, pools, gateway, faults>>

\* Mutant: the pools are closed when process returns.
MutClosesLate ==
  /\ i > Len(dbs)
  /\ Done
  /\ Succeeds
  /\ UNCHANGED <<dbs, metrics, pushed, pools, gateway>>

\* The next two open a pool for each database in turn, and the deferred
\* Close of all of them runs when the function returns.
LoopEndsAndCloses ==
  /\ i > Len(dbs)
  /\ Done
  /\ pools' = 1
  /\ Succeeds
  /\ UNCHANGED <<dbs, metrics, pushed, gateway>>

ReturnEarly ==
  /\ Done /\ GivesUp
  /\ pools' = 1
  /\ UNCHANGED metrics

\* A table below one megabyte is not reported; a database without tables is
\* an error.
TableSizesMetrics ==
  /\ pc = "table_size"
  /\ \/ LoopEndsAndCloses
     \/ /\ i <= Len(dbs)
        /\ \/ dbs[i] \notin Bare /\ Row /\ pools' = pools + 1
           \/ /\ dbs[i] \notin Bare
              /\ pc' = pc /\ i' = i + 1 /\ pools' = pools + 1
              /\ Succeeds /\ UNCHANGED metrics
           \/ dbs[i] \in Bare /\ ReturnEarly /\ UNCHANGED faults
           \/ ReturnEarly /\ Fault
        /\ UNCHANGED <<dbs, pushed, gateway>>

\* At most one table with many dead rows per database; one that was never
\* vacuumed or analyzed has a NULL in its row, which ends the loop.
DeadRowsMetrics ==
  /\ pc = "pct_dead"
  /\ \/ LoopEndsAndCloses
     \/ /\ i <= Len(dbs)
        /\ \/ dbs[i] \notin Bare /\ Row /\ pools' = pools + 1
           \/ /\ pc' = pc /\ i' = i + 1 /\ pools' = pools + 1
              /\ Succeeds /\ UNCHANGED metrics
           \/ dbs[i] \notin Bare /\ ReturnEarly /\ UNCHANGED faults
           \/ ReturnEarly /\ Fault
        /\ UNCHANGED <<dbs, pushed, gateway>>

\* process returns, and its deferred Close runs.
PollEnds ==
  /\ pc' = "sleep"
  /\ pools' = 0

\* A metric without a name is not accepted by every gateway.
PushFails ==
  /\ pushed < Len(metrics)
  /\ \/ Fault
     \/ ~GatewayKnown /\ UNCHANGED faults
     \/ metrics[pushed + 1].group = "noname" /\ UNCHANGED faults
  /\ GivesUp
  /\ PollEnds
  /\ UNCHANGED <<pushed, gateway>>

WritePrometheusMetrics ==
  /\ pc = "push"
  /\ \/ /\ pushed < Len(metrics) /\ GatewayKnown
        /\ LET m == metrics[pushed + 1] IN gateway' = [gateway EXCEPT ![m.group] = {m.db}]
        /\ pushed' = pushed + 1
        /\ UNCHANGED <<pc, pools>>
        /\ Succeeds
     \/ PushFails
     \/ pushed = Len(metrics) /\ PollEnds /\ Succeeds /\ UNCHANGED <<pushed, gateway>>
  /\ UNCHANGED <<dbs, i, metrics>>

Init ==
  /\ env \in Settings
  /\ pc = "sleep"
  /\ dbs = <<>> /\ i = 1 /\ metrics = <<>> /\ pushed = 0
  /\ pools = 0
  /\ gateway = [g \in Groups \cup {"noname"} |-> {}]
  /\ failed = {}
  /\ faults = MaxFaults

Process ==
  \/ Wake \/ GetDatabases \/ GetConnectionMetrics \/ GetConnectionUtilMetrics
  \/ GetDatabaseSizeMetrics \/ PgStatDatabaseMetrics \/ BgwriterMetrics \/ LockMetrics
  \/ TableSizesMetrics \/ DeadRowsMetrics \/ XlogCountMetrics \/ WritePrometheusMetrics

Next == Process /\ UNCHANGED env

Spec == Init /\ [][Next]_vars

\* The loop of main never ends.  That every query and push returns in the end
\* is an assumption: the code sets no timeout.
FairSpec == Spec /\ WF_vars(Next)

-----------------------------------------------------------------------------
(* Properties.                                                             *)

\* Between two polls; metrics, pushed and failed tell of the last one.
Asleep == pc = "sleep" /\ metrics # <<>>

Pushed(group, db) == \E k \in 1..pushed : metrics[k] = [group |-> group, db |-> db]

\* A query that fails costs its own collector only: if the pushes went well,
\* every other collector has delivered what it is there for, of each database
\* in the list or of the cluster.
FailuresAreIsolated ==
  Asleep /\ "push" \notin failed =>
    /\ \A g \in {"databasesize", "pg_stat", "lock_count"} \ failed :
         \A k \in 1..Len(dbs) : Pushed(g, dbs[k])
    /\ \A g \in {"connections", "connectionutil", "bgwriter", "xlog_count"} \ failed :
         Pushed(g, "cluster")

\* The total of the connections survives in its group although the counts of
\* the databases are pushed into the same one.
ClusterTotalKept ==
  Asleep /\ "connections" \notin failed /\ "push" \notin failed =>
    gateway["connections"] = {"cluster"}

\* What a poll whose pushes go well delivers, whatever else fails in it.
PollsDeliver == FailuresAreIsolated /\ ClusterTotalKept

\* The collector never has more connections to the server than one for itself
\* and one per database, and none while it sleeps, however its queries fail.
ConnectionsBounded ==
  /\ pools <= 1 + Len(dbs)
  /\ pc = "sleep" => pools = 0

\* Without one of the four variables, or with an interval that is no number,
\* nothing the server is asked for ever reaches the gateway, the default of the
\* port notwithstanding: at most the count of the WAL files, which is taken
\* without the server, and that only behind the metric without a name.  If only
\* the gateway is to blame its default is lost too, and nothing at all arrives.
AllSet ==
  /\ env.POLL_INT = "good"
  /\ env.HOSTNAME /\ env.PROM_GATEWAY /\ env.PG_ROOT_PASSWORD /\ env.PG_PORT
Arrived == {g \in Groups \cup {"noname"} : gateway[g] # {}}
GatewayMissing == env.POLL_INT = "good" /\ env.HOSTNAME /\ ~env.PROM_GATEWAY
OnlyCountWithoutSettings ==
  ~AllSet =>
    /\ Arrived \subseteq {"noname", "xlog_count"}
    /\ "xlog_count" \in Arrived => "noname" \in Arrived
    /\ GatewayMissing => Arrived = {}

\* If everything is set there is, after any number of failures, again a poll
\* whose metrics all reach the gateway.
Delivered == Asleep /\ pushed = Len(metrics) /\ "connectionutil" \notin failed
CollectionResumes == AllSet => []<>Delivered

\* After a poll in which nothing failed the gateway knows the size of every
\* database ("crunchy_databasesize, the size in Megabytes of a database").
EveryDatabaseKept == Asleep /\ failed = {} => gateway["databasesize"] = Databases
=============================================================================
