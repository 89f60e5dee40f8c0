---------------------------- MODULE Collect_proofs ----------------------------
(***************************************************************************)
(* Theorems about Collect, for any number of databases, with and without   *)
(* tables, and any number of queries and pushes that fail.                 *)
(***************************************************************************)
EXTENDS Collect, FiniteSetTheorems, SequenceTheorems, TLAPS

\* The place of each step in a poll.
Rank ==
  [databases |-> 1, connections |-> 2, connectionutil |-> 3, databasesize |-> 4, pg_stat |-> 5,
   bgwriter |-> 6, lock_count |-> 7, table_size |-> 8, pct_dead |-> 9, xlog_count |-> 10,
   push |-> 11, sleep |-> 12]

LEMMA StepFacts ==
  /\ Steps = {"databases", "connections", "connectionutil", "databasesize", "pg_stat", "bgwriter",
              "lock_count", "table_size", "pct_dead", "xlog_count", "push"}
  /\ Groups \subseteq Steps /\ "push" \notin Groups /\ "databases" \notin Groups
  <1>1. Len(Order) = 11
    BY DEF Order
  <1>2. Steps = {Order[1], Order[2], Order[3], Order[4], Order[5], Order[6], Order[7], Order[8],
                 Order[9], Order[10], Order[11]}
    <2>1. \A k : k \in 1..11 <=> \/ k = 1 \/ k = 2 \/ k = 3 \/ k = 4 \/ k = 5 \/ k = 6 \/ k = 7
                                 \/ k = 8 \/ k = 9 \/ k = 10 \/ k = 11
      OBVIOUS
    <2> QED
      BY <1>1, <2>1 DEF Steps
  <1> QED
    BY <1>2 DEF Order, Groups

\* The step after another is the next in place.
LEMMA AfterFacts ==
  /\ After("databases") = "connections" /\ After("connections") = "connectionutil"
  /\ After("connectionutil") = "databasesize" /\ After("databasesize") = "pg_stat"
  /\ After("pg_stat") = "bgwriter" /\ After("bgwriter") = "lock_count"
  /\ After("lock_count") = "table_size" /\ After("table_size") = "pct_dead"
  /\ After("pct_dead") = "xlog_count" /\ After("xlog_count") = "push"
  <1>1. Len(Order) = 11
    BY DEF Order
  <1>2. ASSUME NEW k \in 1..10
        PROVE  After(Order[k]) = Order[k + 1]
    <2>1. k \in 1..Len(Order) /\ Order[k] = Order[k]
      BY <1>1
    <2>2. \A j \in 1..Len(Order) : Order[j] = Order[k] => j = k
      <3>1. \A j \in 1..11 : \/ j = 1 \/ j = 2 \/ j = 3 \/ j = 4 \/ j = 5 \/ j = 6 \/ j = 7
                             \/ j = 8 \/ j = 9 \/ j = 10 \/ j = 11
        OBVIOUS
      <3> QED
        BY <1>1, <3>1 DEF Order
    <2>3. (CHOOSE j \in 1..Len(Order) : Order[j] = Order[k]) = k
      BY <2>1, <2>2
    <2> QED
      BY <2>3 DEF After
  <1>3. /\ After(Order[1]) = Order[2] /\ After(Order[2]) = Order[3] /\ After(Order[3]) = Order[4]
        /\ After(Order[4]) = Order[5] /\ After(Order[5]) = Order[6] /\ After(Order[6]) = Order[7]
        /\ After(Order[7]) = Order[8] /\ After(Order[8]) = Order[9] /\ After(Order[9]) = Order[10]
        /\ After(Order[10]) = Order[11]
    BY <1>2
  <1> QED
    BY <1>3 DEF Order

\* A step that is no push is followed by one; its place is the next.
LEMMA RankFacts ==
  \A s \in Steps \ {"push"} :
    /\ After(s) \in Steps /\ Rank[After(s)] = Rank[s] + 1
    /\ \A g \in Groups : Rank[g] < Rank[After(s)] <=> Rank[g] < Rank[s] \/ g = s
  <1> SUFFICES ASSUME NEW s \in Steps \ {"push"}
               PROVE  /\ After(s) \in Steps /\ Rank[After(s)] = Rank[s] + 1
                      /\ \A g \in Groups : Rank[g] < Rank[After(s)] <=> Rank[g] < Rank[s] \/ g = s
    OBVIOUS
  <1>1. After(s) \in Steps /\ Rank[After(s)] = Rank[s] + 1
    BY StepFacts, AfterFacts DEF Rank
  <1>2. \A g, h \in Steps : Rank[g] \in Nat /\ (Rank[g] = Rank[h] => g = h)
    BY StepFacts DEF Rank
  <1> QED
    BY <1>1, <1>2, StepFacts

\* Sequences of the databases, and what is left of one that is broken off.
LEMMA ListsAreSequences == \A s \in Lists : s \in Seq(Databases)
  <1>1. Cardinality(Databases) \in Nat
    BY DatabasesAssumption, FS_CardinalityType
  <1> QED
    BY <1>1, SeqDef DEF Lists

LEMMA FirstsFacts ==
  ASSUME NEW S, NEW s \in Seq(S), NEW some \in Firsts(s)
  PROVE  some \in Seq(S) /\ \A k \in 1..Len(some) : k \in 1..Len(s) /\ some[k] = s[k]
  <1>1. PICK n \in 0..(Len(s) - 1) : some = SubSeq(s, 1, n)
    BY DEF Firsts
  <1>2. Len(s) \in Nat /\ \A k \in 1..n : s[k] \in S
    BY <1>1, LenProperties, ElementOfSeq
  <1> QED
    BY <1>1, <1>2, SubSeqProperties

-----------------------------------------------------------------------------
(* A step of a collector.                                                  *)

Extends(m, n) == n \in Seq(Metric) /\ Len(m) <= Len(n) /\ \A k \in 1..Len(m) : n[k] = m[k]
Added(m, n, groups) == \A k \in (Len(m) + 1)..Len(n) : n[k].group \in groups

LEMMA NothingAdded ==
  ASSUME NEW m \in Seq(Metric), NEW groups PROVE Extends(m, m) /\ Added(m, m, groups)
  <1>1. Len(m) \in Nat
    BY LenProperties
  <1> QED
    BY <1>1 DEF Extends, Added

LEMMA OneAdded ==
  ASSUME NEW m \in Seq(Metric), NEW x \in Metric
  PROVE  /\ Extends(m, Append(m, x)) /\ Added(m, Append(m, x), {x.group})
         /\ Len(Append(m, x)) = Len(m) + 1 /\ Append(m, x)[Len(m) + 1] = x
  <1>1. Len(m) \in Nat
    BY LenProperties
  <1>2. /\ Append(m, x) \in Seq(Metric) /\ Len(Append(m, x)) = Len(m) + 1
        /\ \A k \in 1..Len(m) : Append(m, x)[k] = m[k]
        /\ Append(m, x)[Len(m) + 1] = x
    BY AppendProperties
  <1> QED
    BY <1>1, <1>2 DEF Extends, Added

LEMMA SomeAdded ==
  ASSUME NEW m \in Seq(Metric), NEW n \in Seq(Metric), NEW groups,
         \A k \in 1..Len(n) : n[k].group \in groups
  PROVE  /\ Extends(m, m \o n) /\ Added(m, m \o n, groups)
         /\ Len(m \o n) = Len(m) + Len(n)
         /\ Len(n) > 0 => (m \o n)[Len(m \o n)] = n[Len(n)]
  <1>1. Len(m) \in Nat /\ Len(n) \in Nat
    BY LenProperties
  <1>2. /\ m \o n \in Seq(Metric) /\ Len(m \o n) = Len(m) + Len(n)
        /\ \A k \in 1..(Len(m) + Len(n)) : (m \o n)[k] = IF k <= Len(m) THEN m[k] ELSE n[k - Len(m)]
    BY ConcatProperties
  <1> QED
    BY <1>1, <1>2 DEF Extends, Added

\* The groups a collector has to deliver for each database in the list, and
\* those it has to deliver for the cluster.
ByDatabase == {"databasesize", "pg_stat", "lock_count"}
ByCluster == {"connections", "connectionutil", "bgwriter", "xlog_count"}
Pools == {"table_size", "pct_dead"}

Types == TypeOK /\ i \in 1..(Len(dbs) + 1)

\* What every collector does in a step.
Stays == pc' = pc /\ i <= Len(dbs) /\ i' = i + 1
Moves == pc' = After(pc) /\ i' = 1
CollectorStep ==
  /\ pc \in Steps \ {"push"}
  /\ Extends(metrics, metrics') /\ Added(metrics, metrics', {pc, "noname"})
  /\ UNCHANGED <<pushed, gateway>>
  /\ dbs' \in Seq(Databases) /\ (pc # "databases" => dbs' = dbs)
  /\ Stays \/ Moves
  /\ failed' = failed \/ failed' = failed \cup {pc}
  /\ faults' \in 0..MaxFaults
  /\ pc \notin Pools => UNCHANGED pools
  /\ pc \in Pools => (Stays => pools' = pools + 1) /\ (Moves => pools' = 1)
  /\ pc \in ByDatabase /\ pc \notin failed' =>
       \/ Stays /\ \E k \in 1..Len(metrics') : metrics'[k] = [group |-> pc, db |-> dbs[i]]
       \/ Moves /\ i > Len(dbs)
  /\ pc \in ByCluster => Moves
  /\ pc \in ByCluster /\ pc \notin failed' =>
       /\ Len(metrics') > Len(metrics)
       /\ metrics'[Len(metrics')] = ClusterMetric(pc)

\* Adding a row to the metrics, or ending the collector with an error.
LEMMA FaultType ==
  TypeOK => (Succeeds => failed' = failed /\ faults' \in 0..MaxFaults)
            /\ (Fault => faults' \in 0..MaxFaults)
            /\ (UNCHANGED faults => faults' \in 0..MaxFaults)
            /\ (QueryWorks => failed' = failed /\ faults' \in 0..MaxFaults)
            /\ (QueryFails => failed' = failed \cup {pc} /\ faults' \in 0..MaxFaults)
  BY FaultsAssumption DEF TypeOK, Succeeds, Fault, QueryWorks, QueryFails, GivesUp

LEMMA RowAdded ==
  ASSUME Types, pc \in Groups, i <= Len(dbs), Row
  PROVE  /\ Extends(metrics, metrics') /\ Added(metrics, metrics', {pc, "noname"})
         /\ \E k \in 1..Len(metrics') : metrics'[k] = [group |-> pc, db |-> dbs[i]]
         /\ Stays /\ failed' = failed /\ faults' \in 0..MaxFaults
  <1> DEFINE x == [group |-> pc, db |-> dbs[i]]
  <1>1. metrics \in Seq(Metric) /\ dbs[i] \in Databases /\ Len(metrics) \in Nat
    BY ElementOfSeq, LenProperties DEF Types, TypeOK
  <1>2. x \in Metric /\ x.group = pc
    BY <1>1 DEF Metric
  <1>3. metrics' = Append(metrics, x)
    BY DEF Row
  <1>4. /\ Extends(metrics, Append(metrics, x)) /\ Added(metrics, Append(metrics, x), {pc})
        /\ Len(Append(metrics, x)) = Len(metrics) + 1 /\ Append(metrics, x)[Len(metrics) + 1] = x
    BY <1>1, <1>2, OneAdded
  <1>5. Stays /\ failed' = failed /\ faults' \in 0..MaxFaults
    BY FaultType DEF Row, Stays, Types
  <1>6. Len(metrics') = Len(metrics) + 1 /\ metrics'[Len(metrics) + 1] = x
    BY <1>3, <1>4
  <1>7. \E k \in 1..Len(metrics') : metrics'[k] = x
    BY <1>1, <1>6
  <1> QED
    BY <1>3, <1>4, <1>5, <1>7 DEF Added

LEMMA LoopStep ==
  ASSUME Types, pc \in ByDatabase, PerDatabase
  PROVE  CollectorStep
  <1>1. pc \in Groups /\ pc \in Steps \ {"push"} /\ pc \notin ByCluster /\ pc \notin Pools
        /\ pc # "databases" /\ metrics \in Seq(Metric) /\ dbs \in Seq(Databases)
    BY StepFacts DEF ByDatabase, ByCluster, Pools, Groups, Types, TypeOK
  <1>2. CASE LoopEnds
    BY <1>1, <1>2, FaultType, NothingAdded DEF LoopEnds, CollectorStep, Done, Moves, Types
  <1>3. CASE i <= Len(dbs) /\ Row /\ UNCHANGED <<dbs, pushed, pools, gateway>>
    BY <1>1, <1>3, RowAdded DEF CollectorStep
  <1>4. CASE UNCHANGED metrics /\ Done /\ GivesUp /\ Fault /\ UNCHANGED <<dbs, pushed, pools, gateway>>
    BY <1>1, <1>4, FaultType, NothingAdded DEF CollectorStep, Done, GivesUp, Moves, Types
  <1> QED
    BY <1>2, <1>3, <1>4 DEF PerDatabase

\* The two collectors that open a connection to each database.
LEMMA PoolStep ==
  ASSUME Types, pc \in Pools,
         \/ LoopEndsAndCloses
         \/ /\ i <= Len(dbs)
            /\ \/ Row /\ pools' = pools + 1
               \/ /\ pc' = pc /\ i' = i + 1 /\ pools' = pools + 1
                  /\ Succeeds /\ UNCHANGED metrics
               \/ ReturnEarly /\ (Fault \/ UNCHANGED faults)
            /\ UNCHANGED <<dbs, pushed, gateway>>
  PROVE  CollectorStep
  <1>1. /\ pc \in Groups /\ pc \in Steps \ {"push"} /\ pc \notin ByCluster /\ pc \notin ByDatabase
        /\ pc # "databases" /\ metrics \in Seq(Metric) /\ dbs \in Seq(Databases)
        /\ After(pc) # pc
    BY StepFacts, AfterFacts DEF ByDatabase, ByCluster, Pools, Groups, Types, TypeOK
  <1>2. CASE LoopEndsAndCloses
    BY <1>1, <1>2, FaultType, NothingAdded
    DEF LoopEndsAndCloses, CollectorStep, Done, Moves, Stays, Types
  <1>3. CASE /\ i <= Len(dbs) /\ Row /\ pools' = pools + 1 /\ UNCHANGED <<dbs, pushed, gateway>>
    BY <1>1, <1>3, RowAdded DEF CollectorStep, Stays, Moves
  <1>4. CASE /\ i <= Len(dbs) /\ pc' = pc /\ i' = i + 1 /\ pools' = pools + 1
             /\ Succeeds /\ UNCHANGED <<metrics, dbs, pushed, gateway>>
    BY <1>1, <1>4, FaultType, NothingAdded DEF CollectorStep, Stays, Moves, Types
  <1>5. CASE /\ ReturnEarly /\ (Fault \/ UNCHANGED faults) /\ UNCHANGED <<dbs, pushed, gateway>>
    BY <1>1, <1>5, FaultType, NothingAdded
    DEF ReturnEarly, CollectorStep, Done, GivesUp, Stays, Moves, Types
  <1> QED
    BY <1>2, <1>3, <1>4, <1>5

LEMMA DatabasesStep == ASSUME Types, GetDatabases PROVE CollectorStep
  <1>1. pc = "databases" /\ pc \in Steps \ {"push"} /\ pc \notin ByCluster /\ pc \notin ByDatabase
        /\ pc \notin Pools /\ metrics \in Seq(Metric)
    BY StepFacts DEF ByDatabase, ByCluster, Pools, GetDatabases, Types, TypeOK
  <1>2. Done /\ UNCHANGED <<metrics, pushed, pools, gateway>>
    BY DEF GetDatabases
  <1>3. PICK s \in Lists : \/ dbs' = s /\ QueryWorks
                           \/ dbs' \in Firsts(s) /\ QueryFails
    BY DEF GetDatabases
  <1>4. s \in Seq(Databases)
    BY ListsAreSequences
  <1>5. dbs' \in Seq(Databases)
    BY <1>3, <1>4, FirstsFacts
  <1>6. (failed' = failed \/ failed' = failed \cup {pc}) /\ faults' \in 0..MaxFaults
    BY <1>3, FaultType DEF Types
  <1> QED
    BY <1>1, <1>2, <1>5, <1>6, NothingAdded DEF CollectorStep, Done, Moves

LEMMA ConnectionsStep == ASSUME Types, GetConnectionMetrics PROVE CollectorStep
  <1>1. pc = "connections" /\ pc \in Groups /\ pc \in Steps \ {"push"} /\ pc \in ByCluster
        /\ pc \notin ByDatabase /\ pc \notin Pools /\ metrics \in Seq(Metric) /\ dbs \in Seq(Databases)
    BY StepFacts DEF ByDatabase, ByCluster, Pools, Groups, GetConnectionMetrics, Types, TypeOK
  <1>2. Moves /\ UNCHANGED <<dbs, pushed, pools, gateway>>
    BY DEF GetConnectionMetrics, Done, Moves
  <1>3. PICK s \in Lists :
          LET rows == [k \in 1..Len(s) |-> [group |-> pc, db |-> s[k]]] IN
          \/ metrics' = metrics \o Append(rows, ClusterMetric(pc)) /\ QueryWorks
          \/ \E some \in Firsts(rows) : metrics' = metrics \o some /\ QueryFails
    BY DEF GetConnectionMetrics
  <1> DEFINE rows == [k \in 1..Len(s) |-> [group |-> pc, db |-> s[k]]]
  <1>4. s \in Seq(Databases) /\ Len(s) \in Nat
    BY ListsAreSequences, LenProperties
  <1>5. rows \in Seq(Metric) /\ Len(rows) = Len(s) /\ \A k \in 1..Len(rows) : rows[k].group \in {pc}
    <2>1. \A k \in 1..Len(s) : [group |-> pc, db |-> s[k]] \in Metric
      BY <1>1, <1>4, ElementOfSeq DEF Metric
    <2>2. rows \in [1..Len(s) -> Metric]
      BY <2>1
    <2>3. rows \in Seq(Metric)
      BY <1>4, <2>2, SeqDef
    <2>4. Len(rows) = Len(s)
      BY <1>4
    <2> QED
      BY <2>3, <2>4
  <1> HIDE DEF rows
  <1>6. CASE metrics' = metrics \o Append(rows, ClusterMetric(pc)) /\ QueryWorks
    <2> DEFINE all == Append(rows, ClusterMetric(pc))
    <2>1. ClusterMetric(pc) \in Metric /\ ClusterMetric(pc).group = pc
      BY <1>1 DEF ClusterMetric, Metric
    <2>2. all \in Seq(Metric) /\ Len(all) = Len(rows) + 1 /\ all[Len(all)] = ClusterMetric(pc)
          /\ \A k \in 1..Len(rows) : all[k] = rows[k]
      BY <1>5, <2>1, AppendProperties
    <2>3. Len(rows) \in Nat /\ Len(metrics) \in Nat
      BY <1>1, <1>5, LenProperties
    <2>4. \A k \in 1..Len(all) : all[k].group \in {pc, "noname"}
      BY <1>5, <2>1, <2>2, <2>3
    <2> HIDE DEF all
    <2>5. /\ Extends(metrics, metrics \o all) /\ Added(metrics, metrics \o all, {pc, "noname"})
          /\ Len(metrics \o all) = Len(metrics) + Len(all)
          /\ Len(all) > 0 => (metrics \o all)[Len(metrics \o all)] = all[Len(all)]
      BY <1>1, <2>2, <2>4, SomeAdded
    <2>6. metrics' = metrics \o all
      BY <1>6 DEF all
    <2>7. Len(all) > 0 /\ Len(metrics \o all) > Len(metrics)
      BY <2>2, <2>3, <2>5
    <2>8. failed' = failed /\ faults' \in 0..MaxFaults
      BY <1>6, FaultType DEF Types
    <2> QED
      BY <1>1, <1>2, <2>2, <2>5, <2>6, <2>7, <2>8 DEF CollectorStep
  <1>7. CASE \E some \in Firsts(rows) : metrics' = metrics \o some /\ QueryFails
    <2>1. PICK some \in Firsts(rows) : metrics' = metrics \o some /\ QueryFails
      BY <1>7
    <2>2. some \in Seq(Metric) /\ \A k \in 1..Len(some) : some[k].group \in {pc, "noname"}
      BY <1>5, FirstsFacts
    <2>3. /\ Extends(metrics, metrics \o some) /\ Added(metrics, metrics \o some, {pc, "noname"})
      BY <1>1, <2>2, SomeAdded
    <2>4. failed' = failed \cup {pc} /\ faults' \in 0..MaxFaults
      BY <2>1, FaultType DEF Types
    <2> QED
      BY <1>1, <1>2, <2>1, <2>3, <2>4 DEF CollectorStep
  <1> QED
    BY <1>3, <1>6, <1>7 DEF rows

\* The collectors of one metric.
LEMMA OneMetricStep ==
  ASSUME Types, GetConnectionUtilMetrics \/ BgwriterMetrics \/ XlogCountMetrics
  PROVE  CollectorStep
  <1>1. pc \in Groups /\ pc \in Steps \ {"push"} /\ pc \in ByCluster /\ pc # "databases"
        /\ pc \notin ByDatabase /\ pc \notin Pools /\ metrics \in Seq(Metric) /\ dbs \in Seq(Databases)
        /\ Len(metrics) \in Nat
    BY StepFacts, LenProperties
    DEF ByDatabase, ByCluster, Pools, Groups, Types, TypeOK,
        GetConnectionUtilMetrics, BgwriterMetrics, XlogCountMetrics
  <1>2. Moves /\ UNCHANGED <<dbs, pushed, pools, gateway>>
    BY DEF GetConnectionUtilMetrics, BgwriterMetrics, XlogCountMetrics, Done, Moves
  <1>3. \/ metrics' = Append(metrics, ClusterMetric(pc)) /\ (QueryWorks \/ Succeeds)
        \/ metrics' = Append(metrics, ClusterMetric("noname")) /\ QueryFails
        \/ UNCHANGED metrics /\ (QueryFails \/ (GivesUp /\ Fault))
    BY DEF GetConnectionUtilMetrics, BgwriterMetrics, XlogCountMetrics
  <1>4. /\ ClusterMetric(pc) \in Metric /\ ClusterMetric(pc).group = pc
        /\ ClusterMetric("noname") \in Metric /\ ClusterMetric("noname").group = "noname"
    BY <1>1 DEF ClusterMetric, Metric
  <1>5. CASE metrics' = Append(metrics, ClusterMetric(pc)) /\ (QueryWorks \/ Succeeds)
    <2>1. failed' = failed /\ faults' \in 0..MaxFaults
      BY <1>5, FaultType DEF Types
    <2>2. /\ Extends(metrics, metrics') /\ Added(metrics, metrics', {pc})
          /\ Len(metrics') = Len(metrics) + 1 /\ metrics'[Len(metrics) + 1] = ClusterMetric(pc)
      BY <1>1, <1>4, <1>5, OneAdded
    <2>3. Added(metrics, metrics', {pc, "noname"})
      BY <2>2 DEF Added
    <2>4. Len(metrics') > Len(metrics) /\ metrics'[Len(metrics')] = ClusterMetric(pc)
      BY <1>1, <2>2
    <2> QED
      BY <1>1, <1>2, <2>1, <2>2, <2>3, <2>4 DEF CollectorStep
  <1>6. CASE metrics' = Append(metrics, ClusterMetric("noname")) /\ QueryFails
    <2>1. failed' = failed \cup {pc} /\ faults' \in 0..MaxFaults
      BY <1>6, FaultType DEF Types
    <2>2. Extends(metrics, metrics') /\ Added(metrics, metrics', {"noname"})
      BY <1>1, <1>4, <1>6, OneAdded
    <2>3. Added(metrics, metrics', {pc, "noname"})
      BY <2>2 DEF Added
    <2> QED
      BY <1>1, <1>2, <2>1, <2>2, <2>3 DEF CollectorStep
  <1>7. CASE UNCHANGED metrics /\ (QueryFails \/ (GivesUp /\ Fault))
    <2>1. failed' = failed \cup {pc} /\ faults' \in 0..MaxFaults
      BY <1>7, FaultType DEF Types, GivesUp
    <2>2. Extends(metrics, metrics') /\ Added(metrics, metrics', {pc, "noname"})
      BY <1>1, <1>7, NothingAdded
    <2> QED
      BY <1>1, <1>2, <2>1, <2>2 DEF CollectorStep
  <1> QED
    BY <1>3, <1>5, <1>6, <1>7

\* Every step of a poll but the first and the pushes.
Collectors ==
  \/ GetDatabases \/ GetConnectionMetrics \/ GetConnectionUtilMetrics
  \/ GetDatabaseSizeMetrics \/ PgStatDatabaseMetrics \/ BgwriterMetrics \/ LockMetrics
  \/ TableSizesMetrics \/ DeadRowsMetrics \/ XlogCountMetrics

LEMMA CollectorsStep == ASSUME Types, Collectors PROVE CollectorStep
  <1>1. CASE GetDatabaseSizeMetrics \/ PgStatDatabaseMetrics
    BY <1>1, LoopStep DEF GetDatabaseSizeMetrics, PgStatDatabaseMetrics, ByDatabase
  <1>2. CASE LockMetrics
    <2>1. CASE PerDatabase
      BY <1>2, <2>1, LoopStep DEF LockMetrics, ByDatabase
    <2>2. CASE /\ i <= Len(dbs) /\ Done /\ GivesUp
               /\ UNCHANGED <<dbs, metrics, pushed, pools, gateway, faults>>
      <3>1. /\ pc \in Groups /\ pc \in Steps \ {"push"} /\ pc \notin ByCluster /\ pc \notin Pools
            /\ pc # "databases" /\ metrics \in Seq(Metric) /\ dbs \in Seq(Databases)
        BY <1>2, StepFacts DEF LockMetrics, ByCluster, Pools, Groups, Types, TypeOK
      <3> QED
        BY <2>2, <3>1, FaultType, NothingAdded DEF CollectorStep, Done, GivesUp, Moves, Types
    <2> QED
      BY <1>2, <2>1, <2>2 DEF LockMetrics
  <1>3. CASE TableSizesMetrics
    BY <1>3, PoolStep DEF TableSizesMetrics, Pools
  <1>4. CASE DeadRowsMetrics
    BY <1>4, PoolStep DEF DeadRowsMetrics, Pools
  <1> QED
    BY <1>1, <1>2, <1>3, <1>4, DatabasesStep, ConnectionsStep, OneMetricStep DEF Collectors

-----------------------------------------------------------------------------
(* Types and connections.                                                  *)

\* One connection for the collector itself, and in the two that go to the
\* other databases one for each they have come to.
PoolInv ==
  pools = IF pc = "sleep" THEN 0 ELSE IF pc \in Pools THEN i ELSE 1

LEMMA TypeStep == Types /\ PoolInv /\ [Next]_vars => Types' /\ PoolInv'
  <1> SUFFICES ASSUME Types, PoolInv, [Next]_vars PROVE Types' /\ PoolInv'
    OBVIOUS
  <1> UNCHANGED env
    BY DEF Next, vars
  <1>t. /\ metrics \in Seq(Metric) /\ Len(metrics) \in Nat /\ pushed \in 0..Len(metrics)
        /\ dbs \in Seq(Databases) /\ Len(dbs) \in Nat /\ i \in 1..(Len(dbs) + 1)
    BY LenProperties DEF Types, TypeOK
  <1>1. CASE Wake
    <2>1. /\ pc' = "databases" /\ dbs' = <<>> /\ i' = 1 /\ metrics' = <<>> /\ pushed' = 0
          /\ pools' = 1 /\ failed' = {} /\ UNCHANGED <<gateway, faults>>
      BY <1>1 DEF Wake
    <2> QED
      BY <2>1, StepFacts DEF Types, TypeOK, PoolInv, Pools
  <1>2. CASE Collectors
    <2>1. CollectorStep
      BY <1>2, CollectorsStep
    <2>2. pc' \in Steps /\ pc' # "sleep" /\ pc # "sleep" /\ pc' \in Steps \cup {"sleep"}
      BY <2>1, RankFacts, StepFacts DEF CollectorStep, Stays, Moves
    <2>3. dbs' \in Seq(Databases) /\ Len(dbs') \in Nat /\ i' \in 1..(Len(dbs') + 1)
      <3>1. dbs' \in Seq(Databases) /\ Len(dbs') \in Nat
        BY <2>1, LenProperties DEF CollectorStep
      <3>2. CASE Moves
        BY <3>1, <3>2 DEF Moves
      <3>3. CASE Stays
        <4>1. pc # "databases"
          <5>1. pc = "databases" => GetDatabases
            BY <1>2 DEF Collectors, GetDatabases, GetConnectionMetrics, GetConnectionUtilMetrics,
                        GetDatabaseSizeMetrics, PgStatDatabaseMetrics, BgwriterMetrics, LockMetrics,
                        TableSizesMetrics, DeadRowsMetrics, XlogCountMetrics
          <5>2. pc = "databases" => pc' = "connections"
            BY <5>1, AfterFacts DEF GetDatabases, Done
          <5> QED
            BY <3>3, <5>2 DEF Stays
        <4>2. dbs' = dbs
          BY <2>1, <4>1 DEF CollectorStep
        <4> QED
          BY <1>t, <3>1, <3>3, <4>2 DEF Stays
      <3> QED
        BY <2>1, <3>1, <3>2, <3>3 DEF CollectorStep
    <2>4. metrics' \in Seq(Metric) /\ pushed' \in 0..Len(metrics')
      <3>1. metrics' \in Seq(Metric) /\ Len(metrics) <= Len(metrics') /\ pushed' = pushed
        BY <2>1 DEF CollectorStep, Extends
      <3>2. Len(metrics') \in Nat
        BY <3>1, LenProperties
      <3> QED
        BY <1>t, <3>1, <3>2
    <2>5. failed' \subseteq Steps /\ faults' \in 0..MaxFaults /\ gateway' = gateway
      BY <2>1 DEF CollectorStep, Types, TypeOK
    <2>6. pools' = IF pc' \in Pools THEN i' ELSE 1
      <3>1. CASE pc \in Pools
        BY <1>t, <2>1, <2>2, <3>1 DEF CollectorStep, Stays, Moves, PoolInv
      <3>2. CASE pc \notin Pools
        BY <1>t, <2>1, <2>2, <3>2 DEF CollectorStep, Stays, Moves, PoolInv
      <3> QED
        BY <3>1, <3>2
    <2>7. pools' \in Nat
      BY <2>3, <2>6
    <2> QED
      BY <2>2, <2>3, <2>4, <2>5, <2>6, <2>7 DEF Types, TypeOK, PoolInv
  <1>3. CASE WritePrometheusMetrics
    <2>1. pc = "push" /\ UNCHANGED <<dbs, i, metrics>> /\ pools = 1
      BY <1>3 DEF WritePrometheusMetrics, PoolInv, Pools
    <2>2. CASE /\ pushed < Len(metrics)
               /\ gateway' = [gateway EXCEPT ![metrics[pushed + 1].group] = {metrics[pushed + 1].db}]
               /\ pushed' = pushed + 1 /\ UNCHANGED <<pc, pools>> /\ Succeeds
      <3>1. metrics[pushed + 1] \in Metric
        BY <1>t, <2>2, ElementOfSeq
      <3>2. gateway' \in [Groups \cup {"noname"} -> SUBSET (Databases \cup {"cluster"})]
        BY <2>2, <3>1 DEF Types, TypeOK, Metric
      <3>3. pushed' \in 0..Len(metrics')
        BY <1>t, <2>1, <2>2
      <3>4. failed' = failed /\ faults' \in 0..MaxFaults
        BY <2>2, FaultType DEF Types
      <3> QED
        BY <2>1, <2>2, <3>2, <3>3, <3>4 DEF Types, TypeOK, PoolInv
    <2>3. CASE PushFails
      <3>1. failed' = failed \cup {pc} /\ faults' \in 0..MaxFaults
        BY <2>3, FaultType DEF PushFails, GivesUp, Types
      <3>2. pc' = "sleep" /\ pools' = 0 /\ UNCHANGED <<pushed, gateway>>
        BY <2>3 DEF PushFails, PollEnds
      <3>3. failed' \subseteq Steps
        BY <2>1, <3>1, StepFacts DEF Types, TypeOK
      <3> QED
        BY <2>1, <3>1, <3>2, <3>3 DEF Types, TypeOK, PoolInv
    <2>4. CASE PollEnds /\ Succeeds /\ UNCHANGED <<pushed, gateway>>
      <3>1. failed' = failed /\ faults' \in 0..MaxFaults
        BY <2>4, FaultType DEF Types
      <3>2. pc' = "sleep" /\ pools' = 0
        BY <2>4 DEF PollEnds
      <3> QED
        BY <2>1, <2>4, <3>1, <3>2 DEF Types, TypeOK, PoolInv
    <2> QED
      BY <1>3, <2>2, <2>3, <2>4 DEF WritePrometheusMetrics
  <1>4. CASE UNCHANGED vars
    BY <1>4 DEF vars, poll, Types, TypeOK, PoolInv
  <1> QED
    BY <1>1, <1>2, <1>3, <1>4 DEF Next, Process, Collectors

LEMMA TypeInvariant == Spec => [](Types /\ PoolInv)
  <1>1. Init => Types /\ PoolInv
    <2> SUFFICES ASSUME Init PROVE Types /\ PoolInv
      OBVIOUS
    <2>1. /\ <<>> \in Seq(Databases) /\ <<>> \in Seq(Metric) /\ Len(<<>>) = 0
      BY EmptySeq
    <2>2. gateway \in [Groups \cup {"noname"} -> SUBSET (Databases \cup {"cluster"})]
      BY DEF Init
    <2> QED
      BY <2>1, <2>2, FaultsAssumption, SettingsAssumption DEF Init, Types, TypeOK, PoolInv
  <1> QED
    BY <1>1, TypeStep, PTL DEF Spec

\* Every variable has its type; above all, no more is pushed than collected.
THEOREM TypeCorrect == Spec => []TypeOK
  <1>1. Types => TypeOK
    BY DEF Types
  <1> QED
    BY <1>1, TypeInvariant, PTL

\* However queries fail, the collector has one connection for itself and at
\* most one per database, and none between its polls.
THEOREM ConnectionsAreBounded == Spec => []ConnectionsBounded
  <1>1. Types /\ PoolInv => ConnectionsBounded
    BY LenProperties DEF Types, TypeOK, PoolInv, Pools, ConnectionsBounded
  <1> QED
    BY <1>1, TypeInvariant, PTL

-----------------------------------------------------------------------------
(* What gets through.                                                      *)

\* A collector that the poll is past and that did not fail has delivered; the
\* one that goes through the databases has for those it is past.  It holds
\* from the first collector on: what is said of a poll that begins is about
\* none that is past.
Has(group, db) == \E k \in 1..Len(metrics) : metrics[k] = [group |-> group, db |-> db]
Passed(group) == Rank[group] < Rank[pc]
InPoll == pc # "sleep" \/ metrics # <<>>

DeliveredInv ==
  InPoll =>
    /\ \A g \in ByDatabase : \A k \in 1..Len(dbs) :
         (Passed(g) /\ g \notin failed) \/ (pc = g /\ k < i /\ g \notin failed) => Has(g, dbs[k])
    /\ \A g \in ByCluster : Passed(g) /\ g \notin failed => Has(g, "cluster")
PushInv ==
  /\ pc \notin {"push", "sleep"} => pushed = 0
  /\ pc = "sleep" /\ "push" \notin failed => pushed = Len(metrics)

\* The total is the last of its group, and the gateway has it once it is pushed.
TotalInv ==
  InPoll /\ Passed("connections") /\ "connections" \notin failed =>
    \E n \in 1..Len(metrics) :
      /\ metrics[n] = ClusterMetric("connections")
      /\ \A k \in (n + 1)..Len(metrics) : metrics[k].group # "connections"
      /\ pushed >= n => gateway["connections"] = {"cluster"}

\* The poll is past a group or not as the ranks say.
LEMMA PassedFacts ==
  /\ Rank["databases"] \in Nat /\ Rank["push"] \in Nat /\ Rank["sleep"] \in Nat
  /\ \A g \in Groups : Rank[g] \in Nat /\ Rank[g] > Rank["databases"] /\ Rank[g] < Rank["push"]
                       /\ Rank["push"] < Rank["sleep"] /\ Rank[g] < Rank["sleep"]
  /\ ByDatabase \subseteq Groups /\ ByCluster \subseteq Groups /\ "connections" \in ByCluster
  BY StepFacts DEF Rank, ByDatabase, ByCluster, Groups

\* A collector's step keeps what the collectors before it have delivered.
LEMMA DeliveredStep ==
  ASSUME Types, Types', DeliveredInv, PushInv, TotalInv, CollectorStep
  PROVE  DeliveredInv' /\ PushInv' /\ TotalInv'
  <1>t. /\ metrics \in Seq(Metric) /\ metrics' \in Seq(Metric)
        /\ Len(metrics) \in Nat /\ Len(metrics') \in Nat /\ Len(metrics) <= Len(metrics')
        /\ \A k \in 1..Len(metrics) : metrics'[k] = metrics[k]
        /\ \A k \in (Len(metrics) + 1)..Len(metrics') : metrics'[k].group \in {pc, "noname"}
        /\ Len(dbs) \in Nat /\ i \in 1..(Len(dbs) + 1)
    BY LenProperties DEF CollectorStep, Extends, Added, Types, TypeOK
  <1>p. pc \in Steps \ {"push"} /\ InPoll /\ pc # "sleep"
    BY StepFacts DEF CollectorStep, InPoll
  <1>h. \A g, d : Has(g, d) => Has(g, d)'
    BY <1>t DEF Has
  <1>f. \A g : g \notin failed' => g \notin failed
    BY DEF CollectorStep
  <1>n. pc' \in Steps /\ pc' # "sleep"
        /\ \A g \in Groups : Passed(g)' <=> Passed(g) \/ (Moves /\ g = pc)
    <2>1. CASE Moves
      BY <1>p, <2>1, RankFacts, StepFacts DEF Moves, Passed
    <2>2. CASE Stays /\ ~Moves
      BY <1>p, <2>2, StepFacts DEF Stays, Passed
    <2> QED
      BY <2>1, <2>2 DEF CollectorStep
  <1>1. ASSUME NEW g \in ByCluster, Passed(g)', g \notin failed'
        PROVE  Has(g, "cluster")'
    <2>1. CASE Passed(g)
      BY <1>f, <1>h, <1>1, <1>p, <2>1 DEF DeliveredInv
    <2>2. CASE g = pc
      <3>1. metrics'[Len(metrics')] = ClusterMetric(g) /\ Len(metrics') > Len(metrics)
        BY <1>1, <2>2 DEF CollectorStep
      <3>2. Len(metrics') \in 1..Len(metrics')
        BY <1>t, <3>1
      <3> QED
        BY <3>1, <3>2 DEF Has, ClusterMetric
    <2> QED
      BY <1>1, <1>n, <2>1, <2>2, PassedFacts
  <1>2. ASSUME NEW g \in ByDatabase, NEW k \in 1..Len(dbs'), NEW d, d = dbs'[k],
               g \notin failed', Passed(g)' \/ (pc' = g /\ k < i')
        PROVE  Has(g, d)'
    <2>0. g \in Groups /\ i' \in Nat
      BY <1>t, PassedFacts DEF CollectorStep, Stays, Moves
    <2>1. CASE Moves /\ ~Passed(g)'
      BY <1>2, <2>1 DEF Moves
    <2>2. CASE Passed(g)
      <3>1. pc # "databases"
        BY <2>0, <2>2, PassedFacts DEF Passed
      <3>2. dbs' = dbs
        BY <3>1 DEF CollectorStep
      <3> QED
        BY <1>2, <1>f, <1>h, <1>p, <2>2, <3>2 DEF DeliveredInv
    <2>3. CASE pc = g
      <3>1. dbs' = dbs
        BY <2>0, <2>3, StepFacts DEF CollectorStep
      <3>2. CASE k < i
        BY <1>2, <1>f, <1>h, <1>p, <2>3, <3>1, <3>2 DEF DeliveredInv
      <3>3. CASE k >= i
        <4>1. Stays /\ \E n \in 1..Len(metrics') : metrics'[n] = [group |-> pc, db |-> dbs[i]]
          BY <1>2, <1>t, <2>3, <3>1, <3>3 DEF CollectorStep
        <4>2. k = i
          <5>1. Rank[pc'] = Rank[g]
            BY <2>3, <4>1 DEF Stays
          <5>2. ~Passed(g)'
            BY <2>0, <5>1, PassedFacts DEF Passed
          <5> QED
            BY <1>2, <1>t, <3>1, <3>3, <4>1, <5>2 DEF Stays
        <4> QED
          BY <1>2, <2>3, <3>1, <4>1, <4>2 DEF Has
      <3> QED
        BY <1>t, <1>2, <3>1, <3>2, <3>3
    <2>4. CASE Stays /\ ~Moves
      BY <1>2, <1>n, <2>0, <2>2, <2>3, <2>4 DEF Stays
    <2> QED
      BY <1>n, <2>0, <2>1, <2>2, <2>3, <2>4 DEF CollectorStep
  <1>3. DeliveredInv'
    BY <1>1, <1>2 DEF DeliveredInv, Has
  <1>4. PushInv'
    BY <1>n, <1>p DEF PushInv, CollectorStep
  <1>5. TotalInv'
    <2> SUFFICES ASSUME Passed("connections")', "connections" \notin failed'
                 PROVE  \E n \in 1..Len(metrics') :
                          /\ metrics'[n] = ClusterMetric("connections")
                          /\ \A k \in (n + 1)..Len(metrics') : metrics'[k].group # "connections"
                          /\ pushed' >= n => gateway'["connections"] = {"cluster"}
      BY DEF TotalInv
    <2>0. pushed' = 0 /\ "connections" \in Groups
      BY <1>p, PassedFacts DEF PushInv, CollectorStep
    <2>1. CASE pc = "connections"
      <3>1. metrics'[Len(metrics')] = ClusterMetric("connections") /\ Len(metrics') > Len(metrics)
        BY <2>1, PassedFacts DEF CollectorStep
      <3>2. Len(metrics') \in 1..Len(metrics') /\ ~(pushed' >= Len(metrics'))
            /\ (Len(metrics') + 1)..Len(metrics') = {}
        BY <1>t, <2>0, <3>1
      <3> QED
        BY <3>1, <3>2
    <2>2. CASE pc # "connections"
      <3>1. Passed("connections")
        BY <1>n, <2>0, <2>2
      <3>2. PICK n \in 1..Len(metrics) :
              /\ metrics[n] = ClusterMetric("connections")
              /\ \A k \in (n + 1)..Len(metrics) : metrics[k].group # "connections"
        BY <1>f, <1>p, <3>1 DEF TotalInv
      <3>3. n \in 1..Len(metrics') /\ metrics'[n] = ClusterMetric("connections") /\ ~(pushed' >= n)
        BY <1>t, <2>0, <3>2
      <3>4. ASSUME NEW k \in (n + 1)..Len(metrics')
            PROVE  metrics'[k].group # "connections"
        <4>1. CASE k <= Len(metrics)
          BY <1>t, <3>2, <4>1
        <4>2. CASE k > Len(metrics)
          BY <1>t, <2>2, <4>2
        <4> QED
          BY <1>t, <4>1, <4>2
      <3> QED
        BY <3>3, <3>4
    <2> QED
      BY <2>1, <2>2
  <1> QED
    BY <1>3, <1>4, <1>5

\* A push changes the one group it is made to, and the poll ends with all of
\* them pushed or with a push that failed.
LEMMA PushStep ==
  ASSUME Types, DeliveredInv, PushInv, TotalInv, WritePrometheusMetrics
  PROVE  DeliveredInv' /\ PushInv' /\ TotalInv'
  <1>1. /\ pc = "push" /\ UNCHANGED <<dbs, i, metrics>> /\ pc' \in {"push", "sleep"}
        /\ failed' = failed \/ failed' = failed \cup {"push"}
    BY DEF WritePrometheusMetrics, PushFails, PollEnds, Succeeds, GivesUp
  <1>2. InPoll
    BY <1>1 DEF InPoll
  <1>3. \A g \in ByDatabase \cup ByCluster :
          Passed(g) /\ (g \notin failed' <=> g \notin failed) /\ g # pc'
    BY <1>1, PassedFacts, StepFacts DEF Passed
  <1>t. metrics \in Seq(Metric) /\ Len(metrics) \in Nat /\ pushed \in 0..Len(metrics)
        /\ gateway \in [Groups \cup {"noname"} -> SUBSET (Databases \cup {"cluster"})]
    BY LenProperties DEF Types, TypeOK
  <1>4. DeliveredInv'
    BY <1>1, <1>2, <1>3 DEF DeliveredInv, Has
  <1>5. PushInv'
    <2>1. CASE pc' = "push"
      BY <2>1 DEF PushInv
    <2>2. CASE PushFails
      BY <1>1, <2>2 DEF PushInv, PushFails, GivesUp, PollEnds
    <2>3. CASE pushed = Len(metrics) /\ PollEnds /\ UNCHANGED pushed
      BY <1>1, <2>3 DEF PushInv, PollEnds
    <2> QED
      BY <1>1, <2>1, <2>2, <2>3 DEF WritePrometheusMetrics
  <1>6. TotalInv'
    <2> SUFFICES ASSUME "connections" \notin failed'
                 PROVE  \E n \in 1..Len(metrics) :
                          /\ metrics[n] = ClusterMetric("connections")
                          /\ \A k \in (n + 1)..Len(metrics) : metrics[k].group # "connections"
                          /\ pushed' >= n => gateway'["connections"] = {"cluster"}
      BY <1>1 DEF TotalInv
    <2>1. PICK n \in 1..Len(metrics) :
            /\ metrics[n] = ClusterMetric("connections")
            /\ \A k \in (n + 1)..Len(metrics) : metrics[k].group # "connections"
            /\ pushed >= n => gateway["connections"] = {"cluster"}
      BY <1>2, <1>3, PassedFacts DEF TotalInv
    <2>2. CASE UNCHANGED <<pushed, gateway>>
      BY <2>1, <2>2
    <2>3. CASE /\ pushed < Len(metrics) /\ pushed' = pushed + 1
               /\ gateway' = [gateway EXCEPT ![metrics[pushed + 1].group] = {metrics[pushed + 1].db}]
      <3>1. metrics[pushed + 1] \in Metric /\ pushed + 1 \in 1..Len(metrics)
        BY <1>t, <2>3, ElementOfSeq
      <3>2. "connections" \in Groups
        BY PassedFacts
      <3>3. CASE pushed + 1 = n
        BY <1>t, <2>1, <2>3, <3>2, <3>3 DEF ClusterMetric
      <3>4. CASE pushed + 1 > n
        <4>1. metrics[pushed + 1].group # "connections" /\ pushed >= n
          BY <1>t, <2>1, <2>3, <3>4
        <4> QED
          BY <1>t, <2>1, <2>3, <3>2, <4>1
      <3>5. CASE pushed + 1 < n
        BY <1>t, <2>1, <2>3, <3>5
      <3> QED
        BY <1>t, <2>1, <3>3, <3>4, <3>5
    <2> QED
      BY <2>2, <2>3 DEF WritePrometheusMetrics, PushFails
  <1> QED
    BY <1>4, <1>5, <1>6

\* A poll that begins is past no collector.
LEMMA PollStep ==
  Types /\ Types' /\ DeliveredInv /\ PushInv /\ TotalInv /\ [Next]_vars
    => DeliveredInv' /\ PushInv' /\ TotalInv'
  <1> SUFFICES ASSUME Types, Types', DeliveredInv, PushInv, TotalInv, [Next]_vars
               PROVE  DeliveredInv' /\ PushInv' /\ TotalInv'
    OBVIOUS
  <1>1. CASE Wake
    <2>1. pc' = "databases" /\ pushed' = 0
      BY <1>1 DEF Wake
    <2>2. \A g \in Groups : ~Passed(g)' /\ g # pc'
      BY <2>1, PassedFacts, StepFacts DEF Passed
    <2> QED
      BY <2>1, <2>2, PassedFacts DEF DeliveredInv, PushInv, TotalInv
  <1>2. CASE Collectors
    BY <1>2, CollectorsStep, DeliveredStep
  <1>3. CASE WritePrometheusMetrics
    BY <1>3, PushStep
  <1>4. CASE UNCHANGED vars
    BY <1>4 DEF vars, poll, DeliveredInv, PushInv, TotalInv, InPoll, Passed, Has
  <1> QED
    BY <1>1, <1>2, <1>3, <1>4 DEF Next, Process, Collectors

LEMMA PollInvariant == Spec => [](Types /\ DeliveredInv /\ PushInv /\ TotalInv)
  <1>1. Init => DeliveredInv /\ PushInv /\ TotalInv
    <2> SUFFICES ASSUME Init PROVE DeliveredInv /\ PushInv /\ TotalInv
      OBVIOUS
    <2>1. pc = "sleep" /\ metrics = <<>> /\ pushed = 0 /\ Len(metrics) = 0
      BY EmptySeq DEF Init
    <2> QED
      BY <2>1 DEF DeliveredInv, PushInv, TotalInv, InPoll
  <1> QED
    BY <1>1, PollStep, TypeInvariant, PTL DEF Spec

\* However queries fail, every collector whose own did not has delivered all
\* it is there for, if the pushes went well.
THEOREM FailuresStayIsolated == Spec => []FailuresAreIsolated
  <1>1. Types /\ DeliveredInv /\ PushInv => FailuresAreIsolated
    <2> SUFFICES ASSUME Types, DeliveredInv, PushInv, Asleep, "push" \notin failed
                 PROVE  /\ \A g \in ByDatabase \ failed : \A k \in 1..Len(dbs) : Pushed(g, dbs[k])
                        /\ \A g \in ByCluster \ failed : Pushed(g, "cluster")
      BY DEF FailuresAreIsolated, ByDatabase, ByCluster
    <2>1. pc = "sleep" /\ InPoll /\ pushed = Len(metrics)
      BY DEF Asleep, InPoll, PushInv
    <2>2. \A g \in Groups : Passed(g)
      BY <2>1, PassedFacts DEF Passed
    <2>3. \A g, d : Has(g, d) => Pushed(g, d)
      BY <2>1 DEF Has, Pushed
    <2> QED
      BY <2>1, <2>2, <2>3, PassedFacts DEF DeliveredInv
  <1> QED
    BY <1>1, PollInvariant, PTL

\* The total of the connections is what the gateway has in the end.
THEOREM TotalIsKept == Spec => []ClusterTotalKept
  <1>1. Types /\ PushInv /\ TotalInv => ClusterTotalKept
    <2> SUFFICES ASSUME Types, PushInv, TotalInv, Asleep,
                        "connections" \notin failed, "push" \notin failed
                 PROVE  gateway["connections"] = {"cluster"}
      BY DEF ClusterTotalKept
    <2>1. pc = "sleep" /\ InPoll /\ pushed = Len(metrics)
      BY DEF Asleep, InPoll, PushInv
    <2>2. Passed("connections")
      BY <2>1, PassedFacts DEF Passed
    <2>3. PICK n \in 1..Len(metrics) : pushed >= n => gateway["connections"] = {"cluster"}
      BY <2>1, <2>2 DEF TotalInv
    <2>4. pushed >= n
      BY <2>1, <2>3, LenProperties DEF Types, TypeOK
    <2> QED
      BY <2>3, <2>4
  <1> QED
    BY <1>1, PollInvariant, PTL

\* A poll whose pushes go well delivers what did not fail in it.
THEOREM PollsDeliverTheRest == Spec => []PollsDeliver
  BY FailuresStayIsolated, TotalIsKept, PTL DEF PollsDeliver

-----------------------------------------------------------------------------
(* A collector that lacks a setting.                                       *)

\* A server is known exactly if everything is set.
LEMMA SettingsFacts == TypeOK => (AllSet <=> ServerKnown)
  BY DEF TypeOK, Environments, AllSet, ServerKnown, HostKnown, PasswordKnown, PortKnown

\* No query works then: no database is found, and all that is collected is the
\* metric without a name, which comes first, and the count of the files.
UnsetInv ==
  ~ServerKnown =>
    /\ dbs = <<>>
    /\ \A k \in 1..Len(metrics) : metrics[k].group \in {"noname", "xlog_count"}
    /\ Len(metrics) > 0 => metrics[1].group = "noname"
    /\ pc \in Steps \ {"databases", "connections", "connectionutil"} => Len(metrics) > 0
    /\ pushed > 0 => "noname" \in Arrived
    /\ "xlog_count" \in Arrived => "noname" \in Arrived
    /\ Arrived \subseteq {"noname", "xlog_count"}
    /\ ~GatewayKnown => Arrived = {}

\* Whatever a collector does then, it adds nothing else.
LEMMA UnsetCollects ==
  ASSUME Types, UnsetInv, ~ServerKnown, Collectors
  PROVE  /\ dbs' = <<>>
         /\ \/ metrics' = metrics /\ pc # "connectionutil"
            \/ metrics' = Append(metrics, ClusterMetric("noname"))
            \/ metrics' = Append(metrics, ClusterMetric("xlog_count")) /\ pc = "xlog_count"
  <1>1. dbs = <<>> /\ Len(dbs) = 0 /\ i = 1 /\ metrics \in Seq(Metric)
    BY EmptySeq DEF UnsetInv, Types, TypeOK
  <1>2. ~QueryWorks /\ ~(i <= Len(dbs))
    BY <1>1 DEF QueryWorks
  <1>3. CASE GetDatabases
    BY <1>1, <1>2, <1>3 DEF GetDatabases
  <1>4. CASE GetConnectionMetrics
    <2>1. metrics' = metrics \o <<>> /\ UNCHANGED dbs /\ pc = "connections"
      BY <1>2, <1>4 DEF GetConnectionMetrics
    <2> QED
      BY <1>1, <2>1, ConcatEmptySeq
  <1>5. CASE GetConnectionUtilMetrics
    BY <1>1, <1>2, <1>5 DEF GetConnectionUtilMetrics
  <1>6. CASE GetDatabaseSizeMetrics \/ PgStatDatabaseMetrics \/ LockMetrics
    BY <1>1, <1>2, <1>6
    DEF GetDatabaseSizeMetrics, PgStatDatabaseMetrics, LockMetrics, PerDatabase, LoopEnds
  <1>7. CASE TableSizesMetrics \/ DeadRowsMetrics
    BY <1>1, <1>2, <1>7 DEF TableSizesMetrics, DeadRowsMetrics, LoopEndsAndCloses
  <1>8. CASE BgwriterMetrics
    BY <1>1, <1>2, <1>8 DEF BgwriterMetrics
  <1>9. CASE XlogCountMetrics
    BY <1>1, <1>9 DEF XlogCountMetrics
  <1> QED
    BY <1>3, <1>4, <1>5, <1>6, <1>7, <1>8, <1>9 DEF Collectors

LEMMA UnsetStep == Types /\ Types' /\ UnsetInv /\ [Next]_vars => UnsetInv'
  <1> SUFFICES ASSUME Types, Types', UnsetInv, [Next]_vars, ~ServerKnown'
               PROVE  UnsetInv'
    BY DEF UnsetInv
  <1>1. ~ServerKnown /\ UNCHANGED env /\ (GatewayKnown' <=> GatewayKnown)
    BY DEF Next, vars, ServerKnown, GatewayKnown, HostKnown, PasswordKnown, PortKnown
  <1>2. /\ metrics \in Seq(Metric) /\ Len(metrics) \in Nat /\ pushed \in 0..Len(metrics)
        /\ gateway \in [Groups \cup {"noname"} -> SUBSET (Databases \cup {"cluster"})]
    BY LenProperties DEF Types, TypeOK
  <1>3. CASE Wake
    <2>1. metrics' = <<>> /\ Len(metrics') = 0 /\ dbs' = <<>> /\ pushed' = 0
          /\ pc' = "databases" /\ gateway' = gateway
      BY <1>3, EmptySeq DEF Wake
    <2> QED
      BY <1>1, <2>1 DEF UnsetInv, Arrived
  <1>4. CASE Collectors
    <2>1. CollectorStep
      BY <1>4, CollectorsStep
    <2>2. gateway' = gateway /\ pushed' = pushed /\ Arrived' = Arrived
      BY <2>1 DEF CollectorStep, Arrived
    <2>3. dbs' = <<>>
      BY <1>1, <1>4, UnsetCollects
    <2>4. /\ pc \in Steps /\ pc # "push"
          /\ pc = "databases" => pc' \in {"databases", "connections"}
          /\ pc = "connections" => pc' \in {"connections", "connectionutil"}
      BY <2>1, AfterFacts DEF CollectorStep, Stays, Moves
    <2>5. CASE metrics' = metrics /\ pc # "connectionutil"
      BY <1>1, <2>2, <2>3, <2>4, <2>5 DEF UnsetInv
    <2>6. ASSUME NEW g \in {"noname", "xlog_count"}, metrics' = Append(metrics, ClusterMetric(g)),
                 g = "noname" \/ pc = "xlog_count"
          PROVE  UnsetInv'
      <3>1. ClusterMetric(g) \in Metric /\ ClusterMetric(g).group = g
        BY StepFacts DEF ClusterMetric, Metric, Groups
      <3>2. /\ Len(metrics') = Len(metrics) + 1 /\ metrics'[Len(metrics) + 1].group = g
            /\ \A k \in 1..Len(metrics) : metrics'[k] = metrics[k]
        BY <1>2, <2>6, <3>1, AppendProperties
      <3>3. \A k \in 1..Len(metrics') : metrics'[k].group \in {"noname", "xlog_count"}
        BY <1>1, <1>2, <3>2 DEF UnsetInv
      <3>4. metrics'[1].group = "noname"
        <4>1. CASE Len(metrics) > 0
          BY <1>1, <1>2, <3>2, <4>1 DEF UnsetInv
        <4>2. CASE Len(metrics) = 0
          BY <1>1, <2>4, <2>6, <3>2, <4>2 DEF UnsetInv
        <4> QED
          BY <1>2, <4>1, <4>2
      <3> QED
        BY <1>1, <1>2, <2>2, <2>3, <3>2, <3>3, <3>4 DEF UnsetInv
    <2> QED
      BY <1>1, <1>4, <2>5, <2>6, UnsetCollects
  <1>5. CASE WritePrometheusMetrics
    <2>1. UNCHANGED <<dbs, metrics>> /\ pc = "push" /\ pc' \in {"push", "sleep"} /\ Len(metrics) > 0
      BY <1>1, <1>5, StepFacts
      DEF WritePrometheusMetrics, PushFails, PollEnds, UnsetInv
    <2>2. CASE UNCHANGED <<gateway, pushed>>
      <3>1. Arrived' = Arrived
        BY <2>2 DEF Arrived
      <3> QED
        BY <1>1, <2>1, <2>2, <3>1 DEF UnsetInv
    <2>3. CASE /\ pushed < Len(metrics) /\ GatewayKnown /\ pushed' = pushed + 1
               /\ gateway' = [gateway EXCEPT ![metrics[pushed + 1].group] = {metrics[pushed + 1].db}]
      <3> DEFINE g == metrics[pushed + 1].group
      <3>1. pushed + 1 \in 1..Len(metrics) /\ g \in {"noname", "xlog_count"}
            /\ g \in Groups \cup {"noname"}
        BY <1>1, <1>2, <2>3, StepFacts DEF UnsetInv, Groups
      <3>2. Arrived' = Arrived \cup {g}
        BY <1>2, <2>3, <3>1 DEF Arrived
      <3>3. "noname" \in Arrived'
        <4>1. CASE pushed > 0
          BY <1>1, <3>2, <4>1 DEF UnsetInv
        <4>2. CASE pushed = 0
          BY <1>1, <2>1, <3>2, <4>2 DEF UnsetInv
        <4> QED
          BY <1>2, <4>1, <4>2
      <3> QED
        BY <1>1, <2>1, <2>3, <3>1, <3>2, <3>3 DEF UnsetInv
    <2> QED
      BY <1>5, <2>2, <2>3 DEF WritePrometheusMetrics, PushFails
  <1>6. CASE UNCHANGED vars
    BY <1>1, <1>6 DEF vars, poll, UnsetInv, Arrived
  <1> QED
    BY <1>3, <1>4, <1>5, <1>6 DEF Next, Process, Collectors

\* Without its settings a collector never delivers what it asks the server for:
\* at most the count of the files, behind the metric without a name, and that
\* only if a gateway is known.
THEOREM UnsetDeliversNoAnswer == Spec => []OnlyCountWithoutSettings
  <1>1. Init => UnsetInv
    <2> SUFFICES ASSUME Init PROVE UnsetInv
      OBVIOUS
    <2>1. /\ dbs = <<>> /\ metrics = <<>> /\ Len(metrics) = 0 /\ pushed = 0
          /\ pc = "sleep" /\ pc \notin Steps /\ Arrived = {}
      BY StepFacts, EmptySeq DEF Init, Arrived
    <2> QED
      BY <2>1 DEF UnsetInv
  <1>2. Types /\ UnsetInv => OnlyCountWithoutSettings
    <2>1. GatewayMissing => ~GatewayKnown
      BY DEF GatewayMissing, GatewayKnown, HostKnown
    <2> QED
      BY <2>1, SettingsFacts DEF Types, UnsetInv, OnlyCountWithoutSettings
  <1> QED
    BY <1>1, <1>2, UnsetStep, TypeInvariant, PTL DEF Spec
=============================================================================
