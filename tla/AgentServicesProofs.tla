------------------------ MODULE AgentServicesProofs ------------------------
(***************************************************************************)
(* The theorems of AgentServices, for every value of the constants.  A     *)
(* step of the composition is a step of the part whose behaviour it is and *)
(* never makes it another's, so that the invariant of a part, which its    *)
(* own steps keep, holds of the behaviours of AgentServices: those of the  *)
(* collectors are in IntegrationProofs, the others here.                   *)
(***************************************************************************)
EXTENDS AgentServices, IntegrationProofs

-----------------------------------------------------------------------------
(* The composition *)

\* No step turns the behaviour of one part into that of another.
LEMMA ServiceStays == [Next]_vars => UNCHANGED service
  BY Zenon DEF Next, vars, RedisStep, MysqlStep, PostgresStep, MongoStep, EsStep, EsMetadataStep,
     EsRatesStep, EsPayloadStep, EsClientStep, ReportingStep, ProcessStep, DiscoveryStep,
     CustomStep, NginxStep

-----------------------------------------------------------------------------
(* RedisCollector and MongoCollector *)

\* Where it is the behaviour of Redis, the composition starts and steps as the part does.
LEMMA RedisOnly ==
  /\ Init /\ service = "redis" => Redis!Init
  /\ service = "redis" /\ [Next]_vars => [Redis!Next]_(Redis!vars)
<1>1. Init /\ service = "redis" => Redis!Init
  BY Zenon DEF Init
<1>2. ASSUME service = "redis", Next PROVE Redis!Next
  BY <1>2 DEF Next, RedisStep, MysqlStep, PostgresStep, MongoStep, EsStep, EsMetadataStep,
     EsRatesStep, EsPayloadStep, EsClientStep, ReportingStep, ProcessStep, DiscoveryStep,
     CustomStep, NginxStep
<1>3. UNCHANGED vars => UNCHANGED Redis!vars
  BY DEF vars, Redis!vars, Redis!historyVars
<1>. QED
  BY <1>1, <1>2, <1>3

\* The mark covers what was sent in every behaviour of the collector.
LEMMA SlowlogInvariant == Spec => [](service = "redis" => SlowlogInv)
<1> DEFINE Inv == service = "redis" => SlowlogInv
<1>1. Init => Inv
  BY RedisOnly, SlowlogInit
<1>2. Inv /\ [Next]_vars => Inv'
  <2>. SUFFICES ASSUME Inv, [Next]_vars PROVE Inv'
    OBVIOUS
  <2>1. UNCHANGED service
    BY ServiceStays
  <2>2. CASE service = "redis"
    <3>1. SlowlogInv /\ [Redis!Next]_(Redis!vars)
      BY <2>2, RedisOnly
    <3>. QED
      BY <3>1, SlowlogStep
  <2>. QED
    BY <2>1, <2>2
<1>. QED
  BY <1>1, <1>2, PTL DEF Spec

\* Where it is the behaviour of Mongo, the composition starts and steps as the part does.
LEMMA MongoOnly ==
  /\ Init /\ service = "mongodb" => Mongo!Init
  /\ service = "mongodb" /\ [Next]_vars => [Mongo!Next]_(Mongo!vars)
<1>1. Init /\ service = "mongodb" => Mongo!Init
  BY Zenon DEF Init
<1>2. ASSUME service = "mongodb", Next PROVE Mongo!Next
  BY <1>2 DEF Next, RedisStep, MysqlStep, PostgresStep, MongoStep, EsStep, EsMetadataStep,
     EsRatesStep, EsPayloadStep, EsClientStep, ReportingStep, ProcessStep, DiscoveryStep,
     CustomStep, NginxStep
<1>3. UNCHANGED vars => UNCHANGED Mongo!vars
  BY DEF vars, Mongo!vars, Mongo!historyVars
<1>. QED
  BY <1>1, <1>2, <1>3

\* The cursor covers what was sent in every behaviour of the collector.
LEMMA ProfilerInvariant == Spec => [](service = "mongodb" => ProfilerInv)
<1> DEFINE Inv == service = "mongodb" => ProfilerInv
<1>1. Init => Inv
  BY MongoOnly, ProfilerInit, IntegrationsAssumption
<1>2. Inv /\ [Next]_vars => Inv'
  <2>. SUFFICES ASSUME Inv, [Next]_vars PROVE Inv'
    OBVIOUS
  <2>1. UNCHANGED service
    BY ServiceStays
  <2>2. CASE service = "mongodb"
    <3>1. ProfilerInv /\ [Mongo!Next]_(Mongo!vars)
      BY <2>2, MongoOnly
    <3>. QED
      BY <3>1, ProfilerStep
  <2>. QED
    BY <2>1, <2>2
<1>. QED
  BY <1>1, <1>2, PTL DEF Spec

\* No entry of Redis's slow log and no operation of MongoDB's profiler is sent twice,
\* whatever restarts and scrapes that fail in part lie between.
THEOREM SlowShippedAtMostOnce == Spec => []SlowOperationsShippedOnce
<1>1. /\ service = "redis" => SlowlogInv
      /\ service = "mongodb" => ProfilerInv
      => SlowOperationsShippedOnce
  BY DEF SlowlogInv, ProfilerInv, SlowOperationsShippedOnce
<1>. QED
  BY <1>1, SlowlogInvariant, ProfilerInvariant, PTL

-----------------------------------------------------------------------------
(* MysqlCollector and PostgresCollector *)

\* Where it is the behaviour of Mysql, the composition starts and steps as the part does.
LEMMA MysqlOnly ==
  /\ Init /\ service = "mysql" => Mysql!Init
  /\ service = "mysql" /\ [Next]_vars => [Mysql!Next]_(Mysql!vars)
<1>1. Init /\ service = "mysql" => Mysql!Init
  BY Zenon DEF Init
<1>2. ASSUME service = "mysql", Next PROVE Mysql!Next
  BY <1>2 DEF Next, RedisStep, MysqlStep, PostgresStep, MongoStep, EsStep, EsMetadataStep,
     EsRatesStep, EsPayloadStep, EsClientStep, ReportingStep, ProcessStep, DiscoveryStep,
     CustomStep, NginxStep
<1>3. UNCHANGED vars => UNCHANGED Mysql!vars
  BY DEF vars, Mysql!vars, Mysql!historyVars
<1>. QED
  BY <1>1, <1>2, <1>3

\* The schema is left out for no other reason in every behaviour of the collector.
LEMMA SchemaInvariant == Spec => [](service = "mysql" => SchemaInv)
<1> DEFINE Inv == service = "mysql" => SchemaInv
<1>1. Init => Inv
  BY MysqlOnly, SchemaInit
<1>2. Inv /\ [Next]_vars => Inv'
  <2>. SUFFICES ASSUME Inv, [Next]_vars PROVE Inv'
    OBVIOUS
  <2>1. UNCHANGED service
    BY ServiceStays
  <2>2. CASE service = "mysql"
    <3>1. SchemaInv /\ [Mysql!Next]_(Mysql!vars)
      BY <2>2, MysqlOnly
    <3>. QED
      BY <3>1, SchemaStep, IntegrationsAssumption
  <2>. QED
    BY <2>1, <2>2
<1>. QED
  BY <1>1, <1>2, PTL DEF Spec

\* Payloads join readings in every behaviour of the collector.
LEMMA MysqlDeltaInvariant == Spec => [](service = "mysql" => MysqlDeltaInv)
<1> DEFINE Inv == service = "mysql" => MysqlDeltaInv
<1>1. Init => Inv
  BY MysqlOnly, MysqlDeltaInit
<1>2. Inv /\ [Next]_vars => Inv'
  <2>. SUFFICES ASSUME Inv, [Next]_vars PROVE Inv'
    OBVIOUS
  <2>1. UNCHANGED service
    BY ServiceStays
  <2>2. CASE service = "mysql"
    <3>1. MysqlDeltaInv /\ [Mysql!Next]_(Mysql!vars)
      BY <2>2, MysqlOnly
    <3>. QED
      BY <3>1, MysqlDeltaStep
  <2>. QED
    BY <2>1, <2>2
<1>. QED
  BY <1>1, <1>2, PTL DEF Spec

\* Where it is the behaviour of Postgres, the composition starts and steps as the part does.
LEMMA PostgresOnly ==
  /\ Init /\ service = "postgresql" => Postgres!Init
  /\ service = "postgresql" /\ [Next]_vars => [Postgres!Next]_(Postgres!vars)
<1>1. Init /\ service = "postgresql" => Postgres!Init
  BY Zenon DEF Init
<1>2. ASSUME service = "postgresql", Next PROVE Postgres!Next
  BY <1>2 DEF Next, RedisStep, MysqlStep, PostgresStep, MongoStep, EsStep, EsMetadataStep,
     EsRatesStep, EsPayloadStep, EsClientStep, ReportingStep, ProcessStep, DiscoveryStep,
     CustomStep, NginxStep
<1>3. UNCHANGED vars => UNCHANGED Postgres!vars
  BY DEF vars, Postgres!vars, Postgres!historyVars
<1>. QED
  BY <1>1, <1>2, <1>3

\* The databases that can be reached are read in every behaviour of the collector.
LEMMA ReachInvariant == Spec => [](service = "postgresql" => ReachInv)
<1> DEFINE Inv == service = "postgresql" => ReachInv
<1>1. Init => Inv
  BY PostgresOnly, ReachInit
<1>2. Inv /\ [Next]_vars => Inv'
  <2>. SUFFICES ASSUME Inv, [Next]_vars PROVE Inv'
    OBVIOUS
  <2>1. UNCHANGED service
    BY ServiceStays
  <2>2. CASE service = "postgresql"
    <3>1. ReachInv /\ [Postgres!Next]_(Postgres!vars)
      BY <2>2, PostgresOnly
    <3>. QED
      BY <3>1, ReachStep
  <2>. QED
    BY <2>1, <2>2
<1>. QED
  BY <1>1, <1>2, PTL DEF Spec

\* The tables are left out for no other reason in every behaviour of the collector.
LEMMA StorageInvariant == Spec => [](service = "postgresql" => StorageInv)
<1> DEFINE Inv == service = "postgresql" => StorageInv
<1>1. Init => Inv
  BY PostgresOnly, StorageInit
<1>2. Inv /\ [Next]_vars => Inv'
  <2>. SUFFICES ASSUME Inv, [Next]_vars PROVE Inv'
    OBVIOUS
  <2>1. UNCHANGED service
    BY ServiceStays
  <2>2. CASE service = "postgresql"
    <3>1. StorageInv /\ [Postgres!Next]_(Postgres!vars)
      BY <2>2, PostgresOnly
    <3>. QED
      BY <3>1, StorageStep, IntegrationsAssumption
  <2>. QED
    BY <2>1, <2>2
<1>. QED
  BY <1>1, <1>2, PTL DEF Spec

\* Payloads join readings in every behaviour of the collector.
LEMMA PgDeltaInvariant == Spec => [](service = "postgresql" => PgDeltaInv)
<1> DEFINE Inv == service = "postgresql" => PgDeltaInv
<1>1. Init => Inv
  BY PostgresOnly, PgDeltaInit
<1>2. Inv /\ [Next]_vars => Inv'
  <2>. SUFFICES ASSUME Inv, [Next]_vars PROVE Inv'
    OBVIOUS
  <2>1. UNCHANGED service
    BY ServiceStays
  <2>2. CASE service = "postgresql"
    <3>1. PgDeltaInv /\ [Postgres!Next]_(Postgres!vars)
      BY <2>2, PostgresOnly
    <3>. QED
      BY <3>1, PgDeltaStep
  <2>. QED
    BY <2>1, <2>2
<1>. QED
  BY <1>1, <1>2, PTL DEF Spec

\* What a payload of MySQL or PostgreSQL tells as the difference of a counter is what was
\* done between the two readings it compares, however scrapes fail, overlap and lie around
\* restarts and resets; and payloads whose scrapes do not overlap compare with the reading
\* that was told before, of the same run of the server, so that they join.
THEOREM PayloadsJoinReadings ==
  Spec => [](/\ service = "mysql" => Mysql!DeltasJoinReadings
             /\ service = "postgresql" => Postgres!DeltasJoinReadings)
<1>1. /\ service = "mysql" => MysqlDeltaInv
      /\ service = "postgresql" => PgDeltaInv
      => /\ service = "mysql" => Mysql!DeltasJoinReadings
         /\ service = "postgresql" => Postgres!DeltasJoinReadings
  BY MysqlDeltaImplies, PgDeltaImplies, Zenon
<1>. QED
  BY <1>1, MysqlDeltaInvariant, PgDeltaInvariant, PTL

\* MySQL's schema is left out only when it was sent within its interval, PostgreSQL's
\* tables only when they were tried within theirs, and a database that PostgreSQL denies
\* hides no other, whatever scrapes of both fail or overlap.
THEOREM SectionsReadWhenDue == Spec => []SectionsNotLeftOut
<1>1. /\ service = "mysql" => SchemaInv
      /\ service = "postgresql" => ReachInv /\ StorageInv
      => SectionsNotLeftOut
  BY DEF SchemaInv, ReachInv, StorageInv, SectionsNotLeftOut
<1>. QED
  BY <1>1, SchemaInvariant, ReachInvariant, StorageInvariant, PTL

-----------------------------------------------------------------------------
(* EsMetadata and EsCollector *)

\* Where it is the behaviour of EsMetadata, the composition starts and steps as the part does.
LEMMA EsMetadataOnly ==
  /\ Init /\ service = "metadata" => EsMetadata!Init
  /\ service = "metadata" /\ [Next]_vars => [EsMetadata!Next]_(EsMetadata!vars)
<1>1. Init /\ service = "metadata" => EsMetadata!Init
  BY Zenon DEF Init
<1>2. ASSUME service = "metadata", Next PROVE EsMetadata!Next
  BY <1>2 DEF Next, RedisStep, MysqlStep, PostgresStep, MongoStep, EsStep, EsMetadataStep,
     EsRatesStep, EsPayloadStep, EsClientStep, ReportingStep, ProcessStep, DiscoveryStep,
     CustomStep, NginxStep
<1>3. UNCHANGED vars => UNCHANGED EsMetadata!vars
  BY DEF vars, EsMetadata!vars
<1>. QED
  BY <1>1, <1>2, <1>3

\* MasterChanged counts no more changes than there were elections but for two with every
\* refresh that comes late, however refreshes overlap, fail and are overtaken by others.
THEOREM ElectionsAreReal == Spec => []NoInventedElection
<1> DEFINE Inv == service = "metadata" => MasterInv
<1>1. Init => Inv
  BY EsMetadataOnly, MasterInit
<1>2. Inv /\ [Next]_vars => Inv'
  <2>. SUFFICES ASSUME Inv, [Next]_vars PROVE Inv'
    OBVIOUS
  <2>1. UNCHANGED service
    BY ServiceStays
  <2>2. CASE service = "metadata"
    <3>1. MasterInv /\ [EsMetadata!Next]_(EsMetadata!vars)
      BY <2>2, EsMetadataOnly
    <3>. QED
      BY <3>1, MasterStep
  <2>. QED
    BY <2>1, <2>2
<1>3. Inv => NoInventedElection
  BY MasterImplies DEF NoInventedElection
<1>. QED
  BY <1>1, <1>2, <1>3, PTL DEF Spec

\* Where it is the behaviour of Es, the composition starts and steps as the part does.
LEMMA EsOnly ==
  /\ Init /\ service = "elasticsearch" => Es!Init
  /\ service = "elasticsearch" /\ [Next]_vars => [Es!Next]_(Es!vars)
<1>1. Init /\ service = "elasticsearch" => Es!Init
  BY Zenon DEF Init
<1>2. ASSUME service = "elasticsearch", Next PROVE Es!Next
  BY <1>2 DEF Next, RedisStep, MysqlStep, PostgresStep, MongoStep, EsStep, EsMetadataStep,
     EsRatesStep, EsPayloadStep, EsClientStep, ReportingStep, ProcessStep, DiscoveryStep,
     CustomStep, NginxStep
<1>3. UNCHANGED vars => UNCHANGED Es!vars
  BY DEF vars, Es!vars, Es!historyVars
<1>. QED
  BY <1>1, <1>2, <1>3

\* No payload explains a shard that the last listing had assigned, but for one that a
\* listing within the explain interval had not, whatever the intervals of the listings and
\* of the explanations are, and however scrapes overlap.
THEOREM ExplanationsAreCurrent == Spec => []ExplanationsOfLastListing
<1> DEFINE Inv == service = "elasticsearch" => ExplainInv
<1>1. Init => Inv
  BY EsOnly, ExplainInit
<1>2. Inv /\ [Next]_vars => Inv'
  <2>. SUFFICES ASSUME Inv, [Next]_vars PROVE Inv'
    OBVIOUS
  <2>1. UNCHANGED service
    BY ServiceStays
  <2>2. CASE service = "elasticsearch"
    <3>1. ExplainInv /\ [Es!Next]_(Es!vars)
      BY <2>2, EsOnly
    <3>. QED
      BY <3>1, ExplainStep, IntegrationsAssumption
  <2>. QED
    BY <2>1, <2>2
<1>3. Inv => ExplanationsOfLastListing
  BY DEF ExplainInv, ExplanationsOfLastListing
<1>. QED
  BY <1>1, <1>2, <1>3, PTL DEF Spec

\* What a payload of Elasticsearch tells as the indexing of a node is what the node did
\* between two readings of it, however scrapes overlap, fail and lie around restarts of the
\* node; and payloads whose scrapes do not overlap compare with the reading told before.
THEOREM NodeDeltasFit == Spec => [](service = "elasticsearch" => Es!NodeDeltaFitsInterval)
<1> DEFINE Inv == service = "elasticsearch" => EsDeltaInv
<1>1. Init => Inv
  BY EsOnly, EsDeltaInit
<1>2. Inv /\ [Next]_vars => Inv'
  <2>. SUFFICES ASSUME Inv, [Next]_vars PROVE Inv'
    OBVIOUS
  <2>1. UNCHANGED service
    BY ServiceStays
  <2>2. CASE service = "elasticsearch"
    <3>1. EsDeltaInv /\ [Es!Next]_(Es!vars)
      BY <2>2, EsOnly
    <3>. QED
      BY <3>1, EsDeltaStep
  <2>. QED
    BY <2>1, <2>2
<1>3. Inv => (service = "elasticsearch" => Es!NodeDeltaFitsInterval)
  BY EsDeltaImplies
<1>. QED
  BY <1>1, <1>2, <1>3, PTL DEF Spec

-----------------------------------------------------------------------------
(* Reporting and EsClient *)

\* Where it is the behaviour of Reporting, the composition starts and steps as the part does.
LEMMA ReportingOnly ==
  /\ Init /\ service = "reporting" => Reporting!Init
  /\ service = "reporting" /\ [Next]_vars => [Reporting!Next]_(Reporting!vars)
<1>1. Init /\ service = "reporting" => Reporting!Init
  BY Zenon DEF Init
<1>2. ASSUME service = "reporting", Next PROVE Reporting!Next
  BY <1>2 DEF Next, RedisStep, MysqlStep, PostgresStep, MongoStep, EsStep, EsMetadataStep,
     EsRatesStep, EsPayloadStep, EsClientStep, ReportingStep, ProcessStep, DiscoveryStep,
     CustomStep, NginxStep
<1>3. UNCHANGED vars => UNCHANGED Reporting!vars
  BY DEF vars, Reporting!vars
<1>. QED
  BY <1>1, <1>2, <1>3

\* However the collections of different minutes overlap, each reports once: by its collector
\* or by its fallback, the parts of a payload in order, and of a SQL server for sure.
THEOREM CollectionsReportOnce == Spec => []OneReportPerCollection
<1> DEFINE Inv == service = "reporting" => ReportsInv
<1>1. Init => Inv
  BY ReportingOnly, ReportsInit
<1>2. Inv /\ [Next]_vars => Inv'
  <2>. SUFFICES ASSUME Inv, [Next]_vars PROVE Inv'
    OBVIOUS
  <2>1. UNCHANGED service
    BY ServiceStays
  <2>2. CASE service = "reporting"
    <3>1. ReportsInv /\ [Reporting!Next]_(Reporting!vars)
      BY <2>2, ReportingOnly
    <3>. QED
      BY <3>1, ReportsStep
  <2>. QED
    BY <2>1, <2>2
<1>3. Inv => OneReportPerCollection
  BY ReportsOnce DEF OneReportPerCollection
<1>. QED
  BY <1>1, <1>2, <1>3, PTL DEF Spec

\* Where it is the behaviour of EsClient, the composition starts and steps as the part does.
LEMMA EsClientOnly ==
  /\ Init /\ service = "client" => EsClient!Init
  /\ service = "client" /\ [Next]_vars => [EsClient!Next]_(EsClient!vars)
<1>1. Init /\ service = "client" => EsClient!Init
  BY Zenon DEF Init
<1>2. ASSUME service = "client", Next PROVE EsClient!Next
  BY <1>2 DEF Next, RedisStep, MysqlStep, PostgresStep, MongoStep, EsStep, EsMetadataStep,
     EsRatesStep, EsPayloadStep, EsClientStep, ReportingStep, ProcessStep, DiscoveryStep,
     CustomStep, NginxStep
<1>3. UNCHANGED vars => UNCHANGED EsClient!vars
  BY DEF vars, EsClient!vars
<1>. QED
  BY <1>1, <1>2, <1>3

\* The client settles a request once and with what its last try came to: an answer that
\* is whole, a success and below the ceiling, or a failure that is final or was tried
\* often enough.
THEOREM RequestEndsWithLastTry == Spec => []EndsWithLastTry
<1> DEFINE Inv == service = "client" => TriesInv
<1>1. Init => Inv
  BY EsClientOnly, TriesInit
<1>2. Inv /\ [Next]_vars => Inv'
  <2>. SUFFICES ASSUME Inv, [Next]_vars PROVE Inv'
    OBVIOUS
  <2>1. UNCHANGED service
    BY ServiceStays
  <2>2. CASE service = "client"
    <3>1. TriesInv /\ [EsClient!Next]_(EsClient!vars)
      BY <2>2, EsClientOnly
    <3>. QED
      BY <3>1, TriesStep, IntegrationsAssumption
  <2>. QED
    BY <2>1, <2>2
<1>3. Inv => EndsWithLastTry
  BY DEF TriesInv, NotMade, UnderWay, Ended, Transient, EndsWithLastTry,
     EsClient!EndsWithLastTry, EsClient!Last
<1>. QED
  BY <1>1, <1>2, <1>3, PTL DEF Spec

-----------------------------------------------------------------------------
(* NginxAgent: the updates of the status *)

\* Where it is the behaviour of Nginx, the composition starts and steps as the part does.
LEMMA NginxOnly ==
  /\ Init /\ service = "nginx" => Nginx!Init
  /\ service = "nginx" /\ [Next]_vars => [Nginx!Next]_(Nginx!vars)
<1>1. Init /\ service = "nginx" => Nginx!Init
  BY Zenon DEF Init
<1>2. ASSUME service = "nginx", Next PROVE Nginx!Next
  BY <1>2 DEF Next, RedisStep, MysqlStep, PostgresStep, MongoStep, EsStep, EsMetadataStep,
     EsRatesStep, EsPayloadStep, EsClientStep, ReportingStep, ProcessStep, DiscoveryStep,
     CustomStep, NginxStep
<1>3. UNCHANGED vars => UNCHANGED Nginx!vars
  BY DEF vars, Nginx!vars
<1>. QED
  BY <1>1, <1>2, <1>3

NginxSaid == {"active", "inactive", ""}

NginxUpdate == [status : NginxSaid, prev : NginxSaid \cup {Nginx!Unasked}]

\* The last update tells the status that the next is compared with, unless that was
\* reset: with this, appending one keeps the chain.
StatusInv ==
  /\ h2 \in [previous : NginxSaid \cup {Nginx!Unasked}, updates : Seq(NginxUpdate)]
  /\ Nginx!UpdatesAreChanges

\* An answer, early or late, adds nothing or one update that continues the chain.
LEMMA ToldKeeps ==
  ASSUME StatusInv, NEW seen \in NginxSaid, h2' = Nginx!Told(h2, seen)
  PROVE  StatusInv'
<1> DEFINE u == h2.updates
           told == [status |-> seen, prev |-> h2.previous]
<1>0. /\ u \in Seq(NginxUpdate)
      /\ h2.previous \in NginxSaid \cup {Nginx!Unasked}
      /\ \A i \in DOMAIN u : u[i].status # u[i].prev
      /\ \A i \in 2 .. Len(u) : u[i].prev \in {u[i - 1].status, Nginx!Unasked}
      /\ u # << >> => h2.previous \in {u[Len(u)].status, Nginx!Unasked}
  BY DEF StatusInv, Nginx!UpdatesAreChanges, Nginx!Last
<1>1. told \in NginxUpdate
  BY <1>0 DEF NginxUpdate
<1>2. CASE h2.previous = seen
  <2>1. h2' = [previous |-> seen, updates |-> u]
    BY <1>2 DEF Nginx!Told
  <2>. QED
    BY <1>0, <1>2, <2>1 DEF StatusInv, Nginx!UpdatesAreChanges, Nginx!Last
<1>3. CASE h2.previous # seen
  <2>1. h2' = [previous |-> seen, updates |-> Append(u, told)]
    BY <1>3 DEF Nginx!Told
  <2> DEFINE v == Append(u, told)
  <2>2. /\ v \in Seq(NginxUpdate) /\ v # << >> /\ Len(v) = Len(u) + 1 /\ Len(u) \in Nat
        /\ \A i \in 1 .. Len(u) : v[i] = u[i]
        /\ v[Len(u) + 1] = told
    <3>1. u \in Seq(NginxUpdate) /\ told \in NginxUpdate
      BY <1>0, <1>1
    <3>. HIDE DEF u, told
    <3>. QED
      BY <3>1
  <2>3. told.status = seen /\ told.prev = h2.previous
    OBVIOUS
  <2>. HIDE DEF v, u, told
  <2>4. \A i \in DOMAIN v : v[i].status # v[i].prev
    BY <1>0, <1>3, <2>2, <2>3
  <2>5. ASSUME NEW i \in 2 .. Len(v) PROVE v[i].prev \in {v[i - 1].status, Nginx!Unasked}
    <3>1. CASE i = Len(u) + 1
      BY <1>0, <2>2, <2>3, <3>1
    <3>2. CASE i # Len(u) + 1
      <4>1. i \in 2 .. Len(u) /\ i \in 1 .. Len(u) /\ i - 1 \in 1 .. Len(u)
        BY <2>2, <3>2
      <4>. QED
        BY <1>0, <2>2, <4>1
    <3>. QED
      BY <3>1, <3>2
  <2>6. v[Len(v)].status = seen
    BY <2>2, <2>3
  <2>7. h2' = [previous |-> seen, updates |-> v]
    BY <2>1 DEF v
  <2>. QED
    BY <2>2, <2>4, <2>5, <2>6, <2>7 DEF StatusInv, Nginx!UpdatesAreChanges, Nginx!Last
<1>. QED
  BY <1>2, <1>3

\* A question that cannot be asked forgets the status, and the chain goes on.
LEMMA ForgetKeeps ==
  ASSUME StatusInv, h2' = [h2 EXCEPT !.previous = Nginx!Unasked]
  PROVE  StatusInv'
  BY DEF StatusInv, Nginx!UpdatesAreChanges, Nginx!Last

\* Only the answer to a question, of any of those under way, touches what is told.
LEMMA StatusStep ==
  ASSUME StatusInv, [Nginx!Next]_(Nginx!vars)
  PROVE  StatusInv'
<1>1. ASSUME NEW c \in DOMAIN scrape, Nginx!NoSystemctl(c) PROVE StatusInv'
  BY <1>1, ForgetKeeps DEF Nginx!NoSystemctl
<1>2. ASSUME NEW c \in DOMAIN scrape, Nginx!StatusKnown(c) PROVE StatusInv'
  <2>1. scrape[c] \in NginxSaid /\ h2' = Nginx!Told(h2, scrape[c])
    BY <1>2 DEF Nginx!StatusKnown, NginxSaid
  <2>. QED
    BY <2>1, ToldKeeps
<1>3. ASSUME \/ \E line \in Nginx!Line : Nginx!ProcessLogLine(line)
             \/ Nginx!FlushLogBuffer \/ Nginx!Changes \/ Nginx!MonitorNginxStatus
             \/ \E c \in DOMAIN scrape : Nginx!IsActive(c)
             \/ UNCHANGED Nginx!vars
      PROVE  StatusInv'
  <2>1. UNCHANGED h2
    BY <1>3
       DEF Nginx!ProcessLogLine, Nginx!FlushLogBuffer, Nginx!Changes, Nginx!MonitorNginxStatus,
       Nginx!IsActive,
       Nginx!vars,
         Nginx!checkVars
  <2>. QED
    BY <2>1 DEF StatusInv, Nginx!UpdatesAreChanges
<1>. QED
  BY <1>1, <1>2, <1>3 DEF Nginx!Next
\* Nothing has been told when the agent starts.
LEMMA StatusInit == Nginx!Init => StatusInv
  BY DEF Nginx!Init, StatusInv, Nginx!UpdatesAreChanges, Nginx!Unasked

\* monitorNginxStatus tells only changes, each from the one before it, although its
\* timer does not wait for the answers.
THEOREM UpdatesFollow == Spec => []UpdatesAreChanges
<1> DEFINE Inv == service = "nginx" => StatusInv
<1>1. Init => Inv
  BY NginxOnly, StatusInit
<1>2. Inv /\ [Next]_vars => Inv'
  <2>. SUFFICES ASSUME Inv, [Next]_vars PROVE Inv'
    OBVIOUS
  <2>1. UNCHANGED service
    BY ServiceStays
  <2>2. CASE service = "nginx"
    <3>1. StatusInv /\ [Nginx!Next]_(Nginx!vars)
      BY <2>2, NginxOnly
    <3>. QED
      BY <3>1, StatusStep
  <2>. QED
    BY <2>1, <2>2
<1>3. Inv => UpdatesAreChanges
  BY DEF StatusInv, UpdatesAreChanges
<1>. QED
  BY <1>1, <1>2, <1>3, PTL DEF Spec

-----------------------------------------------------------------------------
(* NginxAgent: the lines of the log *)

Lines == Seq(Nginx!Line)

\* What a flush sends of a buffer.
FlushOf(buffer) == [influx |-> Nginx!Stats(buffer), elastic |-> buffer]

Flushes == {FlushOf(buffer) : buffer \in Lines}

\* The flushes are of whole buffers, and the log is what they told and what waits.
LinesInv ==
  /\ state \in Lines
  /\ sent \in Seq(Flushes)
  /\ h1 = Nginx!ToldOneByOne(sent) \o state

\* A flush added to those before it.
Joined(lines, flush) == lines \o flush.elastic

JoinSteps(flushes) ==
  [n \in 1 .. Len(flushes) |-> [lines \in Lines |-> Joined(lines, flushes[n])]]

LEMMA FlushLines == \A f \in Flushes : f.elastic \in Lines /\ f = FlushOf(f.elastic)
  BY DEF Flushes, FlushOf

LEMMA JoinStepsTyped ==
  ASSUME NEW flushes \in Seq(Flushes)
  PROVE  /\ JoinSteps(flushes) \in [1 .. Len(flushes) -> [Lines -> Lines]]
         /\ << >> \in Lines /\ Len(flushes) \in Nat
<1>1. ASSUME NEW n \in 1 .. Len(flushes), NEW lines \in Lines
      PROVE  Joined(lines, flushes[n]) \in Lines
  <2>1. flushes[n] \in Flushes
    OBVIOUS
  <2>2. flushes[n].elastic \in Lines
    BY <2>1, FlushLines
  <2>. QED
    BY <2>2 DEF Joined, Lines
<1>2. << >> \in Lines /\ Len(flushes) \in Nat
  BY DEF Lines
<1>. QED
  BY <1>1, <1>2 DEF JoinSteps

\* The lines told by the flushes are those of a function that joins one after the other.
LEMMA ToldByRecursion ==
  ASSUME NEW flushes \in Seq(Flushes)
  PROVE  \E g \in [0 .. Len(flushes) -> Lines] :
           /\ Recursion(g, << >>, Len(flushes), JoinSteps(flushes))
           /\ Nginx!ToldOneByOne(flushes) = g[Len(flushes)]
<1> DEFINE N == Len(flushes)
           step == JoinSteps(flushes)
           next(f) == [n \in 0 .. N |->
                         IF n = 0 THEN << >> ELSE f[n - 1] \o flushes[n].elastic]
           h == CHOOSE f : f = next(f)
<1>1. N \in Nat /\ << >> \in Lines /\ step \in [1 .. N -> [Lines -> Lines]]
  BY JoinStepsTyped
<1>2. PICK g \in [0 .. N -> Lines] : Recursion(g, << >>, N, step)
  <2>. HIDE DEF step, N
  <2>. QED
    BY <1>1, RecursiveFunction
<1>3. ASSUME NEW f, NEW n \in 1 .. N, f[n - 1] \in Lines
      PROVE  step[n][f[n - 1]] = f[n - 1] \o flushes[n].elastic
  BY <1>3, Zenon DEF JoinSteps, Joined
<1>4. g = next(g)
  <2>1. ASSUME NEW n \in 0 .. N PROVE g[n] = next(g)[n]
    <3>1. CASE n = 0
      BY <1>2, <3>1, Zenon DEF Recursion
    <3>2. CASE n # 0
      <4>1. n \in 1 .. N /\ n - 1 \in 0 .. N
        BY <1>1, <3>2
      <4>2. g[n - 1] \in Lines
        BY <4>1
      <4>3. g[n] = g[n - 1] \o flushes[n].elastic
        BY <1>2, <1>3, <4>1, <4>2, Zenon DEF Recursion
      <4>. QED
        BY <3>2, <4>3, Zenon
    <3>. QED
      BY <3>1, <3>2
  <2>2. g = [n \in 0 .. N |-> g[n]]
    BY <1>2
  <2>. QED
    BY <2>1, <2>2, Zenon
<1>5. h = next(h)
  <2>. HIDE DEF next
  <2>. QED
    BY <1>4
<1>6. Nginx!ToldOneByOne(flushes) = h[N]
  BY Zenon DEF Nginx!ToldOneByOne
<1>. HIDE DEF h
<1>7. Obeys(h, Lines, << >>, N, step)
  <2>1. h = [n \in 0 .. N |-> h[n]]
    BY <1>5, Zenon
  <2>2. h[0] = << >>
    <3>1. 0 \in 0 .. N
      BY <1>1
    <3>. QED
      BY <1>5, <3>1, Zenon
  <2>3. ASSUME NEW n \in 1 .. N, h[n - 1] \in Lines PROVE h[n] = step[n][h[n - 1]]
    <3>1. n \in 0 .. N /\ n # 0
      BY <1>1
    <3>. QED
      BY <1>3, <1>5, <2>3, <3>1, Zenon
  <2>. HIDE DEF step, N
  <2>. QED
    BY <2>1, <2>2, <2>3, Zenon DEF Obeys
<1>8. h \in [0 .. N -> Lines] /\ Recursion(h, << >>, N, step)
  <2>. HIDE DEF step, N
  <2>. QED
    BY <1>1, <1>7, RecursiveValues
<1>. QED
  BY <1>6, <1>8, Zenon

\* They are lines.
LEMMA ToldLines ==
  ASSUME NEW flushes \in Seq(Flushes)
  PROVE  Nginx!ToldOneByOne(flushes) \in Lines
<1>1. PICK g \in [0 .. Len(flushes) -> Lines] :
        Nginx!ToldOneByOne(flushes) = g[Len(flushes)]
  BY ToldByRecursion
<1>2. Len(flushes) \in 0 .. Len(flushes)
  OBVIOUS
<1>. QED
  BY <1>1, <1>2

\* One flush more tells its lines after the others.
LEMMA ToldOneMore ==
  ASSUME NEW flushes \in Seq(Flushes), NEW flush \in Flushes
  PROVE  Nginx!ToldOneByOne(Append(flushes, flush))
           = Nginx!ToldOneByOne(flushes) \o flush.elastic
<1> DEFINE N == Len(flushes)
           all == Append(flushes, flush)
<1>1. PICK h \in [0 .. N -> Lines] :
        /\ Recursion(h, << >>, N, JoinSteps(flushes))
        /\ Nginx!ToldOneByOne(flushes) = h[N]
  BY ToldByRecursion
<1>2. all \in Seq(Flushes) /\ Len(all) = N + 1 /\ N \in Nat /\ all[N + 1] = flush
  OBVIOUS
<1>3. PICK g \in [0 .. N + 1 -> Lines] :
        /\ Recursion(g, << >>, N + 1, JoinSteps(all))
        /\ Nginx!ToldOneByOne(all) = g[N + 1]
  BY <1>2, ToldByRecursion, Zenon
<1>4. \A n \in 1 .. N : JoinSteps(all)[n] = JoinSteps(flushes)[n]
  <2>1. ASSUME NEW n \in 1 .. N
        PROVE  n \in 1 .. Len(all) /\ n \in 1 .. Len(flushes) /\ all[n] = flushes[n]
    OBVIOUS
  <2>. QED
    BY <2>1, Zenon DEF JoinSteps
<1>5. g[N] = h[N]
  <2>1. N \in 0 .. N + 1 /\ N \in 0 .. N /\ N + 1 \in Nat
    BY <1>2
  <2> DEFINE long == JoinSteps(all)
             short == JoinSteps(flushes)
  <2>2. Recursion(g, << >>, N + 1, long) /\ Recursion(h, << >>, N, short)
        /\ \A n \in 1 .. N : long[n] = short[n]
    BY <1>1, <1>3, <1>4
  <2>. HIDE DEF N, all, long, short
  <2>3. \A n \in 0 .. N : g[n] = h[n]
    BY <2>1, <2>2, RecursionAgrees
  <2>. QED
    BY <2>1, <2>3
<1>6. g[N + 1] = JoinSteps(all)[N + 1][g[N]]
  <2>1. N + 1 \in 1 .. N + 1 /\ (N + 1) - 1 = N
    BY <1>2
  <2>. QED
    BY <1>3, <2>1, Zenon DEF Recursion
<1>7. h[N] \in Lines
  BY <1>2
<1>8. JoinSteps(all)[N + 1][h[N]] = h[N] \o flush.elastic
  <2>1. N + 1 \in 1 .. Len(all)
    BY <1>2
  <2>. QED
    BY <1>2, <1>7, <2>1, Zenon DEF JoinSteps, Joined
<1>. QED
  BY <1>1, <1>3, <1>5, <1>6, <1>7, <1>8, Zenon

\* The module's cardinality is that of the library.
LEMMA NginxCounts == \A S : Nginx!Cardinality(S) = Cardinality(S)
  BY DEF Nginx!Cardinality, Cardinality

\* Every line of a buffer is counted for one of the origins.
LEMMA TotalsAddUp ==
  ASSUME NEW buffer \in Lines
  PROVE  Nginx!ToldInTotal(Nginx!Stats(buffer), "host")
           + Nginx!ToldInTotal(Nginx!Stats(buffer), "invalid-url") = Len(buffer)
<1> DEFINE of(o) == {i \in DOMAIN buffer : buffer[i].origin = o}
           stats == Nginx!Stats(buffer)
<1>1. /\ Len(buffer) \in Nat /\ DOMAIN buffer = 1 .. Len(buffer)
      /\ \A i \in DOMAIN buffer : buffer[i].origin \in {"host", "invalid-url"}
  <2>1. /\ Len(buffer) \in Nat /\ DOMAIN buffer = 1 .. Len(buffer)
        /\ \A i \in DOMAIN buffer : buffer[i] \in Nginx!Line
    BY DEF Lines
  <2>2. \A line \in Nginx!Line : line.origin \in {"host", "invalid-url"}
    BY DEF Nginx!Line, Nginx!Origin
  <2>. QED
    BY <2>1, <2>2
<1>2. ASSUME NEW o PROVE Nginx!ToldInTotal(stats, o) = Cardinality(of(o))
  <2>1. DOMAIN stats = {buffer[i].origin : i \in DOMAIN buffer}
    BY Zenon DEF Nginx!Stats
  <2>2. CASE o \in DOMAIN stats
    <3>1. stats[o].total = Nginx!Cardinality(of(o))
      BY <2>1, <2>2, Zenon DEF Nginx!Stats
    <3>. QED
      BY <2>2, <3>1, NginxCounts, Zenon DEF Nginx!ToldInTotal
  <2>3. CASE o \notin DOMAIN stats
    <3>1. of(o) = {}
      BY <2>1, <2>3
    <3>. QED
      BY <2>3, <3>1, FS_EmptySet, Zenon DEF Nginx!ToldInTotal
  <2>. QED
    BY <2>2, <2>3
<1>3. /\ of("host") \cup of("invalid-url") = 1 .. Len(buffer)
      /\ of("host") \cap of("invalid-url") = {}
  BY <1>1
<1>4. IsFiniteSet(1 .. Len(buffer)) /\ Cardinality(1 .. Len(buffer)) = Len(buffer)
  BY <1>1, FS_Interval
<1>5. IsFiniteSet(of("host")) /\ IsFiniteSet(of("invalid-url"))
  BY <1>3, <1>4, FS_Subset
<1>. HIDE DEF of, stats
<1>6. Cardinality(of("host")) + Cardinality(of("invalid-url")) = Len(buffer)
  <2>1. Cardinality(of("host") \cup of("invalid-url"))
          = Cardinality(of("host")) + Cardinality(of("invalid-url"))
              - Cardinality(of("host") \cap of("invalid-url"))
    BY <1>5, FS_Union
  <2>2. Cardinality(of("host")) \in Nat /\ Cardinality(of("invalid-url")) \in Nat
    BY <1>5, FS_CardinalityType
  <2>3. Cardinality(of("host") \cap of("invalid-url")) = 0
    BY <1>3, FS_EmptySet, Zenon
  <2>4. Cardinality(of("host") \cup of("invalid-url")) = Len(buffer)
    BY <1>3, <1>4, Zenon
  <2>. QED
    BY <2>1, <2>2, <2>3, <2>4
<1>. QED
  BY <1>2, <1>6 DEF stats

\* Nothing has been read at first.
LEMMA LinesInit == Nginx!Init => LinesInv
<1>. SUFFICES ASSUME Nginx!Init PROVE LinesInv
  OBVIOUS
<1>1. h1 = << >> /\ state = << >> /\ sent = << >>
  BY DEF Nginx!Init
<1>2. sent \in Seq(Flushes) /\ state \in Lines
  BY <1>1 DEF Lines
<1>3. PICK g : /\ Recursion(g, << >>, Len(sent), JoinSteps(sent))
               /\ Nginx!ToldOneByOne(sent) = g[Len(sent)]
  BY <1>2, ToldByRecursion
<1>4. Nginx!ToldOneByOne(sent) = << >>
  BY <1>1, <1>3 DEF Recursion
<1>. QED
  BY <1>1, <1>2, <1>4 DEF LinesInv

\* Every flush of a buffer keeps the lines in order, whatever the buffer holds.
LEMMA FlushKeeps ==
  ASSUME NEW buffer \in Lines, sent \in Seq(Flushes)
  PROVE  /\ Nginx!Flushed(buffer) \in Seq(Flushes)
         /\ Nginx!ToldOneByOne(Nginx!Flushed(buffer)) = Nginx!ToldOneByOne(sent) \o buffer
<1>1. Nginx!ToldOneByOne(sent) \in Lines
  BY ToldLines
<1>2. CASE buffer = << >>
  <2>1. Nginx!Flushed(buffer) = sent
    BY <1>2 DEF Nginx!Flushed
  <2>2. Nginx!ToldOneByOne(sent) \o << >> = Nginx!ToldOneByOne(sent)
    <3>1. ASSUME NEW s \in Lines PROVE s \o << >> = s
      BY DEF Lines
    <3>. QED
      BY <1>1, <3>1
  <2>. QED
    BY <1>2, <2>1, <2>2
<1>3. CASE buffer # << >>
  <2>1. Nginx!Flushed(buffer) = Append(sent, FlushOf(buffer))
    BY <1>3 DEF Nginx!Flushed, FlushOf
  <2>2. FlushOf(buffer) \in Flushes /\ FlushOf(buffer).elastic = buffer
    BY DEF Flushes, FlushOf
  <2>3. Append(sent, FlushOf(buffer)) \in Seq(Flushes)
    BY <2>2
  <2>. QED
    BY <2>1, <2>2, <2>3, ToldOneMore
<1>. QED
  BY <1>2, <1>3

\* A line goes into the buffer, and with it to the databases when that is full.
LEMMA LinesStep ==
  ASSUME LinesInv, [Nginx!Next]_(Nginx!vars), Nginx!NginxAssumption
  PROVE  LinesInv'
<1> DEFINE told == Nginx!ToldOneByOne(sent)
<1>0. state \in Lines /\ sent \in Seq(Flushes) /\ h1 = told \o state /\ told \in Lines
  BY ToldLines DEF LinesInv
<1>1. ASSUME NEW line \in Nginx!Line, Nginx!ProcessLogLine(line) PROVE LinesInv'
  <2> DEFINE more == Append(state, line)
  <2>1. more \in Lines /\ h1' = told \o more
    <3>1. h1' = Append(h1, line)
      BY <1>1 DEF Nginx!ProcessLogLine
    <3>2. ASSUME NEW a \in Lines, NEW b \in Lines
          PROVE  Append(b, line) \in Lines /\ Append(a \o b, line) = a \o Append(b, line)
      BY DEF Lines
    <3>. HIDE DEF told
    <3>. QED
      BY <1>0, <3>1, <3>2
  <2>2. \/ state' = << >> /\ sent' = Nginx!Flushed(more)
        \/ state' = more /\ sent' = sent
    BY <1>1 DEF Nginx!ProcessLogLine, Nginx!Taken
  <2>3. CASE state' = << >> /\ sent' = Nginx!Flushed(more)
    <3>. HIDE DEF more
    <3>1. sent' \in Seq(Flushes) /\ Nginx!ToldOneByOne(sent') = told \o more
      BY <1>0, <2>1, <2>3, FlushKeeps
    <3>2. told \o more \in Lines
      <4>1. ASSUME NEW a \in Lines, NEW b \in Lines PROVE a \o b \in Lines
        BY DEF Lines
      <4>. HIDE DEF told
      <4>. QED
        BY <1>0, <2>1, <4>1
    <3>3. (told \o more) \o << >> = told \o more /\ << >> \in Lines
      <4>1. ASSUME NEW a \in Lines PROVE a \o << >> = a /\ << >> \in Lines
        BY DEF Lines
      <4>. HIDE DEF told
      <4>. QED
        BY <3>2, <4>1
    <3>4. h1' = Nginx!ToldOneByOne(sent') \o state'
      BY <2>1, <2>3, <3>1, <3>3
    <3>. QED
      BY <2>3, <3>1, <3>3, <3>4 DEF LinesInv
  <2>4. CASE state' = more /\ sent' = sent
    BY <1>0, <2>1, <2>4 DEF LinesInv
  <2>. QED
    BY <2>2, <2>3, <2>4
<1>2. CASE Nginx!FlushLogBuffer
  <2>1. sent' = Nginx!Flushed(state) /\ state' = << >> /\ h1' = h1
    BY <1>2 DEF Nginx!FlushLogBuffer
  <2>2. sent' \in Seq(Flushes) /\ Nginx!ToldOneByOne(sent') = told \o state
    BY <1>0, <2>1, FlushKeeps
  <2>3. (told \o state) \o << >> = told \o state /\ << >> \in Lines
    <3>1. ASSUME NEW a \in Lines, NEW b \in Lines
          PROVE (a \o b) \o << >> = a \o b /\ << >> \in Lines
      BY DEF Lines
    <3>. HIDE DEF told
    <3>. QED
      BY <1>0, <3>1
  <2>4. h1' = Nginx!ToldOneByOne(sent') \o state'
    BY <1>0, <2>1, <2>2, <2>3
  <2>. QED
    BY <2>1, <2>2, <2>3, <2>4 DEF LinesInv
<1>3. ASSUME \/ Nginx!Changes \/ Nginx!MonitorNginxStatus
             \/ \E c \in DOMAIN scrape : \/ Nginx!NoSystemctl(c) \/ Nginx!IsActive(c)
                                         \/ Nginx!StatusKnown(c)
             \/ UNCHANGED Nginx!vars
      PROVE  LinesInv'
  <2>1. UNCHANGED <<h1, state, sent>>
    BY <1>3, Zenon
       DEF Nginx!Changes, Nginx!MonitorNginxStatus, Nginx!NoSystemctl, Nginx!IsActive,
       Nginx!StatusKnown, Nginx!lineVars, Nginx!vars
  <2>. QED
    BY <2>1 DEF LinesInv
<1>. QED
  BY <1>1, <1>2, <1>3 DEF Nginx!Next

\* What the invariant says of the totals.
LEMMA LinesAreTold == LinesInv => Nginx!EveryLineToldOnce
<1>. SUFFICES ASSUME LinesInv PROVE Nginx!EveryLineToldOnce
  OBVIOUS
<1>1. ASSUME NEW i \in DOMAIN sent
      PROVE  Nginx!ToldInTotal(sent[i].influx, "host")
               + Nginx!ToldInTotal(sent[i].influx, "invalid-url") = Len(sent[i].elastic)
  <2>1. sent[i] \in Flushes
    BY DEF LinesInv
  <2>2. sent[i].elastic \in Lines /\ sent[i] = FlushOf(sent[i].elastic)
    BY <2>1, FlushLines
  <2>3. sent[i].influx = Nginx!Stats(sent[i].elastic)
    BY <2>2 DEF FlushOf
  <2>. QED
    BY <2>2, <2>3, TotalsAddUp
<1>. QED
  BY <1>1 DEF LinesInv, Nginx!EveryLineToldOnce

\* A line that appears while the agent runs is told once, in order, to Elasticsearch,
\* and once, in the counts of a flush, to InfluxDB.
THEOREM LinesToldOnce == Spec => []EveryLineToldOnce
<1> DEFINE Inv == service = "nginx" => LinesInv
<1>1. Init => Inv
  BY NginxOnly, LinesInit
<1>2. Inv /\ [Next]_vars => Inv'
  <2>. SUFFICES ASSUME Inv, [Next]_vars PROVE Inv'
    OBVIOUS
  <2>1. UNCHANGED service
    BY ServiceStays
  <2>2. CASE service = "nginx"
    <3>1. LinesInv /\ [Nginx!Next]_(Nginx!vars)
      BY <2>2, NginxOnly
    <3>. QED
      BY <3>1, LinesStep, AgentServicesAssumption
  <2>. QED
    BY <2>1, <2>2
<1>3. Inv => EveryLineToldOnce
  BY LinesAreTold DEF EveryLineToldOnce
<1>. QED
  BY <1>1, <1>2, <1>3, PTL DEF Spec

-----------------------------------------------------------------------------
(* Discovery: what the user has set *)

\* Where it is the behaviour of Discovery, the composition starts and steps as the part does.
LEMMA DiscoveryOnly ==
  /\ Init /\ service = "discovery" => Discovery!Init
  /\ service = "discovery" /\ [Next]_vars => [Discovery!Next]_(Discovery!vars)
<1>1. Init /\ service = "discovery" => Discovery!Init
  BY Zenon DEF Init
<1>2. ASSUME service = "discovery", Next PROVE Discovery!Next
  BY <1>2 DEF Next, RedisStep, MysqlStep, PostgresStep, MongoStep, EsStep, EsMetadataStep,
     EsRatesStep, EsPayloadStep, EsClientStep, ReportingStep, ProcessStep, DiscoveryStep,
     CustomStep, NginxStep
<1>3. UNCHANGED vars => UNCHANGED Discovery!vars
  BY DEF vars, Discovery!vars
<1>. QED
  BY <1>1, <1>2, <1>3

\* What a scan may do to the entries of a file, and to its logs.
EntriesKept(old, new) ==
  \A svc \in DOMAIN old :
    /\ svc \in DOMAIN new
    /\ new[svc].config = old[svc].config
    /\ new[svc].monitor # old[svc].monitor =>
         new[svc].monitor /\ svc \in CanAutoEnable /\ old[svc].autoDetected # "no"

LogsKept(old, new) ==
  /\ DOMAIN old \subseteq DOMAIN new
  /\ \A log \in DOMAIN new : new[log] = IF log \in DOMAIN old THEN old[log] ELSE h2

\* Every entry is monitored or not.
Flagged(integrations) == \A svc \in DOMAIN integrations : integrations[svc].monitor \in BOOLEAN

IsFile(file) == file = [torn |-> file.torn, data |-> file.data]

IsSaving == scrape = Discovery!Pending(scrape.pc, scrape.read, scrape.pending)

\* What a scan is about to write keeps what it has read.
SettingsInv ==
  /\ state = [integrations |-> state.integrations, watchlist |-> state.watchlist]
  /\ IsFile(state.integrations) /\ IsFile(state.watchlist)
  /\ Flagged(state.integrations.data)
  /\ h2 \in BOOLEAN
  /\ scrape.pc \in {"saveIntegrations", "writeIntegrations"} =>
       /\ IsSaving
       /\ Flagged(scrape.pending)
       /\ EntriesKept(scrape.read.data, scrape.pending)
  /\ scrape.pc \in {"saveWatchlist", "writeWatchlist"} =>
       IsSaving /\ LogsKept(scrape.read.data, scrape.pending)

LEMMA SettingsInit == Discovery!Init => SettingsInv
  BY DEF Discovery!Init, SettingsInv, IsFile, Flagged, Discovery!File, Discovery!Nothing,
     Discovery!At

\* A scan keeps the credentials of an entry, and turns on only what needs none and was not
\* said to be undetected.
LEMMA SyncedKeeps ==
  ASSUME NEW integrations, Flagged(integrations),
         NEW evidence,
         NEW found, found = [svc \in Service |-> Discovery!DetectService(svc, evidence[svc])]
  PROVE  /\ Flagged(Discovery!SyncedIntegrations(integrations, found))
         /\ EntriesKept(integrations, Discovery!SyncedIntegrations(integrations, found))
<1> DEFINE synced == Discovery!SyncedIntegrations(integrations, found)
           detected == {svc \in Service : found[svc] # "not_detected"}
<1>1. \A svc \in detected : found[svc] = "enabled" => svc \in CanAutoEnable
  BY DEF Discovery!DetectService
<1>2. /\ DOMAIN synced = DOMAIN integrations \cup detected
      /\ \A svc \in DOMAIN integrations \ detected : synced[svc] = integrations[svc]
      /\ \A svc \in DOMAIN integrations \cap detected :
           synced[svc] = Discovery!Merged(integrations[svc], found[svc])
      /\ \A svc \in detected \ DOMAIN integrations :
           synced[svc] = [monitor |-> found[svc] = "enabled", config |-> "default",
                          autoDetected |-> "yes", state |-> found[svc]]
  BY DEF Discovery!SyncedIntegrations
<1>. HIDE DEF synced, detected
<1>3. \A svc \in DOMAIN integrations \cap detected :
        /\ synced[svc].config = integrations[svc].config
        /\ synced[svc].monitor \in BOOLEAN
        /\ synced[svc].monitor # integrations[svc].monitor =>
             synced[svc].monitor /\ svc \in CanAutoEnable /\ integrations[svc].autoDetected # "no"
  <2>. TAKE svc \in DOMAIN integrations \cap detected
  <2>1. integrations[svc].monitor \in BOOLEAN
    BY DEF Flagged
  <2>2. /\ synced[svc].config = integrations[svc].config
        /\ synced[svc].monitor = (integrations[svc].monitor \/
             ((IF integrations[svc].autoDetected = "unset" THEN "yes"
               ELSE integrations[svc].autoDetected) = "yes" /\ found[svc] = "enabled"))
    BY <1>2 DEF Discovery!Merged
  <2>3. found[svc] = "enabled" => svc \in CanAutoEnable
    BY <1>1
  <2>4. CASE integrations[svc].monitor = TRUE
    BY <2>2, <2>4, Zenon
  <2>5. CASE integrations[svc].monitor = FALSE
    <3>1. synced[svc].monitor = (integrations[svc].autoDetected \in {"unset", "yes"}
                                 /\ found[svc] = "enabled")
      BY <2>2, <2>5
    <3>2. CASE integrations[svc].autoDetected \in {"unset", "yes"} /\ found[svc] = "enabled"
      <4>1. synced[svc].monitor = TRUE
        BY <3>1, <3>2, Zenon
      <4>2. integrations[svc].autoDetected # "no"
        BY <3>2
      <4>. QED
        BY <2>2, <2>3, <3>2, <4>1, <4>2, Zenon
    <3>3. CASE ~(integrations[svc].autoDetected \in {"unset", "yes"} /\ found[svc] = "enabled")
      <4>1. synced[svc].monitor = FALSE
        BY <3>1, <3>3, Zenon
      <4>. QED
        BY <2>2, <2>5, <4>1, Zenon
    <3>. QED
      BY <3>2, <3>3, Zenon
  <2>. QED
    BY <2>1, <2>4, <2>5, Zenon
<1>4. Flagged(synced)
  <2>. SUFFICES ASSUME NEW svc \in DOMAIN synced PROVE synced[svc].monitor \in BOOLEAN
    BY DEF Flagged
  <2>1. CASE svc \in DOMAIN integrations \cap detected
    BY <1>3, <2>1
  <2>2. CASE svc \in DOMAIN integrations \ detected
    <3>1. synced[svc] = integrations[svc]
      BY <1>2, <2>2
    <3>. QED
      BY <2>2, <3>1, Zenon DEF Flagged
  <2>3. CASE svc \in detected \ DOMAIN integrations
    <3>1. synced[svc].monitor = (found[svc] = "enabled")
      BY <1>2, <2>3
    <3>. QED
      BY <3>1, Zenon
  <2>. QED
    BY <1>2, <2>1, <2>2, <2>3
<1>5. EntriesKept(integrations, synced)
  <2>. SUFFICES ASSUME NEW svc \in DOMAIN integrations
                PROVE  /\ svc \in DOMAIN synced
                       /\ synced[svc].config = integrations[svc].config
                       /\ synced[svc].monitor # integrations[svc].monitor =>
                            /\ synced[svc].monitor /\ svc \in CanAutoEnable
                            /\ integrations[svc].autoDetected # "no"
    BY DEF EntriesKept
  <2>1. CASE svc \in detected
    BY <1>2, <1>3, <2>1
  <2>2. CASE svc \notin detected
    BY <1>2, <2>2
  <2>. QED
    BY <2>1, <2>2
<1>. QED
  BY <1>4, <1>5 DEF synced

LEMMA SettingsStep ==
  ASSUME SettingsInv, [Discovery!Next]_(Discovery!vars)
  PROVE  SettingsInv'
<1>. USE DEF SettingsInv
<1>1. ASSUME NEW svc \in Service, Discovery!EditIntegration(svc) PROVE SettingsInv'
  <2>1. PICK monitor \in BOOLEAN, autoDetected \in {"unset", "no"} :
          state' = [state EXCEPT !.integrations.data =
            Discovery!Put(@, svc, [monitor |-> monitor, config |-> "user",
                                   autoDetected |-> autoDetected, state |-> "unset"])]
    BY <1>1 DEF Discovery!EditIntegration
  <2> DEFINE entry == [monitor |-> monitor, config |-> "user", autoDetected |-> autoDetected,
                       state |-> "unset"]
             new == Discovery!Put(state.integrations.data, svc, entry)
  <2>2. state' = [integrations |-> [torn |-> state.integrations.torn, data |-> new],
                  watchlist |-> state.watchlist]
    BY <2>1 DEF IsFile
  <2>3. entry.monitor \in BOOLEAN
    OBVIOUS
  <2>. HIDE DEF entry
  <2>4. Flagged(new)
    BY <2>3 DEF Discovery!Put, Flagged
  <2>5. UNCHANGED <<scrape, h2>>
    BY <1>1 DEF Discovery!EditIntegration
  <2>. HIDE DEF new
  <2>6. /\ state' = [integrations |-> state'.integrations, watchlist |-> state'.watchlist]
        /\ IsFile(state'.integrations) /\ IsFile(state'.watchlist)
        /\ Flagged(state'.integrations.data)
    BY <2>2, <2>4 DEF IsFile
  <2>. QED
    BY <2>5, <2>6 DEF IsSaving, LogsKept
<1>2. ASSUME NEW log \in LogFile, Discovery!EditWatchlist(log) PROVE SettingsInv'
  <2>1. PICK enabled \in BOOLEAN :
          state' = [state EXCEPT !.watchlist.data = Discovery!Put(@, log, enabled)]
    BY <1>2 DEF Discovery!EditWatchlist
  <2> DEFINE new == Discovery!Put(state.watchlist.data, log, enabled)
  <2>2. state' = [integrations |-> state.integrations,
                  watchlist |-> [torn |-> state.watchlist.torn, data |-> new]]
    BY <2>1 DEF IsFile
  <2>3. UNCHANGED <<scrape, h2>>
    BY <1>2 DEF Discovery!EditWatchlist
  <2>. HIDE DEF new
  <2>4. /\ state' = [integrations |-> state'.integrations, watchlist |-> state'.watchlist]
        /\ IsFile(state'.integrations) /\ IsFile(state'.watchlist)
        /\ Flagged(state'.integrations.data)
    BY <2>2 DEF IsFile
  <2>. QED
    BY <2>3, <2>4 DEF IsSaving, LogsKept
<1>3. CASE Discovery!SyncIntegrations
  <2>1. PICK evidence \in [Service -> {{}, {"process"}}] :
          LET found == [svc \in Service |-> Discovery!DetectService(svc, evidence[svc])]
              loaded == Discovery!LoadJson(state.integrations)
              synced == Discovery!SyncedIntegrations(loaded, found)
          IN  scrape' = IF synced = loaded THEN Discovery!At("logs")
                        ELSE Discovery!Pending("saveIntegrations", state.integrations, synced)
    BY <1>3, Zenon DEF Discovery!SyncIntegrations
  <2> DEFINE found == [svc \in Service |-> Discovery!DetectService(svc, evidence[svc])]
             synced == Discovery!SyncedIntegrations(state.integrations.data, found)
  <2>2. UNCHANGED <<state, h2>>
    BY <1>3 DEF Discovery!SyncIntegrations
  <2>3. Flagged(synced) /\ EntriesKept(state.integrations.data, synced)
    <3>. HIDE DEF found
    <3>1. found = [svc \in Service |-> Discovery!DetectService(svc, evidence[svc])]
      BY DEF found
    <3>. QED
      BY <3>1, SyncedKeeps
  <2>4. \/ scrape' = Discovery!At("logs")
        \/ scrape' = Discovery!Pending("saveIntegrations", state.integrations, synced)
    BY <2>1 DEF Discovery!LoadJson
  <2>. HIDE DEF synced
  <2>5. CASE scrape' = Discovery!At("logs")
    BY <2>2, <2>5 DEF Discovery!At
  <2>6. CASE scrape' = Discovery!Pending("saveIntegrations", state.integrations, synced)
    <3>1. /\ scrape'.pc = "saveIntegrations" /\ scrape'.read = state.integrations
          /\ scrape'.pending = synced
      BY <2>6 DEF Discovery!Pending
    <3>. QED
      BY <2>2, <2>3, <2>6, <3>1 DEF IsSaving
  <2>. QED
    BY <2>4, <2>5, <2>6
<1>4. CASE Discovery!TruncateIntegrations
  <2>1. /\ scrape.pc = "saveIntegrations"
        /\ state' = [integrations |-> Discovery!Torn, watchlist |-> state.watchlist]
        /\ scrape' = [scrape EXCEPT !.pc = "writeIntegrations"]
        /\ UNCHANGED h2
    BY <1>4 DEF Discovery!TruncateIntegrations
  <2>2. /\ scrape'.pc = "writeIntegrations" /\ scrape'.read = scrape.read
        /\ scrape'.pending = scrape.pending /\ IsSaving'
    BY <2>1 DEF IsSaving, Discovery!Pending
  <2>3. Flagged(Discovery!Torn.data) /\ IsFile(Discovery!Torn)
    BY DEF Flagged, Discovery!Torn, Discovery!Nothing, IsFile
  <2>. QED
    BY <2>1, <2>2, <2>3
<1>5. CASE Discovery!WriteIntegrations
  <2>1. /\ scrape.pc = "writeIntegrations"
        /\ state' = [integrations |-> [torn |-> FALSE, data |-> scrape.pending],
                     watchlist |-> state.watchlist]
        /\ scrape'.pc = "logs"
        /\ UNCHANGED h2
    BY <1>5 DEF Discovery!WriteIntegrations, Discovery!File, Discovery!At
  <2>. QED
    BY <2>1 DEF IsFile
<1>6. CASE Discovery!SyncLogWatchlist
  <2>1. PICK status \in [LogFile -> {"detected", "stale"}] :
          LET loaded == Discovery!LoadJson(state.watchlist)
              synced == Discovery!SyncedWatchlist(loaded,
                          {l \in LogFile : Discovery!ShouldRecommend(status[l])})
          IN  scrape' = IF synced = loaded THEN Discovery!At("done")
                        ELSE Discovery!Pending("saveWatchlist", state.watchlist, synced)
    BY <1>6, Zenon DEF Discovery!SyncLogWatchlist
  <2> DEFINE recommended == {l \in LogFile : Discovery!ShouldRecommend(status[l])}
             loaded == state.watchlist.data
             synced == Discovery!SyncedWatchlist(loaded, recommended)
  <2>2. UNCHANGED <<state, h2>>
    BY <1>6 DEF Discovery!SyncLogWatchlist
  <2>3. LogsKept(loaded, synced)
    <3>. HIDE DEF recommended, loaded
    <3>. QED
      BY DEF LogsKept, Discovery!SyncedWatchlist, Discovery!FilledIn
  <2>4. \/ scrape' = Discovery!At("done")
        \/ scrape' = Discovery!Pending("saveWatchlist", state.watchlist, synced)
    BY <2>1 DEF Discovery!LoadJson
  <2>. HIDE DEF synced
  <2>5. CASE scrape' = Discovery!At("done")
    BY <2>2, <2>5 DEF Discovery!At
  <2>6. CASE scrape' = Discovery!Pending("saveWatchlist", state.watchlist, synced)
    <3>1. /\ scrape'.pc = "saveWatchlist" /\ scrape'.read = state.watchlist
          /\ scrape'.pending = synced
      BY <2>6 DEF Discovery!Pending
    <3>. QED
      BY <2>2, <2>3, <2>6, <3>1 DEF IsSaving, LogsKept
  <2>. QED
    BY <2>4, <2>5, <2>6
<1>7. CASE Discovery!TruncateWatchlist
  <2>1. /\ scrape.pc = "saveWatchlist"
        /\ state' = [integrations |-> state.integrations, watchlist |-> Discovery!Torn]
        /\ scrape' = [scrape EXCEPT !.pc = "writeWatchlist"]
        /\ UNCHANGED h2
    BY <1>7 DEF Discovery!TruncateWatchlist
  <2>2. /\ scrape'.pc = "writeWatchlist" /\ scrape'.read = scrape.read
        /\ scrape'.pending = scrape.pending /\ IsSaving'
    BY <2>1 DEF IsSaving, Discovery!Pending
  <2>3. IsFile(Discovery!Torn)
    BY DEF Discovery!Torn, Discovery!Nothing, IsFile
  <2>. QED
    BY <2>1, <2>2, <2>3 DEF LogsKept
<1>8. CASE Discovery!WriteWatchlist
  <2>1. /\ state' = [integrations |-> state.integrations,
                     watchlist |-> [torn |-> FALSE, data |-> scrape.pending]]
        /\ scrape'.pc = "done"
        /\ UNCHANGED h2
    BY <1>8 DEF Discovery!WriteWatchlist, Discovery!File, Discovery!At
  <2>. QED
    BY <2>1 DEF IsFile
<1>9. CASE Discovery!Killed
  BY <1>9 DEF Discovery!Killed, Discovery!At
<1>10. CASE UNCHANGED Discovery!vars
  BY <1>10 DEF Discovery!vars, IsSaving, LogsKept
<1>. QED
  BY <1>1, <1>2, <1>3, <1>4, <1>5, <1>6, <1>7, <1>8, <1>9, <1>10, ZenonT(60) DEF Discovery!Next

\* Edits are counted.
EditsCounted == h1 = [edits |-> h1.edits, kills |-> h1.kills] /\ h1.edits \in Nat

LEMMA EditsInit == Discovery!Init => EditsCounted
  BY DEF Discovery!Init, EditsCounted

LEMMA EditsStep ==
  ASSUME EditsCounted, [Discovery!Next]_(Discovery!vars)
  PROVE  EditsCounted'
<1>1. \/ h1' = [h1 EXCEPT !.edits = @ + 1]
      \/ h1' = [h1 EXCEPT !.kills = @ + 1]
      \/ UNCHANGED h1
  BY Zenon DEF Discovery!Next, Discovery!vars, Discovery!EditIntegration,
     Discovery!EditWatchlist, Discovery!SyncIntegrations, Discovery!TruncateIntegrations,
     Discovery!WriteIntegrations, Discovery!SyncLogWatchlist, Discovery!TruncateWatchlist,
     Discovery!WriteWatchlist, Discovery!Killed
<1>. QED
  BY <1>1 DEF EditsCounted

\* A step that leaves the files keeps what the user has set, and so does one that writes
\* what keeps what was read: what is written over a file that was saved since is not of it.
LEMMA SettingsStay ==
  ASSUME SettingsInv, EditsCounted, [Discovery!Next]_(Discovery!vars)
  PROVE  Discovery!KeepsUserSettings
<1> DEFINE written(old, new) == IF new.torn /\ ~old.torn THEN scrape'.pending ELSE new.data
           entries == written(state.integrations, state'.integrations)
           logs == written(state.watchlist, state'.watchlist)
<1>1. /\ EntriesKept(state.integrations.data, state.integrations.data)
      /\ LogsKept(state.watchlist.data, state.watchlist.data)
  BY DEF EntriesKept, LogsKept
<1>2. ASSUME \/ EntriesKept(state.integrations.data, entries)
             \/ state.integrations.torn
             \/ ~Discovery!NotSavedSince(state.integrations),
             \/ LogsKept(state.watchlist.data, logs)
             \/ state.watchlist.torn
             \/ ~Discovery!NotSavedSince(state.watchlist)
      PROVE  Discovery!KeepsUserSettings
  BY <1>2, Zenon DEF Discovery!KeepsUserSettings, EntriesKept, LogsKept
<1>3. ASSUME Discovery!Edit PROVE Discovery!KeepsUserSettings
  BY <1>3, Zenon DEF Discovery!KeepsUserSettings
<1>4. state'.integrations = state.integrations => entries = state.integrations.data
  OBVIOUS
<1>5. state'.watchlist = state.watchlist => logs = state.watchlist.data
  OBVIOUS
<1>. HIDE DEF entries, logs
<1>6. CASE UNCHANGED state
  BY <1>1, <1>2, <1>4, <1>5, <1>6
<1>7. ASSUME h1' = [h1 EXCEPT !.edits = @ + 1] PROVE Discovery!KeepsUserSettings
  BY <1>3, <1>7 DEF Discovery!Edit, EditsCounted
<1>8. CASE Discovery!TruncateIntegrations \/ Discovery!WriteIntegrations
  <2>1. /\ scrape.pc \in {"saveIntegrations", "writeIntegrations"}
        /\ UNCHANGED state.watchlist
    BY <1>8 DEF Discovery!TruncateIntegrations, Discovery!WriteIntegrations, SettingsInv
  <2>2. EntriesKept(scrape.read.data, scrape.pending) /\ IsSaving
    BY <2>1 DEF SettingsInv
  <2>3. "read" \in DOMAIN scrape
    BY <2>2 DEF IsSaving, Discovery!Pending
  <2>4. ~state.integrations.torn => entries = scrape.pending
    <3>1. CASE Discovery!TruncateIntegrations
      <4>1. state'.integrations.torn
        BY <3>1 DEF Discovery!TruncateIntegrations, SettingsInv, Discovery!Torn
      <4>2. scrape'.pending = scrape.pending
        BY <2>2, <3>1 DEF Discovery!TruncateIntegrations, IsSaving, Discovery!Pending
      <4>. QED
        BY <4>1, <4>2 DEF entries
    <3>2. CASE Discovery!WriteIntegrations
      <4>1. state'.integrations = [torn |-> FALSE, data |-> scrape.pending]
        BY <3>2 DEF Discovery!WriteIntegrations, SettingsInv, Discovery!File
      <4>. QED
        BY <4>1 DEF entries
    <3>. QED
      BY <1>8, <3>1, <3>2
  <2>5. \/ EntriesKept(state.integrations.data, entries)
        \/ state.integrations.torn
        \/ ~Discovery!NotSavedSince(state.integrations)
    BY <2>2, <2>3, <2>4 DEF Discovery!NotSavedSince
  <2>. QED
    BY <1>1, <1>2, <1>5, <2>1, <2>5
<1>9. CASE Discovery!TruncateWatchlist \/ Discovery!WriteWatchlist
  <2>1. /\ scrape.pc \in {"saveWatchlist", "writeWatchlist"}
        /\ UNCHANGED state.integrations
    BY <1>9 DEF Discovery!TruncateWatchlist, Discovery!WriteWatchlist, SettingsInv
  <2>2. LogsKept(scrape.read.data, scrape.pending) /\ IsSaving
    BY <2>1 DEF SettingsInv
  <2>3. "read" \in DOMAIN scrape
    BY <2>2 DEF IsSaving, Discovery!Pending
  <2>4. ~state.watchlist.torn => logs = scrape.pending
    <3>1. CASE Discovery!TruncateWatchlist
      <4>1. state'.watchlist.torn
        BY <3>1 DEF Discovery!TruncateWatchlist, SettingsInv, Discovery!Torn
      <4>2. scrape'.pending = scrape.pending
        BY <2>2, <3>1 DEF Discovery!TruncateWatchlist, IsSaving, Discovery!Pending
      <4>. QED
        BY <4>1, <4>2 DEF logs
    <3>2. CASE Discovery!WriteWatchlist
      <4>1. state'.watchlist = [torn |-> FALSE, data |-> scrape.pending]
        BY <3>2 DEF Discovery!WriteWatchlist, SettingsInv, Discovery!File
      <4>. QED
        BY <4>1 DEF logs
    <3>. QED
      BY <1>9, <3>1, <3>2
  <2>5. \/ LogsKept(state.watchlist.data, logs)
        \/ state.watchlist.torn
        \/ ~Discovery!NotSavedSince(state.watchlist)
    BY <2>2, <2>3, <2>4 DEF Discovery!NotSavedSince
  <2>. QED
    BY <1>1, <1>2, <1>4, <2>1, <2>5
<1>10. \/ UNCHANGED state
       \/ h1' = [h1 EXCEPT !.edits = @ + 1]
       \/ Discovery!TruncateIntegrations \/ Discovery!WriteIntegrations
       \/ Discovery!TruncateWatchlist \/ Discovery!WriteWatchlist
  BY Zenon DEF Discovery!Next, Discovery!vars, Discovery!EditIntegration,
     Discovery!EditWatchlist, Discovery!SyncIntegrations, Discovery!SyncLogWatchlist,
     Discovery!Killed
<1>. QED
  BY <1>6, <1>7, <1>8, <1>9, <1>10, Zenon

\* No scan, wherever the agent is killed in it, overwrites what the user has set in a file
\* that is whole and that the user has not saved since the scan read it, but for turning on
\* what needs no credentials.
THEOREM ScansKeepSettings == Spec => UserSettingsKept
<1> DEFINE Inv == service = "discovery" => SettingsInv /\ EditsCounted
<1>1. Init => Inv
  BY DiscoveryOnly, SettingsInit, EditsInit
<1>2. Inv /\ [Next]_vars => Inv'
  <2>. SUFFICES ASSUME Inv, [Next]_vars PROVE Inv'
    OBVIOUS
  <2>1. UNCHANGED service
    BY ServiceStays
  <2>2. CASE service = "discovery"
    <3>1. SettingsInv /\ EditsCounted /\ [Discovery!Next]_(Discovery!vars)
      BY <2>2, DiscoveryOnly
    <3>. QED
      BY <3>1, SettingsStep, EditsStep
  <2>. QED
    BY <2>1, <2>2
<1>3. Inv /\ [Next]_vars => [service = "discovery" => Discovery!KeepsUserSettings]_vars
  BY DiscoveryOnly, SettingsStay
<1>. QED
  BY <1>1, <1>2, <1>3, PTL DEF Spec, UserSettingsKept

-----------------------------------------------------------------------------
(* CustomMetrics *)

\* Where it is the behaviour of Custom, the composition starts and steps as the part does.
LEMMA CustomOnly ==
  /\ Init /\ service = "custom" => Custom!Init
  /\ service = "custom" /\ [Next]_vars => [Custom!Next]_(Custom!vars)
<1>1. Init /\ service = "custom" => Custom!Init
  BY Zenon DEF Init
<1>2. ASSUME service = "custom", Next PROVE Custom!Next
  BY <1>2 DEF Next, RedisStep, MysqlStep, PostgresStep, MongoStep, EsStep, EsMetadataStep,
     EsRatesStep, EsPayloadStep, EsClientStep, ReportingStep, ProcessStep, DiscoveryStep,
     CustomStep, NginxStep
<1>3. UNCHANGED vars => UNCHANGED Custom!vars
  BY DEF vars, Custom!vars
<1>. QED
  BY <1>1, <1>2, <1>3

TakenSample == [method : Custom!Method, value : Int]

MetricRecord == [count : Nat, sum : Int, min : Int, max : Int, last : Int]

Distributions(all) == {1} \cup {i \in 1 .. Len(all) : all[i].method = "distribution"}

\* The first sample that counts is the greatest of the distributions, or the first.
LEMMA StartIs ==
  ASSUME NEW all \in Seq(TakenSample)
  PROVE  /\ Custom!StartOf(all) \in Distributions(all)
         /\ \A i \in Distributions(all) : i <= Custom!StartOf(all)
<1> DEFINE D == Distributions(all)
           top == CHOOSE x \in D : \A y \in D : x >= y
<1>1. D \in SUBSET Int /\ D # {} /\ Len(all) + 1 \in Int /\ \A i \in D : i <= Len(all) + 1
  BY DEF Distributions
<1>2. PICK m \in D : \A i \in D : i <= m
  <2>. HIDE DEF D
  <2>. QED
    BY <1>1, GreatestElement
<1>3. \A y \in D : m >= y
  <2>. HIDE DEF D
  <2>. QED
    BY <1>1, <1>2
<1>4. top \in D /\ \A y \in D : top >= y
  <2>. HIDE DEF D
  <2>. QED
    BY <1>3, Zenon
<1>5. Custom!StartOf(all) = top
  BY Zenon DEF Custom!StartOf, Custom!Max, Distributions
<1>6. \A y \in D : y <= top
  <2>. HIDE DEF D, top
  <2>. QED
    BY <1>1, <1>4
<1>. QED
  BY <1>4, <1>5, <1>6, Zenon

\* A distribution forgets the samples before it, another sample adds to them.
LEMMA StartAfter ==
  ASSUME NEW all \in Seq(TakenSample), NEW x \in TakenSample
  PROVE  /\ x.method = "distribution" \/ Len(all) = 0 =>
              Custom!StartOf(Append(all, x)) = Len(all) + 1
         /\ x.method # "distribution" =>
              Custom!StartOf(Append(all, x)) = Custom!StartOf(all)
<1> DEFINE more == Append(all, x)
           N == Len(all)
<1>1. /\ more \in Seq(TakenSample) /\ N \in Nat /\ Len(more) = N + 1
      /\ more[N + 1] = x /\ \A i \in 1 .. N : more[i] = all[i]
  OBVIOUS
<1>2. CASE x.method = "distribution" \/ N = 0
  <2>1. N + 1 \in Distributions(more) /\ \A i \in Distributions(more) : i \in Int /\ i <= N + 1
    <3>. HIDE DEF more, N
    <3>. QED
      BY <1>1, <1>2 DEF Distributions
  <2>2. /\ Custom!StartOf(more) \in Distributions(more)
        /\ \A i \in Distributions(more) : i <= Custom!StartOf(more)
    <3>. HIDE DEF more
    <3>. QED
      BY <1>1, StartIs
  <2>. HIDE DEF more, N
  <2>3. Custom!StartOf(more) = N + 1
    BY <1>1, <2>1, <2>2
  <2>4. x.method # "distribution" => Custom!StartOf(more) = Custom!StartOf(all)
    <3>1. CASE N = 0
      <4>1. Distributions(all) = {1}
        BY <3>1 DEF Distributions, N
      <4>2. Custom!StartOf(all) = 1
        BY <4>1, StartIs
      <4>. QED
        BY <2>3, <3>1, <4>2
    <3>. QED
      BY <1>2, <3>1
  <2>. QED
    BY <2>3, <2>4 DEF more, N
<1>3. CASE ~(x.method = "distribution" \/ N = 0)
  <2>1. {i \in 1 .. Len(more) : more[i].method = "distribution"}
          = {i \in 1 .. Len(all) : all[i].method = "distribution"}
    <3>1. ASSUME NEW i \in 1 .. N + 1
          PROVE  more[i].method = "distribution" <=> i \in 1 .. N /\ all[i].method = "distribution"
      <4>. HIDE DEF more
      <4>. QED
        BY <1>1, <1>3
    <3>2. 1 .. Len(more) = 1 .. N + 1 /\ 1 .. N \subseteq 1 .. N + 1
      BY <1>1
    <3>. HIDE DEF more
    <3>. QED
      BY <3>1, <3>2
  <2>2. Custom!StartOf(more) = Custom!StartOf(all)
    BY <2>1, Zenon DEF Custom!StartOf
  <2>. QED
    BY <1>3, <2>2
<1>. QED
  BY <1>2, <1>3

\* One turn of the sum.
SumSteps(start, all) ==
  [n \in 1 .. Len(all) |-> [sum \in Int |-> IF n < start THEN 0 ELSE sum + all[n].value]]

\* The sum is that of a function that adds one sample after the other.
LEMMA SumByRecursion ==
  ASSUME NEW all \in Seq(TakenSample), NEW start \in Nat \ {0}
  PROVE  \E g \in [0 .. Len(all) -> Int] :
           /\ Recursion(g, 0, Len(all), SumSteps(start, all))
           /\ Custom!SumSince(start, all) = g[Len(all)]
<1> DEFINE N == Len(all)
           step == SumSteps(start, all)
           next(f) == [n \in 0 .. N |-> IF n < start THEN 0 ELSE f[n - 1] + all[n].value]
           h == CHOOSE f : f = next(f)
<1>1. N \in Nat /\ 0 \in Int /\ step \in [1 .. N -> [Int -> Int]]
  <2>1. ASSUME NEW n \in 1 .. N, NEW sum \in Int
        PROVE  (IF n < start THEN 0 ELSE sum + all[n].value) \in Int
    <3>1. all[n] \in TakenSample
      OBVIOUS
    <3>2. all[n].value \in Int
      BY <3>1 DEF TakenSample
    <3>. QED
      BY <3>2
  <2>2. N \in Nat /\ 0 \in Int
    OBVIOUS
  <2>. QED
    BY <2>1, <2>2, Zenon DEF SumSteps
<1>2. PICK g \in [0 .. N -> Int] : Recursion(g, 0, N, step)
  <2>. HIDE DEF step, N
  <2>. QED
    BY <1>1, RecursiveFunction
<1>3. ASSUME NEW f, NEW n \in 1 .. N, f[n - 1] \in Int
      PROVE  step[n][f[n - 1]] = IF n < start THEN 0 ELSE f[n - 1] + all[n].value
  BY <1>3, Zenon DEF SumSteps
<1>4. g = next(g)
  <2>1. ASSUME NEW n \in 0 .. N PROVE g[n] = next(g)[n]
    <3>1. CASE n = 0
      <4>1. g[n] = 0
        BY <1>2, <3>1, Zenon DEF Recursion
      <4>2. n < start
        BY <3>1
      <4>. QED
        BY <4>1, <4>2, Zenon
    <3>2. CASE n # 0
      <4>1. n \in 1 .. N /\ n - 1 \in 0 .. N
        BY <1>1, <3>2
      <4>2. g[n - 1] \in Int
        BY <4>1
      <4>3. g[n] = IF n < start THEN 0 ELSE g[n - 1] + all[n].value
        BY <1>2, <1>3, <4>1, <4>2, Zenon DEF Recursion
      <4>. QED
        BY <4>3, Zenon
    <3>. QED
      BY <3>1, <3>2
  <2>2. g = [n \in 0 .. N |-> g[n]]
    BY <1>2
  <2>. QED
    BY <2>1, <2>2, Zenon
<1>5. h = next(h)
  <2>. HIDE DEF next
  <2>. QED
    BY <1>4
<1>6. Custom!SumSince(start, all) = h[N]
  BY Zenon DEF Custom!SumSince
<1>. HIDE DEF h
<1>7. Obeys(h, Int, 0, N, step)
  <2>1. h = [n \in 0 .. N |-> h[n]]
    BY <1>5, Zenon
  <2>2. h[0] = 0
    <3>1. 0 \in 0 .. N /\ 0 < start
      BY <1>1
    <3>. QED
      BY <1>5, <3>1, Zenon
  <2>3. ASSUME NEW n \in 1 .. N, h[n - 1] \in Int PROVE h[n] = step[n][h[n - 1]]
    <3>1. n \in 0 .. N
      BY <1>1
    <3>. QED
      BY <1>3, <1>5, <2>3, <3>1, Zenon
  <2>. HIDE DEF step, N
  <2>. QED
    BY <2>1, <2>2, <2>3, Zenon DEF Obeys
<1>8. h \in [0 .. N -> Int] /\ Recursion(h, 0, N, step)
  <2>. HIDE DEF step, N
  <2>. QED
    BY <1>1, <1>7, RecursiveValues
<1>. QED
  BY <1>6, <1>8, Zenon

\* A sum from behind the end is zero, and one sample more adds its value.
LEMMA SumOneMore ==
  ASSUME NEW all \in Seq(TakenSample), NEW x \in TakenSample,
         NEW start \in 1 .. Len(all) + 1
  PROVE  /\ Custom!SumSince(start, all) \in Int
         /\ start = Len(all) + 1 => Custom!SumSince(start, all) = 0
         /\ Custom!SumSince(start, Append(all, x)) = Custom!SumSince(start, all) + x.value
<1> DEFINE N == Len(all)
           more == Append(all, x)
           long == SumSteps(start, more)
           short == SumSteps(start, all)
<1>1. /\ more \in Seq(TakenSample) /\ N \in Nat /\ Len(more) = N + 1 /\ start \in Nat \ {0}
      /\ more[N + 1] = x /\ \A i \in 1 .. N : more[i] = all[i]
  OBVIOUS
<1>2. PICK h \in [0 .. N -> Int] :
        Recursion(h, 0, N, short) /\ Custom!SumSince(start, all) = h[N]
  BY <1>1, SumByRecursion, Zenon
<1>3. PICK g \in [0 .. N + 1 -> Int] :
        Recursion(g, 0, N + 1, long) /\ Custom!SumSince(start, more) = g[N + 1]
  BY <1>1, SumByRecursion, Zenon
<1>4. \A n \in 1 .. N : long[n] = short[n]
  <2>1. ASSUME NEW n \in 1 .. N
        PROVE  n \in 1 .. Len(more) /\ n \in 1 .. Len(all) /\ more[n] = all[n]
    OBVIOUS
  <2>. QED
    BY <2>1, Zenon DEF SumSteps
<1>5. g[N] = h[N]
  <2>1. N \in 0 .. N + 1 /\ N \in 0 .. N /\ N + 1 \in Nat
    BY <1>1
  <2>. HIDE DEF N, more, long, short
  <2>2. \A n \in 0 .. N : g[n] = h[n]
    BY <1>2, <1>3, <1>4, <2>1, RecursionAgrees
  <2>. QED
    BY <2>1, <2>2
<1>6. h[N] \in Int /\ x.value \in Int
  BY <1>1, <1>2 DEF TakenSample
<1>7. g[N + 1] = h[N] + x.value
  <2>1. N + 1 \in 1 .. N + 1 /\ (N + 1) - 1 = N /\ N + 1 \in 1 .. Len(more) /\ ~(N + 1 < start)
    BY <1>1
  <2>2. g[N + 1] = long[N + 1][h[N]]
    BY <1>3, <1>5, <2>1, Zenon DEF Recursion
  <2>. QED
    BY <1>1, <1>6, <2>1, <2>2, Zenon DEF SumSteps
<1>8. start = N + 1 => h[N] = 0
  <2>1. CASE N = 0
    BY <1>2, <2>1 DEF Recursion
  <2>2. CASE start = N + 1 /\ N # 0
    <3>1. N \in 1 .. N /\ N < start /\ N - 1 \in 0 .. N
      BY <1>1, <2>2
    <3>2. h[N - 1] \in Int
      BY <3>1
    <3>3. short[N][h[N - 1]] = 0
      BY <3>1, <3>2, Zenon DEF SumSteps
    <3>. QED
      BY <1>2, <3>1, <3>3, Zenon DEF Recursion
  <2>. QED
    BY <2>1, <2>2
<1>. QED
  BY <1>2, <1>3, <1>6, <1>7, <1>8

\* The least and the greatest of two.
LEMMA OfTwo ==
  ASSUME NEW a \in Int, NEW b \in Int
  PROVE  /\ Custom!Min({a, b}) \in {a, b} /\ Custom!Min({a, b}) <= a /\ Custom!Min({a, b}) <= b
         /\ Custom!Max({a, b}) \in {a, b} /\ a <= Custom!Max({a, b}) /\ b <= Custom!Max({a, b})
<1>1. /\ \E m \in {a, b} : \A y \in {a, b} : m =< y
      /\ \E m \in {a, b} : \A y \in {a, b} : m >= y
  OBVIOUS
<1>2. /\ Custom!Min({a, b}) \in {a, b} /\ \A y \in {a, b} : Custom!Min({a, b}) =< y
      /\ Custom!Max({a, b}) \in {a, b} /\ \A y \in {a, b} : Custom!Max({a, b}) >= y
  BY <1>1, Zenon DEF Custom!Min, Custom!Max
<1>. QED
  BY <1>2

\* A record of the one sample that counts tells of it.
LEMMA TellsOfOne ==
  ASSUME NEW all \in Seq(TakenSample), NEW x \in TakenSample,
         Custom!StartOf(Append(all, x)) = Len(all) + 1
  PROVE  Custom!Tells([count |-> Len(all) + 1, sum |-> x.value, min |-> x.value,
                       max |-> x.value, last |-> x.value], Append(all, x))
<1> DEFINE N == Len(all)
           more == Append(all, x)
           r == [count |-> N + 1, sum |-> x.value, min |-> x.value, max |-> x.value,
                 last |-> x.value]
<1>1. /\ more \in Seq(TakenSample) /\ N \in Nat /\ Len(more) = N + 1 /\ more[N + 1] = x
      /\ x.value \in Int
  BY DEF TakenSample
<1>2. N + 1 \in 1 .. Len(all) + 1
  BY <1>1
<1>3. Custom!SumSince(N + 1, all) = 0
      /\ Custom!SumSince(N + 1, more) = Custom!SumSince(N + 1, all) + x.value
  BY <1>2, SumOneMore
<1>4. r.count = N + 1 /\ r.sum = x.value /\ r.min = x.value /\ r.max = x.value /\ r.last = x.value
  OBVIOUS
<1>5. Custom!StartOf(more) = N + 1
  OBVIOUS
<1>. HIDE DEF r, more, N
<1>6. r.sum = Custom!SumSince(Custom!StartOf(more), more)
  BY <1>1, <1>3, <1>4, <1>5
<1>7. N + 1 \in Custom!StartOf(more) .. Len(more)
      /\ \A i \in Custom!StartOf(more) .. Len(more) : more[i] = x
  BY <1>1, <1>5
<1>8. Custom!Tells(r, more)
  <2>1. \A i \in Custom!StartOf(more) .. Len(more) :
          r.min <= more[i].value /\ more[i].value <= r.max
    BY <1>1, <1>4, <1>7
  <2>2. \E i, j \in Custom!StartOf(more) .. Len(more) :
          r.min = more[i].value /\ r.max = more[j].value
    BY <1>1, <1>4, <1>7, Zenon
  <2>3. r.count = Len(more) /\ r.last = more[Len(more)].value
    BY <1>1, <1>4
  <2>. QED
    BY <1>6, <2>1, <2>2, <2>3, Zenon DEF Custom!Tells
<1>. QED
  BY <1>8 DEF r, more, N

\* A record that told of the samples so far tells of one more.
LEMMA TellsOfMore ==
  ASSUME NEW all \in Seq(TakenSample), NEW x \in TakenSample, NEW r \in MetricRecord,
         Custom!Tells(r, all), all # << >>
  PROVE  /\ Custom!Tells(Custom!Aggregated(r, x.method, x.value), Append(all, x))
         /\ Custom!Aggregated(r, x.method, x.value) \in MetricRecord
<1> DEFINE N == Len(all)
           more == Append(all, x)
           s == Custom!Aggregated(r, x.method, x.value)
           start == Custom!StartOf(all)
<1>1. /\ more \in Seq(TakenSample) /\ N \in Nat /\ N # 0 /\ Len(more) = N + 1 /\ more[N + 1] = x
      /\ \A i \in 1 .. N : more[i] = all[i]
      /\ x.value \in Int
  BY DEF TakenSample
<1>2. /\ r.count \in Nat /\ r.sum \in Int /\ r.min \in Int /\ r.max \in Int
  BY DEF MetricRecord
<1>3. /\ r.count = N /\ r.sum = Custom!SumSince(start, all)
      /\ \A i \in start .. N : r.min <= all[i].value /\ all[i].value <= r.max
      /\ \E i, j \in start .. N : r.min = all[i].value /\ r.max = all[j].value
  BY DEF Custom!Tells
<1>4. CASE x.method = "distribution"
  <2>1. s = [count |-> N + 1, sum |-> x.value, min |-> x.value, max |-> x.value, last |-> x.value]
    BY <1>3, <1>4, Zenon DEF Custom!Aggregated
  <2>2. Custom!StartOf(more) = N + 1
    BY <1>4, StartAfter
  <2>3. s \in MetricRecord
    BY <1>1, <2>1 DEF MetricRecord
  <2>. QED
    BY <2>1, <2>2, <2>3, TellsOfOne
<1>5. CASE x.method # "distribution"
  <2> DEFINE least == Custom!Min({r.min, x.value})
             most == Custom!Max({r.max, x.value})
  <2>1. s = [count |-> r.count + 1, sum |-> r.sum + x.value, min |-> least, max |-> most,
             last |-> x.value]
    BY <1>5, Zenon DEF Custom!Aggregated
  <2>2. /\ s.count = N + 1 /\ s.sum = r.sum + x.value /\ s.min = least /\ s.max = most
        /\ s.last = x.value
    BY <1>3, <2>1
  <2>3. Custom!StartOf(more) = start /\ start \in 1 .. N
    <3>1. Custom!StartOf(more) = start
      BY <1>5, StartAfter
    <3>2. start \in Distributions(all)
      BY StartIs
    <3>. QED
      BY <1>1, <3>1, <3>2 DEF Distributions
  <2>4. /\ least \in {r.min, x.value} /\ least <= r.min /\ least <= x.value
        /\ most \in {r.max, x.value} /\ r.max <= most /\ x.value <= most
    BY <1>1, <1>2, OfTwo
  <2>5. s \in MetricRecord
    <3>1. least \in Int /\ most \in Int
      BY <1>1, <1>2, <2>4
    <3>. HIDE DEF least, most
    <3>. QED
      BY <1>1, <1>2, <2>1, <3>1 DEF MetricRecord
  <2>6. Custom!SumSince(start, more) = Custom!SumSince(start, all) + x.value
    <3>1. start \in 1 .. Len(all) + 1
      BY <2>3
    <3>. QED
      BY <3>1, SumOneMore
  <2>7. \A i \in start .. N : all[i].value \in Int
    <3>1. ASSUME NEW i \in start .. N PROVE all[i].value \in Int
      <4>1. i \in 1 .. N
        BY <2>3
      <4>2. all[i] \in TakenSample
        BY <4>1
      <4>. QED
        BY <4>2 DEF TakenSample
    <3>. QED
      BY <3>1
  <2>. HIDE DEF least, most, s, more, start
  <2>8. ASSUME NEW i \in start .. N + 1 PROVE s.min <= more[i].value /\ more[i].value <= s.max
    <3>1. CASE i = N + 1
      BY <1>1, <2>2, <2>4, <3>1
    <3>2. CASE i # N + 1
      <4>1. i \in start .. N /\ i \in 1 .. N
        BY <1>1, <2>3, <3>2
      <4>2. more[i] = all[i] /\ r.min <= all[i].value /\ all[i].value <= r.max
        BY <1>1, <1>3, <4>1
      <4>3. all[i].value \in Int
        BY <2>7, <4>1
      <4>. QED
        BY <1>1, <1>2, <2>2, <2>4, <4>2, <4>3
    <3>. QED
      BY <3>1, <3>2
  <2>9. \E i, j \in start .. N + 1 : s.min = more[i].value /\ s.max = more[j].value
    <3>1. PICK i \in start .. N, j \in start .. N :
            r.min = all[i].value /\ r.max = all[j].value
      BY <1>3
    <3>2. /\ i \in start .. N + 1 /\ j \in start .. N + 1 /\ N + 1 \in start .. N + 1
          /\ more[i] = all[i] /\ more[j] = all[j] /\ more[N + 1] = x
      BY <1>1, <2>3
    <3>3. PICK a \in start .. N + 1 : s.min = more[a].value
      BY <2>2, <2>4, <3>1, <3>2
    <3>4. PICK b \in start .. N + 1 : s.max = more[b].value
      BY <2>2, <2>4, <3>1, <3>2
    <3>. QED
      BY <3>3, <3>4
  <2>10. Custom!Tells(s, more)
    BY <1>1, <1>3, <2>2, <2>3, <2>6, <2>8, <2>9 DEF Custom!Tells
  <2>. QED
    BY <2>5, <2>10 DEF s, more
<1>. QED
  BY <1>4, <1>5

\* The module's cardinality is that of the library.
LEMMA CustomCounts == \A S : Custom!Cardinality(S) = Cardinality(S)
  BY DEF Custom!Cardinality, Cardinality

\* Every sample that was taken stands in one place, and the records tell of theirs.
SamplesInv ==
  /\ state \in Maps(Metric, MetricRecord)
  /\ h1 \in [DOMAIN state -> Seq(TakenSample) \ {<< >>}]
  /\ scrape \in {"connected", "offline", "suspended"}
  /\ sent \in [sent : Nat, queued : Nat, dropped : Nat]
  /\ h2 \in [taken : Nat, requests : Nat, flushes : Nat]
  /\ IsFiniteSet(Custom!CountedIn(state))
  /\ Custom!EverySampleOnce
  /\ Custom!RecordsTellSamples

\* No records count for nothing.
LEMMA NothingCounted ==
  /\ Custom!Nothing \in Maps(Metric, MetricRecord)
  /\ Custom!Nothing \in [DOMAIN Custom!Nothing -> Seq(TakenSample) \ {<< >>}]
  /\ DOMAIN Custom!Nothing = {}
  /\ IsFiniteSet(Custom!CountedIn(Custom!Nothing))
  /\ Custom!CountOf(Custom!Nothing) = 0
<1>1. DOMAIN Custom!Nothing = {} /\ Custom!Nothing = [m \in {} |-> Custom!Nothing[m]]
  BY DEF Custom!Nothing
<1>2. \A V : Custom!Nothing \in [{} -> V]
  BY <1>1
<1>3. Custom!CountedIn(Custom!Nothing) = {}
  BY <1>1, Zenon DEF Custom!CountedIn
<1>4. Custom!Nothing \in Maps(Metric, MetricRecord)
  BY <1>2 DEF Maps
<1>. QED
  BY <1>1, <1>2, <1>3, <1>4, FS_EmptySet, CustomCounts, Zenon DEF Custom!CountOf

\* Nothing is there when the agent starts.
LEMMA SamplesInit == Custom!Init => SamplesInv
<1>. SUFFICES ASSUME Custom!Init PROVE SamplesInv
  OBVIOUS
<1>1. /\ state = Custom!Nothing /\ h1 = Custom!Nothing /\ scrape = "offline"
      /\ sent = [sent |-> 0, queued |-> 0, dropped |-> 0]
      /\ h2 = [taken |-> 0, requests |-> 0, flushes |-> 0]
  BY DEF Custom!Init
<1>2. /\ sent \in [sent : Nat, queued : Nat, dropped : Nat]
      /\ h2 \in [taken : Nat, requests : Nat, flushes : Nat]
      /\ sent.sent + sent.queued + sent.dropped + 0 = h2.taken
  BY <1>1
<1>3. Custom!EverySampleOnce
  BY <1>1, <1>2, NothingCounted DEF Custom!EverySampleOnce
<1>4. Custom!RecordsTellSamples
  BY <1>1, NothingCounted, Zenon DEF Custom!RecordsTellSamples
<1>. QED
  BY <1>1, <1>2, <1>3, <1>4, NothingCounted, Zenon DEF SamplesInv

\* A record with one sample more counts for one more.
LEMMA CountedOneMore ==
  ASSUME NEW records \in Maps(Metric, MetricRecord), NEW metric, NEW record,
         record.count = (IF metric \in DOMAIN records THEN records[metric].count ELSE 0) + 1,
         IsFiniteSet(Custom!CountedIn(records))
  PROVE  /\ IsFiniteSet(Custom!CountedIn(Custom!Put(records, metric, record)))
         /\ Custom!CountOf(records) \in Nat
         /\ Custom!CountOf(Custom!Put(records, metric, record)) = Custom!CountOf(records) + 1
<1> DEFINE c == IF metric \in DOMAIN records THEN records[metric].count ELSE 0
           after == Custom!Put(records, metric, record)
           old == Custom!CountedIn(records)
           new == Custom!CountedIn(after)
<1>1. c \in Nat /\ record.count = c + 1
      /\ \A m \in DOMAIN records : records[m].count \in Nat
  BY DEF Maps, MetricRecord
<1>2. /\ DOMAIN after = DOMAIN records \cup {metric} /\ after[metric] = record
      /\ \A m \in DOMAIN records : m # metric => after[m] = records[m]
  BY DEF Custom!Put
<1>3. ASSUME NEW e
      PROVE  /\ e \in old <=> \E m \in DOMAIN records : \E k \in 1 .. records[m].count : e = <<m, k>>
             /\ e \in new <=> \E m \in DOMAIN after : \E k \in 1 .. after[m].count : e = <<m, k>>
  BY DEF Custom!CountedIn
<1>4. <<metric, c + 1>> \notin old
  <2>1. ASSUME NEW m \in DOMAIN records,
               \E k \in 1 .. records[m].count : <<metric, c + 1>> = <<m, k>>
        PROVE  FALSE
    <3>k. PICK k \in 1 .. records[m].count : <<metric, c + 1>> = <<m, k>>
      BY <2>1
    <3>1. m = metric /\ k = c + 1 /\ c = records[metric].count
      BY <3>k
    <3>. QED
      BY <1>1, <3>1
  <2>. QED
    BY <1>3, <2>1
<1>5. new = old \cup {<<metric, c + 1>>}
  <2>1. ASSUME NEW e \in new PROVE e \in old \cup {<<metric, c + 1>>}
    <3>1. PICK m \in DOMAIN after : \E k \in 1 .. after[m].count : e = <<m, k>>
      BY <1>3, <2>1
    <3>k. PICK k \in 1 .. after[m].count : e = <<m, k>>
      BY <3>1
    <3>2. CASE m # metric
      <4>1. m \in DOMAIN records /\ after[m] = records[m]
        BY <1>2, <3>1, <3>2
      <4>. QED
        BY <1>3, <3>k, <4>1
    <3>3. CASE m = metric
      <4>1. k \in 1 .. c + 1
        BY <1>1, <1>2, <3>k, <3>3
      <4>2. CASE k = c + 1
        BY <3>k, <3>3, <4>2
      <4>3. CASE k # c + 1
        <5>1. k \in 1 .. c
          BY <1>1, <4>1, <4>3
        <5>2. metric \in DOMAIN records /\ c = records[metric].count
          BY <5>1
        <5>. QED
          BY <1>3, <3>k, <3>3, <5>1, <5>2
      <4>. QED
        BY <4>2, <4>3
    <3>. QED
      BY <3>2, <3>3
  <2>2. ASSUME NEW e \in old PROVE e \in new
    <3>1. PICK m \in DOMAIN records : \E k \in 1 .. records[m].count : e = <<m, k>>
      BY <1>3, <2>2
    <3>k. PICK k \in 1 .. records[m].count : e = <<m, k>>
      BY <3>1
    <3>2. m \in DOMAIN after /\ k \in 1 .. after[m].count
      <4>1. CASE m = metric
        <5>1. c = records[m].count
          BY <4>1
        <5>. QED
          BY <1>1, <1>2, <3>k, <4>1, <5>1
      <4>2. CASE m # metric
        BY <1>2, <3>k, <4>2
      <4>. QED
        BY <4>1, <4>2
    <3>. QED
      BY <1>3, <3>k, <3>2
  <2>3. <<metric, c + 1>> \in new
    <3>1. metric \in DOMAIN after /\ c + 1 \in 1 .. after[metric].count
      BY <1>1, <1>2
    <3>. QED
      BY <1>3, <3>1
  <2>. QED
    BY <2>1, <2>2, <2>3
<1>. HIDE DEF c, old, new, after
<1>6. /\ IsFiniteSet(new) /\ Cardinality(new) = Cardinality(old) + 1
      /\ Cardinality(old) \in Nat
  BY <1>4, <1>5, FS_AddElement, FS_CardinalityType DEF old
<1>. QED
  BY <1>6, CustomCounts, Zenon DEF old, new, after, Custom!CountOf

\* One more in the last of four summands is one more in the sum.
LEMMA OneMoreSummand ==
  ASSUME NEW a \in Nat, NEW b \in Nat, NEW c \in Nat, NEW n \in Nat, NEW t \in Nat,
         NEW m, NEW s, a + b + c + n = t, m = n + 1, s = t + 1
  PROVE  a + b + c + m = s
OBVIOUS

\* A sample goes into the record of its metric, or into none.
LEMMA SampleTaken ==
  ASSUME SamplesInv, Custom!CustomMetricsAssumption,
         NEW metric \in Metric, NEW method \in Custom!Method, NEW value \in Sample,
         Custom!TakeSample(metric, method, value)
  PROVE  SamplesInv'
<1> DEFINE x == [method |-> method, value |-> Custom!Value(method, value)]
           there == metric \in DOMAIN state
           record == IF there THEN Custom!Aggregated(state[metric], method, Custom!Value(method, value))
                     ELSE Custom!FirstRecord(Custom!Value(method, value))
           before == IF metric \in DOMAIN h1 THEN h1[metric] ELSE << >>
           all == Append(before, x)
<1>0. /\ state \in Maps(Metric, MetricRecord) /\ h1 \in [DOMAIN state -> Seq(TakenSample) \ {<< >>}]
      /\ sent \in [sent : Nat, queued : Nat, dropped : Nat]
      /\ h2 \in [taken : Nat, requests : Nat, flushes : Nat]
      /\ scrape \in {"connected", "offline", "suspended"}
      /\ IsFiniteSet(Custom!CountedIn(state))
      /\ \A m \in DOMAIN state : state[m] \in MetricRecord /\ Custom!Tells(state[m], h1[m])
  BY DEF SamplesInv, Custom!RecordsTellSamples, Maps
<1>1. /\ scrape' = scrape /\ sent' = sent
      /\ \/ /\ state' = state /\ h1' = h1
            /\ h2' = [taken |-> h2.taken, requests |-> h2.requests + 1, flushes |-> h2.flushes]
         \/ /\ state' = Custom!Put(state, metric, record) /\ h1' = Custom!Put(h1, metric, all)
            /\ h2' = [taken |-> h2.taken + 1, requests |-> h2.requests + 1, flushes |-> h2.flushes]
  <2> DEFINE taken == Custom!Cardinality(DOMAIN state) < MaxMetrics /\ Custom!Value(method, value) # 0
  <2>1. /\ scrape' = scrape /\ sent' = sent
        /\ state' = IF taken THEN Custom!Put(state, metric, record) ELSE state
        /\ h1' = IF taken THEN Custom!Put(h1, metric, all) ELSE h1
        /\ h2' = [taken |-> h2.taken + IF taken THEN 1 ELSE 0,
                  requests |-> h2.requests + 1, flushes |-> h2.flushes]
    BY Zenon DEF Custom!TakeSample
  <2>2. h2.taken \in Nat
    BY <1>0
  <2>. HIDE DEF taken, record, all
  <2>. QED
    BY <2>1, <2>2
<1>2. CASE /\ state' = state /\ h1' = h1
           /\ h2' = [taken |-> h2.taken, requests |-> h2.requests + 1, flushes |-> h2.flushes]
  <2>1. h2' \in [taken : Nat, requests : Nat, flushes : Nat] /\ h2'.taken = h2.taken
    BY <1>0, <1>2
  <2>2. Custom!EverySampleOnce'
    BY <1>1, <1>2, <2>1 DEF SamplesInv, Custom!EverySampleOnce
  <2>3. Custom!RecordsTellSamples'
    BY <1>2 DEF SamplesInv, Custom!RecordsTellSamples
  <2>. QED
    BY <1>0, <1>1, <1>2, <2>1, <2>2, <2>3 DEF SamplesInv
<1>3. CASE /\ state' = Custom!Put(state, metric, record) /\ h1' = Custom!Put(h1, metric, all)
           /\ h2' = [taken |-> h2.taken + 1, requests |-> h2.requests + 1, flushes |-> h2.flushes]
  <2>1. x \in TakenSample /\ x.method = method /\ x.value = Custom!Value(method, value)
    <3>1. value \in Int
      BY DEF Custom!CustomMetricsAssumption
    <3>2. Custom!Value(method, value) \in Int
      BY <3>1 DEF Custom!Value
    <3>. QED
      BY <3>2 DEF TakenSample
  <2>2. DOMAIN h1 = DOMAIN state /\ \A m \in DOMAIN h1 : h1[m] \in Seq(TakenSample) \ {<< >>}
    BY <1>0
  <2>3. before \in Seq(TakenSample) /\ (there => before = h1[metric] /\ before # << >>)
        /\ (~there => before = << >>)
    BY <2>2
  <2>4. all \in Seq(TakenSample) \ {<< >>} /\ Len(before) \in Nat
    <3>1. ASSUME NEW s \in Seq(TakenSample), NEW y \in TakenSample
          PROVE Append(s, y) \in Seq(TakenSample) \ {<< >>} /\ Len(s) \in Nat
      OBVIOUS
    <3>. HIDE DEF x, before
    <3>. QED
      BY <2>1, <2>3, <3>1
  <2>5. /\ record \in MetricRecord /\ Custom!Tells(record, all)
        /\ record.count = (IF there THEN state[metric].count ELSE 0) + 1
    <3>1. CASE there
      <4>1. state[metric] \in MetricRecord /\ Custom!Tells(state[metric], before)
        BY <1>0, <2>3, <3>1
      <4>2. record = Custom!Aggregated(state[metric], x.method, x.value)
        BY <2>1, <3>1
      <4>3. record \in MetricRecord /\ Custom!Tells(record, all)
        <5>. HIDE DEF x, before, record
        <5>. QED
          BY <2>1, <2>3, <3>1, <4>1, <4>2, TellsOfMore
      <4>4. record.count = state[metric].count + 1
        BY <3>1 DEF Custom!Aggregated
      <4>. QED
        BY <3>1, <4>3, <4>4
    <3>2. CASE ~there
      <4>1. record = [count |-> 1, sum |-> x.value, min |-> x.value, max |-> x.value,
                      last |-> x.value]
        BY <2>1, <3>2 DEF Custom!FirstRecord
      <4>2. before = << >> /\ Len(before) = 0
        BY <2>3, <3>2
      <4>3. Custom!StartOf(all) = Len(before) + 1
        <5>. HIDE DEF x, before
        <5>. QED
          BY <2>1, <2>3, <4>2, StartAfter
      <4>4. x.value \in Int
        BY <2>1 DEF TakenSample
      <4>5. record \in MetricRecord /\ record.count = 0 + 1
        BY <4>1, <4>4 DEF MetricRecord
      <4>6. Custom!Tells([count |-> Len(before) + 1, sum |-> x.value, min |-> x.value,
                          max |-> x.value, last |-> x.value], all)
        <5>. HIDE DEF x, before
        <5>. QED
          BY <2>1, <2>3, <4>3, TellsOfOne
      <4>7. Len(before) + 1 = 1
        BY <4>2
      <4>. HIDE DEF x, before, record, all
      <4>. QED
        BY <3>2, <4>1, <4>5, <4>6, <4>7
    <3>. QED
      BY <3>1, <3>2
  <2>. HIDE DEF record, all, before, x
  <2>6. /\ DOMAIN state' = DOMAIN state \cup {metric} /\ state'[metric] = record
        /\ \A m \in DOMAIN state : m # metric => state'[m] = state[m]
        /\ state' = [m \in DOMAIN state \cup {metric} |-> state'[m]]
    BY <1>3 DEF Custom!Put
  <2>7. /\ DOMAIN h1' = DOMAIN state \cup {metric} /\ h1'[metric] = all
        /\ \A m \in DOMAIN state : m # metric => h1'[m] = h1[m]
        /\ h1' = [m \in DOMAIN state \cup {metric} |-> h1'[m]]
    BY <1>3, <2>2 DEF Custom!Put
  <2>8. state' \in Maps(Metric, MetricRecord)
    <3>1. \A m \in DOMAIN state \cup {metric} : state'[m] \in MetricRecord
      BY <1>0, <2>5, <2>6
    <3>2. DOMAIN state \cup {metric} \in SUBSET Metric
      BY <1>0 DEF Maps
    <3>3. state' \in [DOMAIN state \cup {metric} -> MetricRecord]
      BY <2>6, <3>1
    <3>. QED
      BY <3>2, <3>3 DEF Maps
  <2>9. h1' \in [DOMAIN state' -> Seq(TakenSample) \ {<< >>}]
    <3>1. \A m \in DOMAIN state \cup {metric} : h1'[m] \in Seq(TakenSample) \ {<< >>}
      BY <2>2, <2>4, <2>7
    <3>. QED
      BY <2>6, <2>7, <3>1
  <2>10. h2' \in [taken : Nat, requests : Nat, flushes : Nat] /\ h2'.taken = h2.taken + 1
    BY <1>0, <1>3
  <2>11. /\ IsFiniteSet(Custom!CountedIn(state')) /\ Custom!CountOf(state) \in Nat
         /\ Custom!CountOf(state') = Custom!CountOf(state) + 1
    BY <1>0, <1>3, <2>5, CountedOneMore
  <2>12. Custom!EverySampleOnce'
    <3>1. sent.sent + sent.queued + sent.dropped + Custom!CountOf(state) = h2.taken
      BY DEF SamplesInv, Custom!EverySampleOnce
    <3>2. sent.sent \in Nat /\ sent.queued \in Nat /\ sent.dropped \in Nat /\ h2.taken \in Nat
      BY <1>0
    <3>3. sent.sent + sent.queued + sent.dropped + Custom!CountOf(state') = h2'.taken
      BY <2>10, <2>11, <3>1, <3>2, OneMoreSummand
    <3>. QED
      BY <1>1, <3>3 DEF Custom!EverySampleOnce
  <2>13. Custom!RecordsTellSamples'
    <3>1. \A m \in DOMAIN state' : Custom!Tells(state'[m], h1'[m])
      BY <1>0, <2>5, <2>6, <2>7
    <3>. QED
      BY <3>1 DEF Custom!RecordsTellSamples
  <2>. QED
    BY <1>0, <1>1, <2>8, <2>9, <2>10, <2>11, <2>12, <2>13 DEF SamplesInv
<1>. QED
  BY <1>1, <1>2, <1>3

\* The timer moves all that is counted into one of the payloads.
LEMMA SamplesFlushed ==
  ASSUME SamplesInv, Custom!Flush
  PROVE  SamplesInv'
<1> DEFINE n == Custom!CountOf(state)
<1>0. /\ sent \in [sent : Nat, queued : Nat, dropped : Nat]
      /\ h2 \in [taken : Nat, requests : Nat, flushes : Nat]
      /\ scrape \in {"connected", "offline", "suspended"}
      /\ IsFiniteSet(Custom!CountedIn(state))
      /\ sent.sent + sent.queued + sent.dropped + n = h2.taken
  BY DEF SamplesInv, Custom!EverySampleOnce
<1>1. n \in Nat
  BY <1>0, FS_CardinalityType, CustomCounts, Zenon DEF Custom!CountOf
<1>2. /\ state' = Custom!Nothing /\ h1' = Custom!Nothing /\ scrape' = scrape
      /\ h2' = [h2 EXCEPT !.flushes = @ + 1]
      /\ \E route \in {"sent", "queued", "dropped"} : sent' = [sent EXCEPT ![route] = @ + n]
  <2>1. CASE scrape = "suspended"
    BY <2>1 DEF Custom!Flush, Custom!Cleared
  <2>2. CASE scrape = "connected"
    BY <2>2 DEF Custom!Flush, Custom!Cleared
  <2>3. CASE scrape = "offline"
    BY <2>3 DEF Custom!Flush, Custom!Cleared
  <2>. QED
    BY <1>0, <2>1, <2>2, <2>3
<1>. HIDE DEF n
<1>3. /\ sent' \in [sent : Nat, queued : Nat, dropped : Nat]
      /\ sent'.sent + sent'.queued + sent'.dropped = sent.sent + sent.queued + sent.dropped + n
  BY <1>0, <1>1, <1>2
<1>4. h2' \in [taken : Nat, requests : Nat, flushes : Nat] /\ h2'.taken = h2.taken
  BY <1>0, <1>2
<1>5. Custom!EverySampleOnce'
  <2>1. sent'.sent + sent'.queued + sent'.dropped + 0 = h2'.taken
    BY <1>0, <1>1, <1>3, <1>4
  <2>. QED
    BY <1>2, <2>1, NothingCounted DEF Custom!EverySampleOnce
<1>6. Custom!RecordsTellSamples'
  BY <1>2, NothingCounted, Zenon DEF Custom!RecordsTellSamples
<1>. QED
  BY <1>0, <1>2, <1>3, <1>4, <1>5, <1>6, NothingCounted DEF SamplesInv

\* Neither samples nor ticks, whatever the connection, lose a sample or count one twice.
LEMMA SamplesStep ==
  ASSUME SamplesInv, [Custom!Next]_(Custom!vars), Custom!CustomMetricsAssumption
  PROVE  SamplesInv'
<1>1. ASSUME NEW metric \in Metric, NEW method \in Custom!Method, NEW value \in Sample,
             Custom!TakeSample(metric, method, value)
      PROVE  SamplesInv'
  BY <1>1, SampleTaken
<1>2. CASE Custom!Flush
  BY <1>2, SamplesFlushed
<1>3. CASE Custom!SocketChanges \/ UNCHANGED Custom!vars
  <2>1. UNCHANGED <<state, h1, sent, h2>> /\ scrape' \in {"connected", "offline", "suspended"}
    BY <1>3 DEF Custom!SocketChanges, Custom!vars, SamplesInv
  <2>. QED
    BY <2>1 DEF SamplesInv, Custom!EverySampleOnce, Custom!RecordsTellSamples
<1>. QED
  BY <1>1, <1>2, <1>3 DEF Custom!Next

\* A sample that was taken is counted in one payload or waits in one record, and a record
\* tells of the samples of its metric.
THEOREM SamplesCountedOnce == Spec => []EverySampleOnce
<1> DEFINE Inv == service = "custom" => SamplesInv
<1>1. Init => Inv
  BY CustomOnly, SamplesInit
<1>2. Inv /\ [Next]_vars => Inv'
  <2>. SUFFICES ASSUME Inv, [Next]_vars PROVE Inv'
    OBVIOUS
  <2>1. UNCHANGED service
    BY ServiceStays
  <2>2. CASE service = "custom"
    <3>1. SamplesInv /\ [Custom!Next]_(Custom!vars)
      BY <2>2, CustomOnly
    <3>. QED
      BY <3>1, SamplesStep, AgentServicesAssumption
  <2>. QED
    BY <2>1, <2>2
<1>3. Inv => EverySampleOnce
  BY DEF SamplesInv, EverySampleOnce
<1>. QED
  BY <1>1, <1>2, <1>3, PTL DEF Spec
=============================================================================
