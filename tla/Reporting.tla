----------------------------- MODULE Reporting ------------------------------
(***************************************************************************)
(* collectMetrics of app/index.js: once a minute every monitored           *)
(* integration is asked for its figures; the collector's answer is sent,   *)
(* or the first collector that was written for the service is tried in its *)
(* place (app/integrations/mongo.js, postgresql.js, mysql.js, redis.js).   *)
(* Elasticsearch and Docker have one collector only.                       *)
(*                                                                         *)
(* Nobody waits for a collection: the next minute starts another one, and  *)
(* their steps interleave.  Integrations share nothing, so there is one,   *)
(* of any service.  A figure is abstracted to whether it was read.         *)
(***************************************************************************)
EXTENDS Integers, Sequences, SequencesExt, FiniteSets

CONSTANTS
  Database,     \* databases an integration may list
  MaxBatches,   \* bound: follow-ups of an Elasticsearch payload
  MaxMinutes    \* bound: the clock

ReportingAssumption == MaxBatches \in Nat /\ MaxMinutes \in Nat

Sql == {"postgresql", "mysql"}

Monitored == Sql \cup {"mongodb", "redis", "elasticsearch", "docker"}

VARIABLES
  minute,        \* the timer
  integration,   \* its entry of integration.json
  collections,   \* the collections under way, by the minute they began in
  reports        \* what was given to emitWhenConnected, in this order

vars == <<minute, integration, collections, reports>>

Integration ==
  {i \in [service : Monitored, password : BOOLEAN, databases : {<< >>} \cup {<<d>> : d \in Database}
                                                             \cup {<<d, e>> : d, e \in Database}] :
     /\ i.service \notin Sql => i.databases = << >>
     /\ i.service # "redis" => ~i.password
     /\ \A k, l \in DOMAIN i.databases : i.databases[k] = i.databases[l] => k = l}

Report(kind, m, content) == [kind |-> kind, minute |-> m, content |-> content]

Stage(m) == collections[m].stage

At(m, stage) == m \in DOMAIN collections /\ Stage(m) = stage

Emit(payloads) == reports' = reports \o payloads

Silent == UNCHANGED reports

Goes(m, collection) == collections' = [collections EXCEPT ![m] = collection]

Ends(m) == collections' = [n \in DOMAIN collections \ {m} |-> collections[n]]

-----------------------------------------------------------------------------
(* The collectors *)

Minute ==
  /\ minute < MaxMinutes
  /\ minute' = minute + 1
  /\ LET begins == [stage |-> IF integration.service = "docker" THEN "docker" ELSE "collect"]
     IN  collections' = [m \in DOMAIN collections \cup {minute'} |->
                           IF m = minute' THEN begins ELSE collections[m]]
  /\ UNCHANGED <<integration, reports>>

\* The basic report, and the advanced one if it is enabled; Elasticsearch has only the advanced one and
\* its follow-ups.
Collected(m) ==
  /\ At(m, "collect")
  /\ IF integration.service = "elasticsearch"
     THEN \E batches \in 0 .. MaxBatches :
            Emit([p \in 1 .. 1 + batches |-> Report("advanced", m, p)])
     ELSE \/ Emit(<<Report("basic", m, [by |-> "collector"])>>)
          \/ Emit(<<Report("basic", m, [by |-> "collector"]), Report("advanced", m, 1)>>)

\* Mutation: no return after the reports.
SucceedsAndFallsBack(m) ==
  /\ Collected(m)
  /\ Goes(m, [stage |-> "fall back"])
  /\ UNCHANGED <<minute, integration>>

\* A collector calls back without an error.
Succeeds(m) ==
  /\ Collected(m)
  /\ Ends(m)
  /\ UNCHANGED <<minute, integration>>

\* A collector calls back with an error.
Fails(m) ==
  /\ At(m, "collect")
  /\ Goes(m, [stage |-> "fall back"])
  /\ Silent
  /\ UNCHANGED <<minute, integration>>

\* Elasticsearch has no other collector, those of SQL servers need a list of databases.
NoFallback(m) ==
  /\ At(m, "fall back")
  /\ \/ integration.service = "elasticsearch"
     \/ integration.service \in Sql /\ integration.databases = << >>
  /\ Ends(m)
  /\ Silent
  /\ UNCHANGED <<minute, integration>>

\* mongosh or else mongo.  An exit code or something on stderr makes the callback run
\* once with null and once more with what stdout says, which is not reported if it is
\* not a status; without any shell there is no callback at all.
FallBackToMongo(m) ==
  /\ At(m, "fall back")
  /\ integration.service = "mongodb"
  /\ \/ Silent
     \/ Emit(<<Report("basic", m, [by |-> "fallback"])>>)
  /\ Ends(m)
  /\ UNCHANGED <<minute, integration>>

\* Anything on stderr is a failure, and redis-cli warns there about a password given
\* with -a.
FallBackToRedis(m) ==
  /\ At(m, "fall back")
  /\ integration.service = "redis"
  /\ \/ Silent
     \/ ~integration.password /\ Emit(<<Report("basic", m, [by |-> "fallback"])>>)
  /\ Ends(m)
  /\ UNCHANGED <<minute, integration>>

\* The figures of the server, over a connection to the first database, or none.
FallBackToSql(m) ==
  /\ At(m, "fall back")
  /\ integration.service \in Sql
  /\ integration.databases # << >>
  /\ \E global \in BOOLEAN :
       Goes(m, [stage |-> "databases", left |-> integration.databases, global |-> global,
                read |-> << >>, statements |-> << >>])
  /\ Silent
  /\ UNCHANGED <<minute, integration>>

\* Mutation: a figure that cannot be read ends the loop and nothing more.
ReadAlsoInPart(read, database, whole) == Append(read, [database |-> database, whole |-> whole])

\* A database is listed if every figure of it was read.
Listed(read, database, whole) ==
  IF whole THEN Append(read, [database |-> database, whole |-> whole]) ELSE read

\* One database after the other, each over its own connection.  The statements of a
\* PostgreSQL server are taken from the first database where their view can be read.
ReadDatabase(m) ==
  /\ At(m, "databases")
  /\ collections[m].left # << >>
  /\ \E whole, view \in BOOLEAN :
       LET d == Head(collections[m].left)
           wanted == integration.service = "postgresql" /\ collections[m].statements = << >>
       IN  Goes(m, [collections[m] EXCEPT !.left = Tail(@), !.read = Listed(@, d, whole),
                                          !.statements = IF wanted /\ view THEN <<d>> ELSE @])
  /\ Silent
  /\ UNCHANGED <<minute, integration>>

\* Whatever could be read, the collector reports.
SqlReport(m) ==
  /\ At(m, "databases")
  /\ collections[m].left = << >>
  /\ Emit(<<Report("basic", m, [by |-> "fallback", global |-> collections[m].global,
                               read |-> collections[m].read, statements |-> collections[m].statements])>>)
  /\ Ends(m)
  /\ UNCHANGED <<minute, integration>>

\* The first Docker entry only.  Info, images, volumes and containers, in this order;
\* any error ends it.
Docker(m) ==
  /\ At(m, "docker")
  /\ \/ Silent
     \/ Emit(<<Report("docker", m, [by |-> "docker"])>>)
  /\ Ends(m)
  /\ UNCHANGED <<minute, integration>>

Init ==
  /\ minute = 0
  /\ integration \in Integration
  /\ collections = << >>
  /\ reports = << >>

Next ==
  \/ Minute
  \/ \E m \in DOMAIN collections :
       \/ Succeeds(m) \/ Fails(m) \/ NoFallback(m)
       \/ FallBackToMongo(m) \/ FallBackToRedis(m) \/ FallBackToSql(m)
       \/ ReadDatabase(m) \/ SqlReport(m)
       \/ Docker(m)

Spec == Init /\ [][Next]_vars

-----------------------------------------------------------------------------
(* Properties *)

\* A collection is in one of its steps, and reports name minutes that have come.
TypeOK ==
  /\ minute \in 0 .. MaxMinutes
  /\ integration \in Integration
  /\ DOMAIN collections \subseteq 1 .. minute
  /\ \A i \in DOMAIN reports : reports[i].minute \in 1 .. minute

\* Where a minute's reports of a kind are.
Reported(m, kind) == {i \in DOMAIN reports : reports[i].minute = m /\ reports[i].kind = kind}

\* At most one of them.
Once(places) == \A i, j \in places : i = j

\* The k-th of them is the k-th part of a payload.
PartsInOrder(places) ==
  \A i \in places : reports[i].content = Cardinality({j \in places : j <= i})

\* The fallback of a SQL server lists a database only if all its figures were read, and
\* none twice.
ListsWhole(content) ==
  /\ \A i \in DOMAIN content.read : content.read[i].whole
  /\ \A i, j \in DOMAIN content.read :
       content.read[i].database = content.read[j].database => i = j

\* However the collections of different minutes overlap, each reports once: by the
\* collector or by the one that stands in for it, never by both, and the follow-ups of a
\* payload come after it in their order.  The fallback of a SQL server is sure to report,
\* and only what it has read.
OneReportPerCollection ==
  \A m \in 1 .. minute :
    LET basics == Reported(m, "basic")
        advanced == Reported(m, "advanced")
    IN  /\ Once(basics)
        /\ PartsInOrder(advanced)
        /\ advanced # {} => \A i \in basics : reports[i].content.by = "collector"
        /\ m \in DOMAIN collections => \A i \in DOMAIN reports : reports[i].minute # m
        /\ (integration.databases # << >> /\ m \notin DOMAIN collections) =>
             \E i \in basics :
               reports[i].content.by # "collector" => ListsWhole(reports[i].content)
=============================================================================
