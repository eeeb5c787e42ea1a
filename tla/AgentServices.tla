--------------------------- MODULE AgentServices ----------------------------
(***************************************************************************)
(* The parts of the agent that share nothing with one another: the         *)
(* collectors of Integrations, the history of processes, discovery, the    *)
(* custom metrics and the nginx log.  Each has a module; this one checks   *)
(* them together.  A behaviour is that of one of them, chosen at the       *)
(* start: an interleaving of two would show nothing that each of them does *)
(* not show, so they all use the same variables in their turn.             *)
(***************************************************************************)
EXTENDS Integrations

CONSTANTS
  (* what the watched programs hold, and the limits the code sets *)
  Service, RestartThreshold, Window, Retained, MaxProcessEntries,  \* ProcessHistory
  CanAutoEnable, LogFile,                                          \* Discovery
  Metric, Sample, Percent, MaxMetrics,                             \* CustomMetrics
  MaxBuffer,                                                       \* NginxAgent
  (* bounds *)
  MaxStarts, MaxEdits, MaxKills, MaxSamples, MaxFlushes, MaxLines, MaxChecks, MaxChanges

VARIABLE
  service   \* whose behaviour it is

vars == <<service, now, server, state, scrape, sent, h1, h2, h3, h4>>

Unused == "unused"

-----------------------------------------------------------------------------
(* The other parts *)

Discovery == INSTANCE Discovery WITH
  hostFiles <- state, discScan <- scrape, discFaults <- h1, discSwitch <- h2

Processes == INSTANCE ProcessHistory WITH
  hostProcess <- server, procHistory <- state, procScan <- scrape, procWarned <- sent,
  procKills <- h1, procCrowds <- h2

Custom == INSTANCE CustomMetrics WITH
  customMetrics <- state, socket <- scrape, payloads <- sent, samples <- h1, received <- h2

Nginx == INSTANCE NginxAgent WITH
  nginxLog <- h1, nginxBuffer <- state, nginxSent <- sent, nginxServer <- server,
  nginxChecks <- scrape, nginxStatus <- h2

ASSUME AgentServicesAssumption ==
  /\ Processes!ProcessHistoryAssumption /\ Discovery!DiscoveryAssumption
  /\ Custom!CustomMetricsAssumption /\ Nginx!NginxAssumption

-----------------------------------------------------------------------------
(* Their behaviours *)

Init ==
  \/ /\ service = "redis" /\ Redis!Init
     /\ h3 = Unused /\ h4 = Unused
  \/ /\ service = "mysql" /\ Mysql!Init
     /\ h4 = Unused
  \/ /\ service = "postgresql" /\ Postgres!Init
     /\ h4 = Unused
  \/ /\ service = "mongodb" /\ Mongo!Init
     /\ h3 = Unused /\ h4 = Unused
  \/ /\ service = "elasticsearch" /\ Es!Init
     /\ h4 = Unused
  \/ /\ service = "metadata" /\ EsMetadata!Init
     /\ sent = Unused /\ h2 = Unused /\ h3 = Unused /\ h4 = Unused
  \/ /\ service = "rates" /\ EsRates!Init
     /\ scrape = Unused /\ h2 = Unused /\ h3 = Unused /\ h4 = Unused
  \/ /\ service = "payload" /\ EsPayload!Init
     /\ now = Unused /\ state = Unused /\ scrape = Unused /\ h1 = Unused /\ h2 = Unused
     /\ h3 = Unused /\ h4 = Unused
  \/ /\ service = "client" /\ EsClient!Init
     /\ now = Unused /\ server = Unused /\ state = Unused /\ sent = Unused /\ h2 = Unused
     /\ h3 = Unused /\ h4 = Unused
  \/ /\ service = "reporting" /\ Reporting!Init
     /\ state = Unused /\ h1 = Unused /\ h2 = Unused /\ h3 = Unused /\ h4 = Unused
  \/ /\ service = "processes" /\ Processes!Init
     /\ h3 = Unused /\ h4 = Unused
  \/ /\ service = "discovery" /\ Discovery!Init
     /\ now = Unused /\ server = Unused /\ sent = Unused /\ h3 = Unused /\ h4 = Unused
  \/ /\ service = "custom" /\ Custom!Init
     /\ now = Unused /\ server = Unused /\ h3 = Unused /\ h4 = Unused
  \/ /\ service = "nginx" /\ Nginx!Init
     /\ now = Unused /\ h3 = Unused /\ h4 = Unused

RedisStep == service = "redis" /\ Redis!Next /\ UNCHANGED <<service, h3, h4>>

MysqlStep == service = "mysql" /\ Mysql!Next /\ UNCHANGED <<service, h4>>

PostgresStep == service = "postgresql" /\ Postgres!Next /\ UNCHANGED <<service, h4>>

MongoStep == service = "mongodb" /\ Mongo!Next /\ UNCHANGED <<service, h3, h4>>

EsStep == service = "elasticsearch" /\ Es!Next /\ UNCHANGED <<service, h4>>

EsMetadataStep ==
  service = "metadata" /\ EsMetadata!Next /\ UNCHANGED <<service, sent, h2, h3, h4>>

EsRatesStep == service = "rates" /\ EsRates!Next /\ UNCHANGED <<service, scrape, h2, h3, h4>>

EsPayloadStep ==
  /\ service = "payload"
  /\ EsPayload!Next
  /\ UNCHANGED <<service, now, state, scrape, h1, h2, h3, h4>>

EsClientStep ==
  /\ service = "client"
  /\ EsClient!Next
  /\ UNCHANGED <<service, now, server, state, sent, h2, h3, h4>>

ReportingStep ==
  service = "reporting" /\ Reporting!Next /\ UNCHANGED <<service, state, h1, h2, h3, h4>>

ProcessStep == service = "processes" /\ Processes!Next /\ UNCHANGED <<service, h3, h4>>

DiscoveryStep ==
  /\ service = "discovery"
  /\ Discovery!Next
  /\ UNCHANGED <<service, now, server, sent, h3, h4>>

CustomStep == service = "custom" /\ Custom!Next /\ UNCHANGED <<service, now, server, h3, h4>>

NginxStep == service = "nginx" /\ Nginx!Next /\ UNCHANGED <<service, now, h3, h4>>

Next ==
  \/ RedisStep \/ MysqlStep \/ PostgresStep \/ MongoStep
  \/ EsStep \/ EsMetadataStep \/ EsRatesStep \/ EsPayloadStep \/ EsClientStep
  \/ ReportingStep \/ ProcessStep \/ DiscoveryStep \/ CustomStep \/ NginxStep

Spec == Init /\ [][Next]_vars

-----------------------------------------------------------------------------
(* Properties: those of the parts, in whose modules they are explained *)

\* Every part keeps the shape of its state: only what its code can store is stored.
TypeOK ==
  /\ service = "redis" => Redis!TypeOK
  /\ service = "mysql" => Mysql!TypeOK
  /\ service = "postgresql" => Postgres!TypeOK
  /\ service = "mongodb" => Mongo!TypeOK
  /\ service = "elasticsearch" => Es!TypeOK
  /\ service = "metadata" => EsMetadata!TypeOK
  /\ service = "rates" => EsRates!TypeOK
  /\ service = "payload" => EsPayload!TypeOK
  /\ service = "client" => EsClient!TypeOK
  /\ service = "reporting" => Reporting!TypeOK
  /\ service = "processes" => Processes!TypeOK
  /\ service = "discovery" => Discovery!TypeOK
  /\ service = "custom" => Custom!TypeOK
  /\ service = "nginx" => Nginx!TypeOK

\* A slow operation, an entry of Redis's slow log or of MongoDB's profiler, is sent
\* at most once, across restarts of the server and scrapes that fail in part.
SlowOperationsShippedOnce ==
  /\ service = "redis" => Redis!SlowShippedOnce
  /\ service = "mongodb" => Mongo!SlowShippedOnce

\* Redis: the commands a payload has room for are the busiest of the interval since
\* their table was read before, with their calls in it.
BusiestCommandReported == [][service = "redis" => Redis!ReportsBusiestCommand]_vars

\* What payloads tell as the difference of a counter is what the server did between
\* the two readings, no more, and no less unless it restarted.
DeltasOfInterval ==
  /\ service = "mysql" => Mysql!DeltasJoinReadings
  /\ service = "postgresql" => Postgres!DeltasJoinReadings
  /\ service = "mongodb" => Mongo!LatencyOfInterval
  /\ service = "elasticsearch" => Es!NodeDeltaFitsInterval
  /\ service = "rates" => EsRates!RatesTellWhatHappened

\* What is read once in a while is left out only if it was sent (MySQL's schema) or tried
\* (PostgreSQL's tables) within its interval, and one database that denies its tables
\* hides no other.
SectionsNotLeftOut ==
  /\ service = "mysql" => Mysql!SchemaOnlySkippedWhenSent
  /\ service = "postgresql" =>
       Postgres!ReachableDatabasesRead /\ Postgres!TablesOnlySkippedWhenDue

\* Elasticsearch: no more changes of the master are counted than there were elections,
\* but for two with every refresh that comes late.
NoInventedElection == service = "metadata" => EsMetadata!NoInventedElection

\* Elasticsearch: no payload explains what the last listing had assigned, but for shards
\* that a listing within the explain interval had not.
ExplanationsOfLastListing == service = "elasticsearch" => Es!ExplanationsOfLastListing

\* Elasticsearch: the indices and shards a payload has no room for are not the ones
\* that matter, within the limits of their own that those have.
NothingUrgentCut == service = "payload" => EsPayload!NothingUrgentCut

\* Elasticsearch: what could not be read is reported as unknown.
UnknownIsNotZero == service = "payload" => EsPayload!UnknownIsNotZero

\* Elasticsearch: a request settles once, with what its last try came to.
EndsWithLastTry == service = "client" => EsClient!EndsWithLastTry

\* collectMetrics: a collection reports once, by its collector or by its fallback.
OneReportPerCollection == service = "reporting" => Reporting!OneReportPerCollection

\* Discovery: a warning counts restarts that took place, and processes that ran beside
\* another of their command.
WarnedOnlyAfterRestarts == service = "processes" => Processes!WarnedOnlyAfterRestarts

\* Discovery: a scan overwrites nothing the user has set but what needs no credentials.
UserSettingsKept == [][service = "discovery" => Discovery!KeepsUserSettings]_vars

\* Custom metrics: a sample is counted in one payload, and a record tells of the
\* samples of its metric.
EverySampleOnce ==
  service = "custom" => Custom!EverySampleOnce /\ Custom!RecordsTellSamples

\* nginx: a line of the log is told once to either database.
EveryLineToldOnce == service = "nginx" => Nginx!EveryLineToldOnce

\* nginx: an update tells a change of the status, and follows from the one before it.
UpdatesAreChanges == service = "nginx" => Nginx!UpdatesAreChanges
=============================================================================
