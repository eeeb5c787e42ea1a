---------------------------- MODULE Integrations ----------------------------
(***************************************************************************)
(* collectMetrics and the collectors of the integrations that it calls     *)
(* every minute, of which each has its module and its instanceState(id).   *)
(* They share nothing with one another, and so that they can be composed   *)
(* as behaviours of AgentServices they all use the same variables in their *)
(* turn.                                                                   *)
(***************************************************************************)
EXTENDS Integers, Sequences

CONSTANTS
  (* what the watched programs hold, and the limits the code sets *)
  Command, CallTime, SlowerThan, CommandsInterval,            \* RedisCollector
  MaxCommands, SlowlogLimit, MaxSlowlogPerScrape,
  Slot, SchemaInterval,                                       \* MysqlCollector
  Database, StorageInterval,                                  \* PostgresCollector, MongoCollector
  Duration, SlowThreshold, MaxSlowQueries,                    \* MongoCollector
  Shard, SectionInterval, ExplainInterval, SlowInterval,      \* EsCollector, EsMetadata
  IndexInterval, MaxRows, MaxIndexDetail, MaxPerGroup,        \* EsRates, EsPayload
  Retries, MaxResponseBytes,                                  \* EsClient
  (* bounds *)
  MaxTicks, MaxEvents, MaxBoots, MaxCalls, MaxRestarts, MaxExecuted, MaxPgCalls, MaxPgTicks,
  MaxMetadataTicks, MaxResets, MaxOps, MaxChunks, MaxBatches, MaxMinutes

VARIABLES
  now,             \* the clock
  server,          \* the program that is watched
  state,           \* what the agent remembers
  scrape,          \* what is under way
  sent,            \* what was sent
  h1, h2, h3, h4   \* history

-----------------------------------------------------------------------------
(* The parts *)

Redis == INSTANCE RedisCollector WITH
  redisServer <- server, redisState <- state, redisScrape <- scrape, redisSent <- sent,
  redisShipped <- h1, redisTable <- h2

Mysql == INSTANCE MysqlCollector WITH
  mysqlServer <- server, mysqlState <- state, mysqlScrape <- scrape, mysqlSent <- sent,
  mysqlBefore <- h1, mysqlSchemaAt <- h2, mysqlOverlap <- h3

Postgres == INSTANCE PostgresCollector WITH
  MaxCalls <- MaxPgCalls, MaxTicks <- MaxPgTicks,
  pgServer <- server, pgState <- state, pgScrape <- scrape, pgSent <- sent,
  pgBefore <- h1, pgTablesAt <- h2, pgOverlap <- h3

Mongo == INSTANCE MongoCollector WITH
  mongoServer <- server, mongoState <- state, mongoScrape <- scrape, mongoSent <- sent,
  mongoShipped <- h1, mongoSpan <- h2

Es == INSTANCE EsCollector WITH
  esCluster <- server, esState <- state, esScrape <- scrape, esSent <- sent,
  esListed <- h1, esBefore <- h2, esOverlap <- h3

EsMetadata == INSTANCE EsMetadata WITH
  MaxTicks <- MaxMetadataTicks, esMaster <- server, esTopology <- state,
  esRefresh <- scrape, esRefreshed <- h1

EsRates == INSTANCE EsRates WITH
  esCopies <- server, esPrevious <- state, esRates <- sent, esSince <- h1

EsPayload == INSTANCE EsPayload WITH esAnswer <- server, esSection <- sent

EsClient == INSTANCE EsClient WITH esRequest <- scrape, esTries <- h1

Reporting == INSTANCE Reporting WITH
  minute <- now, integration <- server, collections <- scrape, reports <- sent

ASSUME IntegrationsAssumption ==
  /\ Redis!RedisAssumption /\ Mysql!MysqlAssumption /\ Postgres!PostgresAssumption
  /\ Mongo!MongoAssumption /\ Es!EsAssumption /\ EsMetadata!EsMetadataAssumption
  /\ EsRates!EsRatesAssumption /\ EsPayload!EsPayloadAssumption /\ EsClient!EsClientAssumption
  /\ Reporting!ReportingAssumption
=============================================================================
