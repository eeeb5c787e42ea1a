SPECIFICATION Spec
CONSTANTS
  Command = {1, 2}
  CallTime = {0, 2}
  SlowerThan = 2
  CommandsInterval = 2
  MaxCommands = 1
  SlowlogLimit = 2
  MaxSlowlogPerScrape = 1
  Slot = {1, 2}
  SchemaInterval = 2
  Database = {1, 2}
  StorageInterval = 2
  Duration = {1, 2}
  SlowThreshold = 1
  MaxSlowQueries = 1
  Shard = {1}
  SectionInterval = 1
  ExplainInterval = 2
  SlowInterval = 2
  IndexInterval = 2
  MaxRows = 4
  MaxIndexDetail = 2
  MaxPerGroup = 1
  Retries = 2
  MaxResponseBytes = 1
  Service = {"redis", "mysql"}
  CanAutoEnable = {"redis"}
  LogFile = {"syslog"}
  RestartThreshold = 2
  Window = 2
  Retained = 1
  MaxProcessEntries = 1
  Metric = {"m", "n"}
  Sample = {0, 2, 101}
  Percent = {0, 2}
  MaxMetrics = 2
  MaxBuffer = 2
  MaxTicks = 3
  MaxEvents = 2
  MaxBoots = 1
  MaxCalls = 2
  MaxRestarts = 1
  MaxExecuted = 1
  MaxPgCalls = 1
  MaxPgTicks = 2
  MaxMetadataTicks = 5
  MaxResets = 1
  MaxOps = 2
  MaxChunks = 3
  MaxBatches = 2
  MaxMinutes = 2
  MaxStarts = 3
  MaxEdits = 2
  MaxKills = 1
  MaxSamples = 3
  MaxFlushes = 2
  MaxLines = 3
  MaxChecks = 2
  MaxChanges = 1
INVARIANTS
  TypeOK SlowOperationsShippedOnce DeltasOfInterval SectionsNotLeftOut NoInventedElection
  ExplanationsOfLastListing NothingUrgentCut UnknownIsNotZero EndsWithLastTry
  OneReportPerCollection WarnedOnlyAfterRestarts EverySampleOnce EveryLineToldOnce
  UpdatesAreChanges
PROPERTIES
  BusiestCommandReported UserSettingsKept
CHECK_DEADLOCK FALSE
