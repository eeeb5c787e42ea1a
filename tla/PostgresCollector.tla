-------------------------- MODULE PostgresCollector --------------------------
(***************************************************************************)
(* app/integrations/postgresql: one PostgreSQL server, scraped on every    *)
(* tick of collectMetrics.  A statement is given up after 15 seconds and a *)
(* connection after 10, but a scrape makes a dozen of them and one more of *)
(* each for every configured database, so that it may overlap the next.    *)
(*                                                                         *)
(* A section whose view is missing or denied is left out of the payload    *)
(* and the rest goes on.  The model keeps the statements, as one row with  *)
(* the number of its calls, the WAL counters, as one that counts the same, *)
(* and the tables, which are read once in a while through a connection to  *)
(* each database; the sections that nothing remembers are left out.        *)
(***************************************************************************)
EXTENDS Integers, FiniteSetsExt

CONSTANTS
  Slot,            \* bound: scrapes that overlap
  Database,        \* config.databases, in the order of their numbers
  MaxCalls,        \* bound: calls between two resets of the statistics
  MaxResets,       \* bound: resets of the statistics, restarts among them
  MaxTicks,        \* bound: ticks of collectMetrics
  StorageInterval  \* storageIntervalSeconds, in ticks

PostgresAssumption ==
  /\ Slot \subseteq Nat
  /\ Database \subseteq Nat
  /\ {MaxCalls, MaxResets, MaxTicks, StorageInterval} \subseteq Nat

None == -1

VARIABLES
  now,        \* ticks of collectMetrics so far
  pgServer,   \* PostgreSQL: its last boot, its counters, the databases that accept connections
  pgState,    \* instanceState(id)
  pgScrape,   \* the scrapes under way
  pgSent,     \* the last payload
  pgBefore,   \* history: the readings that the payloads before the last one told of
  pgTablesAt, \* history: when the latest scrape that sent tables started
  pgOverlap   \* history: two scrapes were under way at once

historyVars == <<pgBefore, pgTablesAt, pgOverlap>>
vars == <<now, pgServer, pgState, pgScrape, pgSent, historyVars>>

Idle == [pc |-> "idle"]

\* A reading of the counters; ever and resets are history, which the agent cannot see.
NoReading == [uptime |-> None, calls |-> None, ever |-> None, resets |-> None]

\* What is stored for a counter that was not read: 0.
Unread == [NoReading EXCEPT !.calls = 0]

NoPrevious == [statements |-> NoReading, wal |-> NoReading]

Forgotten == [lastStorageAt |-> None, lastUptime |-> None, previous |-> NoPrevious]

Set(slot, s) == pgScrape' = [pgScrape EXCEPT ![slot] = s]

FreeSlots == {slot \in Slot : pgScrape[slot] = Idle}

-----------------------------------------------------------------------------
(* PostgreSQL *)

Call ==
  /\ pgServer.calls < MaxCalls
  /\ pgServer' = [pgServer EXCEPT !.calls = @ + 1, !.ever = @ + 1]
  /\ UNCHANGED <<now, pgState, pgScrape, pgSent, historyVars>>

\* pg_stat_statements_reset(), pg_stat_reset()
ResetStatistics ==
  /\ pgServer.resets < MaxResets
  /\ pgServer' = [pgServer EXCEPT !.resets = @ + 1, !.calls = 0]
  /\ UNCHANGED <<now, pgState, pgScrape, pgSent, historyVars>>

\* A crash loses the statistics, a clean shutdown keeps them.  Nobody listens for the
\* 'error' of a client, which ends the agent when the connection of a scrape under way
\* is lost; it starts again with nothing remembered.
ServerRestart ==
  /\ pgServer.resets < MaxResets
  /\ \E calls \in {0, pgServer.calls} :
       pgServer' = [pgServer EXCEPT !.resets = @ + 1, !.calls = calls, !.bootedAt = now]
  /\ pgState' = IF FreeSlots = Slot THEN pgState ELSE Forgotten
  /\ pgScrape' = [slot \in Slot |-> Idle]
  /\ UNCHANGED <<now, pgSent, historyVars>>

Reading ==
  [uptime |-> now - pgServer.bootedAt, calls |-> pgServer.calls, ever |-> pgServer.ever,
   resets |-> pgServer.resets]

-----------------------------------------------------------------------------
(* Derivation *)

CounterDelta(current, previous, reset) ==
  IF reset \/ previous = None \/ current < previous THEN 0 ELSE current - previous

\* deriveStatements: calls of the one row.
DeriveStatements(s) ==
  LET calls == s.previous.statements.calls
      entryReset == s.restarted \/ (calls # None /\ s.reading.calls < calls)
  IN  CounterDelta(s.reading.calls, calls, entryReset)

\* walDerived, checkpointDerived
WalDerived(s) == CounterDelta(s.reading.calls, s.previous.wal.calls, s.restarted)

-----------------------------------------------------------------------------
(* A scrape *)

\* A tick: the primary database accepts the connection, or the scrape is over.
StartScrape ==
  /\ now < MaxTicks
  /\ now' = now + 1
  /\ \/ /\ FreeSlots # {}
        /\ Set(Min(FreeSlots), [pc |-> "connected", at |-> now'])
        /\ pgOverlap' = (pgOverlap \/ FreeSlots # Slot)
     \/ UNCHANGED <<pgScrape, pgOverlap>>
  /\ UNCHANGED <<pgServer, pgState, pgSent, pgBefore, pgTablesAt>>

\* Whether the tables are due.
StorageDue(s) ==
  pgState.lastStorageAt = None \/ s.at - pgState.lastStorageAt >= StorageInterval

\* Server info and the sections of the whole cluster.  Each is null when its
\* probe or its query fails.
ReadCluster(slot) ==
  LET s == pgScrape[slot]
      restarted == pgState.lastUptime # None /\ Reading.uptime < pgState.lastUptime
  IN  /\ s.pc = "connected"
      /\ \E statements, wal \in BOOLEAN, tableStats \in BOOLEAN :
           Set(slot, [pc |-> "storage", at |-> s.at,
                      reading |-> Reading,
                      restarted |-> restarted,
                      previous |-> IF restarted THEN NoPrevious ELSE pgState.previous,
                      statements |-> statements, wal |-> wal, storage |-> StorageDue(s),
                      targets |-> IF StorageDue(s) /\ tableStats THEN Database ELSE {},
                      probed |-> tableStats, tables |-> {}])
      /\ UNCHANGED <<now, pgServer, pgState, pgSent, historyVars>>

\* Mutation: break for continue.
ReadTablesUntilDenied(slot) ==
  LET s == pgScrape[slot]
      db == Min(s.targets)
  IN  /\ s.pc = "storage"
      /\ s.targets # {}
      /\ IF db \in pgServer.open
         THEN Set(slot, [s EXCEPT !.targets = @ \ {db}, !.tables = @ \cup {db}])
         ELSE Set(slot, [s EXCEPT !.targets = {}])
      /\ UNCHANGED <<now, pgServer, pgState, pgSent, historyVars>>

\* The loop over the databases, each over its own connection.
ReadTables(slot) ==
  LET s == pgScrape[slot]
      db == Min(s.targets)
  IN  /\ s.pc = "storage"
      /\ s.targets # {}
      /\ Set(slot, [s EXCEPT !.targets = @ \ {db},
                             !.tables = IF db \in pgServer.open THEN @ \cup {db} ELSE @])
      /\ UNCHANGED <<now, pgServer, pgState, pgSent, historyVars>>

\* The connection, or a query that is not guarded, fails: nothing is remembered.
ScrapeFails(slot) ==
  /\ pgScrape[slot] # Idle
  /\ Set(slot, Idle)
  /\ UNCHANGED <<now, pgServer, pgState, pgSent, historyVars>>

\* Statements that were not read are those of before; a WAL counter that was not
\* read is remembered as 0.
Remembered(s) ==
  [statements |-> IF s.statements THEN s.reading ELSE s.previous.statements,
   wal |-> IF s.wal THEN s.reading ELSE Unread]

\* The clock moves on when the tables were due, whether any could be read or not.
StorageClock(s) == IF s.storage THEN s.at ELSE pgState.lastStorageAt

\* The readings that the payloads so far told of; a WAL counter has to be in the last.
Told ==
  [statements |-> IF pgSent.statements = None THEN pgBefore.statements ELSE pgSent.reading,
   wal |-> IF pgSent.wal = None THEN NoReading ELSE pgSent.reading]

\* That the payload has its reading and the one it is compared with is history.
FinishScrape(slot) ==
  LET s == pgScrape[slot]
  IN  /\ s.pc = "storage"
      /\ s.targets = {}
      /\ pgSent' = [statements |-> IF s.statements THEN DeriveStatements(s) ELSE None,
                    wal |-> IF s.wal THEN WalDerived(s) ELSE None,
                    tables |-> s.tables, reading |-> s.reading, previous |-> s.previous]
      /\ pgState' = [lastStorageAt |-> StorageClock(s), lastUptime |-> s.reading.uptime,
                     previous |-> Remembered(s)]
      /\ Set(slot, Idle)
      /\ pgBefore' = Told
      /\ pgTablesAt' = IF s.storage THEN Max({s.at, pgTablesAt}) ELSE pgTablesAt
      /\ UNCHANGED <<now, pgServer, pgOverlap>>

Init ==
  /\ now = 0
  /\ pgServer \in [resets : {0}, bootedAt : {0}, calls : {0}, ever : {0}, open : SUBSET Database]
  /\ pgState = Forgotten
  /\ pgScrape = [slot \in Slot |-> Idle]
  /\ pgSent = [statements |-> None, wal |-> None, tables |-> {}, reading |-> NoReading,
               previous |-> NoPrevious]
  /\ pgBefore = NoPrevious
  /\ pgTablesAt = None
  /\ pgOverlap = FALSE

Next ==
  \/ Call
  \/ ResetStatistics
  \/ ServerRestart
  \/ StartScrape
  \/ \E slot \in Slot :
       ReadCluster(slot) \/ ReadTables(slot) \/ ScrapeFails(slot) \/ FinishScrape(slot)

Spec == Init /\ [][Next]_vars

-----------------------------------------------------------------------------
(* Properties *)

\* What is remembered was read; every slot holds a scrape in one of its steps.
TypeOK ==
  /\ now \in 0 .. MaxTicks
  /\ pgServer \in [resets : 0 .. MaxResets, bootedAt : 0 .. MaxTicks, calls : 0 .. MaxCalls,
                   ever : Nat, open : SUBSET Database]
  /\ pgState.lastStorageAt \in {None} \cup 1 .. MaxTicks
  /\ {pgState.previous.statements, pgState.previous.wal} \subseteq
       {NoReading, Unread} \cup
       [uptime : 0 .. MaxTicks, calls : 0 .. MaxCalls, ever : Nat, resets : 0 .. MaxResets]
  /\ \A slot \in Slot : pgScrape[slot].pc \in {"idle", "connected", "storage"}
  /\ {pgSent.statements, pgSent.wal} \subseteq {None} \cup 0 .. MaxCalls
  /\ pgSent.tables \subseteq Database

\* The difference of a counter between two readings: nothing without the earlier one,
\* no more calls than were made between them, and that many exactly without a reset.
DeltaFits(delta, reading, previous) ==
  IF previous = NoReading THEN delta = 0
  ELSE /\ delta <= reading.ever - previous.ever
       /\ reading.resets = previous.resets => delta = reading.ever - previous.ever

\* What every payload tells as calls is what was called between the two readings it
\* compares, though scrapes overlap or fail, sections are left out and the statistics
\* are reset.  As long as scrapes do not overlap the statements are compared with the
\* last payload that had them since the same reset, and the WAL counters with the
\* payload before if that had them, so that payloads together leave nothing out and tell
\* nothing twice.  A WAL counter that the scrape before could not read is told in full.
DeltasJoinReadings ==
  LET s == pgSent
  IN  /\ s.statements # None => DeltaFits(s.statements, s.reading, s.previous.statements)
      /\ s.wal # None /\ s.previous.wal # Unread => DeltaFits(s.wal, s.reading, s.previous.wal)
      /\ ~pgOverlap =>
           /\ pgBefore.statements.resets = s.reading.resets =>
                s.previous.statements = pgBefore.statements
           /\ pgBefore.wal.resets = s.reading.resets => s.previous.wal = pgBefore.wal

\* Every database that accepts connections has its tables read when they are due,
\* whatever becomes of the databases before it.
ReachableDatabasesRead ==
  \A slot \in Slot :
    LET s == pgScrape[slot]
    IN  (s.pc = "storage" /\ s.storage /\ s.probed) =>
          pgServer.open \ s.targets \subseteq s.tables

\* A scrape leaves the tables out only if they were due in one that started within the
\* interval and sent what it could read; unlike MySQL's schema they are not tried again
\* before the interval has passed when nothing could be read.
TablesOnlySkippedWhenDue ==
  \A slot \in Slot :
    (pgScrape[slot].pc = "storage" /\ ~pgScrape[slot].storage) =>
      /\ pgTablesAt # None
      /\ pgScrape[slot].at - pgTablesAt < StorageInterval
=============================================================================
