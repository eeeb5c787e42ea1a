--------------------------- MODULE MysqlCollector ---------------------------
(***************************************************************************)
(* app/integrations/mysql: one MySQL server, scraped over one connection   *)
(* on every tick of collectMetrics.  No statement of a scrape is bounded   *)
(* in time and nothing keeps the next tick waiting, so that a scrape may   *)
(* overlap the one after it: both share instanceState.                     *)
(*                                                                         *)
(* Of the counters of SHOW GLOBAL STATUS the model keeps one, the number   *)
(* of statements executed since the server's boot; all the others are like *)
(* it.  The rows of the digest table are one row of the same number.       *)
(* Uptime is counted in ticks.                                             *)
(***************************************************************************)
EXTENDS Integers, FiniteSetsExt

CONSTANTS
  Slot,            \* bound: scrapes that overlap
  MaxExecuted,     \* bound: statements executed in one run of the server
  MaxBoots,        \* bound: restarts of the server
  MaxTicks,        \* bound: ticks of collectMetrics
  SchemaInterval   \* schemaIntervalSeconds, in ticks

MysqlAssumption ==
  /\ Slot \subseteq Nat
  /\ {MaxExecuted, MaxBoots, MaxTicks, SchemaInterval} \subseteq Nat

None == -1

\* Indexes are read like the schema, by a clock of their own; locks and
\* replication are read every time and nothing remembers them.
Section == {"queries", "schema"}

VARIABLES
  now,           \* ticks of collectMetrics so far
  mysqlServer,   \* MySQL: its boots, the time of the last one, statements since, grants
  mysqlState,    \* instanceState(id)
  mysqlScrape,   \* the scrapes under way
  mysqlSent,     \* the last payload
  mysqlBefore,   \* history: the readings that the payloads before the last one told of
  mysqlSchemaAt, \* history: when the latest scrape that sent the schema started
  mysqlOverlap   \* history: two scrapes were under way at once

historyVars == <<mysqlBefore, mysqlSchemaAt, mysqlOverlap>>
vars == <<now, mysqlServer, mysqlState, mysqlScrape, mysqlSent, historyVars>>

Idle == [pc |-> "idle"]

\* A reading of the counters; ever and boots are history, which the agent cannot see.
NoReading == [uptime |-> None, executed |-> None, ever |-> None, boots |-> None]

\* st.previous: the counters, and the rows of the digest table with the reading they
\* were read beside.
NoPrevious == [status |-> NoReading, rows |-> NoReading]

Set(slot, s) == mysqlScrape' = [mysqlScrape EXCEPT ![slot] = s]

-----------------------------------------------------------------------------
(* MySQL *)

Execute ==
  /\ mysqlServer.executed < MaxExecuted
  /\ mysqlServer' = [mysqlServer EXCEPT !.executed = @ + 1, !.ever = @ + 1]
  /\ UNCHANGED <<now, mysqlState, mysqlScrape, mysqlSent, historyVars>>

\* Scrapes under way lose their connection: one that has not read the status ends with
\* an error, the sections of the others fail, each by itself.
ServerRestart ==
  /\ mysqlServer.boots < MaxBoots
  /\ mysqlServer' = [mysqlServer EXCEPT !.boots = @ + 1, !.bootedAt = now, !.executed = 0]
  /\ mysqlScrape' =
       [slot \in Slot |->
          IF mysqlScrape[slot].pc = "connected" THEN Idle ELSE mysqlScrape[slot]]
  /\ UNCHANGED <<now, mysqlState, mysqlSent, historyVars>>

Reading ==
  [uptime |-> now - mysqlServer.bootedAt, executed |-> mysqlServer.executed,
   ever |-> mysqlServer.ever, boots |-> mysqlServer.boots]

-----------------------------------------------------------------------------
(* Derivation *)

\* Mutation: a counter without a predecessor counts from zero.
DeltaSinceBoot(current, previous, restarted) ==
  IF restarted THEN 0
  ELSE IF previous = None THEN current
  ELSE IF current >= previous THEN current - previous ELSE 0

\* Nothing to compare with, or a counter that went back, counts nothing.
CounterDelta(current, previous, restarted) ==
  IF restarted \/ previous = None \/ current < previous THEN 0 ELSE current - previous

\* The object that is stored has two entries named queries, and the later one, the rows
\* of the digest table, is the one that stays: what Number() makes of an array counts as
\* 0, so that queriesDelta is every statement since the server's boot.
PreviousQueries(s) == IF s.previous = NoPrevious THEN None ELSE 0

\* intervalSeconds: by the server's clock, 0 when it is not known.
Interval(s) ==
  LET before == s.previous.status.uptime
  IN  IF before > 0 /\ s.reading.uptime > before THEN s.reading.uptime - before ELSE 0

\* throughput, io, rowOps, locks: the difference of every counter.
Throughput(s) ==
  [questionsDelta |->
     CounterDelta(s.reading.executed, s.previous.status.executed, s.restarted),
   queriesDelta |-> CounterDelta(s.reading.executed, PreviousQueries(s), s.restarted)]

\* The rows of the digest table against the last ones that were read.
DeriveQueries(s) == CounterDelta(s.reading.executed, s.previous.rows.executed, s.restarted)

-----------------------------------------------------------------------------
(* A scrape *)

\* What this server and this user can provide: without performance_schema the
\* probes are not even made.
ProbeCapabilities ==
  IF mysqlServer.performanceSchema THEN {{}, {"queries"}} ELSE {{}}

Due(s, last) == last = None \/ s.at - last >= SchemaInterval

\* The sections that are wanted, by the clocks and the capabilities.
Collected(s, capabilities) ==
  capabilities \cup (IF Due(s, mysqlState.lastSchemaAt) THEN {"schema"} ELSE {})

FreeSlots == {slot \in Slot : mysqlScrape[slot] = Idle}

\* A tick: the connection is made, or the scrape is over.
StartScrape ==
  /\ now < MaxTicks
  /\ now' = now + 1
  /\ \/ /\ FreeSlots # {}
        /\ Set(Min(FreeSlots), [pc |-> "connected", at |-> now'])
        /\ mysqlOverlap' = (mysqlOverlap \/ FreeSlots # Slot)
     \/ UNCHANGED <<mysqlScrape, mysqlOverlap>>
  /\ UNCHANGED <<mysqlServer, mysqlState, mysqlSent, mysqlBefore, mysqlSchemaAt>>

\* SHOW GLOBAL STATUS, and what is remembered at that time.  An uptime that
\* went back is the sign of a restart.
ReadStatus(slot) ==
  LET s == mysqlScrape[slot]
      restarted == mysqlState.lastUptime # None /\ Reading.uptime < mysqlState.lastUptime
  IN  /\ s.pc = "connected"
      /\ \E capabilities \in ProbeCapabilities :
           Set(slot, [pc |-> "sections", at |-> s.at, reading |-> Reading,
                      restarted |-> restarted,
                      previous |-> IF restarted THEN NoPrevious ELSE mysqlState.previous,
                      collected |-> Collected(s, capabilities)])
      /\ UNCHANGED <<now, mysqlServer, mysqlState, mysqlSent, historyVars>>

\* The connection is lost, or the answer has no version: nothing is remembered.
ScrapeFails(slot) ==
  /\ mysqlScrape[slot] # Idle
  /\ Set(slot, Idle)
  /\ UNCHANGED <<now, mysqlServer, mysqlState, mysqlSent, historyVars>>

\* Each section is tried by itself: those that are read.
CollectSections(s) == SUBSET s.collected

\* Rows that were not read are those of before.
Remembered(s, sections) ==
  [status |-> s.reading, rows |-> IF "queries" \in sections THEN s.reading ELSE s.previous.rows]

\* Mutation: the clock moves on when the section was wanted.
ClockOfWanted(s, sections) ==
  IF "schema" \in s.collected THEN s.at ELSE mysqlState.lastSchemaAt

\* Only a section that was read moves its clock on.
SchemaClock(s, sections) ==
  IF "schema" \in sections THEN s.at ELSE mysqlState.lastSchemaAt

\* The readings that the payloads so far told of.
Told ==
  [status |-> mysqlSent.reading,
   rows |-> IF mysqlSent.rows = None THEN mysqlBefore.rows ELSE mysqlSent.reading]

\* The payload is made and handed over, and the state is replaced.  That the payload
\* has its reading and the one it is compared with is history.
FinishScrape(slot) ==
  LET s == mysqlScrape[slot]
  IN  /\ s.pc = "sections"
      /\ \E sections \in CollectSections(s) :
           /\ mysqlSent' =
                [at |-> s.at, schema |-> "schema" \in sections, restarted |-> s.restarted,
                 interval |-> Interval(s), throughput |-> Throughput(s),
                 rows |-> IF "queries" \in sections THEN DeriveQueries(s) ELSE None,
                 reading |-> s.reading, previous |-> s.previous]
           /\ mysqlState' =
                [lastSchemaAt |-> SchemaClock(s, sections), lastUptime |-> s.reading.uptime,
                 previous |-> Remembered(s, sections)]
           /\ mysqlSchemaAt' = IF "schema" \in sections THEN Max({s.at, mysqlSchemaAt})
                                                   ELSE mysqlSchemaAt
      /\ Set(slot, Idle)
      /\ mysqlBefore' = Told
      /\ UNCHANGED <<now, mysqlServer, mysqlOverlap>>

Init ==
  /\ now = 0
  /\ mysqlServer \in [boots : {0}, bootedAt : {0}, executed : {0}, ever : {0},
                    performanceSchema : BOOLEAN]
  /\ mysqlState = [lastSchemaAt |-> None, lastUptime |-> None, previous |-> NoPrevious]
  /\ mysqlScrape = [slot \in Slot |-> Idle]
  /\ mysqlSent = [at |-> 0, schema |-> FALSE, restarted |-> FALSE, interval |-> 0,
                  throughput |-> [questionsDelta |-> 0, queriesDelta |-> 0], rows |-> None,
                  reading |-> NoReading, previous |-> NoPrevious]
  /\ mysqlBefore = NoPrevious
  /\ mysqlSchemaAt = None
  /\ mysqlOverlap = FALSE

Next ==
  \/ Execute
  \/ ServerRestart
  \/ StartScrape
  \/ \E slot \in Slot : ReadStatus(slot) \/ ScrapeFails(slot) \/ FinishScrape(slot)

Spec == Init /\ [][Next]_vars

-----------------------------------------------------------------------------
(* Properties *)

Count == 0 .. MaxExecuted

\* What is remembered was read; every slot holds a scrape in one of its steps.
TypeOK ==
  /\ now \in 0 .. MaxTicks
  /\ mysqlServer \in [boots : 0 .. MaxBoots, bootedAt : 0 .. MaxTicks, executed : Count,
                      ever : Nat, performanceSchema : BOOLEAN]
  /\ mysqlState.lastSchemaAt \in {None} \cup 1 .. MaxTicks
  /\ mysqlState.lastUptime \in {None} \cup 0 .. MaxTicks
  /\ {mysqlState.previous.status, mysqlState.previous.rows} \subseteq
       {NoReading} \cup
       [uptime : 0 .. MaxTicks, executed : Count, ever : Nat, boots : 0 .. MaxBoots]
  /\ \A slot \in Slot : mysqlScrape[slot].pc \in {"idle", "connected", "sections"}
  /\ mysqlSent.interval \in 0 .. MaxTicks
  /\ mysqlSent.throughput \in [questionsDelta : Count, queriesDelta : Count]
  /\ mysqlSent.rows \in {None} \cup Count

\* The difference of a counter between two readings: nothing without the earlier one,
\* no more than was executed between them, and that exactly in one run of the server.
DeltaFits(delta, reading, previous) ==
  IF previous = NoReading THEN delta = 0
  ELSE /\ delta <= reading.ever - previous.ever
       /\ reading.boots = previous.boots => delta = reading.ever - previous.ever

\* What every payload tells as the difference of a counter is what was executed between
\* the two readings it compares, though scrapes overlap, fail, or finish after a restart
\* with what they read before it.  And as long as scrapes do not overlap a payload is
\* compared with the reading of the last one that told of the same run of the server, so
\* that payloads together leave nothing out and tell nothing twice.  queriesDelta is no
\* such difference and left out.
DeltasJoinReadings ==
  LET s == mysqlSent
  IN  /\ DeltaFits(s.throughput.questionsDelta, s.reading, s.previous.status)
      /\ s.rows # None => DeltaFits(s.rows, s.reading, s.previous.rows)
      /\ ~mysqlOverlap =>
           /\ mysqlBefore.status.boots = s.reading.boots =>
                s.previous.status = mysqlBefore.status
           /\ mysqlBefore.rows.boots = s.reading.boots => s.previous.rows = mysqlBefore.rows

\* A scrape leaves the schema out only if it was sent within the interval: one
\* that could not be read is tried again by the next scrape.
SchemaOnlySkippedWhenSent ==
  \A slot \in Slot :
    (mysqlScrape[slot].pc = "sections" /\ "schema" \notin mysqlScrape[slot].collected) =>
      /\ mysqlSchemaAt # None
      /\ mysqlScrape[slot].at - mysqlSchemaAt < SchemaInterval
=============================================================================
