--------------------------- MODULE RedisCollector ---------------------------
(***************************************************************************)
(* app/integrations/redis: one Redis server, scraped on every tick of      *)
(* collectMetrics through a session of redis-cli.  The sections of the     *)
(* session are read one after the other, while the server goes on working  *)
(* or is restarted; redis-cli connects again on its own.  A session ends   *)
(* within 30 seconds and ticks are a minute apart, so that scrapes do not  *)
(* overlap.                                                                *)
(*                                                                         *)
(* Of the counters of INFO the model keeps the calls of each command and   *)
(* the time they took, of which every other counter is like the sum.  Of a *)
(* slow log entry it keeps the id, which starts at 0 in every run of the   *)
(* server.  A section that the user may not read is an error line, which   *)
(* every parser turns into an empty result.                                *)
(***************************************************************************)
EXTENDS Integers, Sequences, SequencesExt, FiniteSetsExt

CONSTANTS
  Command,           \* the commands, numbered in the order of INFO commandstats
  CallTime,          \* what a call may take, in microseconds
  SlowerThan,        \* slowlog-log-slower-than of the server
  MaxCalls,          \* bound: calls of each command in one run of the server
  MaxRestarts,       \* bound: restarts of the server
  MaxTicks,          \* bound: ticks of collectMetrics
  CommandsInterval,  \* commandsIntervalSeconds, in ticks
  MaxCommands,       \* advanced.maxCommands
  SlowlogLimit,      \* slowlog.limit
  MaxSlowlogPerScrape

RedisAssumption ==
  /\ Command \subseteq Nat /\ CallTime \subseteq Nat
  /\ {MaxCalls, MaxRestarts, MaxTicks, CommandsInterval} \subseteq Nat
  /\ {MaxCommands, SlowlogLimit, MaxSlowlogPerScrape} \subseteq Nat \ {0}

None == -1

NoTable == [c \in {} |-> 0]

VARIABLES
  now,            \* ticks of collectMetrics so far
  redisServer,    \* Redis: its run, the calls by command and their time, the slow calls
  redisState,     \* instanceState(id)
  redisScrape,    \* the scrape under way
  redisSent,      \* the last payload
  redisShipped,   \* history: the slow log documents sent before it
  redisTable      \* history: the last answer to INFO commandstats, and the runs it is of

historyVars == <<redisShipped, redisTable>>
vars == <<now, redisServer, redisState, redisScrape, redisSent, historyVars>>

Idle == [pc |-> "idle"]

-----------------------------------------------------------------------------
(* Redis *)

NoCalls == [calls |-> 0, usec |-> 0]

\* A call, which is logged when it is slow.
Call(c) ==
  /\ redisServer.stats[c].calls < MaxCalls
  /\ \E time \in CallTime :
       redisServer' =
         [redisServer EXCEPT !.stats[c] = [calls |-> @.calls + 1, usec |-> @.usec + time],
                             !.slow = @ + (IF time >= SlowerThan THEN 1 ELSE 0)]
  /\ UNCHANGED <<now, redisState, redisScrape, redisSent, historyVars>>

ServerRestart ==
  /\ redisServer.run < MaxRestarts
  /\ redisServer' =
       [run |-> redisServer.run + 1, stats |-> [c \in Command |-> NoCalls], slow |-> 0]
  /\ UNCHANGED <<now, redisState, redisScrape, redisSent, historyVars>>

\* INFO commandstats: only commands that were called have a line.
CommandstatsReply ==
  [c \in {d \in Command : redisServer.stats[d].calls > 0} |-> redisServer.stats[c]]

\* SLOWLOG GET: the newest entries.
SlowlogReply == Max({0, redisServer.slow - SlowlogLimit}) .. redisServer.slow - 1

-----------------------------------------------------------------------------
(* Parsing and derivation *)

\* The reply, or nothing when the section is an error line.
ParseCommandstats(readable, stats) == IF readable THEN stats ELSE NoTable

ParseSlowlog(readable, ids) == IF readable THEN ids ELSE {}

\* previous is None when there is none; a counter that went back counts nothing.
CounterDelta(current, previous, restarted) ==
  IF restarted \/ previous = None \/ current < previous THEN 0 ELSE current - previous

PreviousCalls(previous, c) ==
  IF c \in DOMAIN previous.commands THEN previous.commands[c].calls ELSE None

PreviousUsec(previous, c) ==
  IF c \in DOMAIN previous.commands THEN previous.commands[c].usec ELSE None

\* callsDelta x avgUsec: the average is that of the interval's calls, and without a
\* call the product is 0, whatever usec_per_call says.
Impact(callsDelta, usecDelta) == IF callsDelta > 0 THEN usecDelta ELSE 0

CommandRow(table, previous, restarted, c) ==
  LET callsDelta == CounterDelta(table[c].calls, PreviousCalls(previous, c), restarted)
      usecDelta == CounterDelta(table[c].usec, PreviousUsec(previous, c), restarted)
  IN  [command |-> c, calls |-> table[c].calls, callsDelta |-> callsDelta,
       usecDelta |-> usecDelta, impact |-> Impact(callsDelta, usecDelta)]

\* Mutation: the command that was called most comes first.
DeriveCommandsByCalls(table, previous, restarted) ==
  LET busier(a, b) ==
        \/ a.callsDelta > b.callsDelta
        \/ a.callsDelta = b.callsDelta /\ a.calls > b.calls
        \/ a.callsDelta = b.callsDelta /\ a.calls = b.calls /\ a.command < b.command
      rows == SetToSortSeq({CommandRow(table, previous, restarted, c) : c \in DOMAIN table},
                           busier)
  IN  SubSeq(rows, 1, Min({MaxCommands, Len(rows)}))

\* What took most time in the interval first, then what was called most in it, then
\* what was called most since boot.
DeriveCommands(table, previous, restarted) ==
  LET tied(a, b) == a.impact = b.impact /\ a.callsDelta = b.callsDelta
      busier(a, b) ==
        \/ a.impact > b.impact
        \/ a.impact = b.impact /\ a.callsDelta > b.callsDelta
        \/ tied(a, b) /\ a.calls > b.calls
        \/ tied(a, b) /\ a.calls = b.calls /\ a.command < b.command
      rows == SetToSortSeq({CommandRow(table, previous, restarted, c) : c \in DOMAIN table},
                           busier)
  IN  SubSeq(rows, 1, Min({MaxCommands, Len(rows)}))

\* Ids restart with the server.
Threshold(run) ==
  IF redisState.lastRunId # None /\ redisState.lastRunId # run
  THEN -1 ELSE redisState.lastSlowlogId

\* Mutation: the entries of this scrape do not raise the mark.
SelectWithoutMark(ids, run) ==
  LET fresh == {id \in ids : id > Threshold(run)}
      rank(id) == Cardinality({j \in fresh : j > id})
  IN  [entries |-> {id \in fresh : rank(id) < MaxSlowlogPerScrape},
       highestId |-> Threshold(run)]

\* The newest entries that were not shipped; older ones over the limit never are.
SelectNewSlowlogEntries(ids, run) ==
  LET fresh == {id \in ids : id > Threshold(run)}
      rank(id) == Cardinality({j \in fresh : j > id})
      chosen == {id \in fresh : rank(id) < MaxSlowlogPerScrape}
  IN  [entries |-> chosen, highestId |-> Max({Threshold(run)} \cup chosen)]

-----------------------------------------------------------------------------
(* A scrape *)

\* Whether the interval has passed; timers fire a little late or early, so that
\* a whole interval may fall short.
Due(at, last, interval) ==
  IF last = None THEN {TRUE} ELSE {at - last >= interval, at - last > interval}

\* The collector reads its throttle clock, and finds redis-cli or gives up.
StartScrape ==
  /\ now < MaxTicks
  /\ redisScrape = Idle
  /\ now' = now + 1
  /\ \/ \E due \in Due(now', redisState.lastCommandsAt, CommandsInterval) :
          redisScrape' = [pc |-> "info", commands |-> due]
     \/ UNCHANGED redisScrape
  /\ UNCHANGED <<redisServer, redisState, redisSent, historyVars>>

ReadInfo ==
  /\ redisScrape.pc = "info"
  /\ redisScrape' =
       [pc |-> "commandstats", commands |-> redisScrape.commands, run |-> redisServer.run]
  /\ UNCHANGED <<now, redisServer, redisState, redisSent, historyVars>>

\* INFO commandstats, or an empty section when the table is not due.
ReadCommandstats ==
  /\ redisScrape.pc = "commandstats"
  /\ \E readable \in BOOLEAN :
       redisScrape' =
         [pc |-> "slowlog", commands |-> redisScrape.commands, run |-> redisScrape.run,
          table |-> ParseCommandstats(redisScrape.commands /\ readable, CommandstatsReply),
          tableRun |-> redisServer.run]
  /\ UNCHANGED <<now, redisServer, redisState, redisSent, historyVars>>

\* Fewer than six sections, or an INFO without a version: the legacy collector
\* is asked instead, and nothing is remembered.
ScrapeFails ==
  /\ redisScrape # Idle
  /\ redisScrape' = Idle
  /\ UNCHANGED <<now, redisServer, redisState, redisSent, historyVars>>

\* A slow log entry as it is sent, with the run id INFO told; the run it is of is
\* not sent, and is kept as history.
Document(runId, run, id) == [runId |-> runId, run |-> run, id |-> id]

\* previous.commands: the whole table, or the one before it.
Remembered(table) ==
  IF redisScrape.commands THEN table ELSE redisState.previous.commands

\* SLOWLOG GET, the last section that matters, and the rest of collect().
FinishScrape ==
  LET s == redisScrape
      restarted == /\ redisState.previous.known
                   /\ redisState.lastRunId # None
                   /\ redisState.lastRunId # s.run
      previous == IF restarted THEN [known |-> FALSE, commands |-> NoTable]
                               ELSE redisState.previous
  IN  /\ s.pc = "slowlog"
      /\ \E readable \in BOOLEAN :
           LET selection == SelectNewSlowlogEntries(ParseSlowlog(readable, SlowlogReply), s.run)
           IN  /\ redisSent' =
                    [at |-> now, run |-> s.run,
                     commands |-> DeriveCommands(s.table, previous, restarted),
                     slowlog |->
                       {Document(s.run, redisServer.run, id) : id \in selection.entries}]
               /\ redisState' =
                    [lastSlowlogId |-> selection.highestId,
                     lastCommandsAt |-> IF s.commands THEN now ELSE redisState.lastCommandsAt,
                     lastRunId |-> s.run,
                     previous |-> [known |-> TRUE, commands |-> Remembered(s.table)]]
      /\ redisScrape' = Idle
      /\ redisShipped' = redisShipped \cup redisSent.slowlog
      /\ redisTable' =
           IF s.commands THEN [runs |-> {s.run, s.tableRun}, stats |-> s.table] ELSE redisTable
      /\ UNCHANGED <<now, redisServer>>

Init ==
  /\ now = 0
  /\ redisServer = [run |-> 0, stats |-> [c \in Command |-> NoCalls], slow |-> 0]
  /\ redisState = [lastSlowlogId |-> -1, lastCommandsAt |-> None, lastRunId |-> None,
                   previous |-> [known |-> FALSE, commands |-> NoTable]]
  /\ redisScrape = Idle
  /\ redisSent = [at |-> 0, run |-> None, commands |-> << >>, slowlog |-> {}]
  /\ redisShipped = {}
  /\ redisTable = [runs |-> {}, stats |-> NoTable]

Next ==
  \/ \E c \in Command : Call(c)
  \/ ServerRestart
  \/ StartScrape
  \/ ReadInfo
  \/ ReadCommandstats
  \/ ScrapeFails
  \/ FinishScrape

Spec == Init /\ [][Next]_vars

-----------------------------------------------------------------------------
(* Properties *)

Run == 0 .. MaxRestarts

Documents == [runId : Run, run : Run, id : 0 .. MaxCalls * Cardinality(Command)]

Stats == [calls : 0 .. MaxCalls, usec : Nat]

\* The mark, the previous table and the scrape under way are what the code stores.
TypeOK ==
  /\ now \in 0 .. MaxTicks
  /\ redisServer.run \in Run /\ redisServer.slow \in Nat
  /\ DOMAIN redisServer.stats = Command
  /\ \A c \in Command : redisServer.stats[c] \in Stats
  /\ redisState.lastSlowlogId \in Int
  /\ redisState.lastCommandsAt \in {None} \cup 1 .. MaxTicks
  /\ redisState.lastRunId \in {None} \cup Run
  /\ redisState.previous.known \in BOOLEAN
  /\ DOMAIN redisState.previous.commands \subseteq Command
  /\ redisScrape.pc \in {"idle", "info", "commandstats", "slowlog"}
  /\ redisSent.slowlog \subseteq Documents
  /\ redisShipped \subseteq Documents

\* The pair (run id, slow log id), which is the document's id downstream, is never
\* given twice, and an entry is sent again only when its first document had the run
\* id of an earlier run, which takes a restart between the sections of one session;
\* then it is sent once more, under its own run id.
SlowShippedOnce ==
  /\ \A d \in redisSent.slowlog, e \in redisShipped : ~(d.runId = e.runId /\ d.id = e.id)
  /\ \A d \in redisSent.slowlog, e \in redisShipped :
       d.run = e.run /\ d.id = e.id => e.runId < e.run /\ d.runId = d.run

\* A payload is made when the time it carries changes.
Finished == redisSent'.at # redisSent.at

\* The table of a payload is cut to the commands that took most time since the
\* table before it was read, with their calls and time in it: the interval is the
\* right one although scrapes in between leave the table out.  Both tables and what
\* INFO said beside them are of one run of the server.  A command that is not in
\* the table before, for it had not been called, counts nothing yet.
ReportsBusiestCommand ==
  Finished /\ redisTable.runs \cup {redisScrape.tableRun} = {redisScrape.run} =>
    LET told == redisSent'.commands
        table == redisScrape.table
        before(c) == IF c \in DOMAIN redisTable.stats THEN redisTable.stats[c] ELSE table[c]
        called(c) == table[c].calls - before(c).calls
        took(c) == table[c].usec - before(c).usec
        kept == {told[i].command : i \in 1 .. Len(told)}
    IN  /\ \A c \in kept, d \in DOMAIN table \ kept : took(c) >= took(d)
        /\ \A i \in 1 .. Len(told) :
             LET c == told[i].command
             IN  told[i].callsDelta = called(c) /\ told[i].usecDelta = took(c)

BusiestCommandReported == [][ReportsBusiestCommand]_vars
=============================================================================
