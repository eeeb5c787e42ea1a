# watchlog-agent: a TLA+ model

This directory specifies the concurrent and failure-prone parts of the Watchlog
agent in TLA+, checks them with TLC on small instances and proves the most
important results for every instance with TLAPS.

    tlc -workers 2 -config OfflineQueue.cfg    OfflineQueue
    tlc -workers 2 -config Uplink.cfg          MCUplink
    tlc -workers 2 -config UplinkLive.cfg      MCUplink
    tlc -workers 2 -config LogTail.cfg         LogTail
    tlc -workers 2 -config LogAgent.cfg        LogAgent
    tlc -workers 2 -config GitlabCollector.cfg GitlabCollector
    tlc -workers 2 -config AgentServices.cfg   AgentServices
    tlapm UplinkProofs.tla                     (and the other *Proofs.tla)

`PROJECT.json` lists the components, runs, mutants, theorems and hazards, and for
every definition the source lines it stands for.

## 1. The system

The agent is one Node.js process on a customer's host.  Timers and file watchers
drive collectors; each produces payloads and hands them to `emitWhenConnected`,
the only way to the Watchlog server.  One thread runs everything, so a callback
is atomic, but every `await`, timer, socket event and system call of another
process is a point where something else may happen.

| Component | State | Operations | Talks to | Modules |
|---|---|---|---|---|
| Offline queue `app/offlineQueue.js` | array of items, running byte total, write timer, `queue.json` | enqueue with eviction, peek, acknowledge, mark failed, write, load, expire | socket layer, disk | ItemStore, OfflineQueue |
| Server connection `app/socketServer.js` | socket, `isSuspended`, suspension timer, flush timer, batches awaiting an answer | connect, disconnect, suspension, `emitWhenConnected`, flush loop | every collector, queue, server | Uplink |
| Log tail reader `app/logTail.js` | inode and offset per file | seek, read, drain | log agent and slow log, files that others write and rotate | LogTail |
| Log agent and normalizer `app/log-agent.js`, `app/normalizer/` | watchers, pending event per file, deduplication keys | change event, reload, group lines, emit | tail reader, socket layer, `log-watchlist.json` | LogAgent |
| GitLab integration | cursor per collector, `seen` table, hashes, state file | tick, five collectors, state save | GitLab API, socket layer | GitlabCollector |
| Dispatch `collectMetrics` in `app/index.js`, legacy collectors | none but what is under way | a collection per minute and integration, fallbacks | collectors | Reporting |
| HTTP API, custom metrics `app/index.js` | custom metrics of the last 10 s | `GET /`, `GET /node`, reset timer | applications on the host, socket layer | CustomMetrics |
| Redis, MySQL, PostgreSQL, MongoDB integrations | previous counters, throttles, slow query cursors per instance | scrape | database servers, socket layer | RedisCollector, MysqlCollector, PostgresCollector, MongoCollector |
| Elasticsearch integration | the same, master, explanations, the request under way | request with retry, scrape, payload | cluster, tail reader | EsClient, EsCollector, EsMetadata, EsPayload, EsRates |
| nginx collector | log buffer, previous status | line, flush, status check | access log, systemctl | NginxAgent |
| Discovery and process history `app/discovery`, `app/state` | `integration.json`, `log-watchlist.json`, history file | scan, detect restarts, merge configuration | command line tool, log agent | ProcessHistory, Discovery |
| Host metrics, entry point, text parsers and sanitizers | none | convert or read once | their callers | none |

### What is hard, and what would be correct

* **Queue.**  Three functions recompute the byte total and two update it in
  place; eviction runs before the push; writes are coalesced, may fail, and may
  be cut off by a crash.  Correct: both limits hold, what is evicted is exactly
  what the limits and priorities demand, memory and disk agree unless a write is
  scheduled, and a restart brings back what was saved.
* **Connection and flush loop.**  Items are queued only while offline, so the
  loop that drains the queue must continue itself through answers, timeouts,
  late answers and reconnects.  Correct: it never stops with a backlog, never
  multiplies on one connection, never drops what the server has not stored; no
  timer outlives the state it was armed in.
* **Tail reader.**  It looks at the file twice, through `statSync` and
  `readSync`, while another process writes, truncates or replaces it.  Correct:
  no line twice (but those of a file that was put in place between the two looks),
  none cut that fits the window, none lost without being counted, never stuck.
* **Log agent.**  One window per change event, a pending event across reads, a
  reload that forgets it, a table of recent messages with a timer per entry.
  Correct: each line in one event, in order; no message muted for ever.
* **GitLab.**  Ticks that overlap the stragglers of a failed one, a cursor that
  moves, a state file that is older than the memory.  Correct: no update is
  skipped by the cursor, none is taken twice, each is handed over in the end.
* **Scrapes.**  Servers restart between and within them, sections fail one by one
  or are read only now and then, and scrapes of MySQL, PostgreSQL and Elasticsearch
  overlap and share what they remember.  Correct: a delta tells what happened
  between the two readings it compares, a slow operation is sent once, a section is
  left out only within its interval, a change of the master is an election that took
  place as long as no answer comes late.
* **A request to Elasticsearch.**  Timer, error, abort, end and retry race for one
  promise.  Correct: it settles once, with what the last try came to.
* **Dispatch.**  A callback may come a minute late, or with an error that starts a
  fallback of its own.  Correct: one collection reports once.
* **Discovery.**  Files of the user are read, merged and rewritten, and the agent
  may be killed between any two steps; several processes share a command.  Correct:
  user settings survive, a warning counts only restarts that took place and
  processes that ran beside one another.
* **Custom metrics, nginx.**  Buffers that are flushed by a limit and by a timer.
  Correct: each sample and each line told once; a status update is a change.

Every such point that a property covers is listed with its line under "hazards" in
`PROJECT.json`; section 6 has those that no property covers, with the reason.

## 2. The modules

    ItemStore      abstract queue: a set of items and its copy on disk
      ^      ^
      |      +---- OfflineQueue   the array of offlineQueue.js, implements ItemStore
      |                           (TLC, and TLAPS in OfflineQueueProofs)
      |
      +---- Uplink                socketServer.js over ItemStore, implements it (TLAPS)
              ^        ^
              |        +---- MCUplink      symmetry for TLC
      UplinkProofs, of ItemStore and Uplink
    LogTail          logTail.js against a writer and a rotation  <- LogTailProofs
    LogAgent         log-agent.js and the normalizer, on what LogTail delivers
                     <- LogAgentProofs
    GitlabCollector  the GitLab integration: ticks, cursor, state file  <- GitlabProofs
    Integrations     collectMetrics and what it calls      <- IntegrationProofs
      RedisCollector  MysqlCollector  PostgresCollector  MongoCollector
      EsClient  EsCollector  EsMetadata  EsRates  EsPayload  Reporting
    AgentServices    composes Integrations with            <- AgentServicesProofs
      ProcessHistory  Discovery  CustomMetrics  NginxAgent
    InductionLemmas  least elements, induction over a set, recursive functions

### ItemStore
What the queue promises its caller.  An item's id stands for its UUID and, since
ids are handed out in order and the code only appends and filters, for its place
in the array; so the array is a set.  Eviction is stated, not computed: what is
kept is the largest set that fits among those that lose a first part of the order
of eviction.  `Restart(expired)` drops the ids up to some bound, since age
follows the order of ids.

### OfflineQueue
`offlineQueue.js` as written: the array, `totalBytes` updated or recomputed where
the code does it, the scan for the worst item with its strict comparison of
millisecond times, the write timer, the write that throws, the file and the
clock.  Payload contents are left out; a size stands for the serialised payload.
The module assumes `OFFLINE_QUEUE_ENABLED`; with it off, the queue is never used.
`filter`, the sum, the scan and the eviction loop are recursive functions on the
number of elements or turns.  `ImplementsItemStore` is the refinement: creation time
and retry count are projected away and the array becomes the set of its items.
`Date.now()` never goes back in the model; where it does, age no longer follows the
order of the array.

### Uplink
`socketServer.js` with one action per handler, timer and call.  `sock` is the
client's state: `starting` before `initSocket` has run, `idle` when nothing will
connect by itself, `connecting`, `connected`.  `flights` holds each
`agent:queued_batch` emit until both its promise is settled and its packet or its
answer is gone; `waiting` is the pending promise with its armed timeout,
`channel` and `reply` are the packet.  A suspension runs `disconnect()`, hence the
`disconnect` handler, before it arms the retry timer, all in one action.  A
payload that is produced on an open socket is sent without acknowledgement
(`EmitDirect`), and may be lost.  Events that are not bufferable wait in closures
(`oneShots`); `MaxOneShots` bounds the model, nothing bounds the code.

Facts about socket.io-client that the model takes as given: it reconnects by
itself after a transport failure, and does not after `io server disconnect`, after
its own `disconnect()`, or after a refused handshake; an acknowledgement does not
arrive over a connection that was closed; `connect()` on an open socket does
nothing.

The heartbeat and the on-demand command registry have no state that matters here
and are left out.

### LogTail
A byte of the file is a newline or the number of its line, which is what the
properties tell apart.  `read()` is two actions: up to `openSync` (`StatFile`,
`StartAtEnd`) and from there on (`ReadNothing`, `SkipLongLine`, `DeliverLines`);
the writer and the rotation act between them.  Inodes are reused.  `RestartAgent`
loses the offsets; `SeekFails` is a file that vanished between the check and the
seek.  A `Delivery` carries, besides what the caller gets, how long the line is in
the file, whether the reader was following when it was begun, and whether the file
was put in place between the two looks (`swapped`).

Nothing is assumed of the writer. The code goes by inode and size alone, so two
things happen that it cannot notice, and the model has both. A file that is
truncated, or replaced with its inode reused, and then grows past the old offset
before the next `read()` is read from the middle: the reader follows the new content
from there on (`FollowFromHere`), and no property speaks of what came before. And a
file that is put in place between `statSync` and `openSync` is read at the old
offset and recorded under the old inode, so that the next `read()` starts it again
from the beginning and delivers the same lines once more. `ReplayedOnlyIfSwapped`
allows that replay and no other.

### LogAgent
The `change` handler is one action: it reads some of the unread lines (a window may
end after any of them, and what is left waits for the next change), groups them as
`normalizeLogLines` does, and sends each event through the table of recent messages.
A line is its kind (what the patterns say of it) and its deduplication key.
`Reload` is a change of `log-watchlist.json`: watchers are closed, the open event is
dropped, offsets and keys are kept.  `events` records what became of every line.
`RecentEvicted` is the fifth of the table that makes room; timers fire in the order
in which they were armed, since all have the same delay.  The reader is not composed
in: LogTail shows that it delivers complete lines in order, and that is all that
`OnChange` uses.  There is no fairness and no liveness: a bounded file falls silent,
and the code promises nothing for lines that wait for a change.

### GitlabCollector
One project and one kind of object with a cursor. A collector is a process: it asks
(`StartTick`), is answered (`Fetched`, `FetchFails`), takes one object after the
other (`TakeItem`, with an `await` between them as for merge requests) and hands
over what is fresh (`Finish`). `EndTick` may come at any time, because `Promise.all`
rejects with the first collector that fails, of this kind or another; the collector
then goes on as a straggler beside that of the next tick. Versions are update times;
`Lag` lets an update become visible late, up to the minute that `getSince` looks
back. `horizon` records how far back a first fetch looked: what is older than that
hour is never asked for, and `Due` exempts it. `held`, in the state file, is history
too: the versions that stragglers had taken, and not handed over, when it was
written; those that they had not handed over either when the agent died are `lost`,
since the file names them as seen. What is fetched fits one page, and the change
hash of `emit.js` is left out: `handed` is the call of it.

### The collectors of databases
`RedisCollector`, `MysqlCollector`, `PostgresCollector` and `MongoCollector` have the
same shape.  The server is a few counters that count and are set back by a restart;
a scrape is two to four actions, cut where the code awaits an answer, so that the
server moves and restarts between its sections; any section may fail.  What a module
keeps of an integration is everything that is carried from one scrape to the next
(`instanceState`): previous counters, restart detection, throttle clocks, high-water
marks and cursors, and what the payload says of them.  One counter stands for those
that the code treats in the same way.  In MySQL and PostgreSQL scrapes overlap (no
time limit ends them before the next tick); in Redis and MongoDB the session is
killed within the minute, so they do not.

* Redis.  A call takes time (`CallTime`), is an entry of the slow log from
  `SlowerThan` on, and commands are ranked by the time they took in the interval,
  which is the code's impact (calls times average time).  A document is named by the
  run id that INFO told and the id of the entry; the model keeps the run it really
  is of beside that, so that an entry that is sent under two names is one entry.
* MySQL.  A restart closes the connections: what a scrape under way has not read
  fails, section by section, and the scrape goes on to the end, reports and stores
  what it has.  `queriesDelta` compares with an entry that a later one of the same
  name replaced by an array, which `Number` makes 0: it is the lifetime value.
* PostgreSQL.  Tables are read through one connection per database, each of which may
  refuse.  A WAL counter that could not be read is stored as 0.  The clock of the
  tables moves in every scrape that was due, whether or not any could be read.  A
  restart while a connection is open ends the agent, since the client has no
  listener for `error`.

### Elasticsearch
Five modules. `EsClient` is one request of `client.js` with its tries: every event
of Node's `http` that may come next, and the settled flag through `JSON.parse`.
`EsCollector` is a scrape as its awaits cut it, against a cluster that restarts its
node, assigns and loses shards: the two clocks of listing and explanations, of any
intervals, and previous counters. `EsMetadata` is the rest of the scrape that is
remembered, the topology and the reference to which a master is compared. In both,
scrapes overlap: a request is tried three times for up to half a minute, so that a
scrape may outlast the ticks after it, and a scrape stores its findings when it gets
there, over those of a later one too. They are two modules because neither reads
what the other keeps. `EsPayload` takes one answer and makes the payload's section
of it, as functions: which indices and shards there is room for and in what part
(`Selected` takes the smaller of two limits largest first, and the rest in the order
of the answer), which shards are explained, watermarks in their layers, statistics
of nodes that may be missing. Its behaviours have one step; what varies is the
answer. `EsRates` compares two readings, of nodes every time and of indices every
few, under everything that sets counters back: restarts, deletions, copies that are
lost, and replicas that are promoted.

### Reporting
`collectMetrics` for one integration, since they share nothing: the collection of
each minute is a process that runs its collector, calls back with a payload or with
an error, and in the latter case runs the fallback, which has callbacks of its own.
Which fallbacks exist, and what they do when the shell or the server is missing, is
taken from the four legacy collectors and `docker.js`.  The lists that are reported
are taken to have no name twice, and a callback does not throw: the one of
`mysql/index.js:893` is called inside the `try` whose `catch` calls it again.

### ProcessHistory and Discovery
`ProcessHistory` is `detectProcesses.js`: a list of processes, of which several may
have one command, and the history by command that each of them is compared with and
then replaces, one after the other.  `procCrowds` counts, as history, the processes that
were listed beside another of their command, each of which may look like a restart.
The history is written in a file of its own and renamed, so that a kill leaves it
whole; one scan runs at a time.

`Discovery` is `autoConfig.js`.  Each file is read in one step and written in two,
since `writeFileSync` truncates before it writes.  `Killed` may come between any two
steps and leaves half a file, which is read as an empty one.  The user saves either
file between the steps, also between the read and the write of a scan, which is then
overwritten; only between the two ends of a write does the user not come.
`WATCHLOG_AUTO_ENABLE_RECOMMENDED_LOGS` is a variable (`discSwitch`) that may change
with a restart.  How a process or service is recognised is left out: what a scan
finds is arbitrary.

### CustomMetrics and NginxAgent
`CustomMetrics` has the table of `app/index.js` with its limit, both routes, the six
methods, and the reset timer against the connection.  `NginxAgent` has the line
handler, both causes of a flush, the two aggregates that are sent, and the status
checks, each of which is two commands whose answers come in any order.

### AgentServices
The fourteen parts share no variable: integrations keep one `instanceState` each,
discovery and the agent's timers meet only in files that the modules contain. An
interleaving of two of them adds no behaviour to either, so a behaviour here is that
of one part, chosen in the initial state, and one set of variables serves all in
turn (`h1` to `h4` are their history variables). The properties are conjunctions
over the parts that promise the same thing: a counter's delta, a slow operation sent
once, a section not left out. Ten parts are composed in `Integrations`, which
`AgentServices` extends by four more; the assumptions on the constants are ASSUMEd
together in `IntegrationsAssumption` and `AgentServicesAssumption`.

## 3. The runs

| Run | Bounds | What it shows |
|---|---|---|
| `offline_queue` | room for 2 items or 3 bytes, sizes 1 and 2, 3 priorities, 3 items, 2 clock ticks, 1 retry | limits, exact eviction, refinement of ItemStore |
| `uplink_safety` | room for 2 items, 3 payloads, batches of 2, 2 batches unsettled, all kinds of trouble | seven safety properties of queue and connection, besides the types |
| `uplink_liveness` | 3 payloads, drops, suspensions, crashes | the backlog drains, the agent comes back |
| `uplink_kicked` | a server that closes the socket | violated: see findings |
| `core_before_advanced` | priorities 1 and 3 | violated: see findings |
| `log_tail` | window of 4 bytes, lines of at most 4 with limit 2, 1 line per read, 3 lines, 1 rotation or truncation, 2 inodes | no replay but of a file that was swapped in, no cut, no silent loss, progress |
| `log_agent` | 4 lines, 2 keys, a table of 1, 1 reload | each line in one event, stacks whole within a read, the table |
| `log_agent_stack` | 3 lines | violated: see findings |
| `gitlab` | 2 objects, 2 collectors at once, times 1 to 3, 2 updates, first window, overlap and lag of 1, a table of 1, 1 crash | no update skipped, none taken twice, each handed over in the end |
| `agent_services` | see below | sixteen properties of the fourteen parts |
| `es_index_rate` | indices read every 2 ticks, 3 ticks | violated: see findings |
| `es_stale_explanations` | 2 shards, 3 events of the cluster, 1 probe that finds explain gone | violated: see findings |

The bounds of `agent_services` are in `AgentServices.cfg`.  Redis: 2 commands of
which one is reported, calls of 2 durations of which the longer is slow, 2 calls of
each, 1 restart, 3 ticks.  MySQL: 2 scrapes at once, 1 statement per run of the
server, 1 restart, 3 ticks.  PostgreSQL: 2 scrapes at once, 1 call, 1 reset or
restart, 2 databases, 2 ticks.  MongoDB: 2 operations in 2 databases, room for one
in the payload, 1 restart, 3 ticks.  Elasticsearch: 2 scrapes at once, 2 events of
the cluster, 1 shard, listed every tick and explained every other, 3 ticks; its
metadata 2 elections and 5 ticks; its rates 2 events and 3 ticks; its requests 2
retries and 3 chunks of which one is too many; its payloads answers of up to 4 rows.
Reporting: 2 minutes, 2 databases.  The history of processes: 3 starts of 2
commands, room for one of them, 1 kill, 3 scans.  Discovery: 2 services, 1 log, 2
edits, 1 kill, either value of the switch.  Custom metrics: 2 names, 3 samples, 2
flushes.  nginx: a buffer of 2, 3 lines, 2 checks at once.  The run has 4.1 million
states.

Why the bounds are enough.  In `offline_queue` both limits can be the tight one, an
eviction may have to remove two items for one, and times tie.  In `uplink_safety`
the queue overflows while a batch is under way, two batches hold the same items (a
timeout, then a late answer), and each kind of trouble can meet each state of the
loop; two unsettled batches are the fewest with which loops can multiply.  Only one
size and two priorities are needed there, as the first run covers eviction.  In
`log_tail` a window holds two lines or less than one, a line is shorter than, equal
to or longer than both limits, and the one rotation can fall between any two steps.
In `log_agent` a key can be evicted, come back and meet its old timer, and a stack
can be cut after its error, after a frame or not at all.  In `gitlab` three times
are the fewest with which a cursor that looks back by one can leave a version behind
(a cursor at 3 asks from 2, so that a version of 1 that was not taken is left), and
two objects the fewest of which one can move the cursor past the other.  In
`agent_services` two slots and three ticks are the fewest with which a scrape can be
overtaken by a later one and a third compare with what it left, or a throttled
section can be due, fail and be due again.  PostgreSQL has two ticks, with which two
scrapes overlap and the second compares with the first; five are what the metadata
need for a first refresh, two that overlap, the earlier of which comes late, and one
more, which counts the change back.  One restart can fall between any two sections;
each cap is smaller than what it cuts; two starts of one command are processes
beside one another or a restart, and a third makes a warning.  Runs whose counters
end (`agent_services`, `log_agent`, `es_index_rate`, `es_stale_explanations`, and
`uplink_kicked`, where the agent does stop) do not check deadlock.

Properties, in words (the modules state each next to its definition):

* `WithinLimits`, `EvictionIsExact`, `BoundedCount`: the running total equals the
  size of the queue after any mix of calls, neither limit is exceeded, and an item
  stays if and only if it fits beside the new one with all that outrank it.
* `UnsavedIsScheduled`, `SavedQueueSurvives`: no change is forgotten by the write
  timer; a restart restores what was saved, less the oldest.
* `FlushArmed`, `LoopsStartAtConnect`, `QueueDrains`: the loop never loses its
  wake-up, never multiplies except by a reconnect, and empties the queue.
* `RemovedOnlyWhenStored`: at least once, up to eviction and crashes.
* `QuietWhenOffline`, `Reconnects`: timers match the state; the agent comes back.
* `ReplayedOnlyIfSwapped`, `OnlyLongLinesAreCut`, `NothingLostSilently`,
  `CatchesUp`: the tail reader.
* `EveryLineOnce`, `TornOnlyBetweenReads`, `KeysExpire`: the log agent.
* `CursorNeverSkips`, `TakenOnce`, `EveryUpdateHanded`: the GitLab collectors.
  `CursorNeverSkips` and `EveryUpdateHanded` except what is `lost`: versions that a
  straggler held when the file was written, and had not handed over at the crash.  The
  file names them as seen, so nothing brings them back.
* `DeltasOfInterval`: what every payload tells as a difference fits the two readings
  it compares, whatever scrapes overlap, fail or are cut by a restart: no more than
  happened between them, and exactly that without a restart.  Payloads whose scrapes
  do not overlap join, so that together they leave nothing out and tell nothing
  twice; the sum over overlapping ones does count twice.  Two numbers that the code
  sends as differences are none and are left out: `queriesDelta` of MySQL, and WAL
  counters of PostgreSQL that the scrape before could not read (section 6).
* `SlowOperationsShippedOnce`: once, except an entry of Redis whose first document
  named an earlier run of the server, because it restarted between `INFO` and
  `SLOWLOG GET` of one session; it is sent once more, under its own run.
* `SectionsNotLeftOut`: MySQL's schema is left out only within the interval since it was
  sent.  PostgreSQL's tables are left out within the interval since they were due in a
  scrape that reported, whether or not any could be read: the property states what
  the code does, and section 4 the comment it contradicts.  A database that denies its
  tables hides no other.
* `BusiestCommandReported`: the commands that are told took the most time between two
  tables, and what is told of them is what they did, as long as both tables are of
  one run of the server.
* `NoInventedElection`: no more changes of the master are counted than there were
  elections, and two for every refresh that comes late (it read the master of an
  earlier term than one that finished before it, and so counts a change there and
  causes another back).  Without late refreshes every change is an election.
* `ExplanationsOfLastListing`: nothing is explained after a listing with all shards
  assigned; and after one in which the explain API is offered, only shards that were
  unassigned in a listing within the explain interval.  For the others see the findings.
* `NothingUrgentCut`: as many indices as are to be chosen by size are the largest;
  unassigned shards are cut at their own limit only.
* `UnknownIsNotZero`: nothing is said of a disk, a watermark, a heap or a latency that
  could not be read; a disk that tells its size but not what is available is left
  out (section 4).
* `EndsWithLastTry`, `OneReportPerCollection`: requests to Elasticsearch, dispatch.
* `WarnedOnlyAfterRestarts`: a warning counts no more than the starts of the command and
  the processes that were listed beside another of it; with one process of a
  command at a time, only restarts.
* `UserSettingsKept`: no scan removes an entry of the user, changes its credentials,
  turns it off, or turns on what needs credentials or says that it was not detected.
  It does turn on an entry that needs no credentials (section 4), and is about files
  that are whole and were not saved between the read and the write of the scan.
* `EverySampleOnce`, `EveryLineToldOnce`, `UpdatesAreChanges`: custom metrics, nginx.
  `UpdatesAreChanges` says that updates follow from one another, not that the status
  told is current: checks answer in any order.

`LoopsStartAtConnect` does not say that there is one loop: a reconnect while an
old batch awaits its timeout does start a second one.  That costs duplicate sends
and nothing else, which is what `RemovedOnlyWhenStored` is for.

Each property has a mutant: a definition marked `Mutation:` in the modules that
changes the one below it the way a plausible bug would, and under which the
property fails.

### Fairness
`uplink_liveness`: timers fire (weak fairness of the flush, timeout, suspension and
startup steps, which Node guarantees as long as it runs) and packets on an open
connection arrive.  The network is given strong fairness of `OnConnect`, as
socket.io-client retries for ever, and the server strong fairness of storing a batch
completely, as nothing in the agent can make progress against a server that
never does: `retryCount` is counted and never consulted.  `QueueDrains` is about a
connection that stays up in the end.  `log_tail`: the caller comes back (slow log:
a timer; log agent: change events while the file changes).  `gitlab`: the
interval timer fires, a request ends within its 15 s timeout, and GitLab answers now
and then.  The scrapes of `agent_services` promise nothing that must happen: a
failed one is simply given up until the next minute.

## 4. Findings

1. `uplink_kicked`.  The `disconnect` handler logs "will reconnect automatically"
   for every reason.  After a disconnect by the server, socket.io-client waits for
   `connect()`, and the handler makes no such call: the agent stays offline.
2. `core_before_advanced`.  The comment on `PRIORITY` promises that advanced
   payloads are evicted before core host metrics.  Eviction never looks at the
   newcomer's priority: in a queue full of core metrics an advanced payload evicts
   the oldest of them.
3. `log_agent_stack`.  The normalizer emits an open event at the end of a read once
   it has one frame, for "it arrived complete in this batch".  A read ends wherever
   the writer was when chokidar reported the change: the rest of the stack becomes
   one plain event per line.
4. `es_index_rate`.  The comment on the interval of a scrape says that "a delayed
   tick would otherwise inflate every rate".  Indices are read every five minutes and
   compared with the reading before (which is retained meanwhile), but their deltas
   are divided by the time since the last scrape, one minute: every rate of an index
   comes out about five times too large.
5. `es_stale_explanations`.  The code drops cached explanations "rather than showing
   an explanation for a shard that has since been allocated", but only when no shard
   at all is unassigned.  When a later probe no longer finds the explain API while
   some shard is unassigned, the old explanations stay, those of shards that have been
   allocated meanwhile too.

Further disagreements between the code and what its comments say.  They have no run of
their own; the models do what the code does, and the properties are stated so as to
except exactly this.

* `discovery/autoConfig.js:44`: "never touch user credentials or monitor flag",
  `:20`: "without overwriting user settings", and `:64`: "Only applies when monitor
  is still false AND the entry was auto-detected (not manually configured)". An
  entry that the user wrote lacks `autoDetected`, lines 46-48 set it, and lines
  65-68 then turn its `monitor: false` into true if the service needs no credentials
  (`Merged`, `UserSettingsKept`). `:28`: "never enabled by default, just detected";
  a new entry has `monitor: true` when its state is `enabled` (line 31).
* `integrations/elasticsearch/parsers.js:12`: "an unknown value is `null`, never
  `0`". The available bytes of a disk that tells only its size are 0 (lines
  436-448), so that the disk is full and above every watermark (lines 1213-1226)
  (`EvaluateWatermark`, `UnknownIsNotZero`).
* `integrations/elasticsearch/index.js:1434`: "Master identity changes are only
  reported when both the old and the new master were actually observed". Both were,
  but not in the order of the elections: a scrape that is overtaken stores the
  master it read earlier, and this change and the one back are counted
  (`RefreshMetadata`, `NoInventedElection`).
* `integrations/postgresql/index.js:793`: "Only advance the throttle clock on a
  scrape that actually collected."  `collected.storage` only says that the tables
  were due; the clock moves when none could be read too (`FinishScrape`,
  `TablesOnlySkippedWhenDue`).
* `integrations/redis/index.js:367`: "identity is (run_id, slowlog id) — that pair
  is what makes the downstream Elasticsearch document id deterministic and therefore
  duplicate-proof."  A restart between `INFO` and `SLOWLOG GET` of one session files
  entries under the earlier run id, and the next scrape again under their own
  (`FinishScrape`, `SlowOperationsShippedOnce`).
* `integrations/elasticsearch/index.js:1126`: "Unassigned shards are always kept in
  full up to the cap". They are, and beyond it they are cut in the order of the
  listing, so that primaries may be cut while replicas stay (`CollectShards`).

## 5. The proofs

The theorems hold for every value of the constants that the modules' assumptions
allow: limits are natural numbers, the batch size and the item limit are positive,
sets of inodes and files are not empty, intervals are natural numbers (of any size
beside one another), and for the cursor of GitLab no update becomes visible later
than the overlap reaches (`Lag <= Overlap`).

`InductionLemmas` has what several of them rest on: a bounded set of integers has a
least and a greatest element, a set of naturals that has zero and every successor
has them all, a function defined by recursion on a natural number exists and obeys
its equation, two such functions agree as far as their steps do, an array without
one of its elements has the others in their order, and maps with some of the keys
are functions. Induction is stated over a set, not over a formula, which the prover
could not instantiate.

### Queue and connection

`UplinkProofs` first proves for every size of queue and every environment that the
store keeps its types, its item limit (`StoreBounded`, over `EvictionLeavesRoom`),
schedules what it has not saved, and survives restarts.  It then shows that every
step of `Uplink` is a step of the store or leaves it alone
(`UplinkImplementsStore`), so that those results carry over to the agent, and then:

* `UplinkTyping` (`TypeOK` is inductive by itself).
* `UplinkQuiet`: inductive given the types; the conjunct on `suspendedTimer` is
  needed for the one on `isSuspended`, since the retry timer is what leads a
  suspended agent to connect.
* `UplinkFlushArmed`: the invariant is `TypeOK /\ QuietWhenOffline /\ FlushArmed`.
  Every step that ends a promise runs `ScheduledAfter`, and `QuietWhenOffline` is
  what makes its guard true on an open connection (a connected agent is not
  suspended).
* `UplinkRemovedOnlyWhenStored` rests on `RepliesAreStored`: an answer, however
  late, names only what the server has stored.
* `UplinkLoopsStartAtConnect` counts promises, so it first shows that the set of
  unsettled batches stays finite.  A settled promise is one less, and at most one
  timer replaces it.

`OfflineQueueProofs` is about the array under it, for any number of items and calls,
any sizes, priorities and limits:

* `QueueInv` says of the array and of the file that they are `Kept`: ids and creation
  times ascend, none is later than the last id and the clock, and both limits hold;
  and that the running total is the sum of the sizes.  `QueueTyping` and
  `QueueWithinLimits` are parts of it.  The order is what makes the array be told by
  the set of its items: `MeasuredBySet` shows that both have as many bytes and items,
  by induction over the array, so that a part of the items is never larger.
* The loop is followed by induction over its turns (`Evicts`).  `WorstGoesFirst`: the
  scan, with its strict comparison of times that may be equal, finds the item that goes
  first in the order of `ItemStore`.  `Leaves`: what is gone goes before all that stays,
  and did not fit beside what outranks it.
* `QueueEvictionIsExact` and the step of `enqueue` in `QueueImplementsStore` follow,
  since what does not fit does not fit beside more (`OverfullMore`).  A restart drops
  the ids up to the greatest that has expired.

### The tail reader

`LogTailProofs`, for every length of windows, lines, limits and histories:

* `TailInv` is the common part.  `FileInv`: lines are numbered as they are begun, so
  the numbers in the file ascend, and two bytes have the same number if and only if no
  newline lies between (`Ordered`).  `Placed`: the offset lies in the content it
  belongs to, unless it is `Outdated`, of an earlier content.
* `ReplaysAreOfSwappedFiles`: a window starts at the offset and the next offset follows
  its last newline, so `Ordered` makes each delivered number greater than all before.
  Over rotations the invariant says of the file what is still to come: what is read
  from an offset that fits comes after all that was handed over unswapped (`Ahead`, with
  `HandedBefore`), and nothing was handed over yet of a file that was put in place since
  `statSync` (`Fresh`), so that what is swapped is read twice at the most.
* `OnlyLongLinesCut` adds `SkippedWasLong`: an offset lies within a line only if that
  does not fit a window or was begun before the reader followed the content.
* `NothingIsLostSilently` counts: the lines that the offset has passed since the
  reader follows the content, and that were not delivered, are no more than
  `truncatedLines`.  For a window this is a bijection between its newlines and the
  lines that end in it, and the recursive `Ended` is evaluated by induction along the
  window.

### The log agent

`LogAgentProofs`, for every number of lines, keys and reloads, windows that end
anywhere, and every size of the table of recent messages.  The two loops of the
`change` handler are the recursive functions `Grouped` (over the lines of a window) and
the one in `EmitAll` (over the finished events); each is followed by induction along
its batch.

* `LinesInOneEvent`: `AgentInv` adds the types and that the open event ends at the
  offset.  `Follows` says of a list of events that each goes on where the one before it
  ended; the normalizer keeps it, line by line, and so does emitting, event by event.
* `TornWhereReadsEnd`: `TornInv` says it of each event and its next line.  In the
  batch, a group is closed only by a line that is no frame (`GroupsLines`), and the
  last of it only where the window ends.
* `KeysAreDeleted`: the invariant says that the table holds no key twice, and of
  each key in it that the timer armed when it was last emitted is still to come
  (`Armed`).  A timer that fires deletes its key also when it was armed for an earlier
  stay; then there is none in the table that could lack one.

### GitLab

`GitlabProofs`, for any number of objects, collectors at once and crashes:

* `GitlabTypes`: the types.
* `VersionsTakenOnce`: `TakenOnce` is not inductive, since the table decides what is
  accepted; `TakenInv` adds that the table knows everything taken, but for entries
  that were pruned.
* `CursorSkipsNothing`: the invariant `CursorInv` says what the cursor promises at
  each point of a collector: while it waits for an answer, everything due that is
  not taken is at or after the time it asked from; while it takes objects, what is
  not in its answer is within the overlap of whatever it may move the cursor to
  (`Reaches`); an entry of the table stands for something taken (`TableKnows`); and
  the file is as good as the memory, but for the versions it names in `held`
  (`FileReaches`), which is what a restart needs: those of them that were not handed
  over since are lost. `Timely` says that no cursor is ahead of the clock: an update
  that appears late, by at most `Lag <= Overlap`, is then still reached.

### The parts of AgentServices

`IntegrationProofs` has the inductive invariants of those parts of `Integrations`
that theorems speak of, each over the variables of its part; `AgentServicesProofs`
shows that a step of the composition is a step of the part that runs (`ServiceStays`
and one lemma for each part), has the invariants of the other four, and the
theorems. An invariant of the composition is `service = "..." => Inv` for each part
that the property speaks of.

* `SlowShippedAtMostOnce`.  `SlowlogInv` (Redis): the run that a scrape or the state
  knows is never later than the server's (`RunsInOrder`); what was sent is below the
  mark or has the name of an earlier run (`Marked`); and it is named after its own run
  or an earlier one, and is of no later run than `INFO` tells in the scrape under way
  (`Dated`).  So only an entry that was named after an earlier run can be above the mark
  again, and it then gets its own name, which is the last it can have.
  `ProfilerInv` (MongoDB): every operation sent is at or before the cursor, and the
  cursor that a scrape reads from is still the one of the state.
* `SectionsReadWhenDue`.  `SchemaInv` (MySQL), `StorageInv` (PostgreSQL): the clock of
  the section is never ahead of what was sent, though a scrape that was overtaken may
  set it back.  `ReachInv` (PostgreSQL): a database leaves the list of a scrape only
  when it was asked.
* `PayloadsJoinReadings`, the part of `DeltasOfInterval` about MySQL and PostgreSQL.
  `MysqlDeltaInv` and `PgDeltaInv` say of a reading and an earlier one that it
  `Follows`: the counter has grown by what was done between them, or there was a
  restart and it has grown by no more.  All readings that a scrape may still compare
  are in this order (`Ordered`), what was sent fits (`SentFits`), and without overlaps
  what is remembered is what was told (`Alone`).
* `CollectionsReportOnce`.  `ReportsInv`: no collection that is under way has reported,
  so that what it reports at its end is all of its minute's reports, wherever those of
  other minutes stand (`OthersStay`, `EndIsFine`); each way to end reports something
  that is in order by itself (`Fine`), and what a SQL fallback reads is whole and apart
  from the databases that are left (`ReadsOnce`).
* `RequestEndsWithLastTry`: `TriesInv` follows the tries (all but the last were worth
  another).
* `ElectionsAreReal`.  `MasterInv` has a function from terms to masters: every master
  that a scrape, the cache or the server knows was elected for the term it bears
  (`AllElected`).  `ChangesAreTerms`: there are no more changes than the newest term
  observed and two for each late refresh, and one fewer while the remembered
  master is not the newest, since the change back is still to come.
* `ExplanationsAreCurrent`.  `ExplainInv`: what a scrape or the state has as explained
  was unassigned in a listing that started no earlier than the scrape which asked, for
  explanations and listings at any interval.
* `NodeDeltasFit`, the part of `DeltasOfInterval` about a node of Elasticsearch:
  `EsDeltaInv`, like `MysqlDeltaInv`.
* `UpdatesFollow`: the last update told is the status that the next is compared with,
  unless that was reset, for any number of overlapping checks.
* `LinesToldOnce`. `LinesInv`: the log is what the flushes told, one after the
  other, and then the buffer, and each flush is what `FlushOf` makes of a buffer.
  What was told is a recursion over the flushes, whose step is followed when one is
  added (`ToldOneMore`); that the counts of a flush add up to its lines is a
  partition of their indices (`TotalsAddUp`).
* `SamplesCountedOnce`.  `SamplesInv`: the records are of the metrics that have samples,
  and each tells of its own (`Tells`), which a sample more, of either kind, and a first
  one preserve; the sum is a recursion that starts at the last distribution.  The set
  that `CountOf` counts grows by one element with each sample.
* `ScansKeepSettings`.  `SettingsInv`: what a scan is about to write was made from the
  file as it read it, and keeps what that said (`EntriesKept`, `LogsKept`); so it keeps
  what the file says as long as the user has not saved it since.

### What stays with TLC

The liveness properties (`QueueDrains`, `Reconnects`, `CatchesUp`,
`EveryUpdateHanded`), since the prover has no rule for fairness or ENABLED.
In `AgentServices`:

* `DeltasOfInterval` for MongoDB and `EsRates`, which add up over sets with folds, and
  `BusiestCommandReported`, `NothingUrgentCut` and `UnknownIsNotZero`, which are about
  sorted and filtered sequences (`SetToSortSeq`, `SelectSeq`, `FlattenSeq`) and about
  `FoldFunction`.  The library defines these by recursion behind operators that are
  parameters, of which the prover can only see a name.
* `WarnedOnlyAfterRestarts`, whose bound sums over the scans and the processes of each.
* `TypeOK`, with its exact bounds for all fourteen parts.  The invariants above have the
  types that the proofs need, unbounded where the bound is only TLC's.

`OneReportPerCollection` and `EveryLineToldOnce` are about sequences too, and are stated
with index sets and their cardinalities, which is what makes them provable.

## 6. What is not modelled, and why

* Host metrics read systeminformation and emit one payload; the entry point only
  dispatches.  They keep no state.
* Sanitizers, the patterns that recognise a process, port or log line, and parsers
  that only rename fields convert text and are unit-tested.  What parsers decide (what
  is known, cut or counted) is modelled.
* Sections of a scrape that nothing remembers: they are read and sent.
* `drain()` and `slowlog.js`; `forget()` and `reset()` of the tail reader, which no
  caller uses; a second scan at the same time (the command line's); GitLab's runners
  (stateless), its pages (what was updated since the cursor fits one) and change
  hash; the trace, error and OTLP routes, which hand a request on.

Observations made while modelling, for which no line of the repository promises
otherwise and no property is stated:

* `offlineQueue.js:186`: `retryCount` is counted and never consulted; a batch that
  the server always rejects blocks everything behind it.
* `socketServer.js:195`: a bufferable payload in flight when the connection closes is
  lost, although the queue would have kept it.  `:201`: one closure per event that is
  not bufferable, without bound.  `:87`: `initSocket` gives up on any exception.
* `index.js:1009`: custom metrics are bufferable, so an offline agent queues a payload
  every ten seconds, empty ones too.  The record of a distribution keeps the last value
  as its sum while its count goes on.
* `logTail.js:204`: when a later pass of `drain()` fails, `slowlog.js:405` discards the
  lines of the earlier ones.
* `log-agent.js:249`: one window per change event; the rest waits for the next change.
* `gitlab/state.js:50`: the window of an idle project grows by a minute per tick until
  it exceeds the page cap; `api.js:89`: an update between two page requests shifts
  another object past the next page; `utils.js:19`: the array passed to
  `JSON.stringify` lists property names, so that the hash of a batch depends on its
  length alone.
* `redis/index.js:572`: after a restart that a scrape without the table of commands
  notices, the table of the earlier run is kept and the next delta compares two runs.
* `mysql/index.js:853` and `:890`: `queries` appears twice in what is remembered, the
  second time as an array, which `Number` (109-114) makes 0: `queriesDelta` is the
  lifetime value in every payload.  `:893`: the callback is called inside the `try`
  whose `catch` calls it again.
* `postgresql/index.js:801`: WAL and checkpoint counters that were not read are stored
  as zero; the next scrape reports their lifetime value as a delta.  The client has no
  listener for `error`: a connection that is lost between statements ends the agent.
* MySQL, PostgreSQL and Elasticsearch: of scrapes that overlap each compares with what
  it found when it began and the last one to finish is remembered, so that payloads
  together tell some of the work twice.
* `mongodb`: when `listDatabases` fails, an empty storage section is sent and the
  throttle clock advances.  A slow operation in the cursor's millisecond, or cut by
  the limit, is never sent.
* `elasticsearch`: an index that misses one detailed reading loses what it is compared
  with; deleting over half of its documents looks like a reset and suppresses its
  deltas; an oversized body is aborted by `res.destroy()`, which reads as a transient
  failure and is tried again.
* Legacy collectors: `redis.js` treats any output on stderr as a failure, which
  `redis-cli` always makes when given a password; the callback of `mongo.js` is called
  up to three times, or never without a shell; the SQL ones report also when the
  server cannot be reached.
* `nginx.js:152`: a check that finds no systemctl resets the status with which checks
  under way compare.
* `discovery/detectProcesses.js:197`: history is keyed by command line, so that two
  processes with the same command look like restarts, and the runtimes that warnings are
  limited to (`:186`) are those that run several workers; two scans at once, which
  are not modelled, count twice.
* `discovery/autoConfig.js`: what the user saves between the read and the write of a
  scan is lost, and a file that a kill left truncated is taken for an empty one.
* `logTail.js:97`: a file that is put in place between `statSync` and `openSync` is read
  in part and then once more; content that outgrows an outdated offset is followed
  from its middle.

### The plan

Left, in this order: `drain()` and the slow log reader over `LogTail`; pages and the
change hash of `GitlabCollector`; a second scan in `Discovery`. Proofs to add: the
types of all parts of `AgentServices`, and the deltas of MongoDB and `EsRates` once
their sums are recursive functions.
