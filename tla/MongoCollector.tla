--------------------------- MODULE MongoCollector ---------------------------
(***************************************************************************)
(* app/integrations/mongodb: one MongoDB server, scraped on every tick of  *)
(* collectMetrics by one script in mongosh.  The script reads the server's *)
(* status, the databases' sizes and then the profiler of one database      *)
(* after the other, while operations go on; it is killed after 45 seconds, *)
(* and ticks are a minute apart, so that scrapes do not overlap.           *)
(*                                                                         *)
(* Every operation is profiled.  It has a database, the tick before which *)
(* it was done as its time, and a duration; the histogram has one bucket   *)
(* for each duration.                                                      *)
(***************************************************************************)
EXTENDS Integers, Sequences, SequencesExt, FiniteSetsExt

CONSTANTS
  Database,         \* the databases, in the order in which they are listed
  Duration,         \* durations of operations
  SlowThreshold,    \* slowQuery.threshold
  MaxSlowQueries,   \* slowQuery.maxPerScrape
  StorageInterval,  \* storageIntervalSeconds, in ticks
  MaxOps,           \* bound: operations
  MaxBoots,         \* bound: restarts of the server
  MaxTicks          \* bound: ticks of collectMetrics

MongoAssumption ==
  /\ Database \subseteq Nat
  /\ Duration \subseteq Nat \ {0}
  /\ {SlowThreshold, StorageInterval, MaxOps, MaxBoots, MaxTicks} \subseteq Nat
  /\ MaxSlowQueries \in Nat \ {0}

None == -1

VARIABLES
  now,          \* ticks of collectMetrics so far
  mongoServer,  \* MongoDB
  mongoState,   \* instanceState(id)
  mongoScrape,  \* the scrape under way
  mongoSent,    \* the last payload
  mongoShipped, \* history: the operations in the slow queries sent before it
  mongoSpan     \* history: the operations that precede the last two payloads

historyVars == <<mongoShipped, mongoSpan>>
vars == <<now, mongoServer, mongoState, mongoScrape, mongoSent, historyVars>>

Idle == [pc |-> "idle"]

-----------------------------------------------------------------------------
(* MongoDB *)

Operate(db, millis) ==
  /\ Len(mongoServer.profile) < MaxOps
  /\ mongoServer' = [mongoServer EXCEPT
       !.profile = Append(@, [db |-> db, ts |-> now, millis |-> millis]),
       !.histogram[millis] = @ + 1]
  /\ UNCHANGED <<now, mongoState, mongoScrape, mongoSent, historyVars>>

\* The counters are gone, the profiler's collection is not.
ServerRestart ==
  /\ mongoServer.boots < MaxBoots
  /\ mongoServer' = [mongoServer EXCEPT !.boots = @ + 1,
                                        !.histogram = [d \in Duration |-> 0]]
  /\ UNCHANGED <<now, mongoState, mongoScrape, mongoSent, historyVars>>

-----------------------------------------------------------------------------
(* Latency *)

\* opLatencies: how many operations there were, how long they took in all.
Ops(histogram) == FoldSet(LAMBDA d, total : total + histogram[d], 0, Duration)

Latency(histogram) == FoldSet(LAMBDA d, total : total + d * histogram[d], 0, Duration)

\* Mutation: a bucket that has not grown counts as well.
HistogramMaxSinceBoot(current, previous) == Max({0} \cup {d \in Duration : current[d] > 0})

\* The longest bucket that grew; all of them without a previous sample.
DeriveHistogramMax(current, previous) ==
  Max({0} \cup {d \in Duration : current[d] > IF previous = << >> THEN 0 ELSE previous[d]})

\* Nothing without a previous sample, or when a counter went back.
DeriveLatency(current, previous) ==
  LET known == /\ previous # << >>
               /\ Latency(current) >= Latency(previous)
               /\ Ops(current) >= Ops(previous)
  IN  [latency |-> IF known THEN Latency(current) - Latency(previous) ELSE 0,
       count |-> IF known THEN Ops(current) - Ops(previous) ELSE 0,
       max |-> DeriveHistogramMax(current, previous)]

-----------------------------------------------------------------------------
(* A scrape *)

Due(at, last, interval) == last = None \/ at - last >= interval

\* The state of an instance is created at its first scrape; the cursor starts a
\* minute before.  Then mongosh is looked for.
StartScrape ==
  LET cursor == IF mongoState.cursor = None THEN now ELSE mongoState.cursor
  IN  /\ now < MaxTicks
      /\ mongoScrape = Idle
      /\ now' = now + 1
      /\ mongoState' = [mongoState EXCEPT !.cursor = cursor]
      /\ \/ mongoScrape' =
              [pc |-> "status", since |-> cursor,
               storage |-> Due(now', mongoState.lastStorageAt, StorageInterval)]
         \/ UNCHANGED mongoScrape
      /\ UNCHANGED <<mongoServer, mongoSent, historyVars>>

\* mongosh fails, is killed, or cannot read the status of the server: nothing is
\* remembered, and the legacy collector is asked instead.
ScrapeFails ==
  /\ mongoScrape # Idle
  /\ mongoScrape' = Idle
  /\ UNCHANGED <<now, mongoServer, mongoState, mongoSent, historyVars>>

\* serverStatus, the databases (of which none is known if that fails), and their
\* sizes, of which nothing is remembered but that they were asked for.
ReadStatus ==
  /\ mongoScrape.pc = "status"
  /\ \E listed \in {Database, {}} :
       mongoScrape' =
         [pc |-> "profiles", since |-> mongoScrape.since, storage |-> mongoScrape.storage,
          histogram |-> mongoServer.histogram, boots |-> mongoServer.boots,
          seen |-> Len(mongoServer.profile), todo |-> listed, found |-> {}]
  /\ UNCHANGED <<now, mongoServer, mongoState, mongoSent, historyVars>>

\* The k members of S that rank highest, ties broken in any way.
Highest(S, k, rank) ==
  {T \in kSubset(Min({k, Cardinality(S)}), S) : \A i \in T, j \in S \ T : rank[i] >= rank[j]}

\* Mutation: what has the time of the cursor is read again.
MatchedAtCursor(db, since) ==
  {i \in DOMAIN mongoServer.profile :
     LET op == mongoServer.profile[i]
     IN  op.db = db /\ op.ts >= since /\ op.millis >= SlowThreshold}

\* The slow operations of a database since the cursor.
Matched(db, since) ==
  {i \in DOMAIN mongoServer.profile :
     LET op == mongoServer.profile[i]
     IN  op.db = db /\ op.ts > since /\ op.millis >= SlowThreshold}

\* The newest of them, or none if profiling is off or cannot be read.
ReadProfile ==
  LET s == mongoScrape
      db == Min(s.todo)
      ts == [i \in DOMAIN mongoServer.profile |-> mongoServer.profile[i].ts]
  IN  /\ s.pc = "profiles"
      /\ s.todo # {}
      /\ \E docs \in {{}} \cup Highest(Matched(db, s.since), MaxSlowQueries, ts) :
           mongoScrape' = [s EXCEPT !.todo = @ \ {db}, !.found = @ \cup docs]
      /\ UNCHANGED <<now, mongoServer, mongoState, mongoSent, historyVars>>

\* The cursor moves past the newest document that is shipped, or to a minute ago.
NextCursor(shipped, cursor, at) ==
  Max({cursor} \cup
      IF shipped = {} THEN {at - 1} ELSE {mongoServer.profile[i].ts : i \in shipped})

\* What mongosh printed is made into the payload, and remembered.
Finish ==
  LET s == mongoScrape
      millis == [i \in DOMAIN mongoServer.profile |-> mongoServer.profile[i].millis]
  IN  /\ s.pc = "profiles"
      /\ s.todo = {}
      /\ \E shipped \in Highest(s.found, MaxSlowQueries, millis) :
           /\ mongoState' =
                [cursor |-> NextCursor(shipped, mongoState.cursor, now),
                 lastStorageAt |-> IF s.storage THEN now ELSE mongoState.lastStorageAt,
                 previous |-> s.histogram]
           /\ mongoSent' = [at |-> now, slowQueries |-> shipped,
                            latency |-> DeriveLatency(s.histogram, mongoState.previous),
                            storage |-> s.storage]
      /\ mongoShipped' = mongoShipped \cup mongoSent.slowQueries
      /\ mongoSpan' = [before |-> mongoSpan.last,
                       last |-> [at |-> now, boots |-> s.boots, seen |-> s.seen]]
      /\ mongoScrape' = Idle
      /\ UNCHANGED <<now, mongoServer>>

Init ==
  /\ now = 0
  /\ mongoServer = [boots |-> 0, profile |-> << >>,
                    histogram |-> [d \in Duration |-> 0]]
  /\ mongoState = [cursor |-> None, lastStorageAt |-> None, previous |-> << >>]
  /\ mongoScrape = Idle
  /\ mongoSent = [at |-> 0, slowQueries |-> {}, latency |-> [latency |-> 0, count |-> 0, max |-> 0],
                  storage |-> FALSE]
  /\ mongoShipped = {}
  /\ mongoSpan = [before |-> [at |-> 0, boots |-> 0, seen |-> 0],
                  last |-> [at |-> 0, boots |-> 0, seen |-> 0]]

Next ==
  \/ \E db \in Database, millis \in Duration : Operate(db, millis)
  \/ ServerRestart
  \/ StartScrape
  \/ ScrapeFails
  \/ ReadStatus
  \/ ReadProfile
  \/ Finish

Spec == Init /\ [][Next]_vars

-----------------------------------------------------------------------------
(* Properties *)

\* The cursor is a time of the clock, what is shipped was profiled.
TypeOK ==
  /\ now \in 0 .. MaxTicks
  /\ mongoServer.boots \in 0 .. MaxBoots
  /\ mongoState.cursor \in {None} \cup 0 .. MaxTicks
  /\ mongoScrape.pc \in {"idle", "status", "profiles"}
  /\ mongoSent.slowQueries \cup mongoShipped \subseteq DOMAIN mongoServer.profile

\* "so slow queries are never shipped twice": not one of those that are profiled
\* while databases are read one after the other, that share the time of the cursor,
\* that are cut from a payload or whose scrape fails.
SlowShippedOnce == mongoSent.slowQueries \cap mongoShipped = {}

\* The latency of a payload is that of the operations between the status it was made
\* from and the one before it, whatever scrapes failed in between, unless the server
\* was restarted: how many there were, how long they took, and the longest of them.
LatencyOfInterval ==
  LET b == mongoSpan.before
      l == mongoSpan.last
      millis == [i \in b.seen + 1 .. l.seen |-> mongoServer.profile[i].millis]
  IN  (b.at > 0 /\ b.boots = l.boots) =>
        mongoSent.latency = [count |-> l.seen - b.seen,
                             latency |-> FoldFunction(LAMBDA d, t : d + t, 0, millis),
                             max |-> Max({0} \cup Range(millis))]
=============================================================================
