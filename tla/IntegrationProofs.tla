------------------------- MODULE IntegrationProofs -------------------------
(***************************************************************************)
(* What the collectors of Integrations keep, for every value of the        *)
(* constants: any number of scrapes, restarts and samples, any overlap and *)
(* any limits.  And what is kept on both sides of the collectors: by the   *)
(* collections that call them every minute, and by the client that asks    *)
(* Elasticsearch.                                                          *)
(*                                                                         *)
(* Each part has its inductive invariant, the lemmas that it holds at the  *)
(* start and that the steps of the part keep it, and what it implies.      *)
(* AgentServicesProofs carries the invariants to the behaviours of         *)
(* AgentServices, where the theorems are.                                  *)
(***************************************************************************)
EXTENDS Integrations, InductionLemmas, FiniteSetTheorems

-----------------------------------------------------------------------------
(* RedisCollector: the slow log *)

\* The run that a scrape has read is one between the last that was remembered and the
\* server's; INFO and SLOWLOG GET may be of different ones.
RunsInOrder ==
  /\ server.run \in Nat /\ server.slow \in Int
  /\ state.lastRunId \in Nat \cup {Redis!None} /\ state.lastSlowlogId \in Int
  /\ state.lastRunId <= server.run
  /\ \/ scrape = Redis!Idle
     \/ scrape.pc = "info"
     \/ /\ scrape.pc \in {"commandstats", "slowlog"}
        /\ scrape.run \in Nat
        /\ state.lastRunId <= scrape.run /\ scrape.run <= server.run

\* Below the mark, or told with the run id of an earlier run.
Marked(d) ==
  /\ d.runId <= state.lastRunId
  /\ d.runId = state.lastRunId => d.id <= state.lastSlowlogId

\* Told with the run id of its run or of an earlier one, and of no later run than the
\* one INFO tells of in the scrape under way.
Dated(d) ==
  /\ d.runId <= d.run /\ d.run <= server.run
  /\ scrape.pc \in {"commandstats", "slowlog"} => d.run <= scrape.run

AnyDocument == [runId : Nat, run : Nat, id : Int]

\* What was sent is below the mark, so that what is above it was not sent.
SlowlogInv ==
  /\ RunsInOrder
  /\ sent.slowlog \cup h1 \subseteq AnyDocument
  /\ \A d \in sent.slowlog \cup h1 : Marked(d) /\ Dated(d)
  /\ Redis!SlowShippedOnce

\* The mark is at least the one before it and every id that is sent.
LEMMA MarkCovers ==
  ASSUME NEW run \in Nat, NEW ids \in SUBSET Int, NEW top \in Int, \A id \in ids : id <= top,
         Redis!Threshold(run) \in Int
  PROVE  LET selection == Redis!SelectNewSlowlogEntries(ids, run)
         IN  /\ selection.highestId \in Int
             /\ Redis!Threshold(run) <= selection.highestId
             /\ selection.entries \in SUBSET Int
             /\ \A id \in selection.entries :
                  Redis!Threshold(run) < id /\ id <= selection.highestId
<1> DEFINE fresh == {id \in ids : id > Redis!Threshold(run)}
           rank(id) == Redis!Cardinality({j \in fresh : j > id})
           chosen == {id \in fresh : rank(id) < MaxSlowlogPerScrape}
           S == {Redis!Threshold(run)} \cup chosen
<1>1. /\ chosen \in SUBSET Int
      /\ \A id \in chosen : Redis!Threshold(run) < id /\ id <= top
  OBVIOUS
<1>2. Redis!SelectNewSlowlogEntries(ids, run) = [entries |-> chosen, highestId |-> Redis!Max(S)]
  BY DEF Redis!SelectNewSlowlogEntries
<1>. HIDE DEF chosen
<1>3. PICK b \in Int : b = IF Redis!Threshold(run) <= top THEN top ELSE Redis!Threshold(run)
  OBVIOUS
<1>4. S \in SUBSET Int /\ S # {} /\ \A x \in S : x <= b
  <2>1. ASSUME NEW x \in S PROVE x \in Int /\ x <= b
    <3>1. x = Redis!Threshold(run) \/ (x \in Int /\ x <= top)
      BY <1>1
    <3>. QED
      BY <1>3, <3>1
  <2>. QED
    BY <2>1
<1>5. \E m \in S : \A x \in S : x <= m
  <2>. HIDE DEF S
  <2>. QED
    BY <1>4, GreatestElement
<1>6. \E m \in S : \A x \in S : m >= x
  BY <1>4, <1>5
<1>7. Redis!Max(S) \in S /\ \A x \in S : Redis!Max(S) >= x
  BY <1>6 DEF Redis!Max
<1>8. /\ Redis!Max(S) \in Int /\ Redis!Threshold(run) <= Redis!Max(S)
      /\ \A id \in chosen : id <= Redis!Max(S)
  <2>1. Redis!Threshold(run) \in S /\ chosen \subseteq S
    OBVIOUS
  <2>. HIDE DEF S
  <2>. QED
    BY <1>1, <1>4, <1>7, <2>1
<1>. HIDE DEF S
<1>9. /\ Redis!SelectNewSlowlogEntries(ids, run).entries = chosen
      /\ Redis!SelectNewSlowlogEntries(ids, run).highestId = Redis!Max(S)
  BY <1>2
<1>. QED
  BY <1>1, <1>8, <1>9

\* Nothing has been sent when the agent starts.
LEMMA SlowlogInit == Redis!Init => SlowlogInv
  BY DEF Redis!Init, SlowlogInv, RunsInOrder, Marked, Dated, Redis!SlowShippedOnce,
     Redis!None, Redis!Idle

\* The end of a scrape sends what is above the mark of its run and raises it.
LEMMA FinishKeepsMark ==
  ASSUME SlowlogInv, Redis!FinishScrape
  PROVE  SlowlogInv'
<1> DEFINE run == scrape.run
<1>1. /\ scrape.pc = "slowlog" /\ run \in Nat
      /\ state.lastRunId <= run /\ run <= server.run
  BY DEF SlowlogInv, RunsInOrder, Redis!FinishScrape, Redis!Idle
<1>2. PICK readable \in BOOLEAN :
        LET selection == Redis!SelectNewSlowlogEntries(Redis!ParseSlowlog(readable,
        Redis!SlowlogReply), run)
        IN  /\ sent'.slowlog =
                 {Redis!Document(run, server.run, id) : id \in selection.entries}
            /\ state'.lastSlowlogId = selection.highestId
            /\ state'.lastRunId = run
  BY DEF Redis!FinishScrape
<1> DEFINE ids == Redis!ParseSlowlog(readable, Redis!SlowlogReply)
           selection == Redis!SelectNewSlowlogEntries(ids, run)
<1>3. /\ h1' = h1 \cup sent.slowlog
      /\ scrape' = Redis!Idle
      /\ UNCHANGED server
  BY DEF Redis!FinishScrape
<1>4. /\ server.slow \in Int /\ server.run \in Nat
      /\ state.lastSlowlogId \in Int /\ state.lastRunId \in Nat \cup {Redis!None}
  BY DEF SlowlogInv, RunsInOrder
<1>5. ids \in SUBSET Int /\ \A id \in ids : id <= server.slow
  <2>1. Redis!SlowlogReply \in SUBSET Int /\ \A id \in Redis!SlowlogReply : id <= server.slow
    BY <1>4 DEF Redis!SlowlogReply
  <2>. QED
    BY <2>1 DEF Redis!ParseSlowlog
<1>6. /\ Redis!Threshold(run) \in Int
      /\ state.lastRunId = run => Redis!Threshold(run) = state.lastSlowlogId
  BY <1>1, <1>4 DEF Redis!Threshold, Redis!None
<1>. HIDE DEF ids
<1>7. /\ selection.highestId \in Int
      /\ Redis!Threshold(run) <= selection.highestId
      /\ selection.entries \in SUBSET Int
      /\ \A id \in selection.entries : Redis!Threshold(run) < id /\ id <= selection.highestId
  <2>. HIDE DEF run
  <2>. QED
    BY <1>1, <1>4, <1>5, <1>6, MarkCovers
<1>8. /\ sent'.slowlog = {Redis!Document(run, server.run, id) : id \in selection.entries}
      /\ state'.lastSlowlogId = selection.highestId
      /\ state'.lastRunId = run
  BY <1>2 DEF ids
<1>. HIDE DEF selection, run
<1>9. ASSUME NEW d \in sent'.slowlog
      PROVE  /\ d \in AnyDocument /\ d.runId = run /\ d.run = server.run
             /\ Redis!Threshold(run) < d.id /\ d.id <= selection.highestId
  <2>1. PICK id \in selection.entries : d = Redis!Document(run, server.run, id)
    BY <1>8
  <2>2. /\ id \in Int /\ Redis!Threshold(run) < id /\ id <= selection.highestId
    BY <1>7
  <2>. QED
    BY <1>1, <1>4, <2>1, <2>2 DEF Redis!Document, AnyDocument
<1>10. ASSUME NEW d \in h1'
       PROVE  /\ d \in AnyDocument
              /\ d.runId <= run /\ d.runId <= d.run /\ d.run <= run
              /\ d.runId = run => d.id <= Redis!Threshold(run)
  <2>1. d \in AnyDocument /\ Marked(d) /\ Dated(d)
    BY <1>3 DEF SlowlogInv
  <2>2. d.runId \in Nat /\ d.run \in Nat /\ d.id \in Int
    BY <2>1 DEF AnyDocument
  <2>. QED
    BY <1>1, <1>4, <1>6, <2>1, <2>2 DEF Marked, Dated, Redis!None, run
<1>11. Redis!SlowShippedOnce'
  <2>1. ASSUME NEW d \in sent'.slowlog, NEW e \in h1'
        PROVE  /\ ~(d.runId = e.runId /\ d.id = e.id)
               /\ d.run = e.run /\ d.id = e.id => e.runId < e.run /\ d.runId = d.run
    <3>1. d \in AnyDocument /\ e \in AnyDocument
      BY <1>9, <1>10
    <3>2. /\ d.run \in Nat /\ d.runId \in Nat /\ d.id \in Int
          /\ e.run \in Nat /\ e.runId \in Nat /\ e.id \in Int
      BY <3>1 DEF AnyDocument
    <3>3. /\ d.runId = run /\ d.run = server.run /\ Redis!Threshold(run) < d.id
          /\ e.runId <= run /\ e.runId <= e.run /\ e.run <= run
          /\ e.runId = run => e.id <= Redis!Threshold(run)
      BY <1>9, <1>10
    <3>. QED
      BY <1>1, <1>4, <1>6, <3>2, <3>3
  <2>. QED
    BY <2>1 DEF Redis!SlowShippedOnce
<1>12. ASSUME NEW d \in sent'.slowlog \cup h1' PROVE d \in AnyDocument /\ Marked(d)' /\ Dated(d)'
  <2>1. CASE d \in sent'.slowlog
    <3>1. d \in AnyDocument /\ d.runId = run /\ d.run = server.run /\ d.id <= selection.highestId
      BY <1>9, <2>1
    <3>. QED
      BY <1>1, <1>3, <1>4, <1>8, <3>1 DEF Marked, Dated, Redis!Idle
  <2>2. CASE d \in h1'
    <3>1. /\ d \in AnyDocument
          /\ d.runId <= run /\ d.runId <= d.run /\ d.run <= run
          /\ d.runId = run => d.id <= Redis!Threshold(run)
      BY <1>10, <2>2
    <3>2. d.runId \in Nat /\ d.run \in Nat /\ d.id \in Int
      BY <3>1 DEF AnyDocument
    <3>. QED
      BY <1>1, <1>3, <1>4, <1>6, <1>7, <1>8, <3>1, <3>2 DEF Marked, Dated, Redis!Idle
  <2>. QED
    BY <2>1, <2>2
<1>13. RunsInOrder'
  BY <1>1, <1>3, <1>4, <1>7, <1>8 DEF RunsInOrder
<1>. QED
  BY <1>11, <1>12, <1>13 DEF SlowlogInv

\* No other step touches the mark, and a scrape reads the run the server is in.
LEMMA SlowlogStep ==
  ASSUME SlowlogInv, [Redis!Next]_(Redis!vars)
  PROVE  SlowlogInv'
<1>1. CASE Redis!FinishScrape
  BY <1>1, FinishKeepsMark
<1>2. CASE \/ \E c \in Command : Redis!Call(c)
           \/ Redis!ServerRestart \/ Redis!StartScrape \/ Redis!ReadInfo
           \/ Redis!ReadCommandstats \/ Redis!ScrapeFails
           \/ UNCHANGED Redis!vars
  <2>1. UNCHANGED <<state, sent, h1>>
    BY <1>2 DEF Redis!Call, Redis!ServerRestart, Redis!StartScrape, Redis!ReadInfo,
       Redis!ReadCommandstats, Redis!ScrapeFails, Redis!vars, Redis!historyVars
  <2>2. \/ /\ server'.run \in {server.run, server.run + 1} /\ server'.slow \in Int
           /\ UNCHANGED scrape
        \/ UNCHANGED server /\ scrape'.pc = "info"
        \/ /\ UNCHANGED server
           /\ scrape'.pc = "commandstats" /\ scrape'.run = server.run
        \/ /\ UNCHANGED server /\ scrape.pc = "commandstats"
           /\ scrape'.pc = "slowlog" /\ scrape'.run = scrape.run
        \/ UNCHANGED server /\ scrape' = Redis!Idle
    <3>1. server.slow \in Int
      BY DEF SlowlogInv, RunsInOrder
    <3>2. ASSUME NEW c \in Command, Redis!Call(c)
          PROVE  server'.run = server.run /\ server'.slow \in Int /\ UNCHANGED scrape
      BY <3>1, <3>2 DEF Redis!Call
    <3>3. CASE Redis!ServerRestart
      BY <3>3 DEF Redis!ServerRestart
    <3>4. CASE Redis!StartScrape
      BY <3>1, <3>4 DEF Redis!StartScrape
    <3>5. CASE Redis!ReadInfo
      BY <3>5 DEF Redis!ReadInfo
    <3>6. CASE Redis!ReadCommandstats
      BY <3>6 DEF Redis!ReadCommandstats
    <3>7. CASE Redis!ScrapeFails \/ UNCHANGED Redis!vars
      BY <3>1, <3>7 DEF Redis!ScrapeFails, Redis!vars
    <3>. QED
      BY <1>2, <3>2, <3>3, <3>4, <3>5, <3>6, <3>7
  <2>3. RunsInOrder'
    BY <2>1, <2>2 DEF SlowlogInv, RunsInOrder, Redis!Idle, Redis!None
  <2>4. ASSUME NEW d \in sent.slowlog \cup h1 PROVE Dated(d)'
    <3>1. d \in AnyDocument /\ Dated(d)
      BY DEF SlowlogInv
    <3>2. d.run \in Nat /\ d.runId \in Nat
      BY <3>1 DEF AnyDocument
    <3>3. server.run \in Nat
      BY DEF SlowlogInv, RunsInOrder
    <3>. QED
      BY <2>2, <3>1, <3>2, <3>3 DEF Dated, Redis!Idle
  <2>. QED
    BY <2>1, <2>3, <2>4 DEF SlowlogInv, Marked, Redis!SlowShippedOnce
<1>. QED
  BY <1>1, <1>2 DEF Redis!Next

-----------------------------------------------------------------------------
(* MongoCollector: the profiler *)

Operation == [db : Database, ts : Nat, millis : Duration]

\* Every operation in D was profiled, no later than the time t.
DoneBy(D, t) == D \subseteq DOMAIN server.profile /\ \A i \in D : server.profile[i].ts <= t

MongoServer == [boots : Nat, profile : Seq(Operation), histogram : [Duration -> Nat]]

MongoState ==
  [cursor : Nat \cup {Mongo!None}, lastStorageAt : Nat \cup {Mongo!None},
  previous : {<< >>} \cup [Duration -> Nat]]

MongoProfiling ==
  [pc : {"profiles"}, since : Nat, storage : BOOLEAN, histogram : [Duration -> Nat], boots : Nat,
   seen : Nat, todo : SUBSET Database, found : SUBSET Nat]

MongoScrape == {Mongo!Idle} \cup [pc : {"status"}, since : Nat,
storage : BOOLEAN] \cup MongoProfiling

\* What the server, the agent's memory and a scrape may hold.
MongoTyped ==
  /\ now \in Nat /\ server \in MongoServer /\ state \in MongoState
  /\ scrape \in MongoScrape

\* What a scrape has found is newer than the cursor, which nobody moves meanwhile.
FoundIsNew ==
  scrape # Mongo!Idle =>
    /\ state.cursor # Mongo!None /\ scrape.since = state.cursor
    /\ scrape.pc = "profiles" =>
         /\ scrape.found \subseteq DOMAIN server.profile
         /\ \A i \in scrape.found : server.profile[i].ts > scrape.since

\* What was sent is at or before the cursor.
ProfilerInv ==
  /\ MongoTyped
  /\ \A i \in DOMAIN server.profile : server.profile[i].ts <= now
  /\ FoundIsNew
  /\ DoneBy(sent.slowQueries \cup h1, state.cursor)
  /\ Mongo!SlowShippedOnce

\* The cursor that is stored is no earlier than the one before it and what is shipped.
LEMMA CursorCovers ==
  ASSUME NEW shipped \in SUBSET DOMAIN server.profile, NEW cursor \in Nat, NEW at \in Nat,
         \A i \in shipped : server.profile[i].ts \in Nat /\ server.profile[i].ts <= at
  PROVE  LET next == Mongo!NextCursor(shipped, cursor, at)
         IN  next \in Nat /\ cursor <= next /\ \A i \in shipped : server.profile[i].ts <= next
<1> DEFINE times == IF shipped = {} THEN {at - 1} ELSE {server.profile[i].ts : i \in shipped}
           S == {cursor} \cup times
<1>1. Mongo!NextCursor(shipped, cursor, at) = Mongo!Max(S)
  BY DEF Mongo!NextCursor
<1>2. PICK b \in Int : b = IF cursor <= at THEN at ELSE cursor
  OBVIOUS
<1>3. ASSUME NEW x \in S PROVE x \in Int /\ x <= b
  <2>1. x = cursor \/ x = at - 1 \/ \E i \in shipped : x = server.profile[i].ts
    OBVIOUS
  <2>. HIDE DEF S
  <2>. QED
    BY <1>2, <2>1
<1>4. cursor \in S /\ \A i \in shipped : server.profile[i].ts \in S
  OBVIOUS
<1>. HIDE DEF S
<1>5. \E m \in S : \A x \in S : x <= m
  BY <1>3, <1>4, GreatestElement
<1>6. \E m \in S : \A x \in S : m >= x
  BY <1>3, <1>5
<1>7. Mongo!Max(S) \in S /\ \A x \in S : Mongo!Max(S) >= x
  BY <1>6 DEF Mongo!Max
<1>8. /\ Mongo!Max(S) \in Int /\ cursor <= Mongo!Max(S)
      /\ \A i \in shipped : server.profile[i].ts <= Mongo!Max(S)
  BY <1>3, <1>4, <1>7
<1>. QED
  BY <1>1, <1>8

\* What is cut to the highest is a part of what there was.
LEMMA HighestIsPart ==
  ASSUME NEW S, NEW k, NEW rank, NEW T \in Mongo!Highest(S, k, rank)
  PROVE  T \subseteq S
  BY DEF Mongo!Highest, Mongo!kSubset

\* Operations are profiled under a time.
LEMMA ProfileTimes ==
  ASSUME MongoTyped, NEW i \in DOMAIN server.profile
  PROVE  server.profile[i].ts \in Nat
<1>1. server.profile \in Seq(Operation)
  BY DEF MongoTyped, MongoServer
<1>2. server.profile[i] \in Operation
  BY <1>1
<1>. QED
  BY <1>2 DEF Operation

\* What is shipped are operations that were profiled since the cursor.
LEMMA ShippedIsProfiled ==
  ASSUME ProfilerInv, scrape # Mongo!Idle, scrape.pc = "profiles", NEW rank,
         NEW shipped \in Mongo!Highest(scrape.found, MaxSlowQueries, rank)
  PROVE  /\ state.cursor \in Nat
         /\ shipped \in SUBSET DOMAIN server.profile
         /\ \A i \in shipped : /\ server.profile[i].ts \in Nat
                              /\ server.profile[i].ts <= now
                              /\ server.profile[i].ts > state.cursor
<1>1. shipped \subseteq scrape.found
  BY HighestIsPart
<1>2. /\ state.cursor \in Nat
      /\ scrape.found \subseteq DOMAIN server.profile
      /\ \A i \in scrape.found : server.profile[i].ts > state.cursor
  BY DEF ProfilerInv, FoundIsNew, MongoTyped, MongoState
<1>3. \A i \in DOMAIN server.profile : /\ server.profile[i].ts \in Nat
                                             /\ server.profile[i].ts <= now
  BY ProfileTimes DEF ProfilerInv
<1>. QED
  BY <1>1, <1>2, <1>3

\* Memory and server are empty when the agent starts.
LEMMA MongoTypeInit == Mongo!MongoAssumption /\ Mongo!Init => MongoTyped
<1>. SUFFICES ASSUME Mongo!MongoAssumption, Mongo!Init PROVE MongoTyped
  OBVIOUS
<1>1. << >> \in Seq(Operation) /\ [d \in Duration |-> 0] \in [Duration -> Nat]
  OBVIOUS
<1>. QED
  BY <1>1 DEF Mongo!Init, MongoTyped, MongoServer, MongoState, MongoScrape, Mongo!Idle

\* What a scrape reads and stores is of the type of what the server holds.
LEMMA MongoTypeStep ==
  ASSUME ProfilerInv, [Mongo!Next]_(Mongo!vars)
  PROVE  MongoTyped'
<1>0. /\ MongoTyped /\ now \in Nat /\ server \in MongoServer /\ state \in MongoState
      /\ scrape \in MongoScrape
  BY DEF ProfilerInv, MongoTyped
<1>1. ASSUME NEW db \in Database, NEW millis \in Duration, Mongo!Operate(db,
millis) PROVE MongoTyped'
  <2> DEFINE op == [db |-> db, ts |-> now, millis |-> millis]
             profile == Append(server.profile, op)
             histogram == [server.histogram EXCEPT ![millis] = @ + 1]
  <2>1. op \in Operation
    BY <1>0 DEF Operation
  <2>2. profile \in Seq(Operation) /\ histogram \in [Duration -> Nat]
    BY <1>0, <2>1 DEF MongoServer
  <2>3. server' = [[server EXCEPT !.profile = profile] EXCEPT !.histogram = histogram]
    BY <1>0, <1>1 DEF Mongo!Operate, MongoServer
  <2>. HIDE DEF op, profile, histogram
  <2>4. server' \in MongoServer
    BY <1>0, <2>2, <2>3 DEF MongoServer
  <2>. QED
    BY <1>0, <1>1, <2>4 DEF Mongo!Operate, MongoTyped
<1>2. CASE Mongo!ServerRestart
  <2>1. server' \in MongoServer
    <3> DEFINE histogram == [d \in Duration |-> 0]
    <3>1. histogram \in [Duration -> Nat] /\ server.boots + 1 \in Nat
      BY <1>0 DEF MongoServer
    <3>2. server' = [[server EXCEPT !.boots = server.boots + 1]
                                       EXCEPT !.histogram = histogram]
      BY <1>0, <1>2 DEF Mongo!ServerRestart, MongoServer
    <3>. HIDE DEF histogram
    <3>. QED
      BY <1>0, <3>1, <3>2 DEF MongoServer
  <2>. QED
    BY <1>0, <1>2, <2>1 DEF Mongo!ServerRestart, MongoTyped
<1>3. CASE Mongo!StartScrape
  <2> DEFINE cursor == IF state.cursor = Mongo!None THEN now ELSE state.cursor
  <2>1. cursor \in Nat
    BY <1>0 DEF MongoState, Mongo!None
  <2>2. /\ now' \in Nat /\ UNCHANGED server
        /\ state' = [state EXCEPT !.cursor = cursor]
    BY <1>0, <1>3 DEF Mongo!StartScrape
  <2>3. state' \in MongoState
    BY <1>0, <2>1, <2>2 DEF MongoState
  <2>4. scrape' = scrape \/
        \E storage \in BOOLEAN : scrape' = [pc |-> "status", since |-> cursor,
        storage |-> storage]
    BY <1>3 DEF Mongo!StartScrape, Mongo!Due
  <2>. HIDE DEF cursor
  <2>5. scrape' \in MongoScrape
    BY <1>0, <2>1, <2>4 DEF MongoScrape
  <2>. QED
    BY <1>0, <2>2, <2>3, <2>5 DEF MongoTyped
<1>4. CASE Mongo!ReadStatus
  <2>1. /\ scrape.pc = "status" /\ scrape.since \in Nat /\ scrape.storage \in BOOLEAN
        /\ server.histogram \in [Duration -> Nat] /\ server.boots \in Nat
        /\ Len(server.profile) \in Nat
    <3>1. scrape \in [pc : {"status"}, since : Nat, storage : BOOLEAN]
      BY <1>0, <1>4 DEF Mongo!ReadStatus, MongoScrape, MongoProfiling, Mongo!Idle
    <3>. QED
      BY <1>0, <3>1 DEF MongoServer
  <2>2. PICK listed \in {Database, {}} :
       scrape' =
         [pc |-> "profiles", since |-> scrape.since, storage |-> scrape.storage,
          histogram |-> server.histogram, boots |-> server.boots,
          seen |-> Len(server.profile), todo |-> listed, found |-> {}]
    BY <1>4, Zenon DEF Mongo!ReadStatus
  <2>3. scrape' \in MongoProfiling
    BY <2>1, <2>2 DEF MongoProfiling
  <2>4. scrape' \in MongoScrape
    BY <2>3 DEF MongoScrape
  <2>. QED
    BY <1>0, <1>4, <2>4 DEF Mongo!ReadStatus, MongoTyped
<1>5. CASE Mongo!ReadProfile
  <2> DEFINE db == Mongo!Min(scrape.todo)
             ts == [i \in DOMAIN server.profile |-> server.profile[i].ts]
  <2>1. PICK docs \in {{}} \cup Mongo!Highest(Mongo!Matched(db, scrape.since), MaxSlowQueries,
  ts) :
          scrape' = [scrape EXCEPT !.todo = @ \ {db}, !.found = @ \cup docs]
    BY <1>5, Zenon DEF Mongo!ReadProfile
  <2>2. docs \in SUBSET Nat
    <3>1. docs \subseteq Mongo!Matched(db, scrape.since)
      BY HighestIsPart
    <3>2. Mongo!Matched(db, scrape.since) \subseteq DOMAIN server.profile
      BY DEF Mongo!Matched
    <3>3. DOMAIN server.profile \subseteq Nat
      BY <1>0 DEF MongoServer
    <3>. QED
      BY <3>1, <3>2, <3>3
  <2>3. scrape \in MongoProfiling
    BY <1>0, <1>5 DEF Mongo!ReadProfile, MongoScrape, Mongo!Idle
  <2>. HIDE DEF db, ts
  <2>4. scrape' \in MongoScrape
    <3>1. scrape.todo \ {db} \in SUBSET Database /\ scrape.found \cup docs \in SUBSET Nat
      BY <2>2, <2>3 DEF MongoProfiling
    <3>2. scrape' = [[scrape EXCEPT !.todo = scrape.todo \ {db}]
                                       EXCEPT !.found = scrape.found \cup docs]
      BY <2>1, <2>3 DEF MongoProfiling
    <3>3. scrape' \in MongoProfiling
      BY <2>3, <3>1, <3>2 DEF MongoProfiling
    <3>. QED
      BY <3>3 DEF MongoScrape
  <2>. QED
    BY <1>0, <1>5, <2>4 DEF Mongo!ReadProfile, MongoTyped
<1>6. CASE Mongo!Finish
  <2>1. scrape \in MongoProfiling /\ scrape # Mongo!Idle
    BY <1>0, <1>6 DEF Mongo!Finish, MongoScrape, MongoProfiling, Mongo!Idle
  <2>2. PICK shipped \in Mongo!Highest(scrape.found, MaxSlowQueries,
                               [i \in DOMAIN server.profile |-> server.profile[i].millis]) :
          state' =
            [cursor |-> Mongo!NextCursor(shipped, state.cursor, now),
             lastStorageAt |-> IF scrape.storage THEN now ELSE state.lastStorageAt,
             previous |-> scrape.histogram]
    BY <1>6, Zenon DEF Mongo!Finish
  <2>3. Mongo!NextCursor(shipped, state.cursor, now) \in Nat
    <3>1. scrape.pc = "profiles"
      BY <2>1 DEF MongoProfiling
    <3>2. /\ state.cursor \in Nat
          /\ shipped \in SUBSET DOMAIN server.profile
          /\ \A i \in shipped : server.profile[i].ts \in Nat /\ server.profile[i].ts <= now
      BY <2>1, <2>2, <3>1, ShippedIsProfiled
    <3>. QED
      BY <1>0, <3>2, CursorCovers
  <2>4. state' \in MongoState
    BY <1>0, <2>1, <2>2, <2>3 DEF MongoProfiling, MongoState
  <2>. QED
    BY <1>0, <1>6, <2>4 DEF Mongo!Finish, MongoTyped, MongoScrape
<1>7. CASE Mongo!ScrapeFails \/ UNCHANGED Mongo!vars
  BY <1>0, <1>7 DEF Mongo!ScrapeFails, Mongo!vars, MongoTyped, MongoScrape
<1>. QED
  BY <1>1, <1>2, <1>3, <1>4, <1>5, <1>6, <1>7 DEF Mongo!Next

\* Nothing was sent when the agent starts.
LEMMA ProfilerInit == Mongo!MongoAssumption /\ Mongo!Init => ProfilerInv
  BY MongoTypeInit DEF Mongo!Init, ProfilerInv, FoundIsNew, DoneBy, Mongo!SlowShippedOnce,
     Mongo!Idle

\* A scrape finds what is newer than the cursor, ships a part of it and moves the cursor.
LEMMA ProfilerStep ==
  ASSUME ProfilerInv, [Mongo!Next]_(Mongo!vars)
  PROVE  ProfilerInv'
<1>0. MongoTyped /\ MongoTyped'
  BY MongoTypeStep DEF ProfilerInv
<1>1. CASE Mongo!Finish
  <2> DEFINE millis == [i \in DOMAIN server.profile |-> server.profile[i].millis]
  <2>1. scrape # Mongo!Idle /\ scrape.pc = "profiles"
    BY <1>1 DEF Mongo!Finish, Mongo!Idle
  <2>2. PICK shipped \in Mongo!Highest(scrape.found, MaxSlowQueries, millis) :
          /\ state'.cursor = Mongo!NextCursor(shipped, state.cursor, now)
          /\ sent'.slowQueries = shipped
    BY <1>1 DEF Mongo!Finish
  <2>. HIDE DEF millis
  <2>3. /\ state.cursor \in Nat
        /\ shipped \in SUBSET DOMAIN server.profile
        /\ \A i \in shipped : /\ server.profile[i].ts \in Nat
                             /\ server.profile[i].ts <= now
                             /\ server.profile[i].ts > state.cursor
    BY <2>1, ShippedIsProfiled
  <2>4. /\ state.cursor <= state'.cursor
        /\ state'.cursor \in Nat
        /\ \A i \in shipped : server.profile[i].ts <= state'.cursor
    BY <1>0, <2>2, <2>3, CursorCovers DEF MongoTyped
  <2>5. /\ UNCHANGED <<now, server>> /\ scrape' = Mongo!Idle
        /\ h1' = h1 \cup sent.slowQueries
    BY <1>1 DEF Mongo!Finish
  <2>6. /\ h1' \subseteq DOMAIN server.profile
        /\ \A i \in h1' : server.profile[i].ts <= state.cursor
    BY <2>5 DEF ProfilerInv, DoneBy
  <2>7. \A i \in DOMAIN server.profile : server.profile[i].ts \in Nat
    BY <1>0, ProfileTimes
  <2>8. Mongo!SlowShippedOnce'
    BY <2>2, <2>3, <2>6, <2>7 DEF Mongo!SlowShippedOnce
  <2>9. DoneBy(sent.slowQueries \cup h1, state.cursor)'
    BY <2>2, <2>3, <2>4, <2>5, <2>6, <2>7 DEF DoneBy
  <2>. QED
    BY <1>0, <2>5, <2>8, <2>9 DEF ProfilerInv, FoundIsNew
<1>2. ASSUME NEW db \in Database, NEW millis \in Duration, Mongo!Operate(db,
millis) PROVE ProfilerInv'
  <2> DEFINE p == server.profile
  <2>1. /\ server'.profile = Append(p, [db |-> db, ts |-> now, millis |-> millis])
        /\ UNCHANGED <<now, state, scrape, sent, h1>>
    BY <1>0, <1>2 DEF Mongo!Operate, MongoTyped, MongoServer, Mongo!historyVars
  <2>2. p \in Seq(Operation) /\ now \in Nat
    BY <1>0 DEF MongoTyped, MongoServer
  <2>3. /\ DOMAIN p \subseteq DOMAIN server'.profile
        /\ \A i \in DOMAIN p : server'.profile[i] = p[i]
        /\ \A i \in DOMAIN server'.profile : server'.profile[i].ts <= now
    BY <2>1, <2>2 DEF ProfilerInv
  <2>4. FoundIsNew' /\ DoneBy(sent.slowQueries \cup h1, state.cursor)'
    BY <2>1, <2>3 DEF ProfilerInv, FoundIsNew, DoneBy
  <2>. QED
    BY <1>0, <2>1, <2>3, <2>4 DEF ProfilerInv, Mongo!SlowShippedOnce
<1>3. CASE Mongo!ReadProfile
  <2> DEFINE s == scrape
             db == Mongo!Min(s.todo)
             ts == [i \in DOMAIN server.profile |-> server.profile[i].ts]
  <2>1. PICK docs \in {{}} \cup Mongo!Highest(Mongo!Matched(db, s.since), MaxSlowQueries, ts) :
          scrape' = [s EXCEPT !.todo = @ \ {db}, !.found = @ \cup docs]
    BY <1>3, Zenon DEF Mongo!ReadProfile
  <2>2. s \in MongoProfiling /\ s # Mongo!Idle
    BY <1>0, <1>3 DEF Mongo!ReadProfile, MongoTyped, MongoScrape, MongoProfiling, Mongo!Idle
  <2>3. docs \subseteq Mongo!Matched(db, s.since)
    BY HighestIsPart
  <2>4. /\ Mongo!Matched(db, s.since) \subseteq DOMAIN server.profile
        /\ \A i \in Mongo!Matched(db, s.since) : server.profile[i].ts > s.since
    BY DEF Mongo!Matched
  <2>5. UNCHANGED <<now, server, state, sent, h1>>
    BY <1>3 DEF Mongo!ReadProfile, Mongo!historyVars
  <2>. HIDE DEF db, ts
  <2>6. scrape'.since = s.since /\ scrape'.found = s.found \cup docs
    BY <2>1, <2>2 DEF MongoProfiling
  <2>7. FoundIsNew'
    BY <2>2, <2>3, <2>4, <2>5, <2>6 DEF ProfilerInv, FoundIsNew, MongoProfiling
  <2>. QED
    BY <1>0, <2>5, <2>7 DEF ProfilerInv, DoneBy, Mongo!SlowShippedOnce
<1>4. CASE Mongo!StartScrape
  <2>1. /\ now' = now + 1 /\ UNCHANGED <<server, sent, h1>>
        /\ state.cursor # Mongo!None => state'.cursor = state.cursor
        /\ state'.cursor \in Nat
        /\ \/ scrape' = scrape
           \/ scrape'.pc = "status" /\ scrape'.since = state'.cursor
        /\ scrape = Mongo!Idle
    <3> DEFINE cursor == IF state.cursor = Mongo!None THEN now ELSE state.cursor
    <3>1. state'.cursor = cursor /\ cursor \in Nat
      BY <1>0, <1>4 DEF Mongo!StartScrape, MongoTyped, MongoState, Mongo!None
    <3>2. \/ scrape' = scrape
          \/ scrape'.pc = "status" /\ scrape'.since = cursor
      <4>1. scrape' = scrape \/
            \E storage \in BOOLEAN :
              scrape' = [pc |-> "status", since |-> cursor, storage |-> storage]
        BY <1>4 DEF Mongo!StartScrape, Mongo!Due
      <4>. HIDE DEF cursor
      <4>. QED
        BY <4>1
    <3>. QED
      BY <1>4, <3>1, <3>2 DEF Mongo!StartScrape, Mongo!historyVars
  <2>2. \A i \in DOMAIN server.profile : server.profile[i].ts \in Nat
    BY <1>0, ProfileTimes
  <2>3. \A i \in DOMAIN server'.profile : server'.profile[i].ts <= now'
    BY <1>0, <2>1, <2>2 DEF ProfilerInv, MongoTyped
  <2>4. FoundIsNew'
    BY <2>1 DEF FoundIsNew, Mongo!None
  <2>5. DoneBy(sent.slowQueries \cup h1, state.cursor)'
    BY <1>0, <2>1, <2>2 DEF ProfilerInv, DoneBy, Mongo!None
  <2>. QED
    BY <1>0, <2>1, <2>3, <2>4, <2>5 DEF ProfilerInv, Mongo!SlowShippedOnce
<1>5. CASE Mongo!ServerRestart \/ Mongo!ScrapeFails \/ Mongo!ReadStatus \/ UNCHANGED Mongo!vars
  <2>1. /\ server'.profile = server.profile
        /\ UNCHANGED <<now, state, sent, h1>>
    BY <1>0, <1>5
       DEF Mongo!ServerRestart, Mongo!ScrapeFails, Mongo!ReadStatus, Mongo!vars,
          Mongo!historyVars, MongoTyped, MongoServer
  <2>2. FoundIsNew'
    <3>1. CASE Mongo!ServerRestart \/ UNCHANGED Mongo!vars
      BY <2>1, <3>1 DEF Mongo!ServerRestart, Mongo!vars, ProfilerInv, FoundIsNew
    <3>2. CASE Mongo!ScrapeFails
      BY <3>2 DEF Mongo!ScrapeFails, FoundIsNew
    <3>3. CASE Mongo!ReadStatus
      <4>1. /\ scrape # Mongo!Idle
            /\ scrape'.since = scrape.since /\ scrape'.found = {}
        BY <3>3 DEF Mongo!ReadStatus, Mongo!Idle
      <4>. QED
        BY <2>1, <4>1 DEF ProfilerInv, FoundIsNew
    <3>. QED
      BY <1>5, <3>1, <3>2, <3>3
  <2>. QED
    BY <1>0, <2>1, <2>2 DEF ProfilerInv, DoneBy, Mongo!SlowShippedOnce
<1>. QED
  BY <1>1, <1>2, <1>3, <1>4, <1>5 DEF Mongo!Next

-----------------------------------------------------------------------------
(* MysqlCollector *)

MysqlTime == Nat \cup {Mysql!None}

MysqlReading == [uptime : Int, executed : Nat, ever : Nat, boots : Nat]

MysqlPast == {Mysql!NoReading} \cup MysqlReading

MysqlPrevious == [status : MysqlPast, rows : MysqlPast]

MysqlServer ==
  [boots : Nat, bootedAt : Nat, executed : Nat, ever : Nat, performanceSchema : BOOLEAN]

MysqlState == [lastSchemaAt : MysqlTime, lastUptime : Int, previous : MysqlPrevious]

MysqlSections ==
  [pc : {"sections"}, at : Nat, reading : MysqlReading, restarted : BOOLEAN,
   previous : MysqlPrevious, collected : SUBSET Mysql!Section]

MysqlScrape == {Mysql!Idle} \cup [pc : {"connected"}, at : Nat] \cup MysqlSections

MysqlTyped ==
  /\ now \in Nat /\ server \in MysqlServer /\ state \in MysqlState
  /\ scrape \in [Slot -> MysqlScrape]
  /\ sent.reading \in MysqlPast /\ sent.previous \in MysqlPrevious
  /\ h1 \in MysqlPrevious /\ h2 \in MysqlTime /\ h3 \in BOOLEAN

\* A scrape that finds a step of it done is one of a slot.
LEMMA MysqlSlotTyped ==
  ASSUME MysqlTyped, NEW slot \in Slot, scrape[slot].pc = "sections"
  PROVE  scrape[slot] \in MysqlSections
<1>1. scrape[slot] \in MysqlScrape
  BY DEF MysqlTyped
<1>. QED
  BY <1>1 DEF MysqlScrape, Mysql!Idle

\* The fields of what is typed, and what no reading is.
LEMMA MysqlFields ==
  /\ \A r \in MysqlReading : /\ r.uptime \in Int /\ r.executed \in Nat /\ r.ever \in Nat
                             /\ r.boots \in Nat /\ r # Mysql!NoReading
  /\ Mysql!NoReading \in MysqlPast
  /\ \A r \in MysqlPast : r.uptime \in Int /\ r.executed \in Int /\ r.ever \in Int /\ r.boots \in Int
  /\ \A p \in MysqlPrevious : p.status \in MysqlPast /\ p.rows \in MysqlPast
  /\ Mysql!NoPrevious \in MysqlPrevious
  /\ Mysql!NoPrevious.status = Mysql!NoReading /\ Mysql!NoPrevious.rows = Mysql!NoReading
  /\ Mysql!NoReading.boots = -1 /\ Mysql!NoReading.uptime = -1 /\ Mysql!NoReading.executed = -1
<1>1. Mysql!NoReading \in MysqlPast
  BY DEF MysqlPast
<1>2. Mysql!NoPrevious \in MysqlPrevious
  BY <1>1 DEF MysqlPrevious, Mysql!NoPrevious
<1>3. \A r \in MysqlReading : /\ r.uptime \in Int /\ r.executed \in Nat /\ r.ever \in Nat
                              /\ r.boots \in Nat /\ r # Mysql!NoReading
  BY DEF MysqlReading, Mysql!NoReading, Mysql!None
<1>4. /\ Mysql!NoReading.boots = -1 /\ Mysql!NoReading.uptime = -1
      /\ Mysql!NoReading.executed = -1 /\ Mysql!NoReading.ever = -1
  BY DEF Mysql!NoReading, Mysql!None
<1>5. \A r \in MysqlPast : r.uptime \in Int /\ r.executed \in Int /\ r.ever \in Int /\ r.boots \in Int
  BY <1>3, <1>4 DEF MysqlPast
<1>6. \A p \in MysqlPrevious : p.status \in MysqlPast /\ p.rows \in MysqlPast
  BY DEF MysqlPrevious
<1>7. Mysql!NoPrevious.status = Mysql!NoReading /\ Mysql!NoPrevious.rows = Mysql!NoReading
  BY DEF Mysql!NoPrevious
<1>. QED
  BY <1>1, <1>2, <1>3, <1>4, <1>5, <1>6, <1>7

\* What FinishScrape does, without the choice of the sections.
LEMMA MysqlFinish ==
  ASSUME MysqlTyped, NEW slot \in Slot, Mysql!FinishScrape(slot)
  PROVE  LET s == scrape[slot]
         IN  /\ s \in MysqlSections
             /\ sent'.reading = s.reading /\ sent'.previous = s.previous
             /\ sent'.throughput.questionsDelta =
                  Mysql!CounterDelta(s.reading.executed, s.previous.status.executed, s.restarted)
             /\ state' \in MysqlState
             /\ state'.lastUptime = s.reading.uptime
             /\ state'.previous.status = s.reading
             /\ \/ sent'.rows = Mysql!None /\ state'.previous.rows = s.previous.rows
                \/ /\ sent'.rows = Mysql!DeriveQueries(s)
                   /\ state'.previous.rows = s.reading
             /\ \/ UNCHANGED <<state.lastSchemaAt, h2>>
                \/ /\ state'.lastSchemaAt = s.at
                   /\ h2' = Mysql!Max({s.at, h2})
             /\ h1' = Mysql!Told
             /\ scrape' = [scrape EXCEPT ![slot] = Mysql!Idle]
             /\ UNCHANGED <<now, server, h3>>
<1> DEFINE s == scrape[slot]
<1>1. s \in MysqlSections
  BY MysqlSlotTyped DEF Mysql!FinishScrape
<1>2. PICK sections \in Mysql!CollectSections(s) :
        /\ sent' =
             [at |-> s.at, schema |-> "schema" \in sections, restarted |-> s.restarted,
              interval |-> Mysql!Interval(s), throughput |-> Mysql!Throughput(s),
              rows |-> IF "queries" \in sections THEN Mysql!DeriveQueries(s) ELSE Mysql!None,
              reading |-> s.reading, previous |-> s.previous]
        /\ state' =
             [lastSchemaAt |-> Mysql!SchemaClock(s, sections), lastUptime |-> s.reading.uptime,
              previous |-> Mysql!Remembered(s, sections)]
        /\ h2' = IF "schema" \in sections THEN Mysql!Max({s.at, h2}) ELSE h2
  BY Zenon DEF Mysql!FinishScrape
<1>3. s.reading \in MysqlReading /\ s.at \in Nat /\ s.previous \in MysqlPrevious
  BY <1>1 DEF MysqlSections
<1>4. Mysql!Remembered(s, sections) \in MysqlPrevious
  BY <1>3 DEF Mysql!Remembered, MysqlPrevious, MysqlPast
<1>5. Mysql!SchemaClock(s, sections) \in MysqlTime
  BY <1>3 DEF Mysql!SchemaClock, MysqlTyped, MysqlState, MysqlTime
<1>6. s.reading.uptime \in Int
  BY <1>3 DEF MysqlReading
<1>. HIDE DEF s
<1>7. state' \in MysqlState
  BY <1>2, <1>4, <1>5, <1>6 DEF MysqlState
<1>8. /\ sent'.reading = s.reading /\ sent'.previous = s.previous
      /\ sent'.throughput = Mysql!Throughput(s)
      /\ sent'.rows = IF "queries" \in sections THEN Mysql!DeriveQueries(s) ELSE Mysql!None
  BY <1>2
<1>9. Mysql!Throughput(s).questionsDelta =
        Mysql!CounterDelta(s.reading.executed, s.previous.status.executed, s.restarted)
  BY DEF Mysql!Throughput
<1>10. /\ state'.lastUptime = s.reading.uptime
       /\ state'.previous = Mysql!Remembered(s, sections)
       /\ state'.lastSchemaAt = Mysql!SchemaClock(s, sections)
  BY <1>2
<1>11. /\ Mysql!Remembered(s, sections).status = s.reading
       /\ Mysql!Remembered(s, sections).rows =
            IF "queries" \in sections THEN s.reading ELSE s.previous.rows
  BY DEF Mysql!Remembered
<1>12. \/ UNCHANGED <<state.lastSchemaAt, h2>>
       \/ state'.lastSchemaAt = s.at /\ h2' = Mysql!Max({s.at, h2})
  BY <1>2, <1>10 DEF Mysql!SchemaClock
<1>13. /\ h1' = Mysql!Told /\ UNCHANGED <<now, server, h3>>
       /\ scrape' = [scrape EXCEPT ![slot] = Mysql!Idle]
  BY DEF Mysql!FinishScrape, Mysql!Set
<1>. QED
  BY <1>1, <1>7, <1>8, <1>9, <1>10, <1>11, <1>12, <1>13 DEF s

\* The larger of two times.
LEMMA LaterOfTwo ==
  \A a, b \in Int :
    Mysql!Max({a, b}) \in {a, b} /\ Mysql!Max({a, b}) >= a /\ Mysql!Max({a, b}) >= b
<1>. SUFFICES ASSUME NEW a \in Int, NEW b \in Int
              PROVE  /\ Mysql!Max({a, b}) \in {a, b}
                     /\ Mysql!Max({a, b}) >= a /\ Mysql!Max({a, b}) >= b
  OBVIOUS
<1> DEFINE larger == IF a >= b THEN a ELSE b
<1>1. larger \in {a, b} /\ \A y \in {a, b} : larger >= y
  OBVIOUS
<1>. HIDE DEF larger
<1>2. \E x \in {a, b} : \A y \in {a, b} : x >= y
  BY <1>1
<1>3. Mysql!Max({a, b}) \in {a, b} /\ \A y \in {a, b} : Mysql!Max({a, b}) >= y
  BY <1>2, Zenon DEF Mysql!Max
<1>. QED
  BY <1>3

LEMMA MysqlTypeStep ==
  ASSUME MysqlTyped, [Mysql!Next]_(Mysql!vars)
  PROVE  MysqlTyped'
<1>1. CASE Mysql!Execute
  <2>1. server' = [[server EXCEPT !.executed = server.executed + 1]
                          EXCEPT !.ever = server.ever + 1]
    BY <1>1 DEF Mysql!Execute, MysqlTyped, MysqlServer
  <2>2. server' \in MysqlServer
    <3>1. server.executed + 1 \in Nat /\ server.ever + 1 \in Nat
      BY DEF MysqlTyped, MysqlServer
    <3>2. \A r \in MysqlServer : \A x, y \in Nat :
            [[r EXCEPT !.executed = x] EXCEPT !.ever = y] \in MysqlServer
      BY DEF MysqlServer
    <3>. QED
      BY <2>1, <3>1, <3>2, Zenon DEF MysqlTyped
  <2>. QED
    BY <1>1, <2>2 DEF Mysql!Execute, MysqlTyped, Mysql!historyVars
<1>2. CASE Mysql!ServerRestart
  <2>1. scrape' \in [Slot -> MysqlScrape]
    <3>1. scrape' = [slot \in Slot |-> IF scrape[slot].pc = "connected" THEN Mysql!Idle
                                                                       ELSE scrape[slot]]
      BY <1>2 DEF Mysql!ServerRestart
    <3>2. \A slot \in Slot : scrape[slot] \in MysqlScrape
      BY DEF MysqlTyped
    <3>3. Mysql!Idle \in MysqlScrape
      BY DEF MysqlScrape
    <3>. QED
      BY <3>1, <3>2, <3>3
  <2>2. server' \in MysqlServer
    <3>1. server' = [[[server EXCEPT !.boots = server.boots + 1]
                            EXCEPT !.bootedAt = now] EXCEPT !.executed = 0]
      BY <1>2 DEF Mysql!ServerRestart, MysqlTyped, MysqlServer
    <3>2. server.boots + 1 \in Nat /\ now \in Nat /\ 0 \in Nat
      BY DEF MysqlTyped, MysqlServer
    <3>3. \A r \in MysqlServer : \A x, y, z \in Nat :
            [[[r EXCEPT !.boots = x] EXCEPT !.bootedAt = y] EXCEPT !.executed = z] \in MysqlServer
      BY DEF MysqlServer
    <3>. QED
      BY <3>1, <3>2, <3>3, Zenon DEF MysqlTyped
  <2>. QED
    BY <1>2, <2>1, <2>2 DEF Mysql!ServerRestart, MysqlTyped, Mysql!historyVars
<1>3. CASE Mysql!StartScrape
  <2>1. now' = now + 1 /\ now' \in Nat
    BY <1>3 DEF Mysql!StartScrape, MysqlTyped
  <2>2. [pc |-> "connected", at |-> now'] \in MysqlScrape
    BY <2>1 DEF MysqlScrape
  <2>3. scrape' \in [Slot -> MysqlScrape]
    BY <1>3, <2>2 DEF Mysql!StartScrape, Mysql!Set, MysqlTyped
  <2>4. h3' \in BOOLEAN
    BY <1>3, Zenon DEF Mysql!StartScrape, MysqlTyped
  <2>. QED
    BY <1>3, <2>1, <2>3, <2>4 DEF Mysql!StartScrape, MysqlTyped
<1>4. ASSUME NEW slot \in Slot, Mysql!ReadStatus(slot) PROVE MysqlTyped'
  <2> DEFINE s == scrape[slot]
             restarted == state.lastUptime # Mysql!None /\ Mysql!Reading.uptime < state.lastUptime
  <2>1. PICK capabilities \in Mysql!ProbeCapabilities :
          scrape' = [scrape EXCEPT ![slot] =
            [pc |-> "sections", at |-> s.at, reading |-> Mysql!Reading,
             restarted |-> restarted,
             previous |-> IF restarted THEN Mysql!NoPrevious ELSE state.previous,
             collected |-> Mysql!Collected(s, capabilities)]]
    BY <1>4, Zenon DEF Mysql!ReadStatus, Mysql!Set
  <2>2. s.at \in Nat
    <3>1. s \in MysqlScrape /\ s.pc = "connected"
      BY <1>4 DEF MysqlTyped, Mysql!ReadStatus
    <3>. QED
      BY <3>1 DEF MysqlScrape, MysqlSections, Mysql!Idle
  <2>3. Mysql!Reading \in MysqlReading
    BY DEF Mysql!Reading, MysqlReading, MysqlTyped, MysqlServer
  <2>4. Mysql!Collected(s, capabilities) \in SUBSET Mysql!Section
    BY <2>1 DEF Mysql!Collected, Mysql!ProbeCapabilities, Mysql!Section
  <2>5. (IF restarted THEN Mysql!NoPrevious ELSE state.previous) \in MysqlPrevious
    BY MysqlFields DEF MysqlTyped, MysqlState
  <2>6. restarted \in BOOLEAN
    OBVIOUS
  <2>. HIDE DEF restarted
  <2>7. [pc |-> "sections", at |-> s.at, reading |-> Mysql!Reading, restarted |-> restarted,
         previous |-> IF restarted THEN Mysql!NoPrevious ELSE state.previous,
         collected |-> Mysql!Collected(s, capabilities)] \in MysqlSections
    BY <2>2, <2>3, <2>4, <2>5, <2>6 DEF MysqlSections
  <2>8. scrape' \in [Slot -> MysqlScrape]
    BY <2>1, <2>7 DEF MysqlScrape, MysqlTyped
  <2>. QED
    BY <1>4, <2>8 DEF Mysql!ReadStatus, MysqlTyped, Mysql!historyVars
<1>5. ASSUME NEW slot \in Slot, Mysql!ScrapeFails(slot) PROVE MysqlTyped'
  <2>1. scrape' \in [Slot -> MysqlScrape]
    BY <1>5 DEF Mysql!ScrapeFails, Mysql!Set, MysqlTyped, MysqlScrape
  <2>. QED
    BY <1>5, <2>1 DEF Mysql!ScrapeFails, MysqlTyped, Mysql!historyVars
<1>6. ASSUME NEW slot \in Slot, Mysql!FinishScrape(slot) PROVE MysqlTyped'
  <2> DEFINE s == scrape[slot]
  <2>1. /\ s \in MysqlSections
        /\ sent'.reading = s.reading /\ sent'.previous = s.previous
        /\ state' \in MysqlState
        /\ h2' \in {h2, Mysql!Max({s.at, h2})}
        /\ h1' = Mysql!Told
        /\ scrape' = [scrape EXCEPT ![slot] = Mysql!Idle]
        /\ UNCHANGED <<now, server, h3>>
    BY <1>6, MysqlFinish
  <2>. HIDE DEF s
  <2>2. s.at \in Nat /\ s.reading \in MysqlPast /\ s.previous \in MysqlPrevious
    BY <2>1 DEF MysqlSections, MysqlPast
  <2>3. h2' \in MysqlTime
    <3>1. h2 \in Int /\ h2 \in MysqlTime /\ s.at \in Int
      BY <2>2 DEF MysqlTyped, MysqlTime, Mysql!None
    <3>2. Mysql!Max({s.at, h2}) \in {s.at, h2}
      BY <3>1, LaterOfTwo, Zenon
    <3>. QED
      BY <2>1, <2>2, <3>1, <3>2 DEF MysqlTime
  <2>4. h1' \in MysqlPrevious
    <3>1. h1.rows \in MysqlPast /\ sent.reading \in MysqlPast
      BY DEF MysqlTyped, MysqlPrevious
    <3>. QED
      BY <2>1, <3>1 DEF Mysql!Told, MysqlPrevious
  <2>5. scrape' \in [Slot -> MysqlScrape]
    BY <2>1 DEF MysqlTyped, MysqlScrape
  <2>. QED
    BY <2>1, <2>2, <2>3, <2>4, <2>5 DEF MysqlTyped
<1>7. CASE UNCHANGED Mysql!vars
  BY <1>7 DEF Mysql!vars, Mysql!historyVars, MysqlTyped
<1>. QED
  BY <1>1, <1>2, <1>3, <1>4, <1>5, <1>6, <1>7, ZenonT(60) DEF Mysql!Next

LEMMA MysqlTypeInit == Mysql!Init => MysqlTyped
<1>. SUFFICES ASSUME Mysql!Init PROVE MysqlTyped
  OBVIOUS
<1>1. Mysql!None \in MysqlTime /\ Mysql!None \in Int
  BY DEF Mysql!None, MysqlTime
<1>2. state \in MysqlState
  BY <1>1, MysqlFields DEF Mysql!Init, MysqlState
<1>3. scrape \in [Slot -> MysqlScrape]
  BY DEF Mysql!Init, MysqlScrape
<1>4. server \in MysqlServer
  BY DEF Mysql!Init, MysqlServer
<1>. QED
  BY <1>1, <1>2, <1>3, <1>4, MysqlFields DEF Mysql!Init, MysqlTyped

-----------------------------------------------------------------------------
(* MysqlCollector: the schema *)

\* The clock of the schema runs no further than what was sent, though a scrape that was
\* overtaken may set it back.
SchemaInv ==
  /\ MysqlTyped
  /\ state.lastSchemaAt <= h2
  /\ Mysql!SchemaOnlySkippedWhenSent

LEMMA SchemaInit == Mysql!Init => SchemaInv
  BY MysqlTypeInit DEF Mysql!Init, SchemaInv, Mysql!SchemaOnlySkippedWhenSent, Mysql!Idle,
     Mysql!None

\* Whatever the scrapes under way have decided stands when the schema is sent later.
LEMMA SchemaStep ==
  ASSUME Mysql!MysqlAssumption, SchemaInv, [Mysql!Next]_(Mysql!vars)
  PROVE  SchemaInv'
<1>0. MysqlTyped /\ MysqlTyped'
  BY MysqlTypeStep DEF SchemaInv
<1>. USE <1>0
<1>t. /\ h2 \in Int /\ state.lastSchemaAt \in Int
      /\ h2' \in Int /\ state'.lastSchemaAt \in Int
  BY DEF MysqlTyped, MysqlState, MysqlTime, Mysql!None
<1>1. ASSUME UNCHANGED <<state, h2>>,
             \A slot \in Slot : \/ scrape'[slot] = scrape[slot]
                                \/ scrape'[slot].pc # "sections"
      PROVE  SchemaInv'
  BY <1>1 DEF SchemaInv, Mysql!SchemaOnlySkippedWhenSent
<1>2. CASE Mysql!Execute \/ UNCHANGED Mysql!vars
  BY <1>1, <1>2 DEF Mysql!Execute, Mysql!vars, Mysql!historyVars
<1>3. CASE Mysql!ServerRestart
  <2>1. /\ scrape' = [slot \in Slot |-> IF scrape[slot].pc = "connected" THEN Mysql!Idle
                                                                         ELSE scrape[slot]]
        /\ UNCHANGED <<state, h2>>
    BY <1>3 DEF Mysql!ServerRestart, Mysql!historyVars
  <2>. QED
    BY <1>1, <2>1 DEF Mysql!Idle
<1>4. CASE Mysql!StartScrape
  <2>1. \/ scrape' = [scrape EXCEPT ![Mysql!Min(Mysql!FreeSlots)] =
                             [pc |-> "connected", at |-> now']]
        \/ UNCHANGED scrape
    BY <1>4 DEF Mysql!StartScrape, Mysql!Set
  <2>2. \A slot \in Slot : \/ scrape'[slot] = scrape[slot]
                           \/ scrape'[slot] = [pc |-> "connected", at |-> now']
    BY <2>1 DEF MysqlTyped
  <2>3. UNCHANGED <<state, h2>>
    BY <1>4 DEF Mysql!StartScrape
  <2>. QED
    BY <1>1, <2>2, <2>3
<1>5. ASSUME NEW slot \in Slot, Mysql!ReadStatus(slot) PROVE SchemaInv'
  <2> DEFINE s == scrape[slot]
  <2>1. PICK capabilities \in Mysql!ProbeCapabilities : \E reading, restarted, previous :
          scrape' = [scrape EXCEPT ![slot] =
            [pc |-> "sections", at |-> s.at, reading |-> reading, restarted |-> restarted,
             previous |-> previous, collected |-> Mysql!Collected(s, capabilities)]]
    BY <1>5, Zenon DEF Mysql!ReadStatus, Mysql!Set
  <2>2. /\ scrape'[slot].collected = Mysql!Collected(s, capabilities)
        /\ scrape'[slot].at = s.at
        /\ \A other \in Slot \ {slot} : scrape'[other] = scrape[other]
    BY <2>1 DEF MysqlTyped
  <2>3. UNCHANGED <<state, h2>>
    BY <1>5 DEF Mysql!ReadStatus, Mysql!historyVars
  <2>4. s.at \in Nat
    <3>1. s \in MysqlScrape /\ s.pc = "connected"
      BY <1>5 DEF MysqlTyped, Mysql!ReadStatus
    <3>. QED
      BY <3>1 DEF MysqlScrape, MysqlSections, Mysql!Idle
  <2>5. ASSUME "schema" \notin Mysql!Collected(s, capabilities)
        PROVE  h2 # Mysql!None /\ s.at - h2 < SchemaInterval
    <3>1. state.lastSchemaAt # Mysql!None /\ ~(s.at - state.lastSchemaAt >= SchemaInterval)
      BY <2>5 DEF Mysql!Collected, Mysql!Due
    <3>2. state.lastSchemaAt >= 0 /\ SchemaInterval \in Nat
      BY <3>1 DEF MysqlTyped, MysqlState, MysqlTime, Mysql!MysqlAssumption
    <3>3. state.lastSchemaAt <= h2
      BY DEF SchemaInv
    <3>. QED
      BY <1>t, <2>4, <3>1, <3>2, <3>3 DEF Mysql!None
  <2>. HIDE DEF s
  <2>. QED
    BY <2>2, <2>3, <2>5 DEF SchemaInv, Mysql!SchemaOnlySkippedWhenSent
<1>6. ASSUME NEW slot \in Slot, Mysql!ScrapeFails(slot) PROVE SchemaInv'
  <2>1. scrape' = [scrape EXCEPT ![slot] = Mysql!Idle]
    BY <1>6 DEF Mysql!ScrapeFails, Mysql!Set
  <2>2. \A other \in Slot : scrape'[other] \in {scrape[other], Mysql!Idle}
    BY <2>1 DEF MysqlTyped
  <2>3. UNCHANGED <<state, h2>>
    BY <1>6 DEF Mysql!ScrapeFails, Mysql!historyVars
  <2>. QED
    BY <1>1, <2>2, <2>3 DEF Mysql!Idle
<1>7. ASSUME NEW slot \in Slot, Mysql!FinishScrape(slot) PROVE SchemaInv'
  <2> DEFINE s == scrape[slot]
  <2>1. /\ s \in MysqlSections
        /\ \/ UNCHANGED <<state.lastSchemaAt, h2>>
           \/ /\ state'.lastSchemaAt = s.at
              /\ h2' = Mysql!Max({s.at, h2})
    BY <1>7, MysqlFinish
  <2>2. scrape' = [scrape EXCEPT ![slot] = Mysql!Idle]
    BY <1>7 DEF Mysql!FinishScrape, Mysql!Set
  <2>3. \A other \in Slot : scrape'[other] \in {scrape[other], Mysql!Idle}
    BY <2>2 DEF MysqlTyped
  <2>4. s.at \in Nat /\ s.at \in Int
    BY <2>1 DEF MysqlSections
  <2>. HIDE DEF s
  <2>5. h2 <= h2' /\ state'.lastSchemaAt <= h2'
    <3>1. Mysql!Max({s.at, h2}) >= s.at /\ Mysql!Max({s.at, h2}) >= h2
      BY <1>t, <2>4, LaterOfTwo, Zenon
    <3>. QED
      BY <1>t, <2>1, <2>4, <3>1 DEF SchemaInv
  <2>6. ASSUME NEW other \in Slot, scrape'[other].pc = "sections",
               "schema" \notin scrape'[other].collected
        PROVE  h2' # Mysql!None /\ scrape'[other].at - h2' < SchemaInterval
    <3>1. scrape'[other] = scrape[other]
      BY <2>3, <2>6 DEF Mysql!Idle
    <3>2. h2 # Mysql!None /\ scrape[other].at - h2 < SchemaInterval
      BY <2>6, <3>1 DEF SchemaInv, Mysql!SchemaOnlySkippedWhenSent
    <3>3. scrape[other].at \in Nat
      BY <2>6, <3>1, MysqlSlotTyped DEF MysqlSections
    <3>4. h2 >= 0 /\ SchemaInterval \in Nat
      BY <3>2 DEF MysqlTyped, MysqlTime, Mysql!MysqlAssumption
    <3>. QED
      BY <1>t, <2>5, <3>1, <3>2, <3>3, <3>4 DEF Mysql!None
  <2>. QED
    BY <2>5, <2>6 DEF SchemaInv, Mysql!SchemaOnlySkippedWhenSent
<1>. QED
  BY <1>2, <1>3, <1>4, <1>5, <1>6, <1>7, Zenon DEF Mysql!Next

-----------------------------------------------------------------------------
(* MysqlCollector: what the deltas join *)

\* A reading against one that was made before it, or none.  In one run of the server a
\* counter has grown by what was executed; over a restart by no more.
MysqlFollows(r, p) ==
  p # Mysql!NoReading =>
    /\ p.boots <= r.boots /\ p.ever <= r.ever
    /\ r.executed + p.ever <= r.ever + p.executed
    /\ p.boots = r.boots =>
         r.executed + p.ever = r.ever + p.executed /\ p.uptime <= r.uptime

LEMMA MysqlFollowsTwice ==
  \A r, q \in MysqlReading, p \in MysqlPast :
    MysqlFollows(r, q) /\ MysqlFollows(q, p) => MysqlFollows(r, p)
<1>. SUFFICES ASSUME NEW r \in MysqlReading, NEW q \in MysqlReading, NEW p \in MysqlPast,
                     MysqlFollows(r, q), MysqlFollows(q, p), p # Mysql!NoReading
              PROVE  MysqlFollows(r, p)
  BY DEF MysqlFollows
<1>1. q # Mysql!NoReading
  BY MysqlFields
<1>2. /\ r.uptime \in Int /\ r.executed \in Int /\ r.ever \in Int /\ r.boots \in Int
      /\ q.uptime \in Int /\ q.executed \in Int /\ q.ever \in Int /\ q.boots \in Int
      /\ p.uptime \in Int /\ p.executed \in Int /\ p.ever \in Int /\ p.boots \in Int
  BY MysqlFields DEF MysqlPast
<1>. QED
  BY <1>1, <1>2 DEF MysqlFollows

\* The difference of two readings fits what lies between them.
LEMMA MysqlDeltaFits ==
  \A r \in MysqlReading, p \in MysqlPast, restarted \in BOOLEAN :
    MysqlFollows(r, p) /\ (restarted => p = Mysql!NoReading) =>
      Mysql!DeltaFits(Mysql!CounterDelta(r.executed, p.executed, restarted), r, p)
<1>. SUFFICES ASSUME NEW r \in MysqlReading, NEW p \in MysqlPast, NEW restarted \in BOOLEAN,
                     MysqlFollows(r, p), restarted => p = Mysql!NoReading
              PROVE  Mysql!DeltaFits(Mysql!CounterDelta(r.executed, p.executed, restarted), r, p)
  OBVIOUS
<1>1. CASE p = Mysql!NoReading
  BY <1>1, MysqlFields DEF Mysql!DeltaFits, Mysql!CounterDelta, Mysql!None
<1>2. CASE p # Mysql!NoReading
  <2>1. p \in MysqlReading
    BY <1>2 DEF MysqlPast
  <2>2. /\ r.executed \in Nat /\ r.ever \in Nat /\ r.boots \in Nat
        /\ p.executed \in Nat /\ p.ever \in Nat /\ p.boots \in Nat
    BY <2>1, MysqlFields
  <2>. QED
    BY <1>2, <2>2 DEF MysqlFollows, Mysql!DeltaFits, Mysql!CounterDelta, Mysql!None
<1>. QED
  BY <1>1, <1>2

LEMMA MysqlReadingTyped == MysqlTyped => Mysql!Reading \in MysqlReading
  BY DEF Mysql!Reading, MysqlReading, MysqlTyped, MysqlServer

\* A reading made later follows one made earlier.
LEMMA MysqlLater ==
  ASSUME MysqlTyped, [Mysql!Next]_(Mysql!vars)
  PROVE  \A p \in MysqlPast : MysqlFollows(Mysql!Reading, p) => MysqlFollows(Mysql!Reading', p)
<1>. SUFFICES ASSUME NEW p \in MysqlPast, MysqlFollows(Mysql!Reading, p)
              PROVE  MysqlFollows(Mysql!Reading', p)
  OBVIOUS
<1> DEFINE r == Mysql!Reading
           q == Mysql!Reading'
<1>0. MysqlTyped'
  BY MysqlTypeStep
<1>1. r \in MysqlReading /\ q \in MysqlReading
  <2>1. q \in MysqlReading
    BY <1>0 DEF Mysql!Reading, MysqlReading, MysqlTyped, MysqlServer
  <2>. QED
    BY <2>1, MysqlReadingTyped
<1>2. /\ now \in Nat /\ server.boots \in Nat /\ server.executed \in Nat /\ server.ever \in Nat
      /\ server.bootedAt \in Nat
  BY DEF MysqlTyped, MysqlServer
<1>3. /\ r.uptime = now - server.bootedAt /\ r.executed = server.executed
      /\ r.ever = server.ever /\ r.boots = server.boots
      /\ q.uptime = now' - server'.bootedAt /\ q.executed = server'.executed
      /\ q.ever = server'.ever /\ q.boots = server'.boots
  BY DEF Mysql!Reading
<1>4. \/ /\ now' \in {now, now + 1} /\ server' = server
      \/ /\ now' = now /\ server'.boots = server.boots /\ server'.bootedAt = server.bootedAt
         /\ server'.executed = server.executed + 1 /\ server'.ever = server.ever + 1
      \/ /\ now' = now /\ server'.boots = server.boots + 1 /\ server'.executed = 0
         /\ server'.ever = server.ever
  <2>1. CASE Mysql!Execute
    BY <2>1 DEF Mysql!Execute, MysqlTyped, MysqlServer
  <2>2. CASE Mysql!ServerRestart
    BY <2>2 DEF Mysql!ServerRestart, MysqlTyped, MysqlServer
  <2>3. CASE Mysql!StartScrape
    BY <2>3 DEF Mysql!StartScrape
  <2>4. CASE \E slot \in Slot : \/ Mysql!ReadStatus(slot) \/ Mysql!ScrapeFails(slot)
                                \/ Mysql!FinishScrape(slot)
    BY <2>4, Zenon DEF Mysql!ReadStatus, Mysql!ScrapeFails, Mysql!FinishScrape
  <2>5. CASE UNCHANGED Mysql!vars
    BY <2>5 DEF Mysql!vars
  <2>. QED
    BY <2>1, <2>2, <2>3, <2>4, <2>5, Zenon DEF Mysql!Next
<1>. HIDE DEF r, q
<1>5. MysqlFollows(q, r)
  BY <1>2, <1>3, <1>4 DEF MysqlFollows
<1>6. MysqlFollows(r, p)
  BY DEF r
<1>7. MysqlFollows(q, p)
  BY <1>1, <1>5, <1>6, MysqlFollowsTwice
<1>. QED
  BY <1>7 DEF q

\* What is remembered was read before now, and what a scrape is compared with before it.
MysqlOrdered ==
  /\ MysqlFollows(Mysql!Reading, state.previous.status)
  /\ MysqlFollows(Mysql!Reading, state.previous.rows)
  /\ \A slot \in Slot :
       scrape[slot].pc = "sections" =>
         /\ MysqlFollows(Mysql!Reading, scrape[slot].reading)
         /\ MysqlFollows(scrape[slot].reading, scrape[slot].previous.status)
         /\ MysqlFollows(scrape[slot].reading, scrape[slot].previous.rows)
         /\ scrape[slot].restarted => scrape[slot].previous = Mysql!NoPrevious

\* The payload's differences fit.
MysqlSentFits ==
  /\ Mysql!DeltaFits(sent.throughput.questionsDelta, sent.reading, sent.previous.status)
  /\ sent.rows # Mysql!None => Mysql!DeltaFits(sent.rows, sent.reading, sent.previous.rows)

\* What is remembered of the status is what the last payload told.
MysqlToldLast ==
  /\ state.previous.status = sent.reading
  /\ state.lastUptime = state.previous.status.uptime

\* Scrapes that do not overlap compare with what was told of the same run of the server.
MysqlAlone ==
  /\ \A a, b \in Slot : scrape[a] # Mysql!Idle /\ scrape[b] # Mysql!Idle => a = b
  /\ Mysql!Told.rows.boots <= sent.reading.boots
  /\ Mysql!Told.rows.boots = server.boots => state.previous.rows = Mysql!Told.rows
  /\ \A slot \in Slot :
       scrape[slot].pc = "sections" =>
         /\ sent.reading.boots <= scrape[slot].reading.boots
         /\ sent.reading.boots = scrape[slot].reading.boots =>
              scrape[slot].previous.status = sent.reading
         /\ Mysql!Told.rows.boots = scrape[slot].reading.boots =>
              scrape[slot].previous.rows = Mysql!Told.rows
  /\ h1.status.boots = sent.reading.boots => sent.previous.status = h1.status
  /\ h1.rows.boots = sent.reading.boots => sent.previous.rows = h1.rows

MysqlDeltaInv ==
  /\ MysqlTyped
  /\ MysqlOrdered
  /\ MysqlSentFits
  /\ MysqlToldLast
  /\ ~h3 => MysqlAlone

LEMMA MysqlDeltaInit == Mysql!Init => MysqlDeltaInv
<1>. SUFFICES ASSUME Mysql!Init PROVE MysqlDeltaInv
  OBVIOUS
<1>1. /\ state.previous = Mysql!NoPrevious /\ state.lastUptime = Mysql!None
      /\ sent.reading = Mysql!NoReading /\ sent.previous = Mysql!NoPrevious
      /\ sent.rows = Mysql!None /\ sent.throughput.questionsDelta = 0
      /\ h1 = Mysql!NoPrevious
  BY DEF Mysql!Init
<1>2. \A slot \in Slot : scrape[slot] = Mysql!Idle /\ scrape[slot].pc = "idle"
  BY DEF Mysql!Init, Mysql!Idle
<1>3. Mysql!Told.rows = Mysql!NoReading
  BY <1>1, MysqlFields DEF Mysql!Told
<1>4. MysqlSentFits
  BY <1>1, MysqlFields DEF MysqlSentFits, Mysql!DeltaFits
<1>5. MysqlOrdered
  BY <1>1, <1>2, MysqlFields DEF MysqlOrdered, MysqlFollows
<1>6. MysqlToldLast
  BY <1>1, MysqlFields DEF MysqlToldLast, Mysql!None
<1>7. server.boots = 0
  BY DEF Mysql!Init
<1>8. MysqlAlone
  BY <1>1, <1>2, <1>3, <1>7, MysqlFields DEF MysqlAlone
<1>. QED
  BY <1>4, <1>5, <1>6, <1>8, MysqlTypeInit DEF MysqlDeltaInv

\* A step that leaves what was sent and what is remembered, and brings no scrape to its
\* sections.
LEMMA MysqlDeltaQuiet ==
  ASSUME MysqlDeltaInv, [Mysql!Next]_(Mysql!vars), MysqlTyped',
         UNCHANGED <<state, sent, h1>>,
         \A slot \in Slot : \/ scrape'[slot] = scrape[slot]
                            \/ scrape'[slot].pc # "sections",
         server.boots <= server'.boots,
         ~h3' => /\ ~h3
                 /\ \A a, b \in Slot :
                      scrape'[a] # Mysql!Idle /\ scrape'[b] # Mysql!Idle => a = b
  PROVE  MysqlDeltaInv'
<1>. USE DEF MysqlDeltaInv
<1>1. MysqlSentFits' /\ MysqlToldLast'
  BY DEF MysqlSentFits, MysqlToldLast
<1>2. state.previous.status \in MysqlPast /\ state.previous.rows \in MysqlPast
  BY MysqlFields DEF MysqlTyped, MysqlState
<1>3. \A slot \in Slot : scrape[slot].pc = "sections" => scrape[slot].reading \in MysqlPast
  BY MysqlSlotTyped DEF MysqlSections, MysqlPast
<1>4. MysqlOrdered'
  <2>1. /\ MysqlFollows(Mysql!Reading', state.previous.status)
        /\ MysqlFollows(Mysql!Reading', state.previous.rows)
    BY <1>2, MysqlLater DEF MysqlOrdered
  <2>2. \A slot \in Slot : scrape[slot].pc = "sections" =>
          MysqlFollows(Mysql!Reading', scrape[slot].reading)
    BY <1>3, MysqlLater DEF MysqlOrdered
  <2>. QED
    BY <2>1, <2>2 DEF MysqlOrdered
<1>5. ASSUME ~h3' PROVE MysqlAlone'
  <2>1. MysqlAlone
    BY <1>5
  <2>2. Mysql!Told' = Mysql!Told
    BY DEF Mysql!Told
  <2>3. Mysql!Told.rows.boots = server'.boots => state.previous.rows = Mysql!Told.rows
    <3>1. Mysql!Told.rows \in MysqlPast /\ sent.reading \in MysqlPast
      BY DEF MysqlTyped, Mysql!Told, MysqlPrevious
    <3>2. Mysql!Told.rows.boots \in Int /\ sent.reading.boots \in Int
      BY <3>1, MysqlFields
    <3>3. sent.reading.boots <= server.boots
      <4>1. MysqlFollows(Mysql!Reading, sent.reading)
        BY DEF MysqlOrdered, MysqlToldLast
      <4>2. Mysql!Reading.boots = server.boots /\ server.boots \in Nat
        BY DEF Mysql!Reading, MysqlTyped, MysqlServer
      <4>. QED
        BY <4>1, <4>2, MysqlFields DEF MysqlFollows
    <3>4. Mysql!Told.rows.boots <= server.boots /\ server.boots \in Int /\ server'.boots \in Int
      BY <2>1, <3>2, <3>3 DEF MysqlAlone, MysqlTyped, MysqlServer
    <3>5. Mysql!Told.rows.boots = server'.boots => Mysql!Told.rows.boots = server.boots
      BY <3>2, <3>4
    <3>. QED
      BY <2>1, <3>5 DEF MysqlAlone
  <2>4. /\ Mysql!Told.rows.boots <= sent.reading.boots
        /\ h1.status.boots = sent.reading.boots => sent.previous.status = h1.status
        /\ h1.rows.boots = sent.reading.boots => sent.previous.rows = h1.rows
        /\ \A slot \in Slot :
             scrape[slot].pc = "sections" =>
               /\ sent.reading.boots <= scrape[slot].reading.boots
               /\ sent.reading.boots = scrape[slot].reading.boots =>
                    scrape[slot].previous.status = sent.reading
               /\ Mysql!Told.rows.boots = scrape[slot].reading.boots =>
                    scrape[slot].previous.rows = Mysql!Told.rows
    BY <2>1 DEF MysqlAlone
  <2>5. \A a, b \in Slot : scrape'[a] # Mysql!Idle /\ scrape'[b] # Mysql!Idle => a = b
    BY <1>5
  <2>. QED
    BY <2>2, <2>3, <2>4, <2>5 DEF MysqlAlone
<1>. QED
  BY <1>1, <1>4, <1>5

\* Reading the status: what it is compared with is what was told, unless the server has
\* restarted since.
LEMMA MysqlDeltaRead ==
  ASSUME MysqlDeltaInv, NEW slot \in Slot, Mysql!ReadStatus(slot), MysqlTyped'
  PROVE  MysqlDeltaInv'
<1>. USE DEF MysqlDeltaInv
<1> DEFINE s == scrape[slot]
           t == scrape'[slot]
           r == Mysql!Reading
           restarted == state.lastUptime # Mysql!None /\ Mysql!Reading.uptime < state.lastUptime
<1>1. PICK capabilities \in Mysql!ProbeCapabilities :
        scrape' = [scrape EXCEPT ![slot] =
          [pc |-> "sections", at |-> s.at, reading |-> Mysql!Reading,
           restarted |-> restarted,
           previous |-> IF restarted THEN Mysql!NoPrevious ELSE state.previous,
           collected |-> Mysql!Collected(s, capabilities)]]
  BY Zenon DEF Mysql!ReadStatus, Mysql!Set
<1>2. /\ t.reading = r /\ t.restarted = restarted
      /\ t.previous = IF restarted THEN Mysql!NoPrevious ELSE state.previous
      /\ \A other \in Slot \ {slot} : scrape'[other] = scrape[other]
  BY <1>1 DEF MysqlTyped
<1>3. /\ UNCHANGED <<now, server, state, sent, h1, h2, h3>>
      /\ s.pc = "connected"
  BY DEF Mysql!ReadStatus, Mysql!historyVars
<1>4. MysqlSentFits' /\ MysqlToldLast'
  BY <1>3 DEF MysqlSentFits, MysqlToldLast
<1>5. Mysql!Reading' = r
  BY <1>3 DEF Mysql!Reading
<1>6. r \in MysqlReading
  BY MysqlReadingTyped
<1>7. MysqlFollows(r, r)
  BY <1>6, MysqlFields DEF MysqlFollows
<1>8. /\ MysqlFollows(r, t.previous.status) /\ MysqlFollows(r, t.previous.rows)
      /\ t.restarted => t.previous = Mysql!NoPrevious
  <2>1. MysqlFollows(r, Mysql!NoReading)
    BY DEF MysqlFollows
  <2>. QED
    BY <1>2, <2>1, MysqlFields DEF MysqlOrdered
<1>9. MysqlOrdered'
  <2>1. MysqlFollows(r, state.previous.status) /\ MysqlFollows(r, state.previous.rows)
    BY DEF MysqlOrdered
  <2>2. ASSUME NEW x \in Slot, scrape'[x].pc = "sections"
        PROVE  /\ MysqlFollows(r, scrape'[x].reading)
               /\ MysqlFollows(scrape'[x].reading, scrape'[x].previous.status)
               /\ MysqlFollows(scrape'[x].reading, scrape'[x].previous.rows)
               /\ scrape'[x].restarted => scrape'[x].previous = Mysql!NoPrevious
    <3>1. CASE x = slot
      BY <1>2, <1>7, <1>8, <3>1
    <3>2. CASE x # slot
      BY <1>2, <2>2, <3>2 DEF MysqlOrdered
    <3>. QED
      BY <3>1, <3>2
  <2>. HIDE DEF r
  <2>. QED
    BY <1>3, <1>5, <2>1, <2>2 DEF MysqlOrdered
<1>10. ASSUME ~h3' PROVE MysqlAlone'
  <2>1. MysqlAlone
    BY <1>3, <1>10
  <2>2. Mysql!Told' = Mysql!Told
    BY <1>3 DEF Mysql!Told
  <2>3. /\ Mysql!Told.rows.boots \in Int /\ sent.reading.boots \in Int /\ server.boots \in Nat
        /\ r.boots = server.boots
    <3>1. Mysql!Told.rows \in MysqlPast /\ sent.reading \in MysqlPast
      BY DEF MysqlTyped, Mysql!Told, MysqlPrevious
    <3>. QED
      BY <3>1, MysqlFields DEF Mysql!Reading, MysqlTyped, MysqlServer
  <2>4. MysqlFollows(r, sent.reading)
    BY DEF MysqlOrdered, MysqlToldLast
  <2>5. sent.reading.boots <= r.boots
    BY <2>3, <2>4, MysqlFields DEF MysqlFollows
  <2>6. sent.reading.boots = r.boots => ~restarted
    <3>1. SUFFICES ASSUME sent.reading.boots = r.boots PROVE ~restarted
      OBVIOUS
    <3>2. sent.reading # Mysql!NoReading
      BY <2>3, <3>1, MysqlFields
    <3>3. sent.reading.uptime <= r.uptime
      BY <2>4, <3>1, <3>2 DEF MysqlFollows
    <3>4. state.lastUptime = sent.reading.uptime /\ sent.reading.uptime \in Int /\ r.uptime \in Int
      BY <1>6, MysqlFields DEF MysqlToldLast, MysqlTyped
    <3>. QED
      BY <3>3, <3>4
  <2>7. sent.reading.boots = r.boots => t.previous.status = sent.reading
    BY <1>2, <2>6 DEF MysqlToldLast
  <2>8. Mysql!Told.rows.boots = r.boots => t.previous.rows = Mysql!Told.rows
    <3>1. SUFFICES ASSUME Mysql!Told.rows.boots = r.boots PROVE t.previous.rows = Mysql!Told.rows
      OBVIOUS
    <3>2. sent.reading.boots = r.boots
      <4>1. Mysql!Told.rows.boots <= sent.reading.boots
        BY <2>1 DEF MysqlAlone
      <4>. QED
        BY <2>3, <2>5, <3>1, <4>1
    <3>3. state.previous.rows = Mysql!Told.rows
      BY <2>1, <2>3, <3>1 DEF MysqlAlone
    <3>. QED
      BY <1>2, <2>6, <3>2, <3>3
  <2>9. \A a, b \in Slot : scrape'[a] # Mysql!Idle /\ scrape'[b] # Mysql!Idle => a = b
    <3>1. \A x \in Slot : scrape'[x] # Mysql!Idle => scrape[x] # Mysql!Idle
      BY <1>2, <1>3 DEF Mysql!Idle
    <3>. QED
      BY <2>1, <3>1 DEF MysqlAlone
  <2>10. ASSUME NEW x \in Slot, scrape'[x].pc = "sections"
         PROVE  /\ sent.reading.boots <= scrape'[x].reading.boots
                /\ sent.reading.boots = scrape'[x].reading.boots =>
                     scrape'[x].previous.status = sent.reading
                /\ Mysql!Told.rows.boots = scrape'[x].reading.boots =>
                     scrape'[x].previous.rows = Mysql!Told.rows
    <3>1. CASE x = slot
      BY <1>2, <2>5, <2>7, <2>8, <3>1
    <3>2. CASE x # slot
      BY <1>2, <2>1, <2>10, <3>2 DEF MysqlAlone
    <3>. QED
      BY <3>1, <3>2
  <2>11. /\ Mysql!Told.rows.boots <= sent.reading.boots
         /\ Mysql!Told.rows.boots = server.boots => state.previous.rows = Mysql!Told.rows
         /\ h1.status.boots = sent.reading.boots => sent.previous.status = h1.status
         /\ h1.rows.boots = sent.reading.boots => sent.previous.rows = h1.rows
    BY <2>1 DEF MysqlAlone
  <2>. HIDE DEF t, r, s, restarted
  <2>. QED
    BY <1>3, <2>2, <2>9, <2>10, <2>11 DEF MysqlAlone
<1>. QED
  BY <1>4, <1>9, <1>10

\* Finishing: the payload joins its reading to the one it is compared with.
LEMMA MysqlDeltaFinish ==
  ASSUME MysqlDeltaInv, NEW slot \in Slot, Mysql!FinishScrape(slot), MysqlTyped'
  PROVE  MysqlDeltaInv'
<1>. USE DEF MysqlDeltaInv
<1> DEFINE s == scrape[slot]
<1>1. /\ s \in MysqlSections
      /\ sent'.reading = s.reading /\ sent'.previous = s.previous
      /\ sent'.throughput.questionsDelta =
           Mysql!CounterDelta(s.reading.executed, s.previous.status.executed, s.restarted)
      /\ state' \in MysqlState
      /\ state'.lastUptime = s.reading.uptime
      /\ state'.previous.status = s.reading
      /\ \/ sent'.rows = Mysql!None /\ state'.previous.rows = s.previous.rows
         \/ /\ sent'.rows = Mysql!DeriveQueries(s)
            /\ state'.previous.rows = s.reading
      /\ h1' = Mysql!Told
      /\ scrape' = [scrape EXCEPT ![slot] = Mysql!Idle]
      /\ UNCHANGED <<now, server, h3>>
  BY MysqlFinish
<1>2. /\ s.pc = "sections" /\ s.reading \in MysqlReading /\ s.restarted \in BOOLEAN
      /\ s.previous.status \in MysqlPast /\ s.previous.rows \in MysqlPast
  BY <1>1, MysqlFields DEF MysqlSections
<1>3. /\ MysqlFollows(Mysql!Reading, s.reading)
      /\ MysqlFollows(s.reading, s.previous.status) /\ MysqlFollows(s.reading, s.previous.rows)
      /\ s.restarted => s.previous = Mysql!NoPrevious
  BY <1>2 DEF MysqlOrdered
<1>4. Mysql!Reading \in MysqlReading /\ Mysql!Reading' = Mysql!Reading
  BY <1>1, MysqlReadingTyped DEF Mysql!Reading
<1>5. \A x \in Slot : scrape'[x] # scrape[x] => scrape'[x] = Mysql!Idle
  BY <1>1 DEF MysqlTyped
<1>i. scrape'[slot] = Mysql!Idle
  BY <1>1 DEF MysqlTyped
<1>. HIDE DEF s
<1>6. MysqlSentFits'
  <2>1. Mysql!DeltaFits(sent'.throughput.questionsDelta, s.reading, s.previous.status)
    BY <1>1, <1>2, <1>3, MysqlDeltaFits, MysqlFields
  <2>2. sent'.rows # Mysql!None => Mysql!DeltaFits(sent'.rows, s.reading, s.previous.rows)
    BY <1>1, <1>2, <1>3, MysqlDeltaFits, MysqlFields DEF Mysql!DeriveQueries
  <2>. QED
    BY <1>1, <2>1, <2>2 DEF MysqlSentFits
<1>7. MysqlToldLast'
  BY <1>1 DEF MysqlToldLast
<1>8. MysqlOrdered'
  <2>1. MysqlFollows(Mysql!Reading, s.previous.rows)
    BY <1>2, <1>3, <1>4, MysqlFollowsTwice
  <2>2. /\ MysqlFollows(Mysql!Reading, state'.previous.status)
        /\ MysqlFollows(Mysql!Reading, state'.previous.rows)
    BY <1>1, <1>3, <2>1
  <2>3. \A x \in Slot : scrape'[x].pc = "sections" => scrape'[x] = scrape[x]
    BY <1>5 DEF Mysql!Idle
  <2>. QED
    BY <1>4, <2>2, <2>3 DEF MysqlOrdered
<1>9. ASSUME ~h3' PROVE MysqlAlone'
  <2>1. MysqlAlone
    BY <1>1, <1>9
  <2>2. \A x \in Slot : scrape'[x] = Mysql!Idle
    BY <1>2, <1>5, <1>i, <2>1 DEF MysqlAlone, Mysql!Idle, s
  <2>3. /\ h1'.status = sent.reading /\ h1'.rows = Mysql!Told.rows
    BY <1>1 DEF Mysql!Told
  <2>4. /\ sent.reading.boots <= s.reading.boots
        /\ sent.reading.boots = s.reading.boots => s.previous.status = sent.reading
        /\ Mysql!Told.rows.boots = s.reading.boots => s.previous.rows = Mysql!Told.rows
        /\ Mysql!Told.rows.boots <= sent.reading.boots
    BY <1>2, <2>1 DEF MysqlAlone, s
  <2>5. \/ Mysql!Told'.rows = s.reading /\ state'.previous.rows = s.reading
        \/ Mysql!Told'.rows = Mysql!Told.rows /\ state'.previous.rows = s.previous.rows
    <3>1. Mysql!Told'.rows = IF sent'.rows = Mysql!None THEN h1'.rows ELSE sent'.reading
      BY DEF Mysql!Told
    <3>2. CASE sent'.rows = Mysql!None /\ state'.previous.rows = s.previous.rows
      BY <2>3, <3>1, <3>2
    <3>3. CASE sent'.rows = Mysql!DeriveQueries(s) /\ state'.previous.rows = s.reading
      <4>1. sent'.rows # Mysql!None
        <5>1. s.reading.executed \in Nat /\ s.previous.rows.executed \in Int
          BY <1>2, MysqlFields
        <5>. QED
          BY <3>3, <5>1 DEF Mysql!DeriveQueries, Mysql!CounterDelta, Mysql!None
      <4>. QED
        BY <1>1, <3>1, <3>3, <4>1
    <3>. QED
      BY <1>1, <3>2, <3>3
  <2>6. /\ Mysql!Told.rows.boots \in Int /\ sent.reading.boots \in Int /\ server.boots \in Int
        /\ s.reading.boots \in Int /\ s.reading.boots <= server.boots
    <3>1. Mysql!Told.rows \in MysqlPast /\ sent.reading \in MysqlPast
      BY DEF MysqlTyped, Mysql!Told, MysqlPrevious
    <3>2. Mysql!Reading.boots = server.boots /\ s.reading # Mysql!NoReading
      BY <1>2, MysqlFields DEF Mysql!Reading
    <3>3. s.reading.boots <= server.boots
      BY <1>3, <3>2 DEF MysqlFollows
    <3>. QED
      BY <1>2, <3>1, <3>3, MysqlFields DEF MysqlTyped, MysqlServer
  <2>7. Mysql!Told'.rows.boots <= s.reading.boots
    BY <2>4, <2>5, <2>6
  <2>8. Mysql!Told'.rows.boots = server.boots => state'.previous.rows = Mysql!Told'.rows
    BY <2>4, <2>5, <2>6
  <2>9. /\ h1'.status.boots = s.reading.boots => s.previous.status = h1'.status
        /\ h1'.rows.boots = s.reading.boots => s.previous.rows = h1'.rows
    BY <2>3, <2>4
  <2>. QED
    BY <1>1, <2>2, <2>7, <2>8, <2>9 DEF MysqlAlone, Mysql!Idle
<1>. QED
  BY <1>6, <1>7, <1>8, <1>9

LEMMA MysqlDeltaStep ==
  ASSUME MysqlDeltaInv, [Mysql!Next]_(Mysql!vars)
  PROVE  MysqlDeltaInv'
<1>0. MysqlTyped /\ MysqlTyped'
  BY MysqlTypeStep DEF MysqlDeltaInv
<1>1. CASE Mysql!Execute
  <2>1. server'.boots = server.boots /\ UNCHANGED <<state, scrape, sent, h1, h3>>
    BY <1>1 DEF Mysql!Execute, Mysql!historyVars, MysqlTyped, MysqlServer
  <2>2. server.boots <= server'.boots
    BY <1>0, <2>1 DEF MysqlTyped, MysqlServer
  <2>. QED
    BY <1>0, <2>1, <2>2, MysqlDeltaQuiet DEF MysqlDeltaInv, MysqlAlone
<1>2. CASE Mysql!ServerRestart
  <2>1. /\ server'.boots = server.boots + 1 /\ UNCHANGED <<state, sent, h1, h3>>
        /\ \A x \in Slot : scrape'[x] \in {Mysql!Idle, scrape[x]}
    BY <1>0, <1>2 DEF Mysql!ServerRestart, Mysql!historyVars, MysqlTyped, MysqlServer
  <2>2. server.boots <= server'.boots
    BY <1>0, <2>1 DEF MysqlTyped, MysqlServer
  <2>3. \A x \in Slot : scrape'[x] = scrape[x] \/ scrape'[x].pc # "sections"
    BY <2>1 DEF Mysql!Idle
  <2>. QED
    BY <1>0, <2>1, <2>2, <2>3, MysqlDeltaQuiet DEF MysqlDeltaInv, MysqlAlone
<1>3. CASE Mysql!StartScrape
  <2>1. /\ UNCHANGED <<server, state, sent, h1>>
        /\ \/ /\ scrape' = [scrape EXCEPT ![Mysql!Min(Mysql!FreeSlots)] =
                                   [pc |-> "connected", at |-> now']]
              /\ h3' = (h3 \/ Mysql!FreeSlots # Slot)
           \/ UNCHANGED <<scrape, h3>>
    BY <1>3, Zenon DEF Mysql!StartScrape, Mysql!Set
  <2>2. \A x \in Slot : \/ scrape'[x] = scrape[x]
                        \/ scrape'[x] = [pc |-> "connected", at |-> now']
    BY <1>0, <2>1 DEF MysqlTyped
  <2>3. ASSUME ~h3'
        PROVE  /\ ~h3
               /\ \A a, b \in Slot :
                    scrape'[a] # Mysql!Idle /\ scrape'[b] # Mysql!Idle => a = b
    <3>1. CASE UNCHANGED <<scrape, h3>>
      BY <2>3, <3>1 DEF MysqlDeltaInv, MysqlAlone
    <3>2. CASE /\ scrape' = [scrape EXCEPT ![Mysql!Min(Mysql!FreeSlots)] =
                                    [pc |-> "connected", at |-> now']]
               /\ h3' = (h3 \/ Mysql!FreeSlots # Slot)
      <4>1. ~h3 /\ Mysql!FreeSlots = Slot
        BY <2>3, <3>2
      <4>2. \A x \in Slot : scrape[x] = Mysql!Idle
        BY <4>1 DEF Mysql!FreeSlots
      <4>3. \A x \in Slot : x # Mysql!Min(Mysql!FreeSlots) => scrape'[x] = scrape[x]
        BY <1>0, <3>2 DEF MysqlTyped
      <4>. QED
        BY <4>1, <4>2, <4>3
    <3>. QED
      BY <2>1, <3>1, <3>2
  <2>4. \A x \in Slot : scrape'[x] = scrape[x] \/ scrape'[x].pc # "sections"
    BY <2>2
  <2>5. server.boots <= server'.boots
    BY <1>0, <2>1 DEF MysqlTyped, MysqlServer
  <2>. QED
    BY <1>0, <2>1, <2>3, <2>4, <2>5, MysqlDeltaQuiet, Zenon
<1>4. ASSUME NEW slot \in Slot, Mysql!ReadStatus(slot) PROVE MysqlDeltaInv'
  BY <1>0, <1>4, MysqlDeltaRead
<1>5. ASSUME NEW slot \in Slot, Mysql!ScrapeFails(slot) PROVE MysqlDeltaInv'
  <2>1. /\ UNCHANGED <<server, state, sent, h1, h3>>
        /\ \A x \in Slot : scrape'[x] \in {Mysql!Idle, scrape[x]}
    BY <1>0, <1>5 DEF Mysql!ScrapeFails, Mysql!Set, Mysql!historyVars, MysqlTyped
  <2>2. server.boots <= server'.boots
    BY <1>0, <2>1 DEF MysqlTyped, MysqlServer
  <2>3. \A x \in Slot : scrape'[x] = scrape[x] \/ scrape'[x].pc # "sections"
    BY <2>1 DEF Mysql!Idle
  <2>. QED
    BY <1>0, <2>1, <2>2, <2>3, MysqlDeltaQuiet DEF MysqlDeltaInv, MysqlAlone
<1>6. ASSUME NEW slot \in Slot, Mysql!FinishScrape(slot) PROVE MysqlDeltaInv'
  BY <1>0, <1>6, MysqlDeltaFinish
<1>7. CASE UNCHANGED Mysql!vars
  <2>1. UNCHANGED <<server, state, scrape, sent, h1, h3>>
    BY <1>7 DEF Mysql!vars, Mysql!historyVars
  <2>2. server.boots <= server'.boots
    BY <1>0, <2>1 DEF MysqlTyped, MysqlServer
  <2>. QED
    BY <1>0, <2>1, <2>2, MysqlDeltaQuiet DEF MysqlDeltaInv, MysqlAlone
<1>. QED
  BY <1>1, <1>2, <1>3, <1>4, <1>5, <1>6, <1>7, ZenonT(60) DEF Mysql!Next

\* The property is what the invariant says of the last payload.
LEMMA MysqlDeltaImplies == MysqlDeltaInv => Mysql!DeltasJoinReadings
<1>. SUFFICES ASSUME MysqlDeltaInv PROVE Mysql!DeltasJoinReadings
  OBVIOUS
<1>. QED
  BY DEF MysqlDeltaInv, MysqlSentFits, MysqlAlone, Mysql!DeltasJoinReadings

-----------------------------------------------------------------------------
(* PostgresCollector *)

PgTime == Nat \cup {Postgres!None}

PgReading == [uptime : Int, calls : Nat, ever : Nat, resets : Nat]

PgPast == {Postgres!NoReading} \cup PgReading

PgPrevious == [statements : PgPast, wal : {Postgres!Unread} \cup PgPast]

PgServer ==
  [resets : Nat, bootedAt : Nat, calls : Nat, ever : Nat, open : SUBSET Database]

PgState == [lastStorageAt : PgTime, lastUptime : Int, previous : PgPrevious]

PgStorage ==
  [pc : {"storage"}, at : Nat, reading : PgReading, restarted : BOOLEAN,
   previous : PgPrevious, statements : BOOLEAN, wal : BOOLEAN, storage : BOOLEAN,
   targets : SUBSET Database, probed : BOOLEAN, tables : SUBSET Database]

PgScrape == {Postgres!Idle} \cup [pc : {"connected"}, at : Nat] \cup PgStorage

PgTyped ==
  /\ now \in Nat /\ server \in PgServer /\ state \in PgState
  /\ scrape \in [Slot -> PgScrape]
  /\ sent.reading \in PgPast /\ sent.previous \in PgPrevious
  /\ h1 \in PgPrevious /\ h2 \in PgTime /\ h3 \in BOOLEAN

\* A scrape that reads tables has read the cluster.
LEMMA PgSlotTyped ==
  ASSUME PgTyped, NEW slot \in Slot, scrape[slot].pc = "storage"
  PROVE  scrape[slot] \in PgStorage
<1>1. scrape[slot] \in PgScrape
  BY DEF PgTyped
<1>. QED
  BY <1>1 DEF PgScrape, Postgres!Idle

\* The fields of what is typed, and what no reading is.
LEMMA PgFields ==
  /\ \A r \in PgReading : /\ r.uptime \in Int /\ r.calls \in Nat /\ r.ever \in Nat
                          /\ r.resets \in Nat /\ r # Postgres!NoReading /\ r # Postgres!Unread
  /\ Postgres!NoReading \in PgPast
  /\ \A r \in PgPast \cup {Postgres!Unread} :
       r.uptime \in Int /\ r.calls \in Int /\ r.ever \in Int /\ r.resets \in Int
  /\ \A p \in PgPrevious : p.statements \in PgPast /\ p.wal \in PgPast \cup {Postgres!Unread}
  /\ Postgres!NoPrevious \in PgPrevious
  /\ Postgres!NoPrevious.statements = Postgres!NoReading
  /\ Postgres!NoPrevious.wal = Postgres!NoReading
  /\ Postgres!NoReading # Postgres!Unread /\ Postgres!Unread.resets = -1
  /\ Postgres!NoReading.resets = -1 /\ Postgres!NoReading.calls = -1
<1>1. Postgres!NoReading \in PgPast
  BY DEF PgPast
<1>2. Postgres!NoPrevious \in PgPrevious
  BY <1>1 DEF PgPrevious, Postgres!NoPrevious
<1>3. /\ Postgres!NoReading.resets = -1 /\ Postgres!NoReading.uptime = -1
      /\ Postgres!NoReading.calls = -1 /\ Postgres!NoReading.ever = -1
      /\ Postgres!Unread.resets = -1 /\ Postgres!Unread.uptime = -1
      /\ Postgres!Unread.calls = 0 /\ Postgres!Unread.ever = -1
  BY DEF Postgres!NoReading, Postgres!Unread, Postgres!None
<1>4. Postgres!NoReading # Postgres!Unread
  BY <1>3
<1>5. \A r \in PgReading : /\ r.uptime \in Int /\ r.calls \in Nat /\ r.ever \in Nat
                           /\ r.resets \in Nat /\ r # Postgres!NoReading /\ r # Postgres!Unread
  <2>. SUFFICES ASSUME NEW r \in PgReading
                PROVE  /\ r.uptime \in Int /\ r.calls \in Nat /\ r.ever \in Nat
                       /\ r.resets \in Nat /\ r # Postgres!NoReading /\ r # Postgres!Unread
    OBVIOUS
  <2>1. r.uptime \in Int /\ r.calls \in Nat /\ r.ever \in Nat /\ r.resets \in Nat
    BY DEF PgReading
  <2>. QED
    BY <1>3, <2>1
<1>6. \A r \in PgPast \cup {Postgres!Unread} :
        r.uptime \in Int /\ r.calls \in Int /\ r.ever \in Int /\ r.resets \in Int
  BY <1>3, <1>5 DEF PgPast
<1>7. \A p \in PgPrevious : p.statements \in PgPast /\ p.wal \in PgPast \cup {Postgres!Unread}
  BY DEF PgPrevious
<1>8. /\ Postgres!NoPrevious.statements = Postgres!NoReading
      /\ Postgres!NoPrevious.wal = Postgres!NoReading
  BY DEF Postgres!NoPrevious
<1>. QED
  BY <1>1, <1>2, <1>3, <1>4, <1>5, <1>6, <1>7, <1>8

\* What is derived of the statements is the difference of a counter.
LEMMA PgStatementsDiffer ==
  ASSUME NEW s \in PgStorage
  PROVE  Postgres!DeriveStatements(s) =
           Postgres!CounterDelta(s.reading.calls, s.previous.statements.calls, s.restarted)
<1>1. /\ s.reading.calls \in Nat /\ s.previous.statements.calls \in Int
      /\ s.restarted \in BOOLEAN
  <2>1. s.reading \in PgReading /\ s.previous \in PgPrevious /\ s.restarted \in BOOLEAN
    BY DEF PgStorage
  <2>. QED
    BY <2>1, PgFields
<1>. QED
  BY <1>1 DEF Postgres!DeriveStatements, Postgres!CounterDelta, Postgres!None

\* What FinishScrape does with a scrape.
LEMMA PgFinish ==
  ASSUME PgTyped, NEW slot \in Slot, Postgres!FinishScrape(slot)
  PROVE  LET s == scrape[slot]
         IN  /\ s \in PgStorage
             /\ sent'.reading = s.reading /\ sent'.previous = s.previous
             /\ sent'.statements = IF s.statements THEN Postgres!DeriveStatements(s)
                                                   ELSE Postgres!None
             /\ sent'.wal = IF s.wal THEN Postgres!WalDerived(s) ELSE Postgres!None
             /\ state' \in PgState
             /\ state'.lastUptime = s.reading.uptime
             /\ state'.previous.statements = IF s.statements THEN s.reading
                                                             ELSE s.previous.statements
             /\ state'.previous.wal = IF s.wal THEN s.reading ELSE Postgres!Unread
             /\ state'.lastStorageAt = IF s.storage THEN s.at ELSE state.lastStorageAt
             /\ h2' = IF s.storage THEN Postgres!Max({s.at, h2}) ELSE h2
             /\ h1' = Postgres!Told
             /\ scrape' = [scrape EXCEPT ![slot] = Postgres!Idle]
             /\ UNCHANGED <<now, server, h3>>
<1> DEFINE s == scrape[slot]
<1>1. s \in PgStorage
  BY PgSlotTyped DEF Postgres!FinishScrape
<1>2. /\ sent' = [statements |-> IF s.statements THEN Postgres!DeriveStatements(s)
                                                 ELSE Postgres!None,
                  wal |-> IF s.wal THEN Postgres!WalDerived(s) ELSE Postgres!None,
                  tables |-> s.tables, reading |-> s.reading, previous |-> s.previous]
      /\ state' = [lastStorageAt |-> Postgres!StorageClock(s), lastUptime |-> s.reading.uptime,
                   previous |-> Postgres!Remembered(s)]
      /\ h2' = IF s.storage THEN Postgres!Max({s.at, h2}) ELSE h2
      /\ h1' = Postgres!Told
      /\ scrape' = [scrape EXCEPT ![slot] = Postgres!Idle]
      /\ UNCHANGED <<now, server, h3>>
  BY Zenon DEF Postgres!FinishScrape, Postgres!Set
<1>3. /\ s.reading \in PgReading /\ s.at \in Nat /\ s.previous \in PgPrevious
      /\ s.statements \in BOOLEAN /\ s.wal \in BOOLEAN
  BY <1>1 DEF PgStorage
<1>4. /\ Postgres!Remembered(s).statements = IF s.statements THEN s.reading
                                                             ELSE s.previous.statements
      /\ Postgres!Remembered(s).wal = IF s.wal THEN s.reading ELSE Postgres!Unread
      /\ Postgres!Remembered(s) \in PgPrevious
  BY <1>3 DEF Postgres!Remembered, PgPrevious, PgPast
<1>5. Postgres!StorageClock(s) \in PgTime
  BY <1>3 DEF Postgres!StorageClock, PgTyped, PgState, PgTime
<1>6. s.reading.uptime \in Int
  BY <1>3 DEF PgReading
<1>. HIDE DEF s
<1>7. state' \in PgState
  BY <1>2, <1>4, <1>5, <1>6 DEF PgState
<1>8. /\ sent'.reading = s.reading /\ sent'.previous = s.previous
      /\ sent'.statements = IF s.statements THEN Postgres!DeriveStatements(s) ELSE Postgres!None
      /\ sent'.wal = IF s.wal THEN Postgres!WalDerived(s) ELSE Postgres!None
  BY <1>2
<1>9. /\ state'.lastUptime = s.reading.uptime /\ state'.previous = Postgres!Remembered(s)
      /\ state'.lastStorageAt = IF s.storage THEN s.at ELSE state.lastStorageAt
  BY <1>2 DEF Postgres!StorageClock
<1>. QED
  BY <1>1, <1>2, <1>4, <1>7, <1>8, <1>9 DEF s

\* The larger of two times.
LEMMA PgLaterOfTwo ==
  \A a, b \in Int :
    Postgres!Max({a, b}) \in {a, b} /\ Postgres!Max({a, b}) >= a /\ Postgres!Max({a, b}) >= b
<1>. SUFFICES ASSUME NEW a \in Int, NEW b \in Int
              PROVE  /\ Postgres!Max({a, b}) \in {a, b}
                     /\ Postgres!Max({a, b}) >= a /\ Postgres!Max({a, b}) >= b
  OBVIOUS
<1> DEFINE larger == IF a >= b THEN a ELSE b
<1>1. larger \in {a, b} /\ \A y \in {a, b} : larger >= y
  OBVIOUS
<1>. HIDE DEF larger
<1>2. \E x \in {a, b} : \A y \in {a, b} : x >= y
  BY <1>1
<1>3. Postgres!Max({a, b}) \in {a, b} /\ \A y \in {a, b} : Postgres!Max({a, b}) >= y
  BY <1>2, Zenon DEF Postgres!Max
<1>. QED
  BY <1>3

LEMMA PgTypeInit == Postgres!Init => PgTyped
<1>. SUFFICES ASSUME Postgres!Init PROVE PgTyped
  OBVIOUS
<1>1. Postgres!None \in PgTime /\ Postgres!None \in Int
  BY DEF Postgres!None, PgTime
<1>2. state \in PgState
  BY <1>1, PgFields DEF Postgres!Init, PgState, Postgres!Forgotten
<1>3. scrape \in [Slot -> PgScrape]
  BY DEF Postgres!Init, PgScrape
<1>4. server \in PgServer
  BY DEF Postgres!Init, PgServer
<1>. QED
  BY <1>1, <1>2, <1>3, <1>4, PgFields DEF Postgres!Init, PgTyped

\* What a call, a reset and a restart do to the server.
PgMoves ==
  /\ UNCHANGED server.open
  /\ \/ /\ server'.calls = server.calls + 1
        /\ server'.ever = server.ever + 1
        /\ UNCHANGED <<server.resets, server.bootedAt>>
     \/ /\ server'.calls \in {0, server.calls}
        /\ UNCHANGED server.ever
        /\ server'.resets = server.resets + 1

LEMMA PgServerStep ==
  ASSUME PgTyped, Postgres!Call \/ Postgres!ResetStatistics \/ Postgres!ServerRestart
  PROVE  server' \in PgServer /\ PgMoves
<1>1. /\ server.resets + 1 \in Nat /\ server.calls + 1 \in Nat /\ server.ever + 1 \in Nat
      /\ server.calls \in Nat /\ now \in Nat /\ 0 \in Nat /\ server \in PgServer
  BY DEF PgTyped, PgServer
<1>2. CASE Postgres!Call
  <2>1. server' = [[server EXCEPT !.calls = server.calls + 1]
                       EXCEPT !.ever = server.ever + 1]
    BY <1>1, <1>2 DEF Postgres!Call, PgServer
  <2>2. \A r \in PgServer : \A x, y \in Nat :
          [[r EXCEPT !.calls = x] EXCEPT !.ever = y] \in PgServer
    BY DEF PgServer
  <2>3. server' \in PgServer
    BY <1>1, <2>1, <2>2, Zenon
  <2>. QED
    BY <1>1, <2>1, <2>3 DEF PgServer, PgMoves
<1>3. CASE Postgres!ResetStatistics
  <2>1. server' = [[server EXCEPT !.resets = server.resets + 1] EXCEPT !.calls = 0]
    BY <1>1, <1>3 DEF Postgres!ResetStatistics, PgServer
  <2>2. \A r \in PgServer : \A x, y \in Nat :
          [[r EXCEPT !.resets = x] EXCEPT !.calls = y] \in PgServer
    BY DEF PgServer
  <2>3. server' \in PgServer
    BY <1>1, <2>1, <2>2, Zenon
  <2>. QED
    BY <1>1, <2>1, <2>3 DEF PgServer, PgMoves
<1>4. CASE Postgres!ServerRestart
  <2>1. PICK calls \in {0, server.calls} :
          server' = [[[server EXCEPT !.resets = server.resets + 1]
                          EXCEPT !.calls = calls] EXCEPT !.bootedAt = now]
    BY <1>1, <1>4 DEF Postgres!ServerRestart, PgServer
  <2>2. \A r \in PgServer : \A x, y, z \in Nat :
          [[[r EXCEPT !.resets = x] EXCEPT !.calls = y] EXCEPT !.bootedAt = z] \in PgServer
    BY DEF PgServer
  <2>3. calls \in Nat
    BY <1>1
  <2>4. server' \in PgServer
    BY <1>1, <2>1, <2>2, <2>3, Zenon
  <2>. QED
    BY <1>1, <2>1, <2>4 DEF PgServer, PgMoves
<1>. QED
  BY <1>2, <1>3, <1>4

\* What ReadCluster stores, without the choice of what can be read.
LEMMA PgRead ==
  ASSUME PgTyped, NEW slot \in Slot, Postgres!ReadCluster(slot)
  PROVE  LET s == scrape[slot]
             restarted == /\ state.lastUptime # Postgres!None
                          /\ Postgres!Reading.uptime < state.lastUptime
         IN  \E r \in PgStorage :
               /\ scrape' = [scrape EXCEPT ![slot] = r]
               /\ r.reading = Postgres!Reading
               /\ r.storage = Postgres!StorageDue(s) /\ r.at = s.at
               /\ r.restarted = restarted
               /\ r.previous = IF restarted THEN Postgres!NoPrevious ELSE state.previous
               /\ r.storage /\ r.probed => r.targets = Database
<1> DEFINE s == scrape[slot]
           restarted == /\ state.lastUptime # Postgres!None
                        /\ Postgres!Reading.uptime < state.lastUptime
           due == Postgres!StorageDue(s)
           r(statements, wal, tableStats) ==
             [pc |-> "storage", at |-> s.at,
              reading |-> Postgres!Reading,
              restarted |-> restarted,
              previous |-> IF restarted THEN Postgres!NoPrevious ELSE state.previous,
              statements |-> statements, wal |-> wal, storage |-> due,
              targets |-> IF due /\ tableStats THEN Database ELSE {},
              probed |-> tableStats, tables |-> {}]
<1>1. PICK statements, wal, tableStats \in BOOLEAN :
        scrape' = [scrape EXCEPT ![slot] = r(statements, wal, tableStats)]
  BY Zenon DEF Postgres!ReadCluster, Postgres!Set
<1>2. s.at \in Nat
  <2>1. s \in PgScrape /\ s.pc = "connected"
    BY DEF PgTyped, Postgres!ReadCluster
  <2>. QED
    BY <2>1 DEF PgScrape, PgStorage, Postgres!Idle
<1>3. Postgres!Reading \in PgReading
  BY DEF Postgres!Reading, PgReading, PgTyped, PgServer
<1>4. (IF restarted THEN Postgres!NoPrevious ELSE state.previous) \in PgPrevious
  BY PgFields DEF PgTyped, PgState
<1>5. restarted \in BOOLEAN /\ due \in BOOLEAN
  BY DEF Postgres!StorageDue
<1>. HIDE DEF restarted, due
<1>6. r(statements, wal, tableStats) \in PgStorage
  BY <1>2, <1>3, <1>4, <1>5 DEF PgStorage
<1>7. /\ r(statements, wal, tableStats).storage = due
      /\ r(statements, wal, tableStats).probed = tableStats
      /\ r(statements, wal, tableStats).targets = IF due /\ tableStats THEN Database ELSE {}
      /\ r(statements, wal, tableStats).restarted = restarted
      /\ r(statements, wal, tableStats).previous =
           IF restarted THEN Postgres!NoPrevious ELSE state.previous
      /\ r(statements, wal, tableStats).reading = Postgres!Reading
      /\ r(statements, wal, tableStats).at = s.at
  OBVIOUS
<1>. HIDE DEF r
<1>. QED
  BY <1>1, <1>6, <1>7 DEF restarted, due

\* What ReadTables does to a scrape: one database less to ask.
LEMMA PgReadTables ==
  ASSUME PgTyped, NEW slot \in Slot, Postgres!ReadTables(slot)
  PROVE  LET s == scrape[slot]
         IN  \E db : \E r \in PgStorage :
               /\ scrape' = [scrape EXCEPT ![slot] = r]
               /\ s \in PgStorage /\ r.at = s.at
               /\ r.targets = s.targets \ {db}
               /\ r.tables = IF db \in server.open THEN s.tables \cup {db} ELSE s.tables
               /\ r.reading = s.reading /\ r.restarted = s.restarted
               /\ r.previous = s.previous /\ r.storage = s.storage /\ r.probed = s.probed
<1> DEFINE s == scrape[slot]
           db == Postgres!Min(s.targets)
           targets == s.targets \ {db}
           tables == IF db \in server.open THEN s.tables \cup {db} ELSE s.tables
           r == [[s EXCEPT !.targets = targets] EXCEPT !.tables = tables]
<1>1. s \in PgStorage
  BY PgSlotTyped DEF Postgres!ReadTables
<1>2. scrape' = [scrape EXCEPT ![slot] = r]
  <2>1. scrape' = [scrape EXCEPT ![slot] =
          [s EXCEPT !.targets = @ \ {db},
                    !.tables = IF db \in server.open THEN @ \cup {db} ELSE @]]
    BY Zenon DEF Postgres!ReadTables, Postgres!Set
  <2>. QED
    BY <1>1, <2>1 DEF PgStorage
<1>3. targets \in SUBSET Database /\ tables \in SUBSET Database
  BY <1>1 DEF PgStorage, PgTyped, PgServer
<1>. HIDE DEF targets, tables, s, db
<1>4. /\ r \in PgStorage /\ r.at = s.at
      /\ r.targets = targets /\ r.tables = tables
      /\ r.reading = s.reading /\ r.restarted = s.restarted
      /\ r.previous = s.previous /\ r.storage = s.storage /\ r.probed = s.probed
  BY <1>1, <1>3 DEF PgStorage
<1>. HIDE DEF r
<1>. QED
  BY <1>1, <1>2, <1>4 DEF targets, tables, s

LEMMA PgTypeStep ==
  ASSUME PgTyped, [Postgres!Next]_(Postgres!vars)
  PROVE  PgTyped'
<1>1. CASE Postgres!Call \/ Postgres!ResetStatistics
  BY <1>1, PgServerStep DEF Postgres!Call, Postgres!ResetStatistics, PgTyped, Postgres!historyVars
<1>2. CASE Postgres!ServerRestart
  <2>1. scrape' \in [Slot -> PgScrape]
    BY <1>2 DEF Postgres!ServerRestart, PgScrape
  <2>2. Postgres!Forgotten \in PgState
    BY PgFields DEF Postgres!Forgotten, PgState, PgTime, Postgres!None
  <2>3. state' \in PgState
    BY <1>2, <2>2 DEF Postgres!ServerRestart, PgTyped
  <2>. QED
    BY <1>2, <2>1, <2>3, PgServerStep DEF Postgres!ServerRestart, PgTyped, Postgres!historyVars
<1>3. CASE Postgres!StartScrape
  <2>1. now' = now + 1 /\ now' \in Nat
    BY <1>3 DEF Postgres!StartScrape, PgTyped
  <2>2. [pc |-> "connected", at |-> now'] \in PgScrape
    BY <2>1 DEF PgScrape
  <2>3. scrape' \in [Slot -> PgScrape]
    BY <1>3, <2>2 DEF Postgres!StartScrape, Postgres!Set, PgTyped
  <2>4. h3' \in BOOLEAN
    BY <1>3, Zenon DEF Postgres!StartScrape, PgTyped
  <2>. QED
    BY <1>3, <2>1, <2>3, <2>4 DEF Postgres!StartScrape, PgTyped
<1>4. ASSUME NEW slot \in Slot, Postgres!ReadCluster(slot) PROVE PgTyped'
  <2>1. \E r \in PgStorage : scrape' = [scrape EXCEPT ![slot] = r]
    BY <1>4, PgRead
  <2>2. scrape' \in [Slot -> PgScrape]
    BY <2>1 DEF PgTyped, PgScrape
  <2>. QED
    BY <1>4, <2>2 DEF Postgres!ReadCluster, PgTyped, Postgres!historyVars
<1>5. ASSUME NEW slot \in Slot, Postgres!ReadTables(slot) PROVE PgTyped'
  <2>1. \E r \in PgStorage : scrape' = [scrape EXCEPT ![slot] = r]
    BY <1>5, PgReadTables
  <2>2. scrape' \in [Slot -> PgScrape]
    BY <2>1 DEF PgTyped, PgScrape
  <2>. QED
    BY <1>5, <2>2 DEF Postgres!ReadTables, PgTyped, Postgres!historyVars
<1>6. ASSUME NEW slot \in Slot, Postgres!ScrapeFails(slot) PROVE PgTyped'
  <2>1. scrape' \in [Slot -> PgScrape]
    BY <1>6 DEF Postgres!ScrapeFails, Postgres!Set, PgTyped, PgScrape
  <2>. QED
    BY <1>6, <2>1 DEF Postgres!ScrapeFails, PgTyped, Postgres!historyVars
<1>7. ASSUME NEW slot \in Slot, Postgres!FinishScrape(slot) PROVE PgTyped'
  <2> DEFINE s == scrape[slot]
  <2>0. /\ s \in PgStorage /\ state' \in PgState
        /\ sent'.reading = s.reading /\ sent'.previous = s.previous
        /\ h2' \in {h2, Postgres!Max({s.at, h2})}
        /\ h1' = Postgres!Told
        /\ scrape' = [scrape EXCEPT ![slot] = Postgres!Idle]
        /\ UNCHANGED <<now, server, h3>>
    BY <1>7, PgFinish
  <2>. HIDE DEF s
  <2>1. s.at \in Nat /\ s.reading \in PgPast /\ s.previous \in PgPrevious
    BY <2>0 DEF PgStorage, PgPast
  <2>2. h2' \in PgTime
    <3>1. h2 \in Int /\ h2 \in PgTime /\ s.at \in Int
      BY <2>1 DEF PgTyped, PgTime, Postgres!None
    <3>2. Postgres!Max({s.at, h2}) \in {s.at, h2}
      BY <3>1, PgLaterOfTwo, Zenon
    <3>. QED
      BY <2>0, <2>1, <3>1, <3>2 DEF PgTime
  <2>3. h1' \in PgPrevious
    <3>1. h1.statements \in PgPast /\ sent.reading \in PgPast /\ Postgres!NoReading \in PgPast
      BY PgFields DEF PgTyped
    <3>. QED
      BY <2>0, <3>1 DEF Postgres!Told, PgPrevious
  <2>4. scrape' \in [Slot -> PgScrape]
    BY <2>0 DEF PgTyped, PgScrape
  <2>. QED
    BY <2>0, <2>1, <2>2, <2>3, <2>4 DEF PgTyped
<1>8. CASE UNCHANGED Postgres!vars
  BY <1>8 DEF Postgres!vars, Postgres!historyVars, PgTyped
<1>. QED
  BY <1>1, <1>2, <1>3, <1>4, <1>5, <1>6, <1>7, <1>8, Zenon DEF Postgres!Next

-----------------------------------------------------------------------------
(* PostgresCollector: the tables of every database *)

\* A database is asked before it leaves the list, and opens its tables or not.
ReachInv == PgTyped /\ Postgres!ReachableDatabasesRead

LEMMA ReachInit == Postgres!Init => ReachInv
  BY PgTypeInit DEF Postgres!Init, ReachInv, Postgres!ReachableDatabasesRead, Postgres!Idle

LEMMA ReachStep ==
  ASSUME ReachInv, [Postgres!Next]_(Postgres!vars)
  PROVE  ReachInv'
<1>0. PgTyped /\ PgTyped'
  BY PgTypeStep DEF ReachInv
<1>. USE <1>0
<1>1. ASSUME UNCHANGED server.open,
             \A slot \in Slot : \/ scrape'[slot] = scrape[slot]
                                \/ scrape'[slot].pc # "storage"
      PROVE  ReachInv'
  BY <1>1 DEF ReachInv, Postgres!ReachableDatabasesRead
<1>2. CASE Postgres!Call \/ Postgres!ResetStatistics
  <2>1. UNCHANGED <<server.open, scrape>>
    BY <1>2, PgServerStep DEF PgMoves, Postgres!Call, Postgres!ResetStatistics
  <2>. QED
    BY <1>1, <2>1
<1>3. CASE Postgres!ServerRestart
  <2>1. scrape' = [slot \in Slot |-> Postgres!Idle] /\ UNCHANGED server.open
    BY <1>3, PgServerStep DEF Postgres!ServerRestart, PgMoves
  <2>. QED
    BY <1>1, <2>1 DEF Postgres!Idle
<1>4. CASE Postgres!StartScrape
  <2>1. \/ scrape' = [scrape EXCEPT ![Postgres!Min(Postgres!FreeSlots)] = [pc |-> "connected",
                                                                           at |-> now']]
        \/ UNCHANGED scrape
    BY <1>4 DEF Postgres!StartScrape, Postgres!Set
  <2>2. \A slot \in Slot : \/ scrape'[slot] = scrape[slot]
                           \/ scrape'[slot] = [pc |-> "connected", at |-> now']
    BY <2>1 DEF PgTyped
  <2>3. UNCHANGED server
    BY <1>4 DEF Postgres!StartScrape
  <2>. QED
    BY <1>1, <2>2, <2>3
<1>5. ASSUME NEW slot \in Slot, Postgres!ReadCluster(slot) PROVE ReachInv'
  <2>1. PICK r \in PgStorage :
          /\ scrape' = [scrape EXCEPT ![slot] = r]
          /\ r.storage /\ r.probed => r.targets = Database
    BY <1>5, PgRead
  <2>2. /\ scrape'[slot] = r
        /\ \A other \in Slot \ {slot} : scrape'[other] = scrape[other]
    BY <2>1 DEF PgTyped
  <2>3. UNCHANGED server /\ server.open \subseteq Database
    BY <1>5 DEF Postgres!ReadCluster, PgTyped, PgServer
  <2>4. r.storage /\ r.probed => server.open \ r.targets = {}
    BY <2>1, <2>3
  <2>. QED
    BY <2>2, <2>3, <2>4 DEF ReachInv, Postgres!ReachableDatabasesRead
<1>6. ASSUME NEW slot \in Slot, Postgres!ReadTables(slot) PROVE ReachInv'
  <2> DEFINE s == scrape[slot]
  <2>1. PICK db : \E r \in PgStorage :
          /\ scrape' = [scrape EXCEPT ![slot] = r]
          /\ s \in PgStorage /\ r.at = s.at
          /\ r.targets = s.targets \ {db}
          /\ r.tables = IF db \in server.open THEN s.tables \cup {db} ELSE s.tables
          /\ r.reading = s.reading /\ r.restarted = s.restarted
          /\ r.previous = s.previous /\ r.storage = s.storage /\ r.probed = s.probed
    BY <1>6, PgReadTables
  <2>2. PICK r \in PgStorage :
          /\ scrape' = [scrape EXCEPT ![slot] = r]
          /\ r.targets = s.targets \ {db}
          /\ r.tables = IF db \in server.open THEN s.tables \cup {db} ELSE s.tables
          /\ r.storage = s.storage /\ r.probed = s.probed
    BY <2>1
  <2>3. /\ scrape'[slot] = r
        /\ \A other \in Slot \ {slot} : scrape'[other] = scrape[other]
    BY <2>2 DEF PgTyped
  <2>4. UNCHANGED server /\ s.pc = "storage"
    BY <1>6 DEF Postgres!ReadTables
  <2>5. s.storage /\ s.probed => server.open \ s.targets \subseteq s.tables
    BY <2>4 DEF ReachInv, Postgres!ReachableDatabasesRead
  <2>. HIDE DEF s
  <2>6. r.storage /\ r.probed => server.open \ r.targets \subseteq r.tables
    BY <2>2, <2>5
  <2>. QED
    BY <2>3, <2>4, <2>6 DEF ReachInv, Postgres!ReachableDatabasesRead
<1>7. ASSUME NEW slot \in Slot,
Postgres!ScrapeFails(slot) \/ Postgres!FinishScrape(slot) PROVE ReachInv'
  <2>1. scrape' = [scrape EXCEPT ![slot] = Postgres!Idle] /\ UNCHANGED server
    BY <1>7 DEF Postgres!ScrapeFails, Postgres!FinishScrape, Postgres!Set
  <2>2. \A other \in Slot : scrape'[other] \in {scrape[other], Postgres!Idle}
    BY <2>1 DEF PgTyped
  <2>. QED
    BY <1>1, <2>1, <2>2 DEF Postgres!Idle
<1>8. CASE UNCHANGED Postgres!vars
  BY <1>1, <1>8 DEF Postgres!vars
<1>. QED
  BY <1>2, <1>3, <1>4, <1>5, <1>6, <1>7, <1>8, Zenon DEF Postgres!Next

-----------------------------------------------------------------------------
(* PostgresCollector: when the tables are due *)

\* The clock of the tables runs no further than what was sent.
StorageInv ==
  /\ PgTyped
  /\ state.lastStorageAt <= h2
  /\ Postgres!TablesOnlySkippedWhenDue

LEMMA StorageInit == Postgres!Init => StorageInv
<1>. SUFFICES ASSUME Postgres!Init PROVE StorageInv
  OBVIOUS
<1>1. state.lastStorageAt = -1 /\ h2 = -1
  BY DEF Postgres!Init, Postgres!Forgotten, Postgres!None
<1>. QED
  BY <1>1, PgTypeInit DEF Postgres!Init, StorageInv, Postgres!TablesOnlySkippedWhenDue,
     Postgres!Idle

\* Whatever the scrapes under way have decided stands when tables are sent later.
LEMMA StorageStep ==
  ASSUME Postgres!PostgresAssumption, StorageInv, [Postgres!Next]_(Postgres!vars)
  PROVE  StorageInv'
<1>0. PgTyped /\ PgTyped'
  BY PgTypeStep DEF StorageInv
<1>. USE <1>0
<1>t. /\ h2 \in Int /\ state.lastStorageAt \in Int
      /\ h2' \in Int /\ state'.lastStorageAt \in Int /\ StorageInterval \in Nat
  BY DEF PgTyped, PgState, PgTime, Postgres!None, Postgres!PostgresAssumption
<1>1. ASSUME UNCHANGED <<state, h2>>,
             \A slot \in Slot : \/ scrape'[slot] = scrape[slot]
                                \/ scrape'[slot].pc # "storage"
      PROVE  StorageInv'
  BY <1>1 DEF StorageInv, Postgres!TablesOnlySkippedWhenDue
<1>2. CASE Postgres!Call \/ Postgres!ResetStatistics \/ UNCHANGED Postgres!vars
  BY <1>1, <1>2 DEF Postgres!Call, Postgres!ResetStatistics, Postgres!vars, Postgres!historyVars
<1>3. CASE Postgres!ServerRestart
  <2>1. /\ scrape' = [slot \in Slot |-> Postgres!Idle] /\ UNCHANGED h2
        /\ state' \in {state, Postgres!Forgotten}
    BY <1>3 DEF Postgres!ServerRestart, Postgres!historyVars
  <2>2. state'.lastStorageAt <= h2'
    <3>1. Postgres!Forgotten.lastStorageAt = -1 /\ h2 >= -1
      BY DEF Postgres!Forgotten, Postgres!None, PgTyped, PgTime
    <3>. QED
      BY <1>t, <2>1, <3>1 DEF StorageInv
  <2>3. \A slot \in Slot : scrape'[slot].pc # "storage"
    BY <2>1 DEF Postgres!Idle
  <2>. QED
    BY <2>2, <2>3 DEF StorageInv, Postgres!TablesOnlySkippedWhenDue
<1>4. CASE Postgres!StartScrape
  <2>1. \/ scrape' = [scrape EXCEPT ![Postgres!Min(Postgres!FreeSlots)] =
                        [pc |-> "connected", at |-> now']]
        \/ UNCHANGED scrape
    BY <1>4 DEF Postgres!StartScrape, Postgres!Set
  <2>2. \A slot \in Slot : \/ scrape'[slot] = scrape[slot]
                           \/ scrape'[slot] = [pc |-> "connected", at |-> now']
    BY <2>1 DEF PgTyped
  <2>3. UNCHANGED <<state, h2>>
    BY <1>4 DEF Postgres!StartScrape
  <2>. QED
    BY <1>1, <2>2, <2>3
<1>5. ASSUME NEW slot \in Slot, Postgres!ReadCluster(slot) PROVE StorageInv'
  <2> DEFINE s == scrape[slot]
  <2>1. PICK r \in PgStorage :
          /\ scrape' = [scrape EXCEPT ![slot] = r]
          /\ r.storage = Postgres!StorageDue(s) /\ r.at = s.at
    BY <1>5, PgRead
  <2>2. /\ scrape'[slot] = r
        /\ \A other \in Slot \ {slot} : scrape'[other] = scrape[other]
    BY <2>1 DEF PgTyped
  <2>3. UNCHANGED <<state, h2>>
    BY <1>5 DEF Postgres!ReadCluster, Postgres!historyVars
  <2>4. s.at \in Nat
    BY <2>1 DEF PgStorage
  <2>5. ASSUME ~r.storage PROVE h2 # Postgres!None /\ r.at - h2 < StorageInterval
    <3>1. state.lastStorageAt # Postgres!None /\ ~(s.at - state.lastStorageAt >= StorageInterval)
      BY <2>1, <2>5 DEF Postgres!StorageDue
    <3>2. state.lastStorageAt >= 0
      BY <3>1 DEF PgTyped, PgState, PgTime
    <3>3. state.lastStorageAt <= h2
      BY DEF StorageInv
    <3>. QED
      BY <1>t, <2>1, <2>4, <3>1, <3>2, <3>3 DEF Postgres!None
  <2>. HIDE DEF s
  <2>. QED
    BY <2>2, <2>3, <2>5 DEF StorageInv, Postgres!TablesOnlySkippedWhenDue
<1>6. ASSUME NEW slot \in Slot, Postgres!ReadTables(slot) PROVE StorageInv'
  <2> DEFINE s == scrape[slot]
  <2>1. PICK db : \E r \in PgStorage :
          /\ scrape' = [scrape EXCEPT ![slot] = r]
          /\ s \in PgStorage /\ r.at = s.at
          /\ r.targets = s.targets \ {db}
          /\ r.tables = IF db \in server.open THEN s.tables \cup {db} ELSE s.tables
          /\ r.reading = s.reading /\ r.restarted = s.restarted
          /\ r.previous = s.previous /\ r.storage = s.storage /\ r.probed = s.probed
    BY <1>6, PgReadTables
  <2>2. PICK r \in PgStorage :
          /\ scrape' = [scrape EXCEPT ![slot] = r]
          /\ r.at = s.at /\ r.storage = s.storage
    BY <2>1
  <2>3. /\ scrape'[slot] = r
        /\ \A other \in Slot \ {slot} : scrape'[other] = scrape[other]
    BY <2>2 DEF PgTyped
  <2>4. UNCHANGED <<state, h2>> /\ s.pc = "storage"
    BY <1>6 DEF Postgres!ReadTables, Postgres!historyVars
  <2>. QED
    BY <2>2, <2>3, <2>4 DEF StorageInv, Postgres!TablesOnlySkippedWhenDue
<1>7. ASSUME NEW slot \in Slot, Postgres!ScrapeFails(slot) PROVE StorageInv'
  <2>1. scrape' = [scrape EXCEPT ![slot] = Postgres!Idle] /\ UNCHANGED <<state, h2>>
    BY <1>7 DEF Postgres!ScrapeFails, Postgres!Set, Postgres!historyVars
  <2>2. \A other \in Slot : scrape'[other] \in {scrape[other], Postgres!Idle}
    BY <2>1 DEF PgTyped
  <2>. QED
    BY <1>1, <2>1, <2>2 DEF Postgres!Idle
<1>8. ASSUME NEW slot \in Slot, Postgres!FinishScrape(slot) PROVE StorageInv'
  <2> DEFINE s == scrape[slot]
  <2>1. /\ s \in PgStorage
        /\ state'.lastStorageAt = IF s.storage THEN s.at ELSE state.lastStorageAt
        /\ h2' = IF s.storage THEN Postgres!Max({s.at, h2}) ELSE h2
        /\ scrape' = [scrape EXCEPT ![slot] = Postgres!Idle]
    BY <1>8, PgFinish
  <2>2. \A other \in Slot : scrape'[other] \in {scrape[other], Postgres!Idle}
    BY <2>1 DEF PgTyped
  <2>3. s.at \in Nat /\ s.at \in Int
    BY <2>1 DEF PgStorage
  <2>. HIDE DEF s
  <2>4. h2 <= h2' /\ state'.lastStorageAt <= h2'
    <3>1. Postgres!Max({s.at, h2}) >= s.at /\ Postgres!Max({s.at, h2}) >= h2
      BY <1>t, <2>3, PgLaterOfTwo, Zenon
    <3>. QED
      BY <1>t, <2>1, <2>3, <3>1 DEF StorageInv
  <2>5. ASSUME NEW other \in Slot, scrape'[other].pc = "storage", ~scrape'[other].storage
        PROVE  h2' # Postgres!None /\ scrape'[other].at - h2' < StorageInterval
    <3>1. scrape'[other] = scrape[other]
      BY <2>2, <2>5 DEF Postgres!Idle
    <3>2. h2 # Postgres!None /\ scrape[other].at - h2 < StorageInterval
      BY <2>5, <3>1 DEF StorageInv, Postgres!TablesOnlySkippedWhenDue
    <3>3. scrape[other].at \in Nat
      BY <2>5, <3>1, PgSlotTyped DEF PgStorage
    <3>4. h2 >= 0
      BY <3>2 DEF PgTyped, PgTime
    <3>. QED
      BY <1>t, <2>4, <3>1, <3>2, <3>3, <3>4 DEF Postgres!None
  <2>. QED
    BY <2>4, <2>5 DEF StorageInv, Postgres!TablesOnlySkippedWhenDue
<1>. QED
  BY <1>2, <1>3, <1>4, <1>5, <1>6, <1>7, <1>8, ZenonT(60) DEF Postgres!Next

-----------------------------------------------------------------------------
(* PostgresCollector: what the deltas join *)

\* A reading against one that was made before it.  Without a reset a counter has grown by
\* the calls that were made; over one by no more.
PgFollows(r, p) ==
  p \in PgReading =>
    /\ p.resets <= r.resets /\ p.ever <= r.ever
    /\ r.calls + p.ever <= r.ever + p.calls
    /\ p.resets = r.resets =>
         r.calls + p.ever = r.ever + p.calls /\ p.uptime <= r.uptime

LEMMA PgFollowsTwice ==
  \A r, q \in PgReading : \A p : PgFollows(r, q) /\ PgFollows(q, p) => PgFollows(r, p)
<1>. SUFFICES ASSUME NEW r \in PgReading, NEW q \in PgReading, NEW p,
                     PgFollows(r, q), PgFollows(q, p), p \in PgReading
              PROVE  PgFollows(r, p)
  BY DEF PgFollows
<1>1. /\ r.uptime \in Int /\ r.calls \in Int /\ r.ever \in Int /\ r.resets \in Int
      /\ q.uptime \in Int /\ q.calls \in Int /\ q.ever \in Int /\ q.resets \in Int
      /\ p.uptime \in Int /\ p.calls \in Int /\ p.ever \in Int /\ p.resets \in Int
  BY PgFields
<1>. QED
  BY <1>1 DEF PgFollows

\* The difference of two readings fits what lies between them.
LEMMA PgDeltaFits ==
  \A r \in PgReading, p \in PgPast, restarted \in BOOLEAN :
    PgFollows(r, p) /\ (restarted => p = Postgres!NoReading) =>
      Postgres!DeltaFits(Postgres!CounterDelta(r.calls, p.calls, restarted), r, p)
<1>. SUFFICES ASSUME NEW r \in PgReading, NEW p \in PgPast, NEW restarted \in BOOLEAN,
                     PgFollows(r, p), restarted => p = Postgres!NoReading
              PROVE  Postgres!DeltaFits(Postgres!CounterDelta(r.calls, p.calls, restarted), r, p)
  OBVIOUS
<1>1. CASE p = Postgres!NoReading
  BY <1>1, PgFields DEF Postgres!DeltaFits, Postgres!CounterDelta, Postgres!None
<1>2. CASE p # Postgres!NoReading
  <2>1. p \in PgReading
    BY <1>2 DEF PgPast
  <2>2. /\ r.calls \in Nat /\ r.ever \in Nat /\ r.resets \in Nat
        /\ p.calls \in Nat /\ p.ever \in Nat /\ p.resets \in Nat
    BY <2>1, PgFields
  <2>. QED
    BY <1>2, <2>1, <2>2 DEF PgFollows, Postgres!DeltaFits, Postgres!CounterDelta, Postgres!None
<1>. QED
  BY <1>1, <1>2

LEMMA PgReadingTyped == PgTyped => Postgres!Reading \in PgReading
  BY DEF Postgres!Reading, PgReading, PgTyped, PgServer

\* The server moves on: what it has counted, and its resets.
LEMMA PgServerMoves ==
  ASSUME PgTyped, [Postgres!Next]_(Postgres!vars)
  PROVE  \/ now' \in {now, now + 1} /\ server' = server
         \/ now' = now /\ PgMoves
<1>1. CASE Postgres!Call \/ Postgres!ResetStatistics \/ Postgres!ServerRestart
  BY <1>1, PgServerStep DEF Postgres!Call, Postgres!ResetStatistics, Postgres!ServerRestart
<1>2. CASE Postgres!StartScrape
  BY <1>2 DEF Postgres!StartScrape
<1>3. CASE \E slot \in Slot : \/ Postgres!ReadCluster(slot) \/ Postgres!ReadTables(slot)
                              \/ Postgres!ScrapeFails(slot) \/ Postgres!FinishScrape(slot)
  BY <1>3, Zenon DEF Postgres!ReadCluster, Postgres!ReadTables, Postgres!ScrapeFails,
     Postgres!FinishScrape
<1>4. CASE UNCHANGED Postgres!vars
  BY <1>4 DEF Postgres!vars
<1>. QED
  BY <1>1, <1>2, <1>3, <1>4, ZenonT(60) DEF Postgres!Next

\* A reading made later follows one made earlier.
LEMMA PgLater ==
  ASSUME PgTyped, [Postgres!Next]_(Postgres!vars)
  PROVE  \A p : PgFollows(Postgres!Reading, p) => PgFollows(Postgres!Reading', p)
<1>. SUFFICES ASSUME NEW p, PgFollows(Postgres!Reading, p)
              PROVE  PgFollows(Postgres!Reading', p)
  OBVIOUS
<1> DEFINE r == Postgres!Reading
           q == Postgres!Reading'
<1>0. PgTyped'
  BY PgTypeStep
<1>1. r \in PgReading /\ q \in PgReading
  <2>1. q \in PgReading
    BY <1>0 DEF Postgres!Reading, PgReading, PgTyped, PgServer
  <2>. QED
    BY <2>1, PgReadingTyped
<1>2. /\ now \in Nat /\ server.resets \in Nat /\ server.calls \in Nat /\ server.ever \in Nat
      /\ server.bootedAt \in Nat
  BY DEF PgTyped, PgServer
<1>3. /\ r.uptime = now - server.bootedAt /\ r.calls = server.calls
      /\ r.ever = server.ever /\ r.resets = server.resets
      /\ q.uptime = now' - server'.bootedAt /\ q.calls = server'.calls
      /\ q.ever = server'.ever /\ q.resets = server'.resets
  BY DEF Postgres!Reading
<1>. HIDE DEF r, q
<1>5. PgFollows(q, r)
  BY <1>2, <1>3, PgServerMoves DEF PgFollows, PgMoves
<1>6. PgFollows(r, p)
  BY DEF r
<1>7. PgFollows(q, p)
  BY <1>1, <1>5, <1>6, PgFollowsTwice
<1>. QED
  BY <1>7 DEF q

\* What is remembered or told was read before now, and what a scrape is compared with
\* before it.
PgOrdered ==
  /\ PgFollows(Postgres!Reading, state.previous.statements)
  /\ PgFollows(Postgres!Reading, state.previous.wal)
  /\ PgFollows(Postgres!Reading, sent.reading)
  /\ \A slot \in Slot :
       scrape[slot].pc = "storage" =>
         /\ PgFollows(Postgres!Reading, scrape[slot].reading)
         /\ PgFollows(scrape[slot].reading, scrape[slot].previous.statements)
         /\ PgFollows(scrape[slot].reading, scrape[slot].previous.wal)
         /\ scrape[slot].restarted => scrape[slot].previous = Postgres!NoPrevious

\* The payload's differences fit.
PgSentFits ==
  /\ sent.statements # Postgres!None =>
       Postgres!DeltaFits(sent.statements, sent.reading, sent.previous.statements)
  /\ sent.wal # Postgres!None /\ sent.previous.wal # Postgres!Unread =>
       Postgres!DeltaFits(sent.wal, sent.reading, sent.previous.wal)

\* What the agent compares with is what was told of the same statistics.
PgRemembersTold ==
  /\ sent.reading.resets = server.resets => state.lastUptime = sent.reading.uptime
  /\ Postgres!Told.statements.resets = server.resets =>
       state.previous.statements = Postgres!Told.statements
  /\ Postgres!Told.wal.resets = server.resets => state.previous.wal = Postgres!Told.wal

\* Scrapes that do not overlap compare with it.
PgAlone ==
  /\ \A a, b \in Slot : scrape[a] # Postgres!Idle /\ scrape[b] # Postgres!Idle => a = b
  /\ Postgres!Told.statements.resets <= sent.reading.resets
  /\ PgRemembersTold
  /\ \A slot \in Slot :
       scrape[slot].pc = "storage" =>
         /\ sent.reading.resets <= scrape[slot].reading.resets
         /\ Postgres!Told.statements.resets = scrape[slot].reading.resets =>
              scrape[slot].previous.statements = Postgres!Told.statements
         /\ Postgres!Told.wal.resets = scrape[slot].reading.resets =>
              scrape[slot].previous.wal = Postgres!Told.wal
  /\ h1.statements.resets = sent.reading.resets => sent.previous.statements = h1.statements
  /\ h1.wal.resets = sent.reading.resets => sent.previous.wal = h1.wal

PgDeltaInv ==
  /\ PgTyped
  /\ PgOrdered
  /\ PgSentFits
  /\ ~h3 => PgAlone

LEMMA PgDeltaInit == Postgres!Init => PgDeltaInv
<1>. SUFFICES ASSUME Postgres!Init PROVE PgDeltaInv
  OBVIOUS
<1>1. /\ state.previous = Postgres!NoPrevious
      /\ sent.reading = Postgres!NoReading /\ sent.previous = Postgres!NoPrevious
      /\ sent.statements = Postgres!None /\ sent.wal = Postgres!None
      /\ h1 = Postgres!NoPrevious
  BY DEF Postgres!Init, Postgres!Forgotten
<1>2. \A slot \in Slot : scrape[slot] = Postgres!Idle /\ scrape[slot].pc = "idle"
  BY DEF Postgres!Init, Postgres!Idle
<1>3. Postgres!Told.statements = Postgres!NoReading /\ Postgres!Told.wal = Postgres!NoReading
  BY <1>1, PgFields DEF Postgres!Told
<1>4. PgSentFits
  BY <1>1 DEF PgSentFits
<1>5. PgOrdered
  BY <1>1, <1>2, PgFields DEF PgOrdered, PgFollows
<1>6. server.resets = 0
  BY DEF Postgres!Init
<1>7. PgAlone
  BY <1>1, <1>2, <1>3, <1>6, PgFields DEF PgAlone, PgRemembersTold
<1>. QED
  BY <1>4, <1>5, <1>7, PgTypeInit DEF PgDeltaInv

\* The numbers that the comparisons need.
LEMMA PgNumbers ==
  ASSUME PgTyped, PgOrdered
  PROVE  /\ Postgres!Told.statements.resets \in Int /\ Postgres!Told.wal.resets \in Int
         /\ sent.reading.resets \in Int /\ server.resets \in Nat
         /\ Postgres!Reading.resets = server.resets
         /\ sent.reading.resets <= server.resets
         /\ Postgres!Told.wal.resets <= sent.reading.resets
<1>1. Postgres!Told.statements \in PgPast /\ Postgres!Told.wal \in PgPast
      /\ sent.reading \in PgPast
  BY PgFields DEF PgTyped, Postgres!Told
<1>2. Postgres!Reading.resets = server.resets /\ server.resets \in Nat
  BY DEF Postgres!Reading, PgTyped, PgServer
<1>3. sent.reading.resets \in Int /\ sent.reading.resets >= -1
  <2>1. CASE sent.reading = Postgres!NoReading
    BY <2>1, PgFields
  <2>2. CASE sent.reading \in PgReading
    BY <2>2, PgFields
  <2>. QED
    BY <1>1, <2>1, <2>2 DEF PgPast
<1>4. sent.reading.resets <= server.resets
  <2>1. CASE sent.reading = Postgres!NoReading
    BY <1>2, <2>1, PgFields
  <2>2. CASE sent.reading \in PgReading
    BY <1>2, <2>2 DEF PgOrdered, PgFollows
  <2>. QED
    BY <1>1, <2>1, <2>2 DEF PgPast
<1>5. Postgres!Told.wal.resets \in {-1, sent.reading.resets}
  BY PgFields DEF Postgres!Told
<1>. QED
  BY <1>1, <1>2, <1>3, <1>4, <1>5, PgFields

\* A step that leaves what was sent and brings no scrape to its tables, and either leaves
\* what is remembered or comes with a reset.
LEMMA PgDeltaQuiet ==
  ASSUME PgDeltaInv, [Postgres!Next]_(Postgres!vars), PgTyped',
         UNCHANGED <<sent, h1>>,
         state' \in {state, Postgres!Forgotten},
         \A slot \in Slot : \/ scrape'[slot] = scrape[slot]
                            \/ scrape'[slot].pc # "storage",
         \/ server'.resets > server.resets
         \/ server'.resets = server.resets /\ state' = state,
         ~h3' => /\ ~h3
                 /\ \A a, b \in Slot :
                      scrape'[a] # Postgres!Idle /\ scrape'[b] # Postgres!Idle => a = b
  PROVE  PgDeltaInv'
<1>. USE DEF PgDeltaInv
<1>1. PgSentFits'
  BY DEF PgSentFits
<1>2. PgOrdered'
  <2>1. /\ PgFollows(Postgres!Reading', state.previous.statements)
        /\ PgFollows(Postgres!Reading', state.previous.wal)
        /\ PgFollows(Postgres!Reading', sent.reading)
    BY PgLater DEF PgOrdered
  <2>2. \A slot \in Slot : scrape[slot].pc = "storage" =>
          PgFollows(Postgres!Reading', scrape[slot].reading)
    BY PgLater DEF PgOrdered
  <2>3. /\ PgFollows(Postgres!Reading', state'.previous.statements)
        /\ PgFollows(Postgres!Reading', state'.previous.wal)
    <3>1. PgFollows(Postgres!Reading', Postgres!NoReading)
      BY PgFields DEF PgFollows
    <3>. QED
      BY <2>1, <3>1, PgFields DEF Postgres!Forgotten
  <2>. QED
    BY <2>1, <2>2, <2>3 DEF PgOrdered
<1>3. ASSUME ~h3' PROVE PgAlone'
  <2>1. PgAlone
    BY <1>3
  <2>2. Postgres!Told' = Postgres!Told
    BY DEF Postgres!Told
  <2>3. PgRemembersTold'
    <3>1. CASE server'.resets = server.resets /\ state' = state
      BY <2>1, <2>2, <3>1 DEF PgAlone, PgRemembersTold
    <3>2. CASE server'.resets > server.resets
      <4>1. /\ Postgres!Told.statements.resets <= sent.reading.resets
        BY <2>1 DEF PgAlone
      <4>2. server'.resets \in Nat
        BY DEF PgTyped, PgServer
      <4>3. /\ Postgres!Told.statements.resets # server'.resets
            /\ Postgres!Told.wal.resets # server'.resets
            /\ sent.reading.resets # server'.resets
        BY <3>2, <4>1, <4>2, PgNumbers
      <4>. QED
        BY <2>2, <4>3 DEF PgRemembersTold
    <3>. QED
      BY <3>1, <3>2
  <2>4. \A a, b \in Slot : scrape'[a] # Postgres!Idle /\ scrape'[b] # Postgres!Idle => a = b
    BY <1>3
  <2>5. /\ Postgres!Told.statements.resets <= sent.reading.resets
        /\ h1.statements.resets = sent.reading.resets => sent.previous.statements = h1.statements
        /\ h1.wal.resets = sent.reading.resets => sent.previous.wal = h1.wal
        /\ \A slot \in Slot :
             scrape[slot].pc = "storage" =>
               /\ sent.reading.resets <= scrape[slot].reading.resets
               /\ Postgres!Told.statements.resets = scrape[slot].reading.resets =>
                    scrape[slot].previous.statements = Postgres!Told.statements
               /\ Postgres!Told.wal.resets = scrape[slot].reading.resets =>
                    scrape[slot].previous.wal = Postgres!Told.wal
    BY <2>1 DEF PgAlone
  <2>. QED
    BY <2>2, <2>3, <2>4, <2>5 DEF PgAlone
<1>. QED
  BY <1>1, <1>2, <1>3

\* A scrape goes to its tables, or on from one to the next: what it is compared with
\* stands from when it read the cluster.
LEMMA PgDeltaScrape ==
  ASSUME PgDeltaInv, PgTyped', NEW slot \in Slot, NEW r \in PgStorage,
         scrape' = [scrape EXCEPT ![slot] = r], scrape[slot] # Postgres!Idle,
         UNCHANGED <<now, server, state, sent, h1, h3>>,
         /\ PgFollows(Postgres!Reading, r.reading)
         /\ PgFollows(r.reading, r.previous.statements) /\ PgFollows(r.reading, r.previous.wal)
         /\ r.restarted => r.previous = Postgres!NoPrevious,
         ~h3 => /\ sent.reading.resets <= r.reading.resets
                /\ Postgres!Told.statements.resets = r.reading.resets =>
                     r.previous.statements = Postgres!Told.statements
                /\ Postgres!Told.wal.resets = r.reading.resets =>
                     r.previous.wal = Postgres!Told.wal
  PROVE  PgDeltaInv'
<1>. USE DEF PgDeltaInv
<1>1. /\ scrape'[slot] = r
      /\ \A other \in Slot \ {slot} : scrape'[other] = scrape[other]
  BY DEF PgTyped
<1>2. PgSentFits'
  BY DEF PgSentFits
<1>3. Postgres!Reading' = Postgres!Reading /\ Postgres!Told' = Postgres!Told
  BY DEF Postgres!Reading, Postgres!Told
<1>4. PgOrdered'
  <2>1. ASSUME NEW x \in Slot, scrape'[x].pc = "storage"
        PROVE  /\ PgFollows(Postgres!Reading, scrape'[x].reading)
               /\ PgFollows(scrape'[x].reading, scrape'[x].previous.statements)
               /\ PgFollows(scrape'[x].reading, scrape'[x].previous.wal)
               /\ scrape'[x].restarted => scrape'[x].previous = Postgres!NoPrevious
    <3>1. CASE x = slot
      BY <1>1, <3>1
    <3>2. CASE x # slot
      BY <1>1, <2>1, <3>2 DEF PgOrdered
    <3>. QED
      BY <3>1, <3>2
  <2>. QED
    BY <1>3, <2>1 DEF PgOrdered
<1>5. ASSUME ~h3' PROVE PgAlone'
  <2>1. PgAlone
    BY <1>5
  <2>2. \A a, b \in Slot : scrape'[a] # Postgres!Idle /\ scrape'[b] # Postgres!Idle => a = b
    BY <1>1, <2>1 DEF PgAlone
  <2>3. ASSUME NEW x \in Slot, scrape'[x].pc = "storage"
        PROVE  /\ sent.reading.resets <= scrape'[x].reading.resets
               /\ Postgres!Told.statements.resets = scrape'[x].reading.resets =>
                    scrape'[x].previous.statements = Postgres!Told.statements
               /\ Postgres!Told.wal.resets = scrape'[x].reading.resets =>
                    scrape'[x].previous.wal = Postgres!Told.wal
    <3>1. CASE x = slot
      BY <1>1, <1>5, <3>1
    <3>2. CASE x # slot
      BY <1>1, <2>1, <2>3, <3>2 DEF PgAlone
    <3>. QED
      BY <3>1, <3>2
  <2>4. /\ Postgres!Told.statements.resets <= sent.reading.resets
        /\ PgRemembersTold'
        /\ h1.statements.resets = sent.reading.resets => sent.previous.statements = h1.statements
        /\ h1.wal.resets = sent.reading.resets => sent.previous.wal = h1.wal
    BY <1>3, <2>1 DEF PgAlone, PgRemembersTold
  <2>. QED
    BY <1>3, <2>2, <2>3, <2>4 DEF PgAlone
<1>. QED
  BY <1>2, <1>4, <1>5

\* Reading the cluster: what it is compared with is what was told, unless the statistics
\* were reset since.
LEMMA PgDeltaRead ==
  ASSUME PgDeltaInv, NEW slot \in Slot, Postgres!ReadCluster(slot), PgTyped'
  PROVE  PgDeltaInv'
<1>. USE DEF PgDeltaInv
<1> DEFINE q == Postgres!Reading
           restarted == /\ state.lastUptime # Postgres!None
                        /\ Postgres!Reading.uptime < state.lastUptime
<1>1. PICK r \in PgStorage :
        /\ scrape' = [scrape EXCEPT ![slot] = r]
        /\ r.reading = Postgres!Reading /\ r.restarted = restarted
        /\ r.previous = IF restarted THEN Postgres!NoPrevious ELSE state.previous
  BY PgRead
<1>2. UNCHANGED <<now, server, state, sent, h1, h3>> /\ scrape[slot] # Postgres!Idle
  BY DEF Postgres!ReadCluster, Postgres!historyVars, Postgres!Idle
<1>3. q \in PgReading
  BY PgReadingTyped
<1>4. PgFollows(q, q)
  BY <1>3, PgFields DEF PgFollows
<1>5. /\ PgFollows(q, r.previous.statements) /\ PgFollows(q, r.previous.wal)
      /\ r.restarted => r.previous = Postgres!NoPrevious
  <2>1. PgFollows(q, Postgres!NoReading)
    BY PgFields DEF PgFollows
  <2>. QED
    BY <1>1, <2>1, PgFields DEF PgOrdered
<1>6. ASSUME ~h3
      PROVE  /\ sent.reading.resets <= q.resets
             /\ Postgres!Told.statements.resets = q.resets =>
                  r.previous.statements = Postgres!Told.statements
             /\ Postgres!Told.wal.resets = q.resets => r.previous.wal = Postgres!Told.wal
  <2>1. PgAlone
    BY <1>6
  <2>2. sent.reading.resets = q.resets => ~restarted
    <3>1. SUFFICES ASSUME sent.reading.resets = q.resets PROVE ~restarted
      OBVIOUS
    <3>2. sent.reading \in PgReading
      <4>1. q.resets >= 0 /\ Postgres!NoReading.resets = -1
        BY <1>3, PgFields
      <4>. QED
        BY <3>1, <4>1 DEF PgTyped, PgPast
    <3>3. sent.reading.uptime <= q.uptime
      BY <3>1, <3>2 DEF PgOrdered, PgFollows
    <3>4. state.lastUptime = sent.reading.uptime /\ sent.reading.uptime \in Int /\ q.uptime \in Int
      BY <1>3, <2>1, <3>1, <3>2, PgFields, PgNumbers DEF PgAlone, PgRemembersTold
    <3>. QED
      BY <3>3, <3>4
  <2>3. /\ Postgres!Told.statements.resets <= sent.reading.resets
        /\ Postgres!Told.wal.resets <= sent.reading.resets
        /\ sent.reading.resets <= q.resets /\ q.resets = server.resets
    BY <2>1, PgNumbers DEF PgAlone
  <2>4. /\ Postgres!Told.statements.resets = q.resets => sent.reading.resets = q.resets
        /\ Postgres!Told.wal.resets = q.resets => sent.reading.resets = q.resets
    BY <2>3, PgNumbers
  <2>. HIDE DEF restarted, q
  <2>. QED
    BY <1>1, <2>1, <2>2, <2>3, <2>4 DEF PgAlone, PgRemembersTold
<1>. HIDE DEF restarted
<1>. QED
  BY <1>1, <1>2, <1>4, <1>5, <1>6, PgDeltaScrape

\* Finishing: the payload joins its reading to the one it is compared with.
LEMMA PgDeltaFinish ==
  ASSUME PgDeltaInv, NEW slot \in Slot, Postgres!FinishScrape(slot), PgTyped'
  PROVE  PgDeltaInv'
<1>. USE DEF PgDeltaInv
<1> DEFINE s == scrape[slot]
<1>1. /\ s \in PgStorage
      /\ sent'.reading = s.reading /\ sent'.previous = s.previous
      /\ sent'.statements = IF s.statements THEN Postgres!DeriveStatements(s) ELSE Postgres!None
      /\ sent'.wal = IF s.wal THEN Postgres!WalDerived(s) ELSE Postgres!None
      /\ state'.lastUptime = s.reading.uptime
      /\ state'.previous.statements = IF s.statements THEN s.reading ELSE s.previous.statements
      /\ state'.previous.wal = IF s.wal THEN s.reading ELSE Postgres!Unread
      /\ h1' = Postgres!Told
      /\ scrape' = [scrape EXCEPT ![slot] = Postgres!Idle]
      /\ UNCHANGED <<now, server, h3>>
  BY PgFinish
<1>2. /\ s.pc = "storage" /\ s.reading \in PgReading /\ s.restarted \in BOOLEAN
      /\ s.previous.statements \in PgPast /\ s.previous.wal \in PgPast \cup {Postgres!Unread}
  BY <1>1, PgFields DEF PgStorage
<1>3. /\ PgFollows(Postgres!Reading, s.reading)
      /\ PgFollows(s.reading, s.previous.statements) /\ PgFollows(s.reading, s.previous.wal)
      /\ s.restarted => s.previous = Postgres!NoPrevious
  BY <1>2 DEF PgOrdered
<1>4. Postgres!Reading \in PgReading /\ Postgres!Reading' = Postgres!Reading
  BY <1>1, PgReadingTyped DEF Postgres!Reading
<1>5. \A x \in Slot : scrape'[x] # scrape[x] => scrape'[x] = Postgres!Idle
  BY <1>1 DEF PgTyped
<1>6. scrape'[slot] = Postgres!Idle
  BY <1>1 DEF PgTyped
<1>7. Postgres!DeriveStatements(s) =
        Postgres!CounterDelta(s.reading.calls, s.previous.statements.calls, s.restarted)
  BY <1>1, PgStatementsDiffer
<1>. HIDE DEF s
<1>8. PgSentFits'
  <2>1. sent'.statements # Postgres!None =>
          Postgres!DeltaFits(sent'.statements, s.reading, s.previous.statements)
    BY <1>1, <1>2, <1>3, <1>7, PgDeltaFits, PgFields
  <2>2. sent'.wal # Postgres!None /\ s.previous.wal # Postgres!Unread =>
          Postgres!DeltaFits(sent'.wal, s.reading, s.previous.wal)
    BY <1>1, <1>2, <1>3, PgDeltaFits, PgFields DEF Postgres!WalDerived
  <2>. QED
    BY <1>1, <2>1, <2>2 DEF PgSentFits
<1>9. PgOrdered'
  <2>1. PgFollows(Postgres!Reading, s.previous.statements)
    BY <1>2, <1>3, <1>4, PgFollowsTwice
  <2>2. /\ PgFollows(Postgres!Reading, state'.previous.statements)
        /\ PgFollows(Postgres!Reading, state'.previous.wal)
        /\ PgFollows(Postgres!Reading, sent'.reading)
    <3>1. PgFollows(Postgres!Reading, Postgres!Unread)
      BY PgFields DEF PgFollows
    <3>. QED
      BY <1>1, <1>3, <2>1, <3>1
  <2>3. \A x \in Slot : scrape'[x].pc = "storage" => scrape'[x] = scrape[x]
    BY <1>5 DEF Postgres!Idle
  <2>. QED
    BY <1>4, <2>2, <2>3 DEF PgOrdered
<1>10. ASSUME ~h3' PROVE PgAlone'
  <2>1. PgAlone
    BY <1>1, <1>10
  <2>2. \A x \in Slot : scrape'[x] = Postgres!Idle
    BY <1>2, <1>5, <1>6, <2>1 DEF PgAlone, Postgres!Idle, s
  <2>3. /\ sent.reading.resets <= s.reading.resets
        /\ Postgres!Told.statements.resets = s.reading.resets =>
             s.previous.statements = Postgres!Told.statements
        /\ Postgres!Told.wal.resets = s.reading.resets => s.previous.wal = Postgres!Told.wal
        /\ Postgres!Told.statements.resets <= sent.reading.resets
    BY <1>2, <2>1 DEF PgAlone, s
  <2>4. /\ s.reading.resets \in Nat /\ s.reading.resets <= server.resets
        /\ s.previous.statements.calls \in Int /\ s.previous.wal.calls \in Int
        /\ s.reading.calls \in Nat
    BY <1>2, <1>3, PgFields, PgNumbers DEF PgFollows
  <2>5. /\ s.statements => sent'.statements # Postgres!None
        /\ s.wal => sent'.wal # Postgres!None
    BY <1>1, <1>7, <2>4 DEF Postgres!WalDerived, Postgres!CounterDelta, Postgres!None
  <2>6. /\ Postgres!Told'.statements = IF s.statements THEN s.reading ELSE Postgres!Told.statements
        /\ Postgres!Told'.wal = IF s.wal THEN s.reading ELSE Postgres!NoReading
    BY <1>1, <2>5 DEF Postgres!Told
  <2>7. Postgres!Told'.statements.resets <= s.reading.resets
    BY <2>3, <2>4, <2>6, PgNumbers
  <2>8. /\ Postgres!Told'.statements.resets = server.resets =>
             state'.previous.statements = Postgres!Told'.statements
        /\ Postgres!Told'.wal.resets = server.resets => state'.previous.wal = Postgres!Told'.wal
    <3>1. Postgres!Told.statements.resets = server.resets =>
            s.previous.statements = Postgres!Told.statements
      BY <2>3, <2>4, PgNumbers
    <3>2. Postgres!NoReading.resets # server.resets
      BY PgFields, PgNumbers
    <3>. QED
      BY <1>1, <2>6, <3>1, <3>2
  <2>9. PgRemembersTold'
    BY <1>1, <2>8 DEF PgRemembersTold
  <2>. QED
    BY <1>1, <2>2, <2>3, <2>7, <2>9 DEF PgAlone, Postgres!Idle
<1>. QED
  BY <1>8, <1>9, <1>10

LEMMA PgDeltaStep ==
  ASSUME PgDeltaInv, [Postgres!Next]_(Postgres!vars)
  PROVE  PgDeltaInv'
<1>0. PgTyped /\ PgTyped'
  BY PgTypeStep DEF PgDeltaInv
<1>r. server.resets \in Nat /\ server'.resets \in Nat
  BY <1>0 DEF PgTyped, PgServer
<1>1. CASE Postgres!Call \/ Postgres!ResetStatistics
  <2>1. UNCHANGED <<state, scrape, sent, h1, h3>>
    BY <1>1 DEF Postgres!Call, Postgres!ResetStatistics, Postgres!historyVars
  <2>2. server'.resets > server.resets \/ server'.resets = server.resets
    BY <1>0, <1>1, <1>r, PgServerStep DEF PgMoves
  <2>. QED
    BY <1>0, <2>1, <2>2, PgDeltaQuiet DEF PgDeltaInv, PgAlone
<1>2. CASE Postgres!ServerRestart
  <2>1. /\ UNCHANGED <<sent, h1, h3>> /\ state' \in {state, Postgres!Forgotten}
        /\ \A x \in Slot : scrape'[x] = Postgres!Idle
    BY <1>2 DEF Postgres!ServerRestart, Postgres!historyVars
  <2>2. server'.resets = server.resets + 1
    BY <1>0, <1>2 DEF Postgres!ServerRestart, PgTyped, PgServer
  <2>3. server'.resets > server.resets
    BY <1>r, <2>2
  <2>4. \A x \in Slot : scrape'[x].pc # "storage"
    BY <2>1 DEF Postgres!Idle
  <2>. QED
    BY <1>0, <2>1, <2>3, <2>4, PgDeltaQuiet DEF PgDeltaInv, PgAlone
<1>3. CASE Postgres!StartScrape
  <2>1. /\ UNCHANGED <<server, state, sent, h1>>
        /\ \/ /\ scrape' = [scrape EXCEPT ![Postgres!Min(Postgres!FreeSlots)] =
                                   [pc |-> "connected", at |-> now']]
              /\ h3' = (h3 \/ Postgres!FreeSlots # Slot)
           \/ UNCHANGED <<scrape, h3>>
    BY <1>3, Zenon DEF Postgres!StartScrape, Postgres!Set
  <2>2. \A x \in Slot : \/ scrape'[x] = scrape[x]
                        \/ scrape'[x] = [pc |-> "connected", at |-> now']
    BY <1>0, <2>1 DEF PgTyped
  <2>3. ASSUME ~h3'
        PROVE  /\ ~h3
               /\ \A a, b \in Slot :
                    scrape'[a] # Postgres!Idle /\ scrape'[b] # Postgres!Idle => a = b
    <3>1. CASE UNCHANGED <<scrape, h3>>
      BY <2>3, <3>1 DEF PgDeltaInv, PgAlone
    <3>2. CASE /\ scrape' = [scrape EXCEPT ![Postgres!Min(Postgres!FreeSlots)] =
                                    [pc |-> "connected", at |-> now']]
               /\ h3' = (h3 \/ Postgres!FreeSlots # Slot)
      <4>1. ~h3 /\ Postgres!FreeSlots = Slot
        BY <2>3, <3>2
      <4>2. \A x \in Slot : scrape[x] = Postgres!Idle
        BY <4>1 DEF Postgres!FreeSlots
      <4>3. \A x \in Slot : x # Postgres!Min(Postgres!FreeSlots) => scrape'[x] = scrape[x]
        BY <1>0, <3>2 DEF PgTyped
      <4>. QED
        BY <4>1, <4>2, <4>3
    <3>. QED
      BY <2>1, <3>1, <3>2
  <2>4. \A x \in Slot : scrape'[x] = scrape[x] \/ scrape'[x].pc # "storage"
    BY <2>2
  <2>5. server'.resets = server.resets /\ state' = state /\ state' \in {state, Postgres!Forgotten}
    BY <2>1
  <2>. QED
    BY <1>0, <2>1, <2>3, <2>4, <2>5, PgDeltaQuiet, Zenon
<1>4. ASSUME NEW slot \in Slot, Postgres!ReadCluster(slot) PROVE PgDeltaInv'
  BY <1>0, <1>4, PgDeltaRead
<1>5. ASSUME NEW slot \in Slot, Postgres!ReadTables(slot) PROVE PgDeltaInv'
  <2> DEFINE s == scrape[slot]
  <2>1. PICK db : \E r \in PgStorage :
          /\ scrape' = [scrape EXCEPT ![slot] = r]
          /\ s \in PgStorage /\ r.at = s.at
          /\ r.targets = s.targets \ {db}
          /\ r.tables = IF db \in server.open THEN s.tables \cup {db} ELSE s.tables
          /\ r.reading = s.reading /\ r.restarted = s.restarted
          /\ r.previous = s.previous /\ r.storage = s.storage /\ r.probed = s.probed
    BY <1>0, <1>5, PgReadTables
  <2>2. PICK r \in PgStorage :
          /\ scrape' = [scrape EXCEPT ![slot] = r]
          /\ r.reading = s.reading /\ r.restarted = s.restarted
          /\ r.previous = s.previous
    BY <2>1
  <2>3. UNCHANGED <<now, server, state, sent, h1, h3>> /\ s.pc = "storage"
    BY <1>5 DEF Postgres!ReadTables, Postgres!historyVars
  <2>4. /\ s # Postgres!Idle
        /\ PgFollows(Postgres!Reading, s.reading)
        /\ PgFollows(s.reading, s.previous.statements) /\ PgFollows(s.reading, s.previous.wal)
        /\ s.restarted => s.previous = Postgres!NoPrevious
    BY <2>3 DEF PgDeltaInv, PgOrdered, Postgres!Idle
  <2>5. ~h3 => /\ sent.reading.resets <= s.reading.resets
               /\ Postgres!Told.statements.resets = s.reading.resets =>
                    s.previous.statements = Postgres!Told.statements
               /\ Postgres!Told.wal.resets = s.reading.resets =>
                    s.previous.wal = Postgres!Told.wal
    BY <2>3 DEF PgDeltaInv, PgAlone
  <2>. QED
    BY <1>0, <2>2, <2>3, <2>4, <2>5, PgDeltaScrape
<1>6. ASSUME NEW slot \in Slot, Postgres!ScrapeFails(slot) PROVE PgDeltaInv'
  <2>1. /\ UNCHANGED <<server, state, sent, h1, h3>>
        /\ \A x \in Slot : scrape'[x] \in {Postgres!Idle, scrape[x]}
    BY <1>0, <1>6 DEF Postgres!ScrapeFails, Postgres!Set, Postgres!historyVars, PgTyped
  <2>2. \A x \in Slot : scrape'[x] = scrape[x] \/ scrape'[x].pc # "storage"
    BY <2>1 DEF Postgres!Idle
  <2>. QED
    BY <1>0, <2>1, <2>2, PgDeltaQuiet DEF PgDeltaInv, PgAlone
<1>7. ASSUME NEW slot \in Slot, Postgres!FinishScrape(slot) PROVE PgDeltaInv'
  BY <1>0, <1>7, PgDeltaFinish
<1>8. CASE UNCHANGED Postgres!vars
  <2>1. UNCHANGED <<server, state, scrape, sent, h1, h3>>
    BY <1>8 DEF Postgres!vars, Postgres!historyVars
  <2>. QED
    BY <1>0, <2>1, PgDeltaQuiet DEF PgDeltaInv, PgAlone
<1>. QED
  BY <1>1, <1>2, <1>3, <1>4, <1>5, <1>6, <1>7, <1>8, ZenonT(60) DEF Postgres!Next

\* The property is what the invariant says of the last payload.
LEMMA PgDeltaImplies == PgDeltaInv => Postgres!DeltasJoinReadings
<1>. SUFFICES ASSUME PgDeltaInv PROVE Postgres!DeltasJoinReadings
  OBVIOUS
<1>. QED
  BY DEF PgDeltaInv, PgSentFits, PgAlone, Postgres!DeltasJoinReadings

-----------------------------------------------------------------------------
(* Reporting: the reports of a collection *)

Figures == [database : Database, whole : BOOLEAN]

Collection ==
  [stage : {"collect", "fall back", "docker"}] \cup
  [stage : {"databases"}, left : Seq(Database), global : BOOLEAN, read : Seq(Figures),
   statements : Seq(Database)]

Content ==
  Nat \cup [by : {"collector", "fallback", "docker"}] \cup
  [by : {"fallback"}, global : BOOLEAN, read : Seq(Figures), statements : Seq(Database)]

AnyReport == [kind : {"basic", "advanced", "docker"}, minute : Nat, content : Content]

Distinct(seq) == \A k, l \in DOMAIN seq : seq[k] = seq[l] => k = l

\* What was read of the databases of a server is whole, and neither is any of it read
\* twice nor will it be.
ReadsOnce(c) ==
  /\ Distinct(c.left)
  /\ \A k \in DOMAIN c.read : c.read[k].whole = TRUE
  /\ \A k, l \in DOMAIN c.read : c.read[k].database = c.read[l].database => k = l
  /\ \A k \in DOMAIN c.left, l \in DOMAIN c.read : c.left[k] # c.read[l].database

\* A collection does what is possible for the service.
Fits(c, svc) ==
  /\ c.stage = "docker" => svc = "docker"
  /\ c.stage = "databases" => ReadsOnce(c)

\* Where the reports of a minute and a kind are among others.
Places(s, m, kind) == {i \in DOMAIN s : s[i].minute = m /\ s[i].kind = kind}

\* The parts of a payload follow one another.
InARow(s, places) ==
  \E k \in Nat, n \in Nat :
    places = (k + 1) .. (k + n) /\ \A i \in places : s[i].content = i - k

\* What a minute may have reported: the basic report at most once, and parts in a row.
Fine(s, m) ==
  /\ \A i, j \in Places(s, m, "basic") : i = j
  /\ InARow(s, Places(s, m, "advanced"))
  /\ Places(s, m, "advanced") # {} =>
       \A i \in Places(s, m, "basic") : s[i].content.by = "collector"

\* A minute has its basic report.
Sure(s, m) ==
  \E i \in Places(s, m, "basic") :
    s[i].content.by # "collector" => Reporting!ListsWhole(s[i].content)

OfMinute(s, m) == \A i \in DOMAIN s : s[i].minute = m

NotOfMinute(s, m) == \A i \in DOMAIN s : s[i].minute # m

\* Minutes whose collection has ended may have reports, those of a SQL server have one.
ReportsInv ==
  /\ now \in Nat
  /\ server \in Reporting!Integration
  /\ scrape \in Maps(1 .. now, Collection)
  /\ \A m \in DOMAIN scrape : Fits(scrape[m], server.service)
  /\ sent \in Seq(AnyReport)
  /\ \A i \in DOMAIN sent : sent[i].minute \in (1 .. now) \ DOMAIN scrape
  /\ \A m \in 1 .. now : Fine(sent, m)
  /\ \A m \in (1 .. now) \ DOMAIN scrape : server.databases # << >> => Sure(sent, m)

(* What is appended *)

\* Reports of another minute leave the places of this one as they are.
LEMMA PlacesElsewhere ==
  ASSUME NEW s \in Seq(AnyReport), NEW p \in Seq(AnyReport), NEW m, NotOfMinute(p, m), NEW kind
  PROVE  Places(s \o p, m, kind) = Places(s, m, kind)
<1>1. Len(s \o p) = Len(s) + Len(p) /\ Len(s) \in Nat /\ Len(p) \in Nat
  OBVIOUS
<1>2. \A i \in 1 .. Len(s) : (s \o p)[i] = s[i]
  OBVIOUS
<1>3. \A i \in 1 .. Len(p) : (s \o p)[Len(s) + i] = p[i]
  OBVIOUS
<1>4. ASSUME NEW i \in DOMAIN (s \o p), (s \o p)[i].minute = m PROVE i \in DOMAIN s
  <2>1. SUFFICES ASSUME i > Len(s) PROVE FALSE
    BY <1>1
  <2>2. i - Len(s) \in 1 .. Len(p) /\ Len(s) + (i - Len(s)) = i
    BY <1>1, <2>1
  <2>3. (s \o p)[i] = p[i - Len(s)]
    BY <1>3, <2>2
  <2>. QED
    BY <1>4, <2>2, <2>3 DEF NotOfMinute
<1>. QED
  BY <1>1, <1>2, <1>4 DEF Places

\* The reports of a minute that had none are in the part that is appended.
LEMMA PlacesShifted ==
  ASSUME NEW s \in Seq(AnyReport), NEW p \in Seq(AnyReport), NEW m, NotOfMinute(s, m), NEW kind
  PROVE  Places(s \o p, m, kind) = {Len(s) + i : i \in Places(p, m, kind)}
<1>1. Len(s \o p) = Len(s) + Len(p) /\ Len(s) \in Nat /\ Len(p) \in Nat
  OBVIOUS
<1>2. \A i \in 1 .. Len(s) : (s \o p)[i] = s[i]
  OBVIOUS
<1>3. \A i \in 1 .. Len(p) : (s \o p)[Len(s) + i] = p[i] /\ Len(s) + i \in DOMAIN (s \o p)
  BY <1>1
<1>4. ASSUME NEW j \in Places(s \o p, m, kind)
      PROVE  \E i \in Places(p, m, kind) : j = Len(s) + i
  <2>1. j \in 1 .. Len(s \o p) /\ (s \o p)[j].minute = m /\ (s \o p)[j].kind = kind
    BY DEF Places
  <2>2. j > Len(s)
    BY <1>1, <1>2, <2>1 DEF NotOfMinute
  <2>3. j - Len(s) \in 1 .. Len(p) /\ Len(s) + (j - Len(s)) = j
    BY <1>1, <2>1, <2>2
  <2>4. (s \o p)[j] = p[j - Len(s)]
    BY <1>3, <2>3
  <2>5. j - Len(s) \in Places(p, m, kind)
    BY <2>1, <2>3, <2>4 DEF Places
  <2>. QED
    BY <2>3, <2>5
<1>5. ASSUME NEW i \in Places(p, m, kind) PROVE Len(s) + i \in Places(s \o p, m, kind)
  BY <1>3, <1>5 DEF Places
<1>. QED
  BY <1>4, <1>5

\* What other minutes have reported stays as fine and as sure as it is.
LEMMA OthersStay ==
  ASSUME NEW s \in Seq(AnyReport), NEW p \in Seq(AnyReport), NEW m, NotOfMinute(p, m)
  PROVE  (Fine(s, m) => Fine(s \o p, m)) /\ (Sure(s, m) => Sure(s \o p, m))
<1>1. /\ Places(s \o p, m, "basic") = Places(s, m, "basic")
      /\ Places(s \o p, m, "advanced") = Places(s, m, "advanced")
  BY PlacesElsewhere
<1>2. \A i \in DOMAIN s : (s \o p)[i] = s[i]
  OBVIOUS
<1>3. \A i \in Places(s, m, "basic") \cup Places(s, m, "advanced") : (s \o p)[i] = s[i]
  BY <1>2 DEF Places
<1>4. InARow(s, Places(s, m, "advanced")) => InARow(s \o p, Places(s, m, "advanced"))
  BY <1>3 DEF InARow
<1>5. Fine(s, m) => Fine(s \o p, m)
  BY <1>1, <1>3, <1>4 DEF Fine
<1>6. Sure(s, m) => Sure(s \o p, m)
  BY <1>1, <1>3 DEF Sure
<1>. QED
  BY <1>5, <1>6

\* What a minute reports at its end is as fine and as sure where it is appended.
LEMMA EndIsFine ==
  ASSUME NEW s \in Seq(AnyReport), NEW p \in Seq(AnyReport), NEW m, NotOfMinute(s, m), Fine(p, m)
  PROVE  Fine(s \o p, m) /\ (Sure(p, m) => Sure(s \o p, m))
<1> DEFINE B == Places(p, m, "basic")
           A == Places(p, m, "advanced")
           all == s \o p
           a == Len(s)
<1>1. /\ Places(all, m, "basic") = {a + i : i \in B}
      /\ Places(all, m, "advanced") = {a + i : i \in A}
  BY PlacesShifted
<1>2. a \in Nat /\ B \subseteq Nat /\ A \subseteq Nat
  BY DEF Places
<1>3. \A i \in B \cup A : all[a + i] = p[i]
  <2>1. \A i \in 1 .. Len(p) : (s \o p)[Len(s) + i] = p[i]
    OBVIOUS
  <2>. QED
    BY <2>1 DEF Places
<1>4. \A i, j \in Places(all, m, "basic") : i = j
  BY <1>1 DEF Fine
<1>5. InARow(all, Places(all, m, "advanced"))
  <2>1. PICK k \in Nat : \E n \in Nat : A = (k + 1) .. (k + n) /\ \A i \in A : p[i].content = i - k
    BY DEF Fine, InARow
  <2>2. PICK n \in Nat : A = (k + 1) .. (k + n) /\ \A i \in A : p[i].content = i - k
    BY <2>1
  <2>. HIDE DEF A, B, all, a
  <2>3. {a + i : i \in A} = (a + k + 1) .. (a + k + n)
    <3>1. \A j \in (a + k + 1) .. (a + k + n) : j - a \in A /\ j = a + (j - a)
      BY <1>2, <2>2
    <3>2. \A i \in A : a + i \in (a + k + 1) .. (a + k + n)
      BY <1>2, <2>2
    <3>. QED
      BY <3>1, <3>2
  <2>4. \A j \in {a + i : i \in A} : all[j].content = j - (a + k)
    <3>1. ASSUME NEW i \in A PROVE all[a + i].content = (a + i) - (a + k)
      <4>1. i \in Nat /\ (a + i) - (a + k) = i - k
        BY <1>2
      <4>2. all[a + i].content = i - k
        BY <1>3, <2>2
      <4>. QED
        BY <4>1, <4>2
    <3>. QED
      BY <3>1
  <2>5. a + k \in Nat
    BY <1>2
  <2>. QED
    BY <1>1, <2>2, <2>3, <2>4, <2>5 DEF InARow
<1>6. Places(all, m, "advanced") # {} =>
        \A i \in Places(all, m, "basic") : all[i].content.by = "collector"
  <2>1. A # {} => \A i \in B : p[i].content.by = "collector"
    BY DEF Fine
  <2>. HIDE DEF A, B, all, a
  <2>. QED
    BY <1>1, <1>3, <2>1
<1>7. Sure(p, m) => Sure(all, m)
  <2>1. Sure(p, m) => \E i \in B : p[i].content.by # "collector" =>
                                     Reporting!ListsWhole(p[i].content)
    BY DEF Sure
  <2>. HIDE DEF A, B, all, a
  <2>. QED
    BY <1>1, <1>3, <2>1 DEF Sure
<1>. QED
  BY <1>4, <1>5, <1>6, <1>7 DEF Fine

(* How a collection goes on *)

\* Nothing at all is fine.
LEMMA NothingIsFine ==
  ASSUME NEW s \in Seq(AnyReport), NEW m, NotOfMinute(s, m)
  PROVE  Fine(s, m)
<1>1. Places(s, m, "basic") = {} /\ Places(s, m, "advanced") = {}
  BY DEF Places, NotOfMinute
<1>2. {} = (0 + 1) .. (0 + 0)
  OBVIOUS
<1>3. InARow(s, {})
  BY <1>2 DEF InARow
<1>. QED
  BY <1>1, <1>3 DEF Fine

\* One report that is no part of a payload is fine, and sure if it is what it should be.
LEMMA OneIsFine ==
  ASSUME NEW r \in AnyReport, r.kind # "advanced"
  PROVE  /\ <<r>> \in Seq(AnyReport) /\ OfMinute(<<r>>, r.minute) /\ Fine(<<r>>, r.minute)
         /\ (r.kind = "basic" /\ (r.content.by # "collector" => Reporting!ListsWhole(r.content)))
              => Sure(<<r>>, r.minute)
<1>1. DOMAIN <<r>> = {1} /\ <<r>>[1] = r /\ <<r>> \in Seq(AnyReport)
  OBVIOUS
<1>2. Places(<<r>>, r.minute, "advanced") = {} /\ Places(<<r>>, r.minute, "basic") \subseteq {1}
  BY <1>1 DEF Places
<1>3. {} = (0 + 1) .. (0 + 0)
  OBVIOUS
<1>4. InARow(<<r>>, {})
  BY <1>3 DEF InARow
<1>5. r.kind = "basic" => 1 \in Places(<<r>>, r.minute, "basic")
  BY <1>1 DEF Places
<1>. QED
  BY <1>1, <1>2, <1>4, <1>5 DEF Fine, Sure, OfMinute

\* A payload in parts is fine.
LEMMA PartsAreFine ==
  ASSUME NEW m \in Nat, NEW n \in Nat, NEW p,
         p = [i \in 1 .. 1 + n |-> Reporting!Report("advanced", m, i)]
  PROVE  p \in Seq(AnyReport) /\ OfMinute(p, m) /\ Fine(p, m)
<1>1. \A i \in 1 .. 1 + n :
        p[i] = [kind |-> "advanced", minute |-> m, content |-> i]
  BY DEF Reporting!Report
<1>2. \A i \in 1 .. 1 + n : p[i] \in AnyReport
  BY <1>1 DEF AnyReport, Content
<1>3. p \in Seq(AnyReport) /\ DOMAIN p = 1 .. 1 + n
  BY <1>2
<1>4. Places(p, m, "basic") = {} /\ Places(p, m, "advanced") = (0 + 1) .. (0 + (1 + n))
  BY <1>1, <1>3 DEF Places
<1>5. \A i \in 1 .. 1 + n : p[i].content = i - 0
  BY <1>1
<1>6. InARow(p, Places(p, m, "advanced"))
  <2>1. 0 \in Nat /\ 1 + n \in Nat
    OBVIOUS
  <2>2. \A i \in (0 + 1) .. (0 + (1 + n)) : p[i].content = i - 0
    BY <1>5
  <2>. QED
    BY <1>4, <2>1, <2>2, Zenon DEF InARow
<1>7. OfMinute(p, m)
  BY <1>1, <1>3 DEF OfMinute
<1>. QED
  BY <1>3, <1>4, <1>6, <1>7 DEF Fine

\* The two reports of a collector are fine, and sure.
LEMMA TwoAreFine ==
  ASSUME NEW m \in Nat, NEW p,
         p = <<Reporting!Report("basic", m, [by |-> "collector"]),
               Reporting!Report("advanced", m, 1)>>
  PROVE  p \in Seq(AnyReport) /\ OfMinute(p, m) /\ Fine(p, m) /\ Sure(p, m)
<1>1. /\ DOMAIN p = {1, 2}
      /\ p[1] = [kind |-> "basic", minute |-> m, content |-> [by |-> "collector"]]
      /\ p[2] = [kind |-> "advanced", minute |-> m, content |-> 1]
  BY DEF Reporting!Report
<1>2. [kind |-> "basic", minute |-> m, content |-> [by |-> "collector"]] \in AnyReport
  BY DEF AnyReport, Content
<1>3. [kind |-> "advanced", minute |-> m, content |-> 1] \in AnyReport
  BY DEF AnyReport, Content
<1>4. p \in Seq(AnyReport)
  BY <1>2, <1>3 DEF Reporting!Report
<1>5. Places(p, m, "basic") = {1} /\ Places(p, m, "advanced") = {2}
  BY <1>1 DEF Places
<1>6. {2} = (1 + 1) .. (1 + 1) /\ \A i \in {2} : p[i].content = i - 1
  BY <1>1
<1>7. InARow(p, {2})
  BY <1>6 DEF InARow
<1>8. p[1].content.by = "collector"
  BY <1>1
<1>9. OfMinute(p, m)
  BY <1>1 DEF OfMinute
<1>. QED
  BY <1>4, <1>5, <1>7, <1>8, <1>9 DEF Fine, Sure

\* A collection ends with reports of its minute that are fine, and sure if its service
\* has a list of databases.
LEMMA CollectionEnds ==
  ASSUME ReportsInv, NEW m \in DOMAIN scrape, NEW p \in Seq(AnyReport),
         OfMinute(p, m), Fine(p, m), server.databases # << >> => Sure(p, m),
         sent' = sent \o p, Reporting!Ends(m), UNCHANGED <<now, server>>
  PROVE  ReportsInv'
<1>0. /\ now \in Nat /\ server \in Reporting!Integration /\ sent \in Seq(AnyReport)
      /\ scrape \in Maps(1 .. now, Collection)
      /\ \A i \in DOMAIN sent : sent[i].minute \in (1 .. now) \ DOMAIN scrape
      /\ \A n \in 1 .. now : Fine(sent, n)
      /\ \A n \in (1 .. now) \ DOMAIN scrape : server.databases # << >> => Sure(sent, n)
      /\ \A n \in DOMAIN scrape : Fits(scrape[n], server.service)
  BY DEF ReportsInv
<1>1. m \in 1 .. now /\ NotOfMinute(sent, m)
  BY <1>0 DEF Maps, NotOfMinute
<1>2. DOMAIN scrape' = DOMAIN scrape \ {m} /\ \A n \in DOMAIN scrape' : scrape'[n] = scrape[n]
  BY DEF Reporting!Ends
<1>3. scrape' \in Maps(1 .. now, Collection)
  <2>1. \A n \in DOMAIN scrape \ {m} : scrape[n] \in Collection
    BY <1>0, MapsAre
  <2>2. scrape' \in [DOMAIN scrape \ {m} -> Collection]
    BY <2>1 DEF Reporting!Ends
  <2>3. DOMAIN scrape \ {m} \in SUBSET (1 .. now)
    BY <1>0 DEF Maps
  <2>. QED
    BY <2>2, <2>3 DEF Maps
<1>4. \A n \in DOMAIN scrape' : Fits(scrape'[n], server.service)
  BY <1>0, <1>2
<1>5. sent' \in Seq(AnyReport)
  BY <1>0
<1>6. \A i \in DOMAIN sent' : sent'[i].minute \in (1 .. now) \ DOMAIN scrape'
  <2>1. SUFFICES ASSUME NEW i \in DOMAIN sent'
                 PROVE  sent'[i].minute \in ((1 .. now) \ DOMAIN scrape) \cup {m}
    BY <1>1, <1>2
  <2>2. CASE i <= Len(sent)
    <3>1. i \in DOMAIN sent /\ sent'[i] = sent[i]
      BY <1>0, <2>2
    <3>. QED
      BY <1>0, <3>1
  <2>3. CASE i > Len(sent)
    <3>1. i - Len(sent) \in DOMAIN p /\ sent'[i] = p[i - Len(sent)]
      BY <1>0, <2>3
    <3>. QED
      BY <3>1 DEF OfMinute
  <2>. QED
    BY <1>0, <2>2, <2>3
<1>7. \A n \in 1 .. now : n # m => NotOfMinute(p, n)
  BY DEF OfMinute, NotOfMinute
<1>8. \A n \in 1 .. now : Fine(sent', n)
  BY <1>0, <1>1, <1>7, OthersStay, EndIsFine
<1>9. \A n \in (1 .. now) \ DOMAIN scrape' : server.databases # << >> => Sure(sent', n)
  BY <1>0, <1>1, <1>2, <1>7, OthersStay, EndIsFine
<1>. QED
  BY <1>0, <1>3, <1>4, <1>5, <1>6, <1>8, <1>9 DEF ReportsInv

\* A collection that ends without a report is not one of a service with databases.
LEMMA EndsSilently ==
  ASSUME ReportsInv, NEW m \in DOMAIN scrape, server.databases = << >>,
         Reporting!Ends(m), UNCHANGED <<now, server, sent>>
  PROVE  ReportsInv'
<1>1. << >> \in Seq(AnyReport) /\ OfMinute(<< >>, m) /\ Fine(<< >>, m)
  <2>1. << >> \in Seq(AnyReport) /\ NotOfMinute(<< >>, m) /\ OfMinute(<< >>, m)
    BY DEF OfMinute, NotOfMinute
  <2>. QED
    BY <2>1, NothingIsFine
<1>2. sent' = sent \o << >>
  BY DEF ReportsInv
<1>. QED
  BY <1>1, <1>2, CollectionEnds

\* A collection that goes on reports nothing.
LEMMA CollectionGoes ==
  ASSUME ReportsInv, NEW m \in DOMAIN scrape, NEW c \in Collection, Fits(c, server.service),
         Reporting!Goes(m, c), UNCHANGED <<now, server, sent>>
  PROVE  ReportsInv'
<1>0. scrape \in Maps(1 .. now, Collection)
      /\ \A n \in DOMAIN scrape : Fits(scrape[n], server.service)
  BY DEF ReportsInv
<1>1. /\ DOMAIN scrape' = DOMAIN scrape /\ scrape'[m] = c
      /\ \A n \in DOMAIN scrape : n # m => scrape'[n] = scrape[n]
      /\ scrape' = [n \in DOMAIN scrape |-> IF n = m THEN c ELSE scrape[n]]
  BY DEF Reporting!Goes
<1>2. scrape' \in Maps(1 .. now, Collection)
  <2>1. \A n \in DOMAIN scrape : scrape[n] \in Collection
    BY <1>0, MapsAre
  <2>2. scrape' \in [DOMAIN scrape -> Collection]
    BY <1>1, <2>1
  <2>3. DOMAIN scrape \in SUBSET (1 .. now)
    BY <1>0 DEF Maps
  <2>. QED
    BY <2>2, <2>3 DEF Maps
<1>3. \A n \in DOMAIN scrape' : Fits(scrape'[n], server.service)
  BY <1>0, <1>1
<1>. QED
  BY <1>1, <1>2, <1>3 DEF ReportsInv

(* The steps *)

\* Only SQL servers have a list of databases.
LEMMA NoDatabases ==
  ASSUME ReportsInv, server.service \notin Reporting!Sql
  PROVE  server.databases = << >>
BY DEF ReportsInv, Reporting!Integration

\* Databases are listed once.
LEMMA DatabasesListed ==
  ASSUME ReportsInv
  PROVE  server.databases \in Seq(Database) /\ Distinct(server.databases)
<1> DEFINE Lists == {<< >>} \cup {<<d>> : d \in Database} \cup {<<d, e>> : d, e \in Database}
<1>1. server.databases \in Lists
  BY DEF ReportsInv, Reporting!Integration
<1>2. ASSUME NEW list \in Lists PROVE list \in Seq(Database)
  <2>1. CASE list = << >>
    BY <2>1
  <2>2. ASSUME NEW d \in Database, list = <<d>> PROVE list \in Seq(Database)
    BY <2>2
  <2>3. ASSUME NEW d \in Database, NEW e \in Database, list = <<d, e>>
        PROVE  list \in Seq(Database)
    BY <2>3
  <2>. QED
    BY <2>1, <2>2, <2>3
<1>3. Distinct(server.databases)
  BY DEF ReportsInv, Reporting!Integration, Distinct
<1>4. server.databases \in Seq(Database)
  <2>. HIDE DEF Lists
  <2>. QED
    BY <1>1, <1>2
<1>. QED
  BY <1>3, <1>4, Zenon

LEMMA ReportsInit == Reporting!Init => ReportsInv
<1>. SUFFICES ASSUME Reporting!Init PROVE ReportsInv
  OBVIOUS
<1>1. now = 0 /\ server \in Reporting!Integration /\ scrape = << >> /\ sent = << >>
  BY DEF Reporting!Init
<1>2. 1 .. now = {} /\ DOMAIN scrape = {} /\ DOMAIN sent = {} /\ sent \in Seq(AnyReport)
  BY <1>1
<1>3. scrape \in Maps(1 .. now, Collection)
  <2>1. scrape \in [{} -> Collection]
    BY <1>1
  <2>. QED
    BY <2>1 DEF Maps
<1>. QED
  BY <1>1, <1>2, <1>3 DEF ReportsInv

LEMMA MinuteKeepsReports ==
  ASSUME ReportsInv, Reporting!Minute
  PROVE  ReportsInv'
<1> DEFINE begins == [stage |-> IF server.service = "docker" THEN "docker" ELSE "collect"]
<1>0. /\ now \in Nat /\ server \in Reporting!Integration /\ sent \in Seq(AnyReport)
      /\ scrape \in Maps(1 .. now, Collection)
      /\ \A i \in DOMAIN sent : sent[i].minute \in (1 .. now) \ DOMAIN scrape
      /\ \A n \in 1 .. now : Fine(sent, n)
      /\ \A n \in (1 .. now) \ DOMAIN scrape : server.databases # << >> => Sure(sent, n)
      /\ \A n \in DOMAIN scrape : Fits(scrape[n], server.service)
  BY DEF ReportsInv
<1>1. /\ now' = now + 1 /\ UNCHANGED <<server, sent>>
      /\ scrape' = [m \in DOMAIN scrape \cup {now'} |-> IF m = now' THEN begins ELSE scrape[m]]
  BY DEF Reporting!Minute
<1>2. begins \in Collection /\ Fits(begins, server.service)
  BY DEF Collection, Fits
<1>3. \A n \in DOMAIN scrape : n \in 1 .. now /\ scrape[n] \in Collection
  BY <1>0, MapsAre
<1>4. now' \in Nat /\ 1 .. now' = (1 .. now) \cup {now'} /\ now' \notin 1 .. now
  BY <1>0, <1>1
<1>. HIDE DEF begins
<1>5. /\ DOMAIN scrape' = DOMAIN scrape \cup {now'} /\ scrape'[now'] = begins
      /\ \A n \in DOMAIN scrape : scrape'[n] = scrape[n]
  BY <1>1, <1>3, <1>4
<1>6. scrape' \in Maps(1 .. now', Collection)
  <2>1. \A n \in DOMAIN scrape \cup {now'} : scrape'[n] \in Collection
    BY <1>2, <1>3, <1>5
  <2>2. scrape' \in [DOMAIN scrape \cup {now'} -> Collection]
    BY <1>1, <1>5, <2>1
  <2>3. DOMAIN scrape \cup {now'} \in SUBSET (1 .. now')
    BY <1>3, <1>4
  <2>. QED
    BY <2>2, <2>3 DEF Maps
<1>7. \A n \in DOMAIN scrape' : Fits(scrape'[n], server'.service)
  BY <1>0, <1>1, <1>2, <1>5
<1>8. (1 .. now') \ DOMAIN scrape' = (1 .. now) \ DOMAIN scrape
  BY <1>4, <1>5
<1>9. Fine(sent, now')
  <2>1. NotOfMinute(sent, now')
    BY <1>0, <1>4 DEF NotOfMinute
  <2>. QED
    BY <1>0, <2>1, NothingIsFine
<1>10. \A n \in 1 .. now' : Fine(sent', n)
  BY <1>0, <1>1, <1>4, <1>9
<1>. QED
  BY <1>0, <1>1, <1>4, <1>6, <1>7, <1>8, <1>10 DEF ReportsInv

LEMMA SuccessKeepsReports ==
  ASSUME ReportsInv, NEW m \in DOMAIN scrape, Reporting!Succeeds(m)
  PROVE  ReportsInv'
<1>1. m \in Nat
  BY MapsAre DEF ReportsInv
<1>2. Reporting!Collected(m) /\ Reporting!Ends(m) /\ UNCHANGED <<now, server>>
  BY Zenon DEF Reporting!Succeeds
<1>3. ASSUME server.service = "elasticsearch", NEW batches \in 0 .. MaxBatches,
             Reporting!Emit([p \in 1 .. 1 + batches |-> Reporting!Report("advanced", m, p)])
      PROVE  ReportsInv'
  <2> DEFINE p == [i \in 1 .. 1 + batches |-> Reporting!Report("advanced", m, i)]
  <2>1. p \in Seq(AnyReport) /\ OfMinute(p, m) /\ Fine(p, m)
    <3>1. batches \in Nat
      OBVIOUS
    <3>. QED
      BY <1>1, <3>1, PartsAreFine
  <2>2. sent' = sent \o p
    BY <1>3, Zenon DEF Reporting!Emit
  <2>3. server.databases = << >>
    BY <1>3, NoDatabases DEF Reporting!Sql
  <2>. HIDE DEF p
  <2>. QED
    BY <1>2, <2>1, <2>2, <2>3, CollectionEnds
<1>4. ASSUME Reporting!Emit(<<Reporting!Report("basic", m, [by |-> "collector"])>>)
      PROVE  ReportsInv'
  <2> DEFINE r == Reporting!Report("basic", m, [by |-> "collector"])
  <2>1. r = [kind |-> "basic", minute |-> m, content |-> [by |-> "collector"]]
    BY DEF Reporting!Report
  <2>. HIDE DEF r
  <2>2. r \in AnyReport /\ r.kind = "basic" /\ r.minute = m /\ r.content.by = "collector"
    BY <1>1, <2>1 DEF AnyReport, Content
  <2>3. <<r>> \in Seq(AnyReport) /\ OfMinute(<<r>>, m) /\ Fine(<<r>>, m) /\ Sure(<<r>>, m)
    BY <2>2, OneIsFine
  <2>4. sent' = sent \o <<r>>
    BY <1>4, Zenon DEF Reporting!Emit, r
  <2>. QED
    BY <1>2, <2>3, <2>4, CollectionEnds
<1>5. ASSUME Reporting!Emit(<<Reporting!Report("basic", m, [by |-> "collector"]),
                              Reporting!Report("advanced", m, 1)>>)
      PROVE  ReportsInv'
  <2> DEFINE p == <<Reporting!Report("basic", m, [by |-> "collector"]),
                    Reporting!Report("advanced", m, 1)>>
  <2>1. p \in Seq(AnyReport) /\ OfMinute(p, m) /\ Fine(p, m) /\ Sure(p, m)
    BY <1>1, TwoAreFine
  <2>2. sent' = sent \o p
    BY <1>5, Zenon DEF Reporting!Emit
  <2>. HIDE DEF p
  <2>. QED
    BY <1>2, <2>1, <2>2, CollectionEnds
<1>. QED
  BY <1>2, <1>3, <1>4, <1>5, Zenon DEF Reporting!Collected

LEMMA FailureKeepsReports ==
  ASSUME ReportsInv, NEW m \in DOMAIN scrape, Reporting!Fails(m)
  PROVE  ReportsInv'
<1>1. Reporting!Goes(m, [stage |-> "fall back"]) /\ UNCHANGED <<now, server, sent>>
  BY Zenon DEF Reporting!Fails, Reporting!Silent
<1>2. [stage |-> "fall back"] \in Collection /\ Fits([stage |-> "fall back"], server.service)
  BY DEF Collection, Fits
<1>. QED
  BY <1>1, <1>2, CollectionGoes

\* One report of the collection m, or none where no report is due.
LEMMA EndsWithOne ==
  ASSUME ReportsInv, NEW m \in DOMAIN scrape, server.databases = << >>,
         NEW r \in AnyReport, r.kind # "advanced", r.minute = m,
         Reporting!Silent \/ Reporting!Emit(<<r>>),
         Reporting!Ends(m), UNCHANGED <<now, server>>
  PROVE  ReportsInv'
<1>1. CASE Reporting!Silent
  BY <1>1, EndsSilently DEF Reporting!Silent
<1>2. CASE Reporting!Emit(<<r>>)
  <2>1. sent' = sent \o <<r>>
    BY <1>2 DEF Reporting!Emit
  <2>2. <<r>> \in Seq(AnyReport) /\ OfMinute(<<r>>, m) /\ Fine(<<r>>, m)
    BY OneIsFine
  <2>. QED
    BY <2>1, <2>2, CollectionEnds
<1>. QED
  BY <1>1, <1>2

LEMMA EndsKeepReports ==
  ASSUME ReportsInv, NEW m \in DOMAIN scrape,
         \/ Reporting!NoFallback(m) \/ Reporting!FallBackToMongo(m)
         \/ Reporting!FallBackToRedis(m) \/ Reporting!Docker(m)
  PROVE  ReportsInv'
<1>0. m \in Nat
  BY MapsAre DEF ReportsInv
<1> DEFINE fallback == Reporting!Report("basic", m, [by |-> "fallback"])
           docker == Reporting!Report("docker", m, [by |-> "docker"])
<1>1. fallback \in AnyReport /\ fallback.kind # "advanced" /\ fallback.minute = m
  BY <1>0 DEF Reporting!Report, AnyReport, Content
<1>2. docker \in AnyReport /\ docker.kind # "advanced" /\ docker.minute = m
  BY <1>0 DEF Reporting!Report, AnyReport, Content
<1>3. CASE Reporting!NoFallback(m)
  <2>1. Reporting!Ends(m) /\ UNCHANGED <<now, server, sent>>
    BY <1>3, Zenon DEF Reporting!NoFallback, Reporting!Silent
  <2>2. server.service = "elasticsearch" \/ server.databases = << >>
    BY <1>3, Zenon DEF Reporting!NoFallback
  <2>3. server.databases = << >>
    BY <2>2, NoDatabases DEF Reporting!Sql
  <2>. QED
    BY <2>1, <2>3, EndsSilently
<1>4. CASE Reporting!FallBackToMongo(m)
  <2>1. /\ server.service = "mongodb" /\ Reporting!Ends(m) /\ UNCHANGED <<now, server>>
        /\ Reporting!Silent \/ Reporting!Emit(<<fallback>>)
    BY <1>4, Zenon DEF Reporting!FallBackToMongo
  <2>2. server.databases = << >>
    BY <2>1, NoDatabases DEF Reporting!Sql
  <2>. HIDE DEF fallback
  <2>. QED
    BY <1>1, <2>1, <2>2, EndsWithOne
<1>5. CASE Reporting!FallBackToRedis(m)
  <2>1. /\ server.service = "redis" /\ Reporting!Ends(m) /\ UNCHANGED <<now, server>>
        /\ Reporting!Silent \/ Reporting!Emit(<<fallback>>)
    BY <1>5, Zenon DEF Reporting!FallBackToRedis
  <2>2. server.databases = << >>
    BY <2>1, NoDatabases DEF Reporting!Sql
  <2>. HIDE DEF fallback
  <2>. QED
    BY <1>1, <2>1, <2>2, EndsWithOne
<1>6. CASE Reporting!Docker(m)
  <2>1. /\ Reporting!At(m, "docker") /\ Reporting!Ends(m) /\ UNCHANGED <<now, server>>
        /\ Reporting!Silent \/ Reporting!Emit(<<docker>>)
    BY <1>6, Zenon DEF Reporting!Docker
  <2>2. server.service = "docker"
    BY <2>1 DEF ReportsInv, Fits, Reporting!At, Reporting!Stage
  <2>3. server.databases = << >>
    BY <2>2, NoDatabases DEF Reporting!Sql
  <2>. HIDE DEF docker
  <2>. QED
    BY <1>2, <2>1, <2>3, EndsWithOne
<1>. QED
  BY <1>3, <1>4, <1>5, <1>6

LEMMA SqlBeginKeepsReports ==
  ASSUME ReportsInv, NEW m \in DOMAIN scrape, Reporting!FallBackToSql(m)
  PROVE  ReportsInv'
<1>1. PICK global \in BOOLEAN :
        /\ Reporting!Goes(m, [stage |-> "databases", left |-> server.databases, global |-> global,
                              read |-> << >>, statements |-> << >>])
        /\ UNCHANGED <<now, server, sent>>
  BY Zenon DEF Reporting!FallBackToSql, Reporting!Silent
<1> DEFINE c == [stage |-> "databases", left |-> server.databases, global |-> global,
                 read |-> << >>, statements |-> << >>]
<1>2. server.databases \in Seq(Database) /\ Distinct(server.databases)
  BY DatabasesListed
<1>3. << >> \in Seq(Figures) /\ << >> \in Seq(Database)
  OBVIOUS
<1>4. c \in Collection
  BY <1>2, <1>3 DEF Collection
<1>5. c.left = server.databases /\ DOMAIN c.read = {} /\ c.stage = "databases"
  OBVIOUS
<1>. HIDE DEF c
<1>6. Fits(c, server.service)
  BY <1>2, <1>5 DEF Fits, ReadsOnce
<1>. QED
  BY <1>1, <1>4, <1>6, CollectionGoes DEF c

\* An array and one more element.
LEMMA OneMoreRead ==
  ASSUME NEW S, NEW s \in Seq(S), NEW x \in S
  PROVE  /\ DOMAIN Append(s, x) = DOMAIN s \cup {Len(s) + 1} /\ Append(s, x)[Len(s) + 1] = x
         /\ Len(s) + 1 \notin DOMAIN s
         /\ \A k \in DOMAIN s : Append(s, x)[k] = s[k]
OBVIOUS

\* Reading the next database keeps what was read apart from what is left.
LEMMA ReadsOnceMore ==
  ASSUME NEW c \in Collection, c.stage = "databases", ReadsOnce(c), c.left # << >>,
         NEW whole \in BOOLEAN, NEW d \in Collection, d.stage = "databases",
         d.left = Tail(c.left), d.read = Reporting!Listed(c.read, Head(c.left), whole)
  PROVE  ReadsOnce(d)
<1>1. c.left \in Seq(Database) /\ c.read \in Seq(Figures)
  BY DEF Collection
<1>2. /\ Head(c.left) = c.left[1] /\ 1 \in DOMAIN c.left
      /\ \A k \in DOMAIN d.left : k + 1 \in DOMAIN c.left /\ d.left[k] = c.left[k + 1]
      /\ \A k \in DOMAIN d.left : k \in Nat /\ k >= 1
  BY <1>1
<1>3. \A k \in DOMAIN d.left : d.left[k] # c.left[1]
  <2>1. \A k \in DOMAIN d.left : k + 1 # 1
    BY <1>2
  <2>. QED
    BY <1>2, <2>1 DEF ReadsOnce, Distinct
<1>4. Distinct(d.left)
  <2>1. \A k, l \in DOMAIN d.left : k + 1 = l + 1 => k = l
    BY <1>2
  <2>. QED
    BY <1>2, <2>1 DEF ReadsOnce, Distinct
<1>5. CASE d.read = c.read
  BY <1>2, <1>4, <1>5 DEF ReadsOnce
<1>6. CASE whole
  <2> DEFINE x == [database |-> c.left[1], whole |-> whole]
  <2>1. x \in Figures /\ x.whole = TRUE /\ x.database = c.left[1]
    BY <1>1, <1>2, <1>6 DEF Figures
  <2>2. d.read = Append(c.read, x)
    BY <1>2, <1>6 DEF Reporting!Listed
  <2>. HIDE DEF x
  <2> DEFINE n == Len(c.read) + 1
  <2>3. /\ DOMAIN d.read = DOMAIN c.read \cup {n} /\ d.read[n] = x /\ n \notin DOMAIN c.read
        /\ \A k \in DOMAIN c.read : d.read[k] = c.read[k]
    <3>1. /\ DOMAIN Append(c.read, x) = DOMAIN c.read \cup {n} /\ Append(c.read, x)[n] = x
          /\ n \notin DOMAIN c.read
          /\ \A k \in DOMAIN c.read : Append(c.read, x)[k] = c.read[k]
      BY <1>1, <2>1, OneMoreRead
    <3>. QED
      BY <2>2, <3>1, Zenon
  <2>. HIDE DEF n
  <2>4. \A k \in DOMAIN c.read : c.read[k].database # x.database
    BY <1>2, <2>1 DEF ReadsOnce
  <2>5. \A k \in DOMAIN d.read : d.read[k].whole = TRUE
    BY <2>1, <2>3 DEF ReadsOnce
  <2>6. \A k, l \in DOMAIN d.read : d.read[k].database = d.read[l].database => k = l
    BY <2>3, <2>4 DEF ReadsOnce
  <2>7. \A k \in DOMAIN d.left, l \in DOMAIN d.read : d.left[k] # d.read[l].database
    BY <1>2, <1>3, <2>1, <2>3 DEF ReadsOnce
  <2>. QED
    BY <1>4, <2>5, <2>6, <2>7 DEF ReadsOnce
<1>7. whole \/ d.read = c.read
  BY DEF Reporting!Listed
<1>. QED
  BY <1>5, <1>6, <1>7

LEMMA ReadKeepsReports ==
  ASSUME ReportsInv, NEW m \in DOMAIN scrape, Reporting!ReadDatabase(m)
  PROVE  ReportsInv'
<1>1. /\ Reporting!At(m, "databases") /\ scrape[m].left # << >>
      /\ UNCHANGED <<now, server, sent>>
  BY Zenon DEF Reporting!ReadDatabase, Reporting!Silent
<1>2. PICK whole \in BOOLEAN :
        \E statements \in {scrape[m].statements, <<Head(scrape[m].left)>>} :
          Reporting!Goes(m, [scrape[m] EXCEPT
            !.left = Tail(@), !.read = Reporting!Listed(@, Head(scrape[m].left), whole),
            !.statements = statements])
  BY Zenon DEF Reporting!ReadDatabase
<1>3. PICK statements \in {scrape[m].statements, <<Head(scrape[m].left)>>} :
        Reporting!Goes(m, [scrape[m] EXCEPT
          !.left = Tail(@), !.read = Reporting!Listed(@, Head(scrape[m].left), whole),
          !.statements = statements])
  BY <1>2
<1> DEFINE c == scrape[m]
           d == [c EXCEPT !.left = Tail(@), !.read = Reporting!Listed(@, Head(c.left), whole),
                          !.statements = statements]
<1>4. c \in Collection /\ c.stage = "databases" /\ ReadsOnce(c) /\ c.left # << >>
  BY <1>1, MapsAre DEF ReportsInv, Fits, Reporting!At, Reporting!Stage
<1>5. Reporting!Goes(m, d)
  BY <1>3
<1>6. statements \in {c.statements, <<Head(c.left)>>}
  OBVIOUS
<1>. HIDE DEF c
<1>7. /\ c \in [stage : {"databases"}, left : Seq(Database), global : BOOLEAN,
                read : Seq(Figures), statements : Seq(Database)]
      /\ Head(c.left) \in Database /\ Tail(c.left) \in Seq(Database)
  <2>1. c \in [stage : {"databases"}, left : Seq(Database), global : BOOLEAN,
                read : Seq(Figures), statements : Seq(Database)]
    BY <1>4 DEF Collection
  <2>2. c.left \in Seq(Database) /\ c.left # << >>
    BY <1>4, <2>1
  <2>3. \A q \in Seq(Database) : q # << >> => Head(q) \in Database /\ Tail(q) \in Seq(Database)
    OBVIOUS
  <2>. QED
    BY <2>1, <2>2, <2>3
<1>8. Reporting!Listed(c.read, Head(c.left), whole) \in Seq(Figures)
  <2>1. [database |-> Head(c.left), whole |-> whole] \in Figures
    BY <1>7 DEF Figures
  <2>2. c.read \in Seq(Figures)
    BY <1>7
  <2>. QED
    BY <2>1, <2>2 DEF Reporting!Listed
<1>9. statements \in Seq(Database)
  <2>1. \A e \in Database : <<e>> \in Seq(Database)
    OBVIOUS
  <2>2. c.statements \in Seq(Database)
    BY <1>7
  <2>. QED
    BY <1>6, <1>7, <2>1, <2>2, Zenon
<1>10. /\ d.stage = "databases" /\ d.left = Tail(c.left)
       /\ d.read = Reporting!Listed(c.read, Head(c.left), whole)
       /\ d \in Collection
  BY <1>7, <1>8, <1>9 DEF Collection
<1>. HIDE DEF d
<1>11. Fits(d, server.service)
  BY <1>4, <1>10, ReadsOnceMore DEF Fits
<1>. QED
  BY <1>1, <1>5, <1>10, <1>11, CollectionGoes

LEMMA SqlReportKeepsReports ==
  ASSUME ReportsInv, NEW m \in DOMAIN scrape, Reporting!SqlReport(m)
  PROVE  ReportsInv'
<1> DEFINE c == scrape[m]
           content == [by |-> "fallback", global |-> c.global, read |-> c.read,
                       statements |-> c.statements]
           r == Reporting!Report("basic", m, content)
<1>1. /\ Reporting!At(m, "databases") /\ Reporting!Ends(m) /\ UNCHANGED <<now, server>>
      /\ sent' = sent \o <<r>>
  BY Zenon DEF Reporting!SqlReport, Reporting!Emit
<1>2. c \in Collection /\ c.stage = "databases" /\ ReadsOnce(c) /\ m \in Nat
  BY <1>1, MapsAre DEF ReportsInv, Fits, Reporting!At, Reporting!Stage
<1>. HIDE DEF c
<1>3. content \in Content /\ content.read = c.read
  BY <1>2 DEF Collection, Content
<1>. HIDE DEF content
<1>4. r \in AnyReport /\ r.kind = "basic" /\ r.minute = m /\ r.content = content
  BY <1>2, <1>3 DEF AnyReport, Reporting!Report
<1>. HIDE DEF r
<1>5. Reporting!ListsWhole(r.content)
  BY <1>2, <1>3, <1>4 DEF ReadsOnce, Reporting!ListsWhole
<1>6. <<r>> \in Seq(AnyReport) /\ OfMinute(<<r>>, m) /\ Fine(<<r>>, m) /\ Sure(<<r>>, m)
  BY <1>4, <1>5, OneIsFine
<1>. QED
  BY <1>1, <1>6, CollectionEnds

LEMMA ReportsStep ==
  ASSUME ReportsInv, [Reporting!Next]_(Reporting!vars)
  PROVE  ReportsInv'
<1>1. CASE Reporting!Minute
  BY <1>1, MinuteKeepsReports
<1>2. ASSUME NEW m \in DOMAIN scrape,
             \/ Reporting!Succeeds(m) \/ Reporting!Fails(m) \/ Reporting!NoFallback(m)
             \/ Reporting!FallBackToMongo(m) \/ Reporting!FallBackToRedis(m)
             \/ Reporting!FallBackToSql(m) \/ Reporting!ReadDatabase(m)
             \/ Reporting!SqlReport(m) \/ Reporting!Docker(m)
      PROVE  ReportsInv'
  BY <1>2, SuccessKeepsReports, FailureKeepsReports, EndsKeepReports, SqlBeginKeepsReports,
     ReadKeepsReports, SqlReportKeepsReports
<1>3. CASE UNCHANGED Reporting!vars
  <2>1. UNCHANGED <<now, server, scrape, sent>>
    BY <1>3 DEF Reporting!vars
  <2>. QED
    BY <2>1 DEF ReportsInv
<1>. QED
  BY <1>1, <1>2, <1>3 DEF Reporting!Next

(* What it means *)

LEMMA ReportingCounts == \A S : Reporting!Cardinality(S) = Cardinality(S)
BY DEF Reporting!Cardinality, Cardinality

\* The parts of a payload are in order where they are in a row.
LEMMA RowInOrder ==
  ASSUME NEW places, InARow(sent, places)
  PROVE  Reporting!PartsInOrder(places)
<1>1. PICK k \in Nat : \E n \in Nat :
        places = (k + 1) .. (k + n) /\ \A i \in places : sent[i].content = i - k
  BY DEF InARow
<1>2. PICK n \in Nat :
        places = (k + 1) .. (k + n) /\ \A i \in places : sent[i].content = i - k
  BY <1>1
<1>3. ASSUME NEW i \in places
      PROVE  sent[i].content = Reporting!Cardinality({j \in places : j <= i})
  <2>1. i \in Int /\ i >= k + 1 /\ {j \in places : j <= i} = (k + 1) .. i /\ k + 1 \in Int
    BY <1>2
  <2>2. Cardinality((k + 1) .. i) = i - (k + 1) + 1
    BY <2>1, FS_Interval
  <2>3. i - (k + 1) + 1 = i - k
    BY <2>1
  <2>. QED
    BY <1>2, <2>1, <2>2, <2>3, ReportingCounts
<1>. QED
  BY <1>3 DEF Reporting!PartsInOrder

LEMMA ReportsOnce == ReportsInv => Reporting!OneReportPerCollection
<1>. SUFFICES ASSUME ReportsInv PROVE Reporting!OneReportPerCollection
  OBVIOUS
<1>1. \A m, kind : Reporting!Reported(m, kind) = Places(sent, m, kind)
  BY DEF Reporting!Reported, Places
<1>2. ASSUME NEW m \in 1 .. now
      PROVE  /\ Reporting!Once(Places(sent, m, "basic"))
             /\ Reporting!PartsInOrder(Places(sent, m, "advanced"))
             /\ Places(sent, m, "advanced") # {} =>
                  \A i \in Places(sent, m, "basic") : sent[i].content.by = "collector"
  <2>1. Fine(sent, m)
    BY DEF ReportsInv
  <2>2. InARow(sent, Places(sent, m, "advanced"))
    BY <2>1 DEF Fine
  <2>. QED
    BY <2>1, <2>2, RowInOrder DEF Fine, Reporting!Once
<1>3. ASSUME NEW m \in 1 .. now, m \in DOMAIN scrape
      PROVE  \A i \in DOMAIN sent : sent[i].minute # m
  BY <1>3 DEF ReportsInv
<1>4. ASSUME NEW m \in 1 .. now, server.databases # << >>, m \notin DOMAIN scrape
      PROVE  \E i \in Places(sent, m, "basic") :
               sent[i].content.by # "collector" => Reporting!ListsWhole(sent[i].content)
  BY <1>4 DEF ReportsInv, Sure
<1>. QED
  BY <1>1, <1>2, <1>3, <1>4 DEF Reporting!OneReportPerCollection

-----------------------------------------------------------------------------
(* EsClient: the tries of a request *)

ErrorCode ==
  EsClient!SocketError \cup {"TIMEOUT", "RESPONSE_TOO_LARGE", "INVALID_JSON", "Error", "none"}

Failure == [code : ErrorCode, status : Nat]

Outcome == [failure : Failure, status : Nat]

\* All the tries before the last were worth another.
Transient(n) == \A i \in 1 .. n : EsClient!Retryable(h1[i].failure)

NotMade == scrape.pc = "idle" /\ h1 = << >>

\* The try under way is one of those allowed, and every one before it is recorded.
UnderWay ==
  \E pc \in {"waiting", "responding"}, n \in 1 .. Retries + 1, status \in Nat,
     size \in 0 .. MaxResponseBytes :
    /\ scrape = [pc |-> pc, try |-> n, status |-> status, size |-> size]
    /\ Len(h1) = n - 1
    /\ Transient(n - 1)

\* The request has come to what its last try came to, or was not allowed at all.
Ended ==
  /\ scrape.pc \in {"resolved", "rejected"}
  /\ h1 # << >> =>
       LET last == h1[Len(h1)]
       IN  /\ Len(h1) <= Retries + 1
           /\ Transient(Len(h1) - 1)
           /\ scrape.pc = "resolved" =>
                /\ last.failure.code = "none"
                /\ last.status \in 200 .. 299
                /\ scrape.size <= MaxResponseBytes
           /\ scrape.pc = "rejected" =>
                /\ scrape.kind = EsClient!DescribeError(last.failure)
                /\ EsClient!Retryable(last.failure) => Len(h1) = Retries + 1

TriesInv == h1 \in Seq(Outcome) /\ (NotMade \/ UnderWay \/ Ended)

-----------------------------------------------------------------------------

\* A failed try is recorded, and either another is made or the request is rejected
\* with the failure: not both and not neither.
LEMMA SettleKeeps ==
  ASSUME EsClient!EsClientAssumption, TriesInv, UnderWay, NEW failure \in Failure,
         EsClient!Settle(failure)
  PROVE  TriesInv'
<1>0. Retries \in Nat /\ MaxResponseBytes \in Nat
  BY DEF EsClient!EsClientAssumption
<1>1. PICK pc \in {"waiting", "responding"}, n \in 1 .. Retries + 1, status \in Nat,
           size \in 0 .. MaxResponseBytes :
        /\ scrape = [pc |-> pc, try |-> n, status |-> status, size |-> size]
        /\ Len(h1) = n - 1
        /\ Transient(n - 1)
  BY DEF UnderWay
<1> DEFINE outcome == [failure |-> failure, status |-> status]
<1>2. outcome \in Outcome /\ h1 \in Seq(Outcome)
  BY DEF Outcome, TriesInv
<1>3. h1' = Append(h1, outcome)
  BY <1>1 DEF EsClient!Settle
<1>4. scrape' = IF EsClient!Retryable(failure) /\ n <= Retries THEN EsClient!Try(n + 1)
                   ELSE [pc |-> "rejected", kind |-> EsClient!DescribeError(failure)]
  BY <1>1 DEF EsClient!Settle, EsClient!Fails
<1>5. /\ outcome.failure = failure
      /\ h1' \in Seq(Outcome) /\ Len(h1') = n
      /\ \A i \in 1 .. n - 1 : h1'[i] = h1[i]
      /\ h1'[n] = outcome
  BY <1>0, <1>1, <1>2, <1>3
<1>. HIDE DEF outcome
<1>6. \A i \in 1 .. n - 1 : EsClient!Retryable(h1'[i].failure)
  BY <1>1, <1>5 DEF Transient
<1>7. CASE EsClient!Retryable(failure) /\ n <= Retries
  <2>1. \A i \in 1 .. n : EsClient!Retryable(h1'[i].failure)
    <3>. TAKE i \in 1 .. n
    <3>1. i \in 1 .. n - 1 \/ i = n
      BY <1>0
    <3>. QED
      BY <1>5, <1>6, <1>7, <3>1
  <2>2. /\ scrape' = [pc |-> "waiting", try |-> n + 1, status |-> 0, size |-> 0]
        /\ n + 1 \in 1 .. Retries + 1 /\ 0 \in 0 .. MaxResponseBytes
        /\ Len(h1') = (n + 1) - 1 /\ (n + 1) - 1 = n
    BY <1>0, <1>4, <1>5, <1>7 DEF EsClient!Try
  <2>3. UnderWay'
    BY <2>1, <2>2 DEF UnderWay, Transient
  <2>. QED
    BY <1>5, <2>3 DEF TriesInv
<1>8. CASE ~(EsClient!Retryable(failure) /\ n <= Retries)
  <2>1. scrape' = [pc |-> "rejected", kind |-> EsClient!DescribeError(failure)]
    BY <1>4, <1>8
  <2>2. EsClient!Retryable(failure) => n = Retries + 1
    BY <1>0, <1>8
  <2>3. Ended'
    BY <1>0, <1>5, <1>6, <2>1, <2>2 DEF Ended, Transient
  <2>. QED
    BY <1>5, <2>3 DEF TriesInv
<1>. QED
  BY <1>7, <1>8

\* Every failure that the client makes up has a code and no status.
LEMMA CodeIsFailure == ASSUME NEW code \in ErrorCode PROVE EsClient!Code(code) \in Failure
  BY DEF EsClient!Code, Failure

\* Only a try that is under way is settled, and a settled request takes no step.
LEMMA TriesStep ==
  ASSUME EsClient!EsClientAssumption, TriesInv, [EsClient!Next]_(EsClient!vars)
  PROVE  TriesInv'
<1>0. Retries \in Nat /\ MaxResponseBytes \in Nat
  BY DEF EsClient!EsClientAssumption
<1>1. scrape.pc \in {"waiting", "responding"} => UnderWay
  BY DEF TriesInv, NotMade, Ended
<1>2. CASE EsClient!Request
  <2>1. h1 = << >> /\ UNCHANGED h1
    BY <1>2 DEF EsClient!Request, TriesInv, NotMade, UnderWay, Ended
  <2>2. CASE scrape' = EsClient!Try(1)
    <3>1. UnderWay'
      BY <1>0, <2>1, <2>2 DEF EsClient!Try, UnderWay, Transient
    <3>. QED
      BY <2>1, <3>1 DEF TriesInv
  <2>3. CASE scrape' = [pc |-> "rejected", kind |-> "forbidden_method"]
    BY <2>1, <2>3 DEF TriesInv, Ended
  <2>. QED
    BY <1>2, <2>2, <2>3 DEF EsClient!Request
<1>3. ASSUME NEW code \in EsClient!SocketError, EsClient!ReqError(code) PROVE TriesInv'
  <2>1. UnderWay /\ EsClient!Settle(EsClient!Code(code)) /\ code \in ErrorCode
    BY <1>1, <1>3 DEF EsClient!ReqError, ErrorCode
  <2>. QED
    BY <2>1, SettleKeeps, CodeIsFailure
<1>4. CASE EsClient!TimesOut
  <2>1. PICK code \in ErrorCode : EsClient!Settle(EsClient!Code(code))
    BY <1>4 DEF EsClient!TimesOut, ErrorCode, EsClient!SocketError
  <2>2. UnderWay
    BY <1>1, <1>4 DEF EsClient!TimesOut
  <2>. QED
    BY <2>1, <2>2, SettleKeeps, CodeIsFailure
<1>5. ASSUME NEW status \in EsClient!Status, EsClient!Response(status) PROVE TriesInv'
  <2>1. status \in Nat
    BY DEF EsClient!Status
  <2>2. scrape' = [scrape EXCEPT !.pc = "responding", !.status = status]
        /\ UNCHANGED h1 /\ UnderWay
    BY <1>1, <1>5 DEF EsClient!Response
  <2>3. PICK pc \in {"waiting", "responding"}, n \in 1 .. Retries + 1, old \in Nat,
             size \in 0 .. MaxResponseBytes :
          /\ scrape = [pc |-> pc, try |-> n, status |-> old, size |-> size]
          /\ Len(h1) = n - 1
          /\ Transient(n - 1)
    BY <2>2 DEF UnderWay
  <2>4. scrape' = [pc |-> "responding", try |-> n, status |-> status, size |-> size]
    BY <2>2, <2>3
  <2>5. UnderWay'
    BY <2>1, <2>2, <2>3, <2>4 DEF UnderWay, Transient
  <2>. QED
    BY <2>2, <2>5 DEF TriesInv
<1>6. CASE EsClient!Data
  <2>1. UnderWay /\ scrape.pc = "responding"
    BY <1>1, <1>6 DEF EsClient!Data
  <2>2. CASE EsClient!TooLarge(scrape.size + 1)
    <3>1. PICK code \in ErrorCode : EsClient!Settle(EsClient!Code(code))
      BY <1>6, <2>2 DEF EsClient!Data, ErrorCode, EsClient!SocketError
    <3>. QED
      BY <2>1, <3>1, SettleKeeps, CodeIsFailure
  <2>3. CASE ~EsClient!TooLarge(scrape.size + 1)
    <3>1. scrape' = [scrape EXCEPT !.size = @ + 1] /\ UNCHANGED h1
      BY <1>6, <2>3 DEF EsClient!Data
    <3>2. PICK pc \in {"waiting", "responding"}, n \in 1 .. Retries + 1, status \in Nat,
               size \in 0 .. MaxResponseBytes :
            /\ scrape = [pc |-> pc, try |-> n, status |-> status, size |-> size]
            /\ Len(h1) = n - 1
            /\ Transient(n - 1)
      BY <2>1 DEF UnderWay
    <3>3. size + 1 \in 0 .. MaxResponseBytes
      BY <1>0, <2>3, <3>2 DEF EsClient!TooLarge
    <3>4. scrape' = [pc |-> pc, try |-> n, status |-> status, size |-> size + 1]
      BY <3>1, <3>2
    <3>5. UnderWay'
      BY <3>1, <3>2, <3>3, <3>4 DEF UnderWay, Transient
    <3>. QED
      BY <3>1, <3>5 DEF TriesInv
  <2>. QED
    BY <2>2, <2>3
<1>7. CASE EsClient!Aborted
  <2>1. UnderWay /\ EsClient!Settle(EsClient!Code("ECONNRESET")) /\ "ECONNRESET" \in ErrorCode
    BY <1>1, <1>7 DEF EsClient!Aborted, ErrorCode, EsClient!SocketError
  <2>. QED
    BY <2>1, SettleKeeps, CodeIsFailure
<1>8. CASE EsClient!End
  <2>1. PICK pc \in {"waiting", "responding"}, n \in 1 .. Retries + 1, status \in Nat,
             size \in 0 .. MaxResponseBytes :
          /\ scrape = [pc |-> pc, try |-> n, status |-> status, size |-> size]
          /\ Len(h1) = n - 1
          /\ Transient(n - 1)
    BY <1>1, <1>8 DEF EsClient!End, UnderWay
  <2>2. CASE EsClient!Settle([code |-> "Error", status |-> scrape.status])
    <3>1. [code |-> "Error", status |-> scrape.status] \in Failure
      BY <2>1 DEF Failure, ErrorCode
    <3>. QED
      BY <1>1, <1>8, <2>2, <3>1, SettleKeeps DEF EsClient!End
  <2>3. CASE EsClient!Settle(EsClient!Code("INVALID_JSON"))
    <3>1. UnderWay /\ "INVALID_JSON" \in ErrorCode
      BY <1>1, <1>8 DEF EsClient!End, ErrorCode
    <3>. QED
      BY <2>3, <3>1, SettleKeeps, CodeIsFailure
  <2>4. ASSUME scrape.status \in 200 .. 299,
               scrape' = [pc |-> "resolved", size |-> scrape.size],
               h1' = Append(h1, [failure |-> EsClient!Code("none"), status |-> scrape.status])
        PROVE  TriesInv'
    <3> DEFINE outcome == [failure |-> EsClient!Code("none"), status |-> status]
    <3>1. outcome \in Outcome /\ h1 \in Seq(Outcome)
      <4>1. EsClient!Code("none") \in Failure
        BY CodeIsFailure DEF ErrorCode
      <4>. QED
        BY <4>1 DEF Outcome, TriesInv
    <3>2. outcome.failure.code = "none" /\ outcome.status = status /\ status \in 200 .. 299
      BY <2>1, <2>4 DEF EsClient!Code
    <3>3. h1' = Append(h1, outcome)
      BY <2>1, <2>4
    <3>. HIDE DEF outcome
    <3>4. /\ h1' \in Seq(Outcome) /\ Len(h1') = n
          /\ \A i \in 1 .. n - 1 : h1'[i] = h1[i]
          /\ h1'[n] = outcome
      BY <1>0, <2>1, <3>1, <3>3
    <3>5. \A i \in 1 .. n - 1 : EsClient!Retryable(h1'[i].failure)
      BY <2>1, <3>4 DEF Transient
    <3>6. scrape' = [pc |-> "resolved", size |-> size] /\ size <= MaxResponseBytes
      BY <1>0, <2>1, <2>4
    <3>7. /\ Len(h1') = n /\ n <= Retries + 1 /\ h1'[n].failure.code = "none"
          /\ h1'[n].status \in 200 .. 299
      <4>1. n <= Retries + 1
        BY <1>0, <2>1
      <4>2. h1'[n].failure.code = "none" /\ h1'[n].status \in 200 .. 299
        BY <3>2, <3>4, Zenon
      <4>. QED
        BY <3>4, <4>1, <4>2
    <3>8. scrape'.pc = "resolved" /\ scrape'.size <= MaxResponseBytes
      BY <3>6
    <3>9. Ended'
      BY <3>5, <3>7, <3>8 DEF Ended, Transient
    <3>. QED
      BY <3>4, <3>9 DEF TriesInv
  <2>. QED
    BY <1>8, <2>2, <2>3, <2>4 DEF EsClient!End
<1>9. CASE UNCHANGED EsClient!vars
  BY <1>9 DEF EsClient!vars, TriesInv, NotMade, UnderWay, Ended, Transient
<1>. QED
  BY <1>2, <1>3, <1>4, <1>5, <1>6, <1>7, <1>8, <1>9 DEF EsClient!Next

\* No try has been made of a request that has not been either.
LEMMA TriesInit == EsClient!Init => TriesInv
  BY DEF EsClient!Init, TriesInv, NotMade

-----------------------------------------------------------------------------
(* EsMetadata *)

MasterTime == Nat \cup {EsMetadata!None}

AnyMaster == [id : EsMetadata!Master \cup {EsMetadata!None}, term : Nat]

Topology ==
  [master : AnyMaster, lastMetadataAt : MasterTime,
   lastMaster : EsMetadata!Master \cup {EsMetadata!None}, masterChanges : Nat]

Refresh ==
  {EsMetadata!Idle} \cup [pc : {"asked"}, at : Nat] \cup
  [pc : {"metadata", "observed"}, at : Nat, master : AnyMaster]

\* What Elasticsearch, the agent's memory and the scrapes may hold.
MetadataTyped ==
  /\ now \in Nat
  /\ server \in [id : EsMetadata!Master, elections : Nat]
  /\ state \in Topology
  /\ scrape \in [Slot -> Refresh]
  /\ h1 \in [term : Nat, late : Nat]

LEMMA RefreshTyped ==
  ASSUME MetadataTyped, NEW slot \in Slot, scrape[slot].pc \in {"metadata", "observed"}
  PROVE  scrape[slot] \in [pc : {"metadata", "observed"}, at : Nat, master : AnyMaster]
<1>1. scrape[slot] \in Refresh
  BY DEF MetadataTyped
<1>. QED
  BY <1>1 DEF Refresh, EsMetadata!Idle

LEMMA MetadataTypeStep ==
  ASSUME MetadataTyped, [EsMetadata!Next]_(EsMetadata!vars)
  PROVE  MetadataTyped'
<1>. USE DEF MetadataTyped
<1>1. CASE EsMetadata!Elect
  BY <1>1 DEF EsMetadata!Elect
<1>2. CASE EsMetadata!StartScrape
  <2>1. now' = now + 1 /\ now' \in Nat
    BY <1>2 DEF EsMetadata!StartScrape
  <2>2. [pc |-> "asked", at |-> now'] \in Refresh
    BY <2>1 DEF Refresh
  <2>. QED
    BY <1>2, <2>1, <2>2 DEF EsMetadata!StartScrape, EsMetadata!Set
<1>3. ASSUME NEW slot \in Slot, EsMetadata!Identify(slot) PROVE MetadataTyped'
  <2>1. scrape[slot] \in Refresh /\ scrape[slot].pc = "asked"
    BY <1>3 DEF EsMetadata!Identify
  <2>2. scrape[slot].at \in Nat
    BY <2>1 DEF Refresh, EsMetadata!Idle
  <2>3. [pc |-> "metadata", at |-> scrape[slot].at, master |-> state.master] \in Refresh
        /\ EsMetadata!Idle \in Refresh
    BY <2>2 DEF Refresh, Topology
  <2>. QED
    BY <1>3, <2>3 DEF EsMetadata!Identify, EsMetadata!Set
<1>4. ASSUME NEW slot \in Slot, EsMetadata!ScrapeFails(slot) PROVE MetadataTyped'
  BY <1>4 DEF EsMetadata!ScrapeFails, EsMetadata!Set, Refresh
<1>5. ASSUME NEW slot \in Slot, EsMetadata!CollectMetadata(slot) PROVE MetadataTyped'
  <2>1. scrape[slot].at \in Nat /\ scrape[slot].master \in AnyMaster
    BY <1>5, RefreshTyped DEF EsMetadata!CollectMetadata
  <2>2. [id |-> server.id, term |-> server.elections] \in AnyMaster
    BY DEF AnyMaster
  <2>3. PICK master \in AnyMaster :
          scrape' = [scrape EXCEPT ![slot] =
                       [pc |-> "observed", at |-> scrape[slot].at, master |-> master]]
    BY <1>5, <2>1, <2>2 DEF EsMetadata!CollectMetadata, EsMetadata!Set
  <2>4. [pc |-> "observed", at |-> scrape[slot].at, master |-> master] \in Refresh
    BY <2>1, <2>3 DEF Refresh
  <2>. QED
    BY <1>5, <2>3, <2>4 DEF EsMetadata!CollectMetadata
<1>6. ASSUME NEW slot \in Slot, EsMetadata!RefreshMetadata(slot) PROVE MetadataTyped'
  <2>1. scrape[slot].at \in Nat /\ scrape[slot].master \in AnyMaster
    BY <1>6, RefreshTyped DEF EsMetadata!RefreshMetadata
  <2>2. state' \in Topology
    <3>1. state' =
            [master |-> scrape[slot].master, lastMetadataAt |-> scrape[slot].at,
             lastMaster |-> IF scrape[slot].master.id # EsMetadata!None THEN scrape[slot].master.id
                            ELSE state.lastMaster,
             masterChanges |-> state.masterChanges
                                 + IF EsMetadata!MasterChanged(scrape[slot].master) THEN 1 ELSE 0]
      BY <1>6 DEF EsMetadata!RefreshMetadata
    <3>2. scrape[slot].master.id \in EsMetadata!Master \cup {EsMetadata!None}
      BY <2>1 DEF AnyMaster
    <3>3. /\ state.lastMaster \in EsMetadata!Master \cup {EsMetadata!None}
          /\ state.masterChanges \in Nat
      BY DEF Topology
    <3>. QED
      BY <2>1, <3>1, <3>2, <3>3 DEF Topology, MasterTime
  <2>3. h1' \in [term : Nat, late : Nat]
    <3>1. scrape[slot].master.term \in Nat
      BY <2>1 DEF AnyMaster
    <3>. QED
      BY <1>6, <3>1 DEF EsMetadata!RefreshMetadata
  <2>4. scrape' \in [Slot -> Refresh]
    BY <1>6 DEF EsMetadata!RefreshMetadata, EsMetadata!Set, Refresh
  <2>. QED
    BY <1>6, <2>2, <2>3, <2>4 DEF EsMetadata!RefreshMetadata
<1>7. CASE UNCHANGED EsMetadata!vars
  BY <1>7 DEF EsMetadata!vars
<1>. QED
  BY <1>1, <1>2, <1>3, <1>4, <1>5, <1>6, <1>7, ZenonT(60) DEF EsMetadata!Next

\* A master that was read is the one of its term.
ElectedAs(masters, m) ==
  m.id # EsMetadata!None => m.term <= server.elections /\ m.id = masters[m.term]

AllElected(masters) ==
  /\ masters[server.elections] = server.id
  /\ ElectedAs(masters, state.master)
  /\ \A slot \in Slot :
       scrape[slot].pc \in {"metadata", "observed"} => ElectedAs(masters, scrape[slot].master)

\* Every change that was counted is one of a term, or of a refresh that came late; what is
\* remembered is the master of the newest term, or may be changed to it yet.
ChangesAreTerms(masters) ==
  /\ h1.term <= server.elections
  /\ state.masterChanges <= h1.term + 2 * h1.late
  /\ state.lastMaster \notin {EsMetadata!None, masters[h1.term]} =>
       state.masterChanges + 1 <= h1.term + 2 * h1.late

MasterInv ==
  /\ MetadataTyped
  /\ \E masters \in [Nat -> EsMetadata!Master] : AllElected(masters) /\ ChangesAreTerms(masters)

LEMMA MasterInit == EsMetadata!Init => MasterInv
<1>. SUFFICES ASSUME EsMetadata!Init PROVE MasterInv
  OBVIOUS
<1>1. MetadataTyped
  BY DEF EsMetadata!Init, MetadataTyped, Topology, AnyMaster, MasterTime, Refresh,
     EsMetadata!NoMaster, EsMetadata!Master
<1> DEFINE first == [term \in Nat |-> 1]
<1>2. first \in [Nat -> EsMetadata!Master]
  BY DEF EsMetadata!Master
<1>3. AllElected(first)
  BY DEF EsMetadata!Init, AllElected, ElectedAs, EsMetadata!NoMaster, EsMetadata!Idle
<1>4. ChangesAreTerms(first)
  BY DEF EsMetadata!Init, ChangesAreTerms
<1>. QED
  BY <1>1, <1>2, <1>3, <1>4 DEF MasterInv

LEMMA MasterStep ==
  ASSUME MasterInv, [EsMetadata!Next]_(EsMetadata!vars)
  PROVE  MasterInv'
<1>0. MetadataTyped /\ MetadataTyped'
  BY MetadataTypeStep DEF MasterInv
<1>a. PICK masters \in [Nat -> EsMetadata!Master] : AllElected(masters) /\ ChangesAreTerms(masters)
  BY DEF MasterInv
<1>b. /\ server.elections \in Nat /\ h1.term \in Nat /\ h1.late \in Nat
      /\ state.masterChanges \in Nat
  BY <1>0 DEF MetadataTyped, Topology
<1>1. CASE EsMetadata!Elect
  <2>1. PICK master \in EsMetadata!Master :
          server' = [id |-> master, elections |-> server.elections + 1]
    BY <1>1 DEF EsMetadata!Elect
  <2>2. UNCHANGED <<state, scrape, h1>>
    BY <1>1 DEF EsMetadata!Elect
  <2>3. PICK more \in [Nat -> EsMetadata!Master] :
          /\ more[server.elections + 1] = master
          /\ \A term \in Nat : term <= server.elections => more[term] = masters[term]
    <3> DEFINE one == [masters EXCEPT ![server.elections + 1] = master]
    <3>1. /\ one \in [Nat -> EsMetadata!Master]
          /\ one[server.elections + 1] = master
          /\ \A term \in Nat : term <= server.elections => one[term] = masters[term]
      BY <1>b
    <3>. QED
      BY <3>1
  <2>4. \A m \in AnyMaster : ElectedAs(masters, m) =>
          (m.id # EsMetadata!None => m.term <= server'.elections /\ m.id = more[m.term])
    BY <1>b, <2>1, <2>3 DEF ElectedAs, AnyMaster
  <2>5. state.master \in AnyMaster
    BY <1>0 DEF MetadataTyped, Topology
  <2>6. \A slot \in Slot : scrape[slot].pc \in {"metadata", "observed"} =>
          scrape[slot].master \in AnyMaster
    BY <1>0, RefreshTyped
  <2>7. AllElected(more)'
    BY <1>a, <2>1, <2>2, <2>3, <2>4, <2>5, <2>6 DEF AllElected, ElectedAs
  <2>8. ChangesAreTerms(more)'
    BY <1>a, <1>b, <2>1, <2>2, <2>3 DEF ChangesAreTerms
  <2>. QED
    BY <1>0, <2>3, <2>7, <2>8 DEF MasterInv
<1>2. CASE EsMetadata!StartScrape
  <2>1. UNCHANGED <<server, state, h1>>
    BY <1>2 DEF EsMetadata!StartScrape
  <2>2. \A slot \in Slot : scrape'[slot] = scrape[slot] \/ scrape'[slot].pc = "asked"
    BY <1>0, <1>2 DEF EsMetadata!StartScrape, EsMetadata!Set, MetadataTyped
  <2>. QED
    BY <1>0, <1>a, <2>1, <2>2 DEF MasterInv, AllElected, ElectedAs, ChangesAreTerms
<1>3. ASSUME NEW slot \in Slot, EsMetadata!Identify(slot) PROVE MasterInv'
  <2>1. UNCHANGED <<server, state, h1>>
    BY <1>3 DEF EsMetadata!Identify
  <2>2. \A x \in Slot : \/ scrape'[x] = scrape[x] \/ scrape'[x] = EsMetadata!Idle
                        \/ scrape'[x].master = state.master
    BY <1>0, <1>3 DEF EsMetadata!Identify, EsMetadata!Set, MetadataTyped
  <2>. QED
    BY <1>0, <1>a, <2>1, <2>2
       DEF MasterInv, AllElected, ElectedAs, ChangesAreTerms, EsMetadata!Idle
<1>4. ASSUME NEW slot \in Slot, EsMetadata!ScrapeFails(slot) PROVE MasterInv'
  <2>1. UNCHANGED <<server, state, h1>>
    BY <1>4 DEF EsMetadata!ScrapeFails
  <2>2. \A x \in Slot : scrape'[x] = scrape[x] \/ scrape'[x] = EsMetadata!Idle
    BY <1>0, <1>4 DEF EsMetadata!ScrapeFails, EsMetadata!Set, MetadataTyped
  <2>. QED
    BY <1>0, <1>a, <2>1, <2>2
       DEF MasterInv, AllElected, ElectedAs, ChangesAreTerms, EsMetadata!Idle
<1>5. ASSUME NEW slot \in Slot, EsMetadata!CollectMetadata(slot) PROVE MasterInv'
  <2>1. UNCHANGED <<server, state, h1>> /\ scrape[slot].pc = "metadata"
    BY <1>5 DEF EsMetadata!CollectMetadata
  <2>2. \A x \in Slot : \/ scrape'[x] = scrape[x]
                        \/ scrape'[x].master = [id |-> server.id, term |-> server.elections]
                        \/ scrape[x].pc = "metadata" /\ scrape'[x].master = scrape[x].master
    <3>1. PICK master \in {[id |-> server.id, term |-> server.elections], scrape[slot].master} :
            scrape' = [scrape EXCEPT ![slot] =
                         [pc |-> "observed", at |-> scrape[slot].at, master |-> master]]
      BY <1>5 DEF EsMetadata!CollectMetadata, EsMetadata!Set
    <3>2. /\ scrape'[slot].master = master
          /\ \A x \in Slot \ {slot} : scrape'[x] = scrape[x]
      BY <1>0, <3>1 DEF MetadataTyped
    <3>. QED
      BY <2>1, <3>1, <3>2
  <2>3. ElectedAs(masters, [id |-> server.id, term |-> server.elections])
    BY <1>a, <1>b DEF AllElected, ElectedAs
  <2>. QED
    BY <1>0, <1>a, <2>1, <2>2, <2>3 DEF MasterInv, AllElected, ElectedAs, ChangesAreTerms
<1>6. ASSUME NEW slot \in Slot, EsMetadata!RefreshMetadata(slot) PROVE MasterInv'
  <2> DEFINE m == scrape[slot].master
  <2>1. m \in AnyMaster /\ m.term \in Nat /\ scrape[slot].pc = "observed"
    BY <1>0, <1>6, RefreshTyped DEF EsMetadata!RefreshMetadata, AnyMaster
  <2>2. /\ server' = server
        /\ state'.master = m
        /\ state'.lastMaster = IF m.id # EsMetadata!None THEN m.id ELSE state.lastMaster
        /\ state'.masterChanges =
             state.masterChanges + IF EsMetadata!MasterChanged(m) THEN 1 ELSE 0
    BY <1>6 DEF EsMetadata!RefreshMetadata
  <2>3. \A x \in Slot : scrape'[x] = scrape[x] \/ scrape'[x] = EsMetadata!Idle
    BY <1>0, <1>6 DEF EsMetadata!RefreshMetadata, EsMetadata!Set, MetadataTyped
  <2>4. ElectedAs(masters, m)
    BY <1>a, <2>1 DEF AllElected
  <2>5. AllElected(masters)'
    BY <1>a, <2>2, <2>3, <2>4 DEF AllElected, ElectedAs, EsMetadata!Idle
  <2>6. h1' = IF m.id = EsMetadata!None THEN h1
              ELSE IF m.term < h1.term THEN [h1 EXCEPT !.late = h1.late + 1]
              ELSE [h1 EXCEPT !.term = m.term]
    BY <1>6 DEF EsMetadata!RefreshMetadata
  <2>. HIDE DEF m
  <2>7. ChangesAreTerms(masters)'
    <3>1. CASE m.id = EsMetadata!None
      BY <1>a, <1>b, <2>2, <2>6, <3>1 DEF ChangesAreTerms, EsMetadata!MasterChanged
    <3>2. CASE m.id # EsMetadata!None /\ m.term < h1.term
      <4>1. h1'.term = h1.term /\ h1'.late = h1.late + 1
        BY <1>0, <2>6, <3>2 DEF MetadataTyped
      <4>2. state'.masterChanges <= state.masterChanges + 1 /\ state'.masterChanges \in Nat
        BY <1>b, <2>2
      <4>. QED
        BY <1>a, <1>b, <2>2, <4>1, <4>2 DEF ChangesAreTerms
    <3>3. CASE m.id # EsMetadata!None /\ ~(m.term < h1.term)
      <4>1. h1'.term = m.term /\ h1'.late = h1.late
        BY <1>0, <2>6, <3>3 DEF MetadataTyped
      <4>2. m.term <= server.elections /\ m.id = masters[m.term]
        BY <2>4, <3>3 DEF ElectedAs
      <4>3. state'.lastMaster = masters[m.term]
        BY <2>2, <3>3, <4>2
      <4>4. state'.masterChanges <= m.term + 2 * h1.late
        <5>1. CASE m.term = h1.term
          BY <1>a, <1>b, <2>2, <4>2, <5>1 DEF ChangesAreTerms, EsMetadata!MasterChanged
        <5>2. CASE m.term # h1.term
          <6>1. h1.term + 1 <= m.term
            BY <1>b, <2>1, <3>3, <5>2
          <6>2. state'.masterChanges <= state.masterChanges + 1 /\ state'.masterChanges \in Nat
            BY <1>b, <2>2
          <6>3. state.masterChanges <= h1.term + 2 * h1.late
            BY <1>a DEF ChangesAreTerms
          <6>. QED
            BY <1>b, <2>1, <6>1, <6>2, <6>3
        <5>. QED
          BY <5>1, <5>2
      <4>. QED
        BY <2>2, <4>1, <4>2, <4>3, <4>4 DEF ChangesAreTerms
    <3>. QED
      BY <3>1, <3>2, <3>3
  <2>. QED
    BY <1>0, <1>a, <2>5, <2>7 DEF MasterInv
<1>7. CASE UNCHANGED EsMetadata!vars
  BY <1>0, <1>7, <1>a DEF EsMetadata!vars, MasterInv, AllElected, ElectedAs, ChangesAreTerms
<1>. QED
  BY <1>1, <1>2, <1>3, <1>4, <1>5, <1>6, <1>7, ZenonT(60) DEF EsMetadata!Next

\* The terms are elections.
LEMMA MasterImplies == MasterInv => EsMetadata!NoInventedElection
<1>. SUFFICES ASSUME MasterInv PROVE EsMetadata!NoInventedElection
  OBVIOUS
<1>1. /\ h1.term <= server.elections
      /\ state.masterChanges <= h1.term + 2 * h1.late
  BY DEF MasterInv, ChangesAreTerms
<1>2. server.elections \in Nat /\ h1.term \in Nat /\ h1.late \in Nat /\ state.masterChanges \in Nat
  BY DEF MasterInv, MetadataTyped, Topology
<1>. QED
  BY <1>1, <1>2 DEF EsMetadata!NoInventedElection

-----------------------------------------------------------------------------
(* EsCollector: types *)

EsTime == Nat \cup {Es!None}

EsReading == [uptime : Int, ops : Nat, ever : Nat, run : Nat]

EsPast == {Es!NoReading} \cup EsReading

EsPrevious == [at : EsTime, node : EsPast]

EsCluster ==
  [ops : Nat, ever : Nat, boots : Nat, bootedAt : Nat, moves : Nat, unassigned : SUBSET Shard]

EsState ==
  [explain : BOOLEAN, lastCapabilityAt : EsTime, lastShardAt : EsTime,
   explanations : SUBSET Shard, lastAllocationExplainAt : EsTime, previous : EsPrevious]

EsAsked == [pc : {"asked"}, at : Nat]

EsProbing == [pc : {"probing"}, at : Nat, previous : EsPrevious]

EsAsking == [pc : {"asking"}, at : Nat, previous : EsPrevious, explain : BOOLEAN, shards : BOOLEAN]

EsListed ==
  [pc : {"listed"}, at : Nat, previous : EsPrevious, explain : BOOLEAN, node : EsPast,
   listed : BOOLEAN, unassigned : SUBSET Shard]

EsExplaining ==
  [pc : {"explaining"}, at : Nat, previous : EsPrevious, explain : BOOLEAN, node : EsPast,
   listed : {TRUE}, unassigned : SUBSET Shard]

EsScrape == {Es!Idle} \cup EsAsked \cup EsProbing \cup EsAsking \cup EsListed \cup EsExplaining

EsListing ==
  [at : Nat, unassigned : SUBSET Shard, offered : BOOLEAN, when : [Shard -> EsTime]]

\* What the cluster, the agent's memory and the scrapes may hold.
EsTyped ==
  /\ now \in Nat /\ server \in EsCluster /\ state \in EsState
  /\ scrape \in [Slot -> EsScrape]
  /\ sent.node \in EsPast /\ sent.at \in EsTime
  /\ h1 \in EsListing /\ h3 \in BOOLEAN

\* Where a scrape is in its course says what it holds.
LEMMA EsSlotTyped ==
  ASSUME EsTyped, NEW slot \in Slot
  PROVE  /\ scrape[slot].pc = "asked" => scrape[slot] \in EsAsked
         /\ scrape[slot].pc = "probing" => scrape[slot] \in EsProbing
         /\ scrape[slot].pc = "asking" => scrape[slot] \in EsAsking
         /\ scrape[slot].pc = "listed" => scrape[slot] \in EsListed
         /\ scrape[slot].pc = "explaining" => scrape[slot] \in EsExplaining
         /\ scrape[slot].pc \in {"idle", "asked", "probing", "asking", "listed", "explaining"}
         /\ scrape[slot].pc = "idle" <=> scrape[slot] = Es!Idle
<1>1. scrape[slot] \in EsScrape
  BY DEF EsTyped
<1>2. /\ \A s \in EsAsked : s.pc = "asked"
      /\ \A s \in EsProbing : s.pc = "probing"
      /\ \A s \in EsAsking : s.pc = "asking"
      /\ \A s \in EsListed : s.pc = "listed"
      /\ \A s \in EsExplaining : s.pc = "explaining"
      /\ Es!Idle.pc = "idle"
  BY DEF EsAsked, EsProbing, EsAsking, EsListed, EsExplaining, Es!Idle
<1>. QED
  BY <1>1, <1>2 DEF EsScrape

\* The fields of what is typed, and what no reading is.
LEMMA EsFields ==
  /\ \A r \in EsReading : /\ r.uptime \in Int /\ r.ops \in Nat /\ r.ever \in Nat /\ r.run \in Nat
                          /\ r # Es!NoReading
  /\ Es!NoReading \in EsPast
  /\ \A r \in EsPast : r.uptime \in Int /\ r.ops \in Int /\ r.ever \in Int /\ r.run \in Int
  /\ \A p \in EsPrevious : p.at \in Int /\ p.node \in EsPast
  /\ Es!NoPrevious \in EsPrevious
  /\ Es!NoPrevious.node = Es!NoReading /\ Es!NoPrevious.at = -1
  /\ Es!NoReading.ops = -1
<1>1. Es!NoReading \in EsPast
  BY DEF EsPast
<1>2. Es!NoPrevious \in EsPrevious
  BY <1>1 DEF EsPrevious, Es!NoPrevious, EsTime
<1>3. \A r \in EsReading : /\ r.uptime \in Int /\ r.ops \in Nat /\ r.ever \in Nat /\ r.run \in Nat
                           /\ r # Es!NoReading
  BY DEF EsReading, Es!NoReading, Es!None
<1>4. /\ Es!NoReading.run = -1 /\ Es!NoReading.uptime = -1
      /\ Es!NoReading.ops = -1 /\ Es!NoReading.ever = -1
  BY DEF Es!NoReading, Es!None
<1>5. \A r \in EsPast : r.uptime \in Int /\ r.ops \in Int /\ r.ever \in Int /\ r.run \in Int
  BY <1>3, <1>4 DEF EsPast
<1>6. \A p \in EsPrevious : p.at \in Int /\ p.node \in EsPast
  BY DEF EsPrevious, EsTime, Es!None
<1>7. Es!NoPrevious.node = Es!NoReading /\ Es!NoPrevious.at = -1
  BY DEF Es!NoPrevious, Es!None
<1>. QED
  BY <1>1, <1>2, <1>3, <1>4, <1>5, <1>6, <1>7

LEMMA EsReadingTyped == EsTyped => Es!Reading \in EsReading
  BY DEF Es!Reading, EsReading, EsTyped, EsCluster

LEMMA EsTypeInit == Es!Init => EsTyped
<1>. SUFFICES ASSUME Es!Init PROVE EsTyped
  OBVIOUS
<1>1. Es!None \in EsTime
  BY DEF EsTime
<1>2. state \in EsState
  BY <1>1, EsFields DEF Es!Init, EsState
<1>3. scrape \in [Slot -> EsScrape]
  BY DEF Es!Init, EsScrape
<1>4. server \in EsCluster
  BY DEF Es!Init, EsCluster
<1>5. h1 \in EsListing
  BY <1>1 DEF Es!Init, EsListing
<1>. QED
  BY <1>1, <1>2, <1>3, <1>4, <1>5, EsFields DEF Es!Init, EsTyped

\* What Finish stores and sends.
LEMMA EsFinish ==
  ASSUME EsTyped, NEW slot \in Slot, scrape[slot].pc \in {"listed", "explaining"},
         NEW stored \in EsState, NEW explanations \in SUBSET Shard,
         Es!Finish(slot, stored, explanations)
  PROVE  LET s == scrape[slot]
         IN  /\ s.at \in Nat /\ s.previous \in EsPrevious /\ s.node \in EsPast
             /\ s.listed \in BOOLEAN /\ s.unassigned \in SUBSET Shard /\ s.explain \in BOOLEAN
             /\ state' \in EsState
             /\ state'.explanations = explanations
             /\ state'.lastAllocationExplainAt = stored.lastAllocationExplainAt
             /\ state'.previous = [at |-> s.at, node |-> s.node]
             /\ sent'.at = s.at /\ sent'.node = s.node /\ sent'.previous = s.previous
             /\ sent'.interval = Es!IntervalSeconds(s) /\ sent'.nodeDelta = Es!DeriveNode(s)
             /\ sent'.explanations = explanations
             /\ h1' \in EsListing
             /\ ~s.listed => h1' = h1
             /\ s.listed => /\ h1'.at = s.at /\ h1'.unassigned = s.unassigned
                            /\ h1'.offered = s.explain
             /\ \A shard \in Shard : h1.when[shard] <= h1'.when[shard]
             /\ s.listed => \A shard \in s.unassigned : s.at <= h1'.when[shard]
             /\ h2' = [at |-> sent.at, node |-> sent.node]
             /\ scrape'[slot] = Es!Idle
             /\ \A x \in Slot \ {slot} : scrape'[x] = scrape[x]
             /\ scrape' \in [Slot -> EsScrape]
             /\ UNCHANGED <<now, server, h3>>
<1> DEFINE s == scrape[slot]
<1>1. s \in EsListed \/ s \in EsExplaining
  BY EsSlotTyped
<1>2. /\ s.at \in Nat /\ s.previous \in EsPrevious /\ s.node \in EsPast
      /\ s.listed \in BOOLEAN /\ s.unassigned \in SUBSET Shard /\ s.explain \in BOOLEAN
  BY <1>1 DEF EsListed, EsExplaining
<1>3. /\ state' = [[stored EXCEPT !.explanations = explanations]
                            EXCEPT !.previous = [at |-> s.at, node |-> s.node]]
      /\ [at |-> s.at, node |-> s.node] \in EsPrevious
  BY <1>2 DEF Es!Finish, EsState, EsPrevious, EsTime
<1>4. /\ state' \in EsState
      /\ state'.explanations = explanations
      /\ state'.lastAllocationExplainAt = stored.lastAllocationExplainAt
      /\ state'.previous = [at |-> s.at, node |-> s.node]
  <2>1. \A r \in EsState : \A e \in SUBSET Shard, p \in EsPrevious :
          [[r EXCEPT !.explanations = e] EXCEPT !.previous = p] \in EsState
    BY DEF EsState
  <2> DEFINE p == [at |-> s.at, node |-> s.node]
  <2>2. p \in EsPrevious /\ stored \in EsState /\ explanations \in SUBSET Shard
    BY <1>3
  <2>. HIDE DEF p
  <2>3. state' = [[stored EXCEPT !.explanations = explanations] EXCEPT !.previous = p]
    BY <1>3 DEF p
  <2>4. state' \in EsState
    BY <2>1, <2>2, <2>3, Zenon
  <2>5. /\ state'.explanations = explanations /\ state'.previous = p
        /\ state'.lastAllocationExplainAt = stored.lastAllocationExplainAt
    BY <2>2, <2>3 DEF EsState
  <2>. QED
    BY <2>4, <2>5 DEF p
<1>5. /\ sent'.at = s.at /\ sent'.node = s.node /\ sent'.previous = s.previous
      /\ sent'.interval = Es!IntervalSeconds(s) /\ sent'.nodeDelta = Es!DeriveNode(s)
      /\ sent'.explanations = explanations
  BY DEF Es!Finish
<1>6. h1' = IF ~s.listed THEN h1
            ELSE [at |-> s.at, unassigned |-> s.unassigned, offered |-> s.explain,
                  when |-> [shard \in Shard |->
                    IF shard \in s.unassigned THEN Es!Later(s.at, h1.when[shard])
                                              ELSE h1.when[shard]]]
  BY DEF Es!Finish
<1>7. /\ h2' = [at |-> sent.at, node |-> sent.node]
      /\ scrape' = [scrape EXCEPT ![slot] = Es!Idle]
      /\ UNCHANGED <<now, server, h3>>
  BY DEF Es!Finish, Es!Set
<1>8. /\ scrape'[slot] = Es!Idle
      /\ \A x \in Slot \ {slot} : scrape'[x] = scrape[x]
      /\ scrape' \in [Slot -> EsScrape]
  BY <1>7 DEF EsTyped, EsScrape
<1>. HIDE DEF s
<1>9. \A shard \in Shard : h1.when[shard] \in EsTime /\ h1.when[shard] \in Int
  BY DEF EsTyped, EsListing, EsTime, Es!None
<1>10. \A shard \in Shard :
         /\ Es!Later(s.at, h1.when[shard]) \in EsTime
         /\ s.at <= Es!Later(s.at, h1.when[shard])
         /\ h1.when[shard] <= Es!Later(s.at, h1.when[shard])
  BY <1>2, <1>9 DEF Es!Later, EsTime
<1>11. CASE ~s.listed
  <2>1. h1' = h1 /\ h1 \in EsListing
    BY <1>6, <1>11 DEF EsTyped
  <2>2. \A shard \in Shard : h1.when[shard] <= h1'.when[shard]
    BY <1>9, <2>1
  <2>. QED
    BY <1>2, <1>4, <1>5, <1>7, <1>8, <1>11, <2>1, <2>2 DEF s
<1>12. CASE s.listed
  <2> DEFINE when == [shard \in Shard |->
                       IF shard \in s.unassigned THEN Es!Later(s.at, h1.when[shard])
                                                 ELSE h1.when[shard]]
  <2>1. h1' = [at |-> s.at, unassigned |-> s.unassigned, offered |-> s.explain, when |-> when]
    BY <1>6, <1>12
  <2>2. when \in [Shard -> EsTime]
    BY <1>9, <1>10
  <2>3. \A shard \in Shard : h1.when[shard] <= when[shard]
    BY <1>9, <1>10
  <2>4. \A shard \in s.unassigned : s.at <= when[shard]
    BY <1>2, <1>10
  <2>. HIDE DEF when
  <2>5. h1' \in EsListing /\ h1'.when = when
    BY <1>2, <2>1, <2>2 DEF EsListing
  <2>. QED
    BY <1>2, <1>4, <1>5, <1>7, <1>8, <1>12, <2>1, <2>3, <2>4, <2>5 DEF s
<1>. QED
  BY <1>2, <1>11, <1>12

LEMMA EsTypeStep ==
  ASSUME EsTyped, [Es!Next]_(Es!vars)
  PROVE  EsTyped'
<1>1. CASE Es!Operate
  <2>1. server' = [[server EXCEPT !.ops = server.ops + 1] EXCEPT !.ever = server.ever + 1]
    BY <1>1 DEF Es!Operate, EsTyped, EsCluster
  <2>2. \A r \in EsCluster : \A x, y \in Nat :
          [[r EXCEPT !.ops = x] EXCEPT !.ever = y] \in EsCluster
    BY DEF EsCluster
  <2>3. server.ops + 1 \in Nat /\ server.ever + 1 \in Nat
    BY DEF EsTyped, EsCluster
  <2>4. server' \in EsCluster
    BY <2>1, <2>2, <2>3, Zenon DEF EsTyped
  <2>. QED
    BY <1>1, <2>4 DEF Es!Operate, EsTyped, Es!historyVars
<1>2. CASE Es!NodeRestart
  <2>1. server' = [[[server EXCEPT !.boots = server.boots + 1] EXCEPT !.bootedAt = now]
                            EXCEPT !.ops = 0]
    BY <1>2 DEF Es!NodeRestart, EsTyped, EsCluster
  <2>2. \A r \in EsCluster : \A x, y, z \in Nat :
          [[[r EXCEPT !.boots = x] EXCEPT !.bootedAt = y] EXCEPT !.ops = z] \in EsCluster
    BY DEF EsCluster
  <2>3. server.boots + 1 \in Nat /\ now \in Nat /\ 0 \in Nat
    BY DEF EsTyped, EsCluster
  <2>4. server' \in EsCluster
    BY <2>1, <2>2, <2>3, Zenon DEF EsTyped
  <2>. QED
    BY <1>2, <2>4 DEF Es!NodeRestart, EsTyped, Es!historyVars
<1>3. ASSUME NEW shard \in Shard, Es!MoveShard(shard) PROVE EsTyped'
  <2> DEFINE unassigned == IF shard \in server.unassigned THEN server.unassigned \ {shard}
                           ELSE server.unassigned \cup {shard}
  <2>1. server' = [[server EXCEPT !.moves = server.moves + 1] EXCEPT !.unassigned = unassigned]
    BY <1>3 DEF Es!MoveShard, EsTyped, EsCluster
  <2>2. \A r \in EsCluster : \A x \in Nat, y \in SUBSET Shard :
          [[r EXCEPT !.moves = x] EXCEPT !.unassigned = y] \in EsCluster
    BY DEF EsCluster
  <2>3. server.moves + 1 \in Nat /\ unassigned \in SUBSET Shard
    BY DEF EsTyped, EsCluster
  <2>. HIDE DEF unassigned
  <2>4. server' \in EsCluster
    BY <2>1, <2>2, <2>3, Zenon DEF EsTyped
  <2>. QED
    BY <1>3, <2>4 DEF Es!MoveShard, EsTyped, Es!historyVars
<1>4. CASE Es!StartScrape
  <2>1. now' = now + 1 /\ now' \in Nat
    BY <1>4 DEF Es!StartScrape, EsTyped
  <2>2. [pc |-> "asked", at |-> now'] \in EsScrape
    BY <2>1 DEF EsScrape, EsAsked
  <2>3. scrape' \in [Slot -> EsScrape]
    BY <1>4, <2>2 DEF Es!StartScrape, Es!Set, EsTyped
  <2>4. h3' \in BOOLEAN
    BY <1>4, Zenon DEF Es!StartScrape, EsTyped
  <2>. QED
    BY <1>4, <2>1, <2>3, <2>4 DEF Es!StartScrape, EsTyped
<1>5. ASSUME NEW slot \in Slot, Es!Identify(slot) PROVE EsTyped'
  <2> DEFINE s == [pc |-> "probing", at |-> scrape[slot].at, previous |-> state.previous]
  <2>1. scrape[slot].at \in Nat /\ state.previous \in EsPrevious /\ state.explain \in BOOLEAN
    BY <1>5, EsSlotTyped DEF Es!Identify, EsAsked, EsTyped, EsState
  <2>2. s \in EsScrape
    BY <2>1 DEF EsScrape, EsProbing
  <2>3. [pc |-> "asking", at |-> s.at, previous |-> s.previous, explain |-> state.explain,
         shards |-> Es!Due(s.at, state.lastShardAt, SectionInterval)] \in EsScrape
    BY <2>1 DEF EsScrape, EsAsking, Es!Due
  <2>4. scrape' \in [Slot -> EsScrape]
    BY <1>5, <2>2, <2>3 DEF Es!Identify, Es!Set, Es!Decide, EsTyped
  <2>. QED
    BY <1>5, <2>4 DEF Es!Identify, EsTyped, Es!historyVars
<1>6. ASSUME NEW slot \in Slot, Es!ProbeCapabilities(slot) PROVE EsTyped'
  <2> DEFINE s == scrape[slot]
  <2>1. s.at \in Nat /\ s.previous \in EsPrevious
    BY <1>6, EsSlotTyped DEF Es!ProbeCapabilities, EsProbing
  <2>2. PICK explain \in BOOLEAN :
          /\ state' = [state EXCEPT !.explain = explain, !.lastCapabilityAt = s.at]
          /\ Es!Decide(slot, s, explain)
    BY <1>6 DEF Es!ProbeCapabilities
  <2>3. [pc |-> "asking", at |-> s.at, previous |-> s.previous, explain |-> explain,
         shards |-> Es!Due(s.at, state.lastShardAt, SectionInterval)] \in EsScrape
    BY <2>1 DEF EsScrape, EsAsking, Es!Due
  <2>4. scrape' \in [Slot -> EsScrape]
    BY <2>2, <2>3 DEF Es!Set, Es!Decide, EsTyped
  <2>5. state' \in EsState
    BY <2>1, <2>2 DEF EsTyped, EsState, EsTime
  <2>. QED
    BY <1>6, <2>4, <2>5 DEF Es!ProbeCapabilities, EsTyped, Es!historyVars
<1>7. ASSUME NEW slot \in Slot, Es!ReadSections(slot) PROVE EsTyped'
  <2> DEFINE s == scrape[slot]
  <2>1. s.at \in Nat /\ s.previous \in EsPrevious /\ s.explain \in BOOLEAN /\ s.shards \in BOOLEAN
    BY <1>7, EsSlotTyped DEF Es!ReadSections, EsAsking
  <2>2. PICK node \in {Es!Reading, Es!NoReading} : \E listed \in {FALSE, s.shards} :
          scrape' = [scrape EXCEPT ![slot] =
            [pc |-> "listed", at |-> s.at, previous |-> s.previous, explain |-> s.explain,
             node |-> node, listed |-> listed,
             unassigned |-> IF listed THEN server.unassigned ELSE {}]]
    BY <1>7, Zenon DEF Es!ReadSections, Es!Set
  <2>3. PICK listed \in {FALSE, s.shards} :
          scrape' = [scrape EXCEPT ![slot] =
            [pc |-> "listed", at |-> s.at, previous |-> s.previous, explain |-> s.explain,
             node |-> node, listed |-> listed,
             unassigned |-> IF listed THEN server.unassigned ELSE {}]]
    BY <2>2
  <2>4. node \in EsPast /\ listed \in BOOLEAN /\ server.unassigned \in SUBSET Shard
    BY <2>1, <2>2, <2>3, EsReadingTyped DEF EsPast, EsTyped, EsCluster
  <2>5. [pc |-> "listed", at |-> s.at, previous |-> s.previous, explain |-> s.explain,
         node |-> node, listed |-> listed,
         unassigned |-> IF listed THEN server.unassigned ELSE {}] \in EsScrape
    BY <2>1, <2>4 DEF EsScrape, EsListed
  <2>6. scrape' \in [Slot -> EsScrape]
    BY <2>3, <2>5 DEF EsTyped
  <2>. QED
    BY <1>7, <2>6 DEF Es!ReadSections, EsTyped, Es!historyVars
<1>8. ASSUME NEW slot \in Slot, Es!ScrapeFails(slot) PROVE EsTyped'
  <2>1. scrape' \in [Slot -> EsScrape]
    BY <1>8 DEF Es!ScrapeFails, Es!Set, EsTyped, EsScrape
  <2>. QED
    BY <1>8, <2>1 DEF Es!ScrapeFails, EsTyped, Es!historyVars
<1>9. ASSUME NEW slot \in Slot, NEW stored \in EsState, NEW explanations \in SUBSET Shard,
             scrape[slot].pc \in {"listed", "explaining"},
             Es!Finish(slot, stored, explanations)
      PROVE  EsTyped'
  <2>1. /\ scrape[slot].at \in Nat /\ scrape[slot].node \in EsPast /\ state' \in EsState
        /\ sent'.at = scrape[slot].at /\ sent'.node = scrape[slot].node
        /\ h1' \in EsListing
        /\ scrape' \in [Slot -> EsScrape]
        /\ UNCHANGED <<now, server, h3>>
    BY <1>9, EsFinish
  <2>. QED
    BY <2>1 DEF EsTyped, EsTime
<1>10. ASSUME NEW slot \in Slot, Es!DeriveSections(slot) PROVE EsTyped'
  <2> DEFINE s == scrape[slot]
  <2>1. /\ s \in EsListed /\ s.pc = "listed"
    BY <1>10, EsSlotTyped DEF Es!DeriveSections
  <2>2. Es!ShardClock(s) \in EsState /\ Es!CachedExplanations(s) \in SUBSET Shard
    BY <2>1 DEF Es!ShardClock, Es!CachedExplanations, EsListed, EsTyped, EsState, EsTime
  <2>3. CASE /\ Es!Unexplained(s) /\ state' = Es!ShardClock(s)
             /\ scrape' = [scrape EXCEPT ![slot] = [s EXCEPT !.pc = "explaining"]]
             /\ UNCHANGED <<now, server, sent, Es!historyVars>>
    <3>1. [s EXCEPT !.pc = "explaining"] \in EsScrape
      BY <2>1, <2>3 DEF EsScrape, EsListed, EsExplaining, Es!Unexplained
    <3>2. scrape' \in [Slot -> EsScrape]
      BY <2>3, <3>1 DEF EsTyped
    <3>. QED
      BY <2>2, <2>3, <3>2 DEF EsTyped, Es!historyVars
  <2>4. CASE Es!Finish(slot, Es!ShardClock(s), Es!CachedExplanations(s))
    BY <1>9, <2>1, <2>2, <2>4
  <2>. QED
    BY <1>10, <2>3, <2>4, Zenon DEF Es!DeriveSections, Es!Set
<1>11. ASSUME NEW slot \in Slot, Es!ExplainUnassignedShards(slot) PROVE EsTyped'
  <2>1. scrape[slot] \in EsExplaining /\ scrape[slot].pc = "explaining"
    BY <1>11, EsSlotTyped DEF Es!ExplainUnassignedShards
  <2>2. [state EXCEPT !.lastAllocationExplainAt = scrape[slot].at] \in EsState
    BY <2>1 DEF EsExplaining, EsTyped, EsState, EsTime
  <2>3. PICK explanations \in SUBSET scrape[slot].unassigned :
          Es!Finish(slot, [state EXCEPT !.lastAllocationExplainAt = scrape[slot].at], explanations)
    BY <1>11, Zenon DEF Es!ExplainUnassignedShards
  <2>4. explanations \in SUBSET Shard
    BY <2>1 DEF EsExplaining
  <2>. QED
    BY <1>9, <2>1, <2>2, <2>3, <2>4
<1>12. CASE UNCHANGED Es!vars
  BY <1>12 DEF Es!vars, Es!historyVars, EsTyped
<1>. QED
  BY <1>1, <1>2, <1>3, <1>4, <1>5, <1>6, <1>7, <1>8, <1>10, <1>11, <1>12, ZenonT(60) DEF Es!Next

-----------------------------------------------------------------------------
(* EsCollector: the explanations *)

\* What is explained was unassigned in a listing that started no earlier than the scrape
\* which asked for the explanations.
ExplainInv ==
  /\ EsTyped
  /\ sent.explanations = state.explanations
  /\ \A shard \in state.explanations :
       /\ state.lastAllocationExplainAt # Es!None
       /\ state.lastAllocationExplainAt <= h1.when[shard]
  /\ Es!ExplanationsOfLastListing

\* Nothing has been explained when the agent starts.
LEMMA ExplainInit == Es!Init => ExplainInv
<1>. SUFFICES ASSUME Es!Init PROVE ExplainInv
  OBVIOUS
<1>1. sent.explanations = {} /\ state.explanations = {}
  BY DEF Es!Init
<1>. QED
  BY <1>1, EsTypeInit DEF ExplainInv, Es!ExplanationsOfLastListing

\* A scrape that has something to explain and is not due to ask keeps explanations that
\* were asked for within the interval; one that listed no shard keeps the rest with them.
LEMMA ExplainDerived ==
  ASSUME Es!EsAssumption, ExplainInv, EsTyped', NEW slot \in Slot, scrape[slot].pc = "listed",
         ~(Es!Unexplained(scrape[slot]) /\
             Es!Due(scrape[slot].at, state.lastAllocationExplainAt, ExplainInterval)),
         Es!Finish(slot, Es!ShardClock(scrape[slot]), Es!CachedExplanations(scrape[slot]))
  PROVE  ExplainInv'
<1>. USE DEF ExplainInv
<1> DEFINE s == scrape[slot]
           explanations == Es!CachedExplanations(s)
<1>1. s \in EsListed
  BY EsSlotTyped
<1>2. explanations \in SUBSET state.explanations /\ state.explanations \in SUBSET Shard
  BY DEF Es!CachedExplanations, EsTyped, EsState
<1>3. /\ Es!ShardClock(s) \in EsState
      /\ Es!ShardClock(s).lastAllocationExplainAt = state.lastAllocationExplainAt
  BY <1>1 DEF Es!ShardClock, EsListed, EsTyped, EsState, EsTime
<1>4. /\ s.at \in Nat /\ s.listed \in BOOLEAN /\ s.unassigned \in SUBSET Shard
      /\ state'.explanations = explanations
      /\ state'.lastAllocationExplainAt = state.lastAllocationExplainAt
      /\ sent'.explanations = explanations
      /\ ~s.listed => h1' = h1
      /\ s.listed => /\ h1'.at = s.at /\ h1'.unassigned = s.unassigned
                     /\ h1'.offered = s.explain
      /\ \A shard \in Shard : h1.when[shard] <= h1'.when[shard]
  BY <1>2, <1>3, EsFinish
<1>5. /\ state.lastAllocationExplainAt \in Int
      /\ \A shard \in Shard : h1.when[shard] \in EsTime /\ h1'.when[shard] \in EsTime
      /\ EsTime \subseteq Int
  BY DEF EsTyped, EsState, EsListing, EsTime, Es!None
<1>6. ~s.listed => explanations = state.explanations
  BY DEF Es!CachedExplanations
<1>7. s.listed /\ s.unassigned = {} => explanations = {}
  BY DEF Es!CachedExplanations
<1>8. s.listed /\ s.unassigned # {} /\ s.explain =>
        /\ state.lastAllocationExplainAt # Es!None
        /\ s.at - state.lastAllocationExplainAt < ExplainInterval
  <2>1. ExplainInterval \in Nat
    BY DEF Es!EsAssumption
  <2>. HIDE DEF s
  <2>2. s.listed /\ s.unassigned # {} /\ s.explain => Es!Unexplained(s)
    BY DEF Es!Unexplained
  <2>3. ~(Es!Unexplained(s) /\ Es!Due(s.at, state.lastAllocationExplainAt, ExplainInterval))
    BY DEF s
  <2>. QED
    BY <1>4, <1>5, <2>1, <2>2, <2>3 DEF Es!Due
<1>. HIDE DEF s, explanations
<1>9. \A shard \in explanations :
        /\ state.lastAllocationExplainAt # Es!None
        /\ state.lastAllocationExplainAt <= h1'.when[shard]
  <2>. TAKE shard \in explanations
  <2>1. shard \in Shard /\ shard \in state.explanations
    BY <1>2
  <2>2. h1.when[shard] \in Int /\ h1'.when[shard] \in Int
    BY <1>5, <2>1
  <2>. QED
    BY <1>4, <1>5, <2>1, <2>2
<1>10. Es!ExplanationsOfLastListing'
  <2>1. CASE ~s.listed
    BY <1>4, <1>6, <2>1 DEF Es!ExplanationsOfLastListing
  <2>2. CASE s.listed
    <3>1. h1'.unassigned = {} => sent'.explanations = {}
      BY <1>4, <1>7, <2>2
    <3>2. ASSUME h1'.offered, NEW shard \in sent'.explanations
          PROVE  h1'.when[shard] # Es!None /\ h1'.at - h1'.when[shard] < ExplainInterval
      <4>1. shard \in explanations /\ shard \in Shard
        BY <1>2, <1>4, <3>2
      <4>2. /\ state.lastAllocationExplainAt # Es!None
            /\ s.at - state.lastAllocationExplainAt < ExplainInterval
        BY <1>4, <1>7, <1>8, <2>2, <3>2, <4>1
      <4>3. state.lastAllocationExplainAt <= h1'.when[shard] /\ h1'.when[shard] \in Int
        BY <1>5, <1>9, <4>1
      <4>4. state.lastAllocationExplainAt \in Nat
        BY <4>2 DEF EsTyped, EsState, EsTime
      <4>5. ExplainInterval \in Nat /\ h1'.at = s.at
        BY <1>4, <2>2 DEF Es!EsAssumption
      <4>. QED
        BY <1>4, <4>2, <4>3, <4>4, <4>5 DEF Es!None
    <3>. QED
      BY <3>1, <3>2 DEF Es!ExplanationsOfLastListing
  <2>. QED
    BY <2>1, <2>2
<1>. QED
  BY <1>4, <1>9, <1>10

\* What has just been asked for is of the listing it was asked for.
LEMMA ExplainAsked ==
  ASSUME Es!EsAssumption, ExplainInv, EsTyped', NEW slot \in Slot,
         Es!ExplainUnassignedShards(slot)
  PROVE  ExplainInv'
<1>. USE DEF ExplainInv
<1> DEFINE s == scrape[slot]
<1>1. s \in EsExplaining /\ s.pc = "explaining"
  BY EsSlotTyped DEF Es!ExplainUnassignedShards
<1>2. PICK explanations \in SUBSET s.unassigned :
        Es!Finish(slot, [state EXCEPT !.lastAllocationExplainAt = s.at], explanations)
  BY Zenon DEF Es!ExplainUnassignedShards
<1>3. explanations \in SUBSET Shard
  BY <1>1 DEF EsExplaining
<1>4. /\ [state EXCEPT !.lastAllocationExplainAt = s.at] \in EsState
      /\ [state EXCEPT !.lastAllocationExplainAt = s.at].lastAllocationExplainAt = s.at
  BY <1>1 DEF EsExplaining, EsTyped, EsState, EsTime
<1>5. /\ s.at \in Nat /\ s.unassigned \in SUBSET Shard
      /\ state'.explanations = explanations
      /\ state'.lastAllocationExplainAt = s.at
      /\ sent'.explanations = explanations
      /\ s.listed => /\ h1'.at = s.at /\ h1'.unassigned = s.unassigned
                     /\ \A shard \in s.unassigned : s.at <= h1'.when[shard]
  BY <1>1, <1>2, <1>3, <1>4, EsFinish
<1>6. s.listed
  BY <1>1 DEF EsExplaining
<1>. HIDE DEF s
<1>7. \A shard \in explanations : h1'.when[shard] \in Int /\ s.at <= h1'.when[shard]
  BY <1>2, <1>3, <1>5, <1>6 DEF EsTyped, EsListing, EsTime, Es!None
<1>8. s.at # Es!None
  BY <1>5 DEF Es!None
<1>9. Es!ExplanationsOfLastListing'
  <2>1. h1'.unassigned = {} => sent'.explanations = {}
    BY <1>2, <1>5, <1>6
  <2>2. ASSUME NEW shard \in sent'.explanations
        PROVE  h1'.when[shard] # Es!None /\ h1'.at - h1'.when[shard] < ExplainInterval
    <3>1. h1'.when[shard] \in Int /\ s.at <= h1'.when[shard] /\ h1'.at = s.at
      BY <1>5, <1>6, <1>7, <2>2
    <3>2. ExplainInterval \in Nat /\ ExplainInterval > 0
      BY DEF Es!EsAssumption
    <3>. QED
      BY <1>5, <3>1, <3>2 DEF Es!None
  <2>. QED
    BY <2>1, <2>2 DEF Es!ExplanationsOfLastListing
<1>. QED
  BY <1>5, <1>7, <1>8, <1>9

\* No other step touches the explanations, the time at which they were asked for or the
\* listings.
LEMMA ExplainStep ==
  ASSUME Es!EsAssumption, ExplainInv, [Es!Next]_(Es!vars)
  PROVE  ExplainInv'
<1>0. EsTyped /\ EsTyped'
  BY EsTypeStep DEF ExplainInv
<1>1. ASSUME UNCHANGED <<sent, h1, state.explanations, state.lastAllocationExplainAt>>
      PROVE  ExplainInv'
  BY <1>0, <1>1 DEF ExplainInv, Es!ExplanationsOfLastListing
<1>2. CASE \/ Es!Operate \/ Es!NodeRestart \/ \E shard \in Shard : Es!MoveShard(shard)
           \/ Es!StartScrape \/ UNCHANGED Es!vars
  <2>1. UNCHANGED <<state, sent, h1>>
    BY <1>2 DEF Es!Operate, Es!NodeRestart, Es!MoveShard, Es!StartScrape, Es!vars,
       Es!historyVars
  <2>. QED
    BY <1>1, <2>1
<1>3. ASSUME NEW slot \in Slot, Es!Identify(slot) \/ Es!ReadSections(slot) \/ Es!ScrapeFails(slot)
      PROVE  ExplainInv'
  <2>1. UNCHANGED <<state, sent, h1>>
    BY <1>3 DEF Es!Identify, Es!ReadSections, Es!ScrapeFails, Es!historyVars
  <2>. QED
    BY <1>1, <2>1
<1>4. ASSUME NEW slot \in Slot, Es!ProbeCapabilities(slot) PROVE ExplainInv'
  <2>1. UNCHANGED <<sent, h1, state.explanations, state.lastAllocationExplainAt>>
    BY <1>0, <1>4 DEF Es!ProbeCapabilities, Es!historyVars, EsTyped, EsState
  <2>. QED
    BY <1>1, <2>1
<1>5. ASSUME NEW slot \in Slot, Es!DeriveSections(slot) PROVE ExplainInv'
  <2> DEFINE s == scrape[slot]
             due == Es!Unexplained(s) /\
                      Es!Due(s.at, state.lastAllocationExplainAt, ExplainInterval)
  <2>1. s.pc = "listed"
    BY <1>5 DEF Es!DeriveSections
  <2>2. CASE due
    <3>1. state' = Es!ShardClock(s) /\ UNCHANGED <<sent, h1>>
      BY <1>5, <2>2 DEF Es!DeriveSections, Es!historyVars
    <3>2. UNCHANGED <<state.explanations, state.lastAllocationExplainAt>>
      BY <1>0, <3>1 DEF Es!ShardClock, EsTyped, EsState
    <3>. QED
      BY <1>1, <3>1, <3>2
  <2>3. CASE ~due
    <3>1. Es!Finish(slot, Es!ShardClock(s), Es!CachedExplanations(s))
      BY <1>5, <2>3 DEF Es!DeriveSections
    <3>. QED
      BY <1>0, <2>1, <2>3, <3>1, ExplainDerived
  <2>. QED
    BY <2>2, <2>3
<1>6. ASSUME NEW slot \in Slot, Es!ExplainUnassignedShards(slot) PROVE ExplainInv'
  BY <1>0, <1>6, ExplainAsked
<1>. QED
  BY <1>2, <1>3, <1>4, <1>5, <1>6, ZenonT(60) DEF Es!Next

-----------------------------------------------------------------------------
(* EsCollector: the delta of a node *)

\* A reading against one that was made before it, or none.  In one run of the node the
\* counter has grown by what was done; over a restart by no more.
EsFollows(r, p) ==
  p # Es!NoReading =>
    /\ p.run <= r.run /\ p.ever <= r.ever
    /\ r.ops + p.ever <= r.ever + p.ops
    /\ p.run = r.run => r.ops + p.ever = r.ever + p.ops /\ p.uptime <= r.uptime

LEMMA EsFollowsTwice ==
  \A r, q \in EsReading, p \in EsPast :
    EsFollows(r, q) /\ EsFollows(q, p) => EsFollows(r, p)
<1>. SUFFICES ASSUME NEW r \in EsReading, NEW q \in EsReading, NEW p \in EsPast,
                     EsFollows(r, q), EsFollows(q, p), p # Es!NoReading
              PROVE  EsFollows(r, p)
  BY DEF EsFollows
<1>1. q # Es!NoReading
  BY EsFields
<1>2. /\ r.uptime \in Int /\ r.ops \in Int /\ r.ever \in Int /\ r.run \in Int
      /\ q.uptime \in Int /\ q.ops \in Int /\ q.ever \in Int /\ q.run \in Int
      /\ p.uptime \in Int /\ p.ops \in Int /\ p.ever \in Int /\ p.run \in Int
  BY EsFields DEF EsPast
<1>. QED
  BY <1>1, <1>2 DEF EsFollows

\* A reading made later follows one made earlier.
LEMMA EsLater ==
  ASSUME EsTyped, [Es!Next]_(Es!vars)
  PROVE  \A p \in EsPast : EsFollows(Es!Reading, p) => EsFollows(Es!Reading', p)
<1>. SUFFICES ASSUME NEW p \in EsPast, EsFollows(Es!Reading, p)
              PROVE  EsFollows(Es!Reading', p)
  OBVIOUS
<1> DEFINE r == Es!Reading
           q == Es!Reading'
<1>0. EsTyped'
  BY EsTypeStep
<1>1. r \in EsReading /\ q \in EsReading
  <2>1. q \in EsReading
    BY <1>0 DEF Es!Reading, EsReading, EsTyped, EsCluster
  <2>. QED
    BY <2>1, EsReadingTyped
<1>2. /\ now \in Nat /\ server.boots \in Nat /\ server.ops \in Nat /\ server.ever \in Nat
      /\ server.bootedAt \in Nat
  BY DEF EsTyped, EsCluster
<1>3. /\ r.uptime = now - server.bootedAt /\ r.ops = server.ops
      /\ r.ever = server.ever /\ r.run = server.boots
      /\ q.uptime = now' - server'.bootedAt /\ q.ops = server'.ops
      /\ q.ever = server'.ever /\ q.run = server'.boots
  BY DEF Es!Reading
<1>4. \/ /\ now' \in {now, now + 1}
         /\ UNCHANGED <<server.boots, server.bootedAt, server.ops, server.ever>>
      \/ /\ now' = now /\ server'.boots = server.boots /\ server'.bootedAt = server.bootedAt
         /\ server'.ops = server.ops + 1 /\ server'.ever = server.ever + 1
      \/ /\ now' = now /\ server'.boots = server.boots + 1 /\ server'.ops = 0
         /\ server'.ever = server.ever
  <2>1. CASE Es!Operate
    BY <2>1 DEF Es!Operate, EsTyped, EsCluster
  <2>2. CASE Es!NodeRestart
    BY <2>2 DEF Es!NodeRestart, EsTyped, EsCluster
  <2>3. CASE Es!StartScrape
    BY <2>3 DEF Es!StartScrape
  <2>4. ASSUME NEW shard \in Shard, Es!MoveShard(shard)
        PROVE  now' = now /\ UNCHANGED <<server.boots, server.bootedAt, server.ops, server.ever>>
    BY <2>4 DEF Es!MoveShard, EsTyped, EsCluster
  <2>5. ASSUME NEW slot \in Slot,
               \/ Es!Identify(slot) \/ Es!ProbeCapabilities(slot) \/ Es!ReadSections(slot)
               \/ Es!ScrapeFails(slot) \/ Es!DeriveSections(slot)
               \/ Es!ExplainUnassignedShards(slot)
        PROVE  UNCHANGED <<now, server>>
    BY <2>5 DEF Es!Identify, Es!ProbeCapabilities, Es!ReadSections, Es!ScrapeFails,
       Es!DeriveSections, Es!ExplainUnassignedShards, Es!Finish
  <2>6. CASE UNCHANGED Es!vars
    BY <2>6 DEF Es!vars
  <2>. QED
    BY <2>1, <2>2, <2>3, <2>4, <2>5, <2>6, ZenonT(60) DEF Es!Next
<1>. HIDE DEF r, q
<1>5. EsFollows(q, r)
  BY <1>2, <1>3, <1>4 DEF EsFollows
<1>6. EsFollows(r, p)
  BY DEF r
<1>7. EsFollows(q, p)
  BY <1>1, <1>5, <1>6, EsFollowsTwice
<1>. QED
  BY <1>7 DEF q

EsCompared == {"probing", "asking", "listed", "explaining"}

EsMeasured == {"listed", "explaining"}

\* What is remembered was read before now, and what a scrape is compared with before it.
EsOrdered ==
  /\ EsFollows(Es!Reading, state.previous.node)
  /\ \A slot \in Slot :
       LET s == scrape[slot]
       IN  /\ s.pc \in EsCompared =>
                s.previous \in EsPrevious /\ EsFollows(Es!Reading, s.previous.node)
           /\ s.pc \in EsMeasured =>
                /\ EsFollows(Es!Reading, s.node)
                /\ s.node # Es!NoReading => EsFollows(s.node, s.previous.node)

\* The payload's delta fits what lies between the readings.
EsSentFits ==
  LET previous == sent.previous.node
  IN  sent.nodeDelta # Es!None =>
        IF previous = Es!NoReading THEN sent.nodeDelta = 0
        ELSE /\ sent.nodeDelta <= sent.node.ever - previous.ever
             /\ sent.node.run = previous.run => sent.nodeDelta = sent.node.ever - previous.ever

\* Scrapes that do not overlap compare with what was told last, and started after it.
EsAlone ==
  /\ \A a, b \in Slot : scrape[a] # Es!Idle /\ scrape[b] # Es!Idle => a = b
  /\ state.previous.at <= now
  /\ \A slot \in Slot :
       /\ scrape[slot] # Es!Idle => state.previous.at < scrape[slot].at /\ scrape[slot].at <= now
       /\ scrape[slot].pc \in EsCompared => scrape[slot].previous = state.previous
  /\ sent.previous = h2
  /\ h2.at # Es!None => sent.interval = Es!TickSeconds * (sent.at - h2.at)

EsDeltaInv ==
  /\ EsTyped
  /\ EsOrdered
  /\ EsSentFits
  /\ state.previous = [at |-> sent.at, node |-> sent.node]
  /\ ~h3 => EsAlone

LEMMA EsDeltaInit == Es!Init => EsDeltaInv
<1>. SUFFICES ASSUME Es!Init PROVE EsDeltaInv
  OBVIOUS
<1>1. /\ state.previous = Es!NoPrevious /\ h2 = Es!NoPrevious
      /\ sent.node = Es!NoReading /\ sent.previous = Es!NoPrevious /\ sent.at = Es!None
      /\ sent.nodeDelta = Es!None /\ now = 0
  BY DEF Es!Init
<1>2. \A slot \in Slot : scrape[slot] = Es!Idle /\ scrape[slot].pc = "idle"
  BY DEF Es!Init, Es!Idle
<1>3. EsOrdered
  BY <1>1, <1>2, EsFields DEF EsOrdered, EsFollows, EsCompared, EsMeasured
<1>4. EsAlone
  BY <1>1, <1>2, EsFields DEF EsAlone, EsCompared, Es!None
<1>. QED
  BY <1>1, <1>3, <1>4, EsTypeInit DEF EsDeltaInv, EsSentFits, Es!NoPrevious

\* What a scrape that is under way keeps while others step: what it holds.
EsKept(slot) ==
  /\ scrape'[slot].pc \in EsCompared =>
       scrape[slot].pc \in EsCompared /\ scrape'[slot].previous = scrape[slot].previous
  /\ scrape'[slot].pc \in EsMeasured =>
       scrape[slot].pc \in EsMeasured /\ scrape'[slot].node = scrape[slot].node
  /\ scrape'[slot] # Es!Idle => scrape[slot] # Es!Idle /\ scrape'[slot].at = scrape[slot].at

\* A step that leaves what was sent and what is remembered, and brings no scrape to its
\* comparison or its measure.
LEMMA EsDeltaQuiet ==
  ASSUME EsDeltaInv, [Es!Next]_(Es!vars), EsTyped',
         UNCHANGED <<sent, state.previous, h2, h3>>, now' = now,
         \A slot \in Slot : EsKept(slot)
  PROVE  EsDeltaInv'
<1>. USE DEF EsDeltaInv
<1>1. EsSentFits'
  BY DEF EsSentFits
<1>2. state.previous.node \in EsPast
  BY EsFields DEF EsTyped, EsState
<1>3. \A slot \in Slot :
        /\ scrape[slot].pc \in EsCompared => scrape[slot].previous.node \in EsPast
        /\ scrape[slot].pc \in EsMeasured => scrape[slot].node \in EsPast
  BY EsSlotTyped, EsFields DEF EsOrdered, EsMeasured, EsListed, EsExplaining
<1>4. EsOrdered'
  <2>1. EsFollows(Es!Reading', state'.previous.node)
    BY <1>2, EsLater DEF EsOrdered
  <2>2. ASSUME NEW slot \in Slot, scrape'[slot].pc \in EsCompared
        PROVE  /\ scrape'[slot].previous \in EsPrevious
               /\ EsFollows(Es!Reading', scrape'[slot].previous.node)
    BY <1>3, <2>2, EsLater DEF EsOrdered, EsKept
  <2>3. ASSUME NEW slot \in Slot, scrape'[slot].pc \in EsMeasured
        PROVE  /\ EsFollows(Es!Reading', scrape'[slot].node)
               /\ scrape'[slot].node # Es!NoReading =>
                    EsFollows(scrape'[slot].node, scrape'[slot].previous.node)
    <3>1. /\ scrape[slot].pc \in EsMeasured /\ scrape'[slot].node = scrape[slot].node
          /\ scrape'[slot].previous = scrape[slot].previous
      BY <2>3 DEF EsKept, EsMeasured, EsCompared
    <3>. QED
      BY <1>3, <3>1, EsLater DEF EsOrdered
  <2>. QED
    BY <2>1, <2>2, <2>3 DEF EsOrdered
<1>5. ASSUME ~h3' PROVE EsAlone'
  BY <1>5 DEF EsAlone, EsKept
<1>. QED
  BY <1>1, <1>4, <1>5

\* A scrape that is under way has started at some time.
LEMMA EsStarted ==
  ASSUME EsTyped, NEW slot \in Slot, scrape[slot] # Es!Idle
  PROVE  scrape[slot].at \in Nat
<1>1. CASE scrape[slot].pc = "asked"
  BY <1>1, EsSlotTyped DEF EsAsked
<1>2. CASE scrape[slot].pc = "probing"
  BY <1>2, EsSlotTyped DEF EsProbing
<1>3. CASE scrape[slot].pc = "asking"
  BY <1>3, EsSlotTyped DEF EsAsking
<1>4. CASE scrape[slot].pc = "listed"
  BY <1>4, EsSlotTyped DEF EsListed
<1>5. CASE scrape[slot].pc = "explaining"
  BY <1>5, EsSlotTyped DEF EsExplaining
<1>. QED
  BY <1>1, <1>2, <1>3, <1>4, <1>5, EsSlotTyped

\* A tick: the scrape that starts is later than what is remembered.
LEMMA EsDeltaStart ==
  ASSUME EsDeltaInv, Es!StartScrape, EsTyped'
  PROVE  EsDeltaInv'
<1>. USE DEF EsDeltaInv
<1>1. /\ now' = now + 1 /\ now \in Nat /\ UNCHANGED <<server, state, sent, h1, h2>>
      /\ \/ /\ Es!FreeSlots # {}
            /\ scrape' = [scrape EXCEPT ![Es!Min(Es!FreeSlots)] = [pc |-> "asked", at |-> now']]
            /\ h3' = (h3 \/ Es!FreeSlots # Slot)
         \/ UNCHANGED <<scrape, h3>>
  BY Zenon DEF Es!StartScrape, Es!Set, EsTyped
<1>2. \A x \in Slot : scrape'[x] = scrape[x] \/ scrape'[x] = [pc |-> "asked", at |-> now']
  BY <1>1 DEF EsTyped
<1>3. EsSentFits'
  BY <1>1 DEF EsSentFits
<1>4. EsOrdered'
  <2>1. [Es!Next]_(Es!vars)
    BY DEF Es!Next
  <2>2. state.previous.node \in EsPast
    BY EsFields DEF EsTyped, EsState
  <2>3. \A slot \in Slot :
          /\ scrape[slot].pc \in EsCompared => scrape[slot].previous.node \in EsPast
          /\ scrape[slot].pc \in EsMeasured => scrape[slot].node \in EsPast
    BY EsSlotTyped, EsFields DEF EsOrdered, EsMeasured, EsListed, EsExplaining
  <2>4. EsFollows(Es!Reading', state'.previous.node)
    BY <1>1, <2>1, <2>2, EsLater DEF EsOrdered
  <2>5. ASSUME NEW slot \in Slot
        PROVE  /\ scrape'[slot].pc \in EsCompared =>
                    /\ scrape'[slot].previous \in EsPrevious
                    /\ EsFollows(Es!Reading', scrape'[slot].previous.node)
               /\ scrape'[slot].pc \in EsMeasured =>
                    /\ EsFollows(Es!Reading', scrape'[slot].node)
                    /\ scrape'[slot].node # Es!NoReading =>
                         EsFollows(scrape'[slot].node, scrape'[slot].previous.node)
    <3>1. CASE scrape'[slot] = scrape[slot]
      BY <2>1, <2>3, <3>1, EsLater DEF EsOrdered
    <3>2. CASE scrape'[slot] = [pc |-> "asked", at |-> now']
      BY <3>2 DEF EsCompared, EsMeasured
    <3>. QED
      BY <1>2, <3>1, <3>2
  <2>. QED
    BY <2>4, <2>5 DEF EsOrdered
<1>5. ASSUME ~h3' PROVE EsAlone'
  <2>0. ~h3
    BY <1>1, <1>5, Zenon
  <2>1. EsAlone
    BY <2>0
  <2>2. \A a, b \in Slot : scrape'[a] # Es!Idle /\ scrape'[b] # Es!Idle => a = b
    <3>1. CASE UNCHANGED scrape
      BY <2>1, <3>1 DEF EsAlone
    <3>2. CASE /\ scrape' = [scrape EXCEPT ![Es!Min(Es!FreeSlots)] = [pc |-> "asked", at |-> now']]
               /\ h3' = (h3 \/ Es!FreeSlots # Slot)
      <4>1. \A x \in Slot : scrape[x] = Es!Idle
        BY <1>5, <3>2 DEF Es!FreeSlots
      <4>2. \A x \in Slot : x # Es!Min(Es!FreeSlots) => scrape'[x] = scrape[x]
        BY <3>2 DEF EsTyped
      <4>. QED
        BY <4>1, <4>2
    <3>. QED
      BY <1>1, <3>1, <3>2
  <2>3. state.previous.at \in Int /\ state.previous.at <= now
    BY <2>1, EsFields DEF EsAlone, EsTyped, EsState
  <2>4. ASSUME NEW slot \in Slot
        PROVE  /\ scrape'[slot] # Es!Idle =>
                    state.previous.at < scrape'[slot].at /\ scrape'[slot].at <= now'
               /\ scrape'[slot].pc \in EsCompared => scrape'[slot].previous = state.previous
    <3>1. CASE scrape'[slot] = scrape[slot]
      <4>1. scrape[slot] # Es!Idle => scrape[slot].at \in Nat
        BY EsStarted
      <4>. QED
        BY <1>1, <2>1, <2>3, <3>1, <4>1 DEF EsAlone
    <3>2. CASE scrape'[slot] = [pc |-> "asked", at |-> now']
      BY <1>1, <2>3, <3>2 DEF EsCompared
    <3>. QED
      BY <1>2, <3>1, <3>2
  <2>. QED
    BY <1>1, <2>1, <2>2, <2>3, <2>4 DEF EsAlone
<1>. QED
  BY <1>1, <1>3, <1>4, <1>5

\* Identifying: what the scrape will be compared with is what was told last.
LEMMA EsDeltaIdentify ==
  ASSUME EsDeltaInv, NEW slot \in Slot, Es!Identify(slot), EsTyped'
  PROVE  EsDeltaInv'
<1>. USE DEF EsDeltaInv
<1>1. /\ UNCHANGED <<now, server, state, sent, h1, h2, h3>> /\ scrape[slot].pc = "asked"
  BY DEF Es!Identify, Es!historyVars
<1>2. /\ scrape'[slot].pc \in {"probing", "asking"} /\ scrape'[slot].previous = state.previous
      /\ scrape'[slot].at = scrape[slot].at
      /\ \A x \in Slot \ {slot} : scrape'[x] = scrape[x]
  BY DEF Es!Identify, Es!Set, Es!Decide, EsTyped
<1>3. EsSentFits' /\ Es!Reading' = Es!Reading
  BY <1>1 DEF EsSentFits, Es!Reading
<1>4. state.previous \in EsPrevious
  BY DEF EsTyped, EsState
<1>5. EsOrdered'
  <2>1. ASSUME NEW x \in Slot
        PROVE  /\ scrape'[x].pc \in EsCompared =>
                    /\ scrape'[x].previous \in EsPrevious
                    /\ EsFollows(Es!Reading, scrape'[x].previous.node)
               /\ scrape'[x].pc \in EsMeasured =>
                    /\ EsFollows(Es!Reading, scrape'[x].node)
                    /\ scrape'[x].node # Es!NoReading =>
                         EsFollows(scrape'[x].node, scrape'[x].previous.node)
    <3>1. CASE x = slot
      BY <1>2, <1>4, <3>1 DEF EsOrdered, EsMeasured
    <3>2. CASE x # slot
      BY <1>2, <3>2 DEF EsOrdered
    <3>. QED
      BY <3>1, <3>2
  <2>. QED
    BY <1>1, <1>3, <2>1 DEF EsOrdered
<1>6. ASSUME ~h3' PROVE EsAlone'
  <2>1. EsAlone
    BY <1>1, <1>6
  <2>2. scrape[slot] # Es!Idle
    BY <1>1 DEF Es!Idle
  <2>. QED
    BY <1>1, <1>2, <2>1, <2>2 DEF EsAlone
<1>. QED
  BY <1>1, <1>3, <1>5, <1>6

\* Reading: the node is measured now, or not at all.
LEMMA EsDeltaRead ==
  ASSUME EsDeltaInv, NEW slot \in Slot, Es!ReadSections(slot), EsTyped'
  PROVE  EsDeltaInv'
<1>. USE DEF EsDeltaInv
<1>1. /\ UNCHANGED <<now, server, state, sent, h1, h2, h3>> /\ scrape[slot].pc = "asking"
  BY DEF Es!ReadSections, Es!historyVars
<1> DEFINE s == scrape[slot]
<1>2. PICK node \in {Es!Reading, Es!NoReading} : \E listed \in {FALSE, s.shards} :
        scrape' = [scrape EXCEPT ![slot] =
          [pc |-> "listed", at |-> s.at, previous |-> s.previous, explain |-> s.explain,
           node |-> node, listed |-> listed,
           unassigned |-> IF listed THEN server.unassigned ELSE {}]]
  BY Zenon DEF Es!ReadSections, Es!Set
<1>3. /\ scrape'[slot].pc = "listed" /\ scrape'[slot].previous = s.previous
      /\ scrape'[slot].at = s.at /\ scrape'[slot].node = node
      /\ \A x \in Slot \ {slot} : scrape'[x] = scrape[x]
  BY <1>2 DEF EsTyped
<1>4. EsSentFits' /\ Es!Reading' = Es!Reading
  BY <1>1 DEF EsSentFits, Es!Reading
<1>5. EsFollows(Es!Reading, node)
  <2>1. EsFollows(Es!Reading, Es!NoReading)
    BY DEF EsFollows
  <2>2. EsFollows(Es!Reading, Es!Reading)
    <3> DEFINE r == Es!Reading
    <3>1. r \in EsReading
      BY EsReadingTyped
    <3>2. r.uptime \in Int /\ r.ops \in Int /\ r.ever \in Int /\ r.run \in Int
      BY <3>1, EsFields
    <3>. HIDE DEF r
    <3>3. EsFollows(r, r)
      BY <3>2 DEF EsFollows
    <3>. QED
      BY <3>3 DEF r
  <2>. QED
    BY <2>1, <2>2
<1>6. EsOrdered'
  <2>1. ASSUME NEW x \in Slot
        PROVE  /\ scrape'[x].pc \in EsCompared =>
                    /\ scrape'[x].previous \in EsPrevious
                    /\ EsFollows(Es!Reading, scrape'[x].previous.node)
               /\ scrape'[x].pc \in EsMeasured =>
                    /\ EsFollows(Es!Reading, scrape'[x].node)
                    /\ scrape'[x].node # Es!NoReading =>
                         EsFollows(scrape'[x].node, scrape'[x].previous.node)
    <3>1. CASE x = slot
      <4>1. s.previous \in EsPrevious /\ EsFollows(Es!Reading, s.previous.node)
        BY <1>1 DEF EsOrdered, EsCompared
      <4>. QED
        BY <1>2, <1>3, <1>5, <3>1, <4>1
    <3>2. CASE x # slot
      BY <1>3, <3>2 DEF EsOrdered
    <3>. QED
      BY <3>1, <3>2
  <2>. QED
    BY <1>1, <1>4, <2>1 DEF EsOrdered
<1>7. ASSUME ~h3' PROVE EsAlone'
  <2>1. EsAlone
    BY <1>1, <1>7
  <2>2. scrape[slot] # Es!Idle /\ scrape[slot].pc \in EsCompared
    BY <1>1 DEF Es!Idle, EsCompared
  <2>. QED
    BY <1>1, <1>3, <2>1, <2>2 DEF EsAlone
<1>. QED
  BY <1>1, <1>4, <1>6, <1>7

\* The difference of two readings fits what lies between them.
LEMMA EsDeltaFits ==
  ASSUME NEW s, s.node \in EsPast, s.previous \in EsPrevious,
         s.node # Es!NoReading => EsFollows(s.node, s.previous.node),
         Es!DeriveNode(s) # Es!None
  PROVE  IF s.previous.node = Es!NoReading THEN Es!DeriveNode(s) = 0
         ELSE /\ Es!DeriveNode(s) <= s.node.ever - s.previous.node.ever
              /\ s.node.run = s.previous.node.run =>
                   Es!DeriveNode(s) = s.node.ever - s.previous.node.ever
<1> DEFINE r == s.node
           p == s.previous.node
<1>1. r # Es!NoReading /\ r \in EsReading /\ p \in EsPast
  BY EsFields DEF Es!DeriveNode, EsPast
<1>2. Es!DeriveNode(s) =
        Es!CounterDelta(r.ops, p.ops, p = Es!NoReading \/ r.uptime < p.uptime)
  BY <1>1 DEF Es!DeriveNode
<1>3. EsFollows(r, p)
  BY <1>1
<1>. HIDE DEF r, p
<1>4. CASE p = Es!NoReading
  BY <1>2, <1>4 DEF Es!CounterDelta, r, p
<1>5. CASE p # Es!NoReading
  <2>1. p \in EsReading
    BY <1>1, <1>5 DEF EsPast
  <2>2. /\ r.ops \in Nat /\ r.ever \in Nat /\ r.run \in Nat /\ r.uptime \in Int
        /\ p.ops \in Nat /\ p.ever \in Nat /\ p.run \in Nat /\ p.uptime \in Int
    BY <1>1, <2>1, EsFields
  <2>3. /\ Es!DeriveNode(s) <= r.ever - p.ever
        /\ r.run = p.run => Es!DeriveNode(s) = r.ever - p.ever
    BY <1>2, <1>3, <1>5, <2>2 DEF Es!CounterDelta, EsFollows, Es!None
  <2>. QED
    BY <1>5, <2>3 DEF r, p
<1>. QED
  BY <1>4, <1>5

\* Finishing: the payload joins its reading to the one it is compared with.
LEMMA EsDeltaFinish ==
  ASSUME EsDeltaInv, NEW slot \in Slot, scrape[slot].pc \in EsMeasured,
         NEW stored \in EsState, NEW explanations \in SUBSET Shard,
         Es!Finish(slot, stored, explanations), EsTyped'
  PROVE  EsDeltaInv'
<1>. USE DEF EsDeltaInv
<1> DEFINE s == scrape[slot]
<1>1. /\ s.at \in Nat /\ s.previous \in EsPrevious /\ s.node \in EsPast
      /\ state'.previous = [at |-> s.at, node |-> s.node]
      /\ sent'.at = s.at /\ sent'.node = s.node /\ sent'.previous = s.previous
      /\ sent'.interval = Es!IntervalSeconds(s) /\ sent'.nodeDelta = Es!DeriveNode(s)
      /\ h2' = [at |-> sent.at, node |-> sent.node]
      /\ scrape'[slot] = Es!Idle
      /\ \A x \in Slot \ {slot} : scrape'[x] = scrape[x]
      /\ UNCHANGED <<now, server, h3>>
  BY EsFinish DEF EsMeasured
<1>2. Es!Reading' = Es!Reading
  BY <1>1 DEF Es!Reading
<1>3. /\ EsFollows(Es!Reading, s.node)
      /\ s.node # Es!NoReading => EsFollows(s.node, s.previous.node)
  BY DEF EsOrdered
<1>4. EsSentFits'
  <2>. HIDE DEF s
  <2>1. Es!DeriveNode(s) # Es!None =>
          IF s.previous.node = Es!NoReading THEN Es!DeriveNode(s) = 0
          ELSE /\ Es!DeriveNode(s) <= s.node.ever - s.previous.node.ever
               /\ s.node.run = s.previous.node.run =>
                    Es!DeriveNode(s) = s.node.ever - s.previous.node.ever
    BY <1>1, <1>3, EsDeltaFits
  <2>. QED
    BY <1>1, <2>1 DEF EsSentFits
<1>5. EsOrdered'
  <2>1. state'.previous.node = s.node
    BY <1>1
  <2>2. \A x \in Slot : scrape'[x].pc \in EsCompared \cup EsMeasured => scrape'[x] = scrape[x]
    BY <1>1 DEF Es!Idle, EsCompared, EsMeasured
  <2>. QED
    BY <1>2, <1>3, <2>1, <2>2 DEF EsOrdered
<1>6. ASSUME ~h3' PROVE EsAlone'
  <2>1. EsAlone
    BY <1>1, <1>6
  <2>2. s # Es!Idle /\ s.pc \in EsCompared
    BY DEF Es!Idle, EsCompared, EsMeasured
  <2>3. \A x \in Slot : scrape'[x] = Es!Idle
    BY <1>1, <2>1, <2>2 DEF EsAlone
  <2>4. /\ state.previous.at < s.at /\ s.at <= now /\ s.previous = state.previous
    BY <2>1, <2>2 DEF EsAlone
  <2>5. sent'.previous = h2'
    BY <1>1, <2>4
  <2>6. h2'.at # Es!None => sent'.interval = Es!TickSeconds * (sent'.at - h2'.at)
    <3>1. h2'.at = s.previous.at /\ s.previous.at < s.at /\ s.previous.at \in Int
      BY <1>1, <2>4, EsFields
    <3>. HIDE DEF s
    <3>. QED
      BY <1>1, <3>1 DEF Es!IntervalSeconds
  <2>7. state'.previous.at = s.at /\ s.at <= now' /\ Es!Idle.pc \notin EsCompared
    BY <1>1, <2>4 DEF Es!Idle, EsCompared
  <2>. HIDE DEF s
  <2>. QED
    BY <2>3, <2>5, <2>6, <2>7 DEF EsAlone
<1>. QED
  BY <1>1, <1>4, <1>5, <1>6

LEMMA EsDeltaStep ==
  ASSUME EsDeltaInv, [Es!Next]_(Es!vars)
  PROVE  EsDeltaInv'
<1>0. EsTyped /\ EsTyped'
  BY EsTypeStep DEF EsDeltaInv
<1>1. CASE \/ Es!Operate \/ Es!NodeRestart \/ \E shard \in Shard : Es!MoveShard(shard)
           \/ UNCHANGED Es!vars
  <2>1. UNCHANGED <<now, state, scrape, sent, h2, h3>>
    BY <1>1 DEF Es!Operate, Es!NodeRestart, Es!MoveShard, Es!vars, Es!historyVars
  <2>2. \A slot \in Slot : EsKept(slot)
    BY <2>1 DEF EsKept
  <2>. QED
    BY <1>0, <2>1, <2>2, EsDeltaQuiet
<1>2. CASE Es!StartScrape
  BY <1>0, <1>2, EsDeltaStart
<1>3. ASSUME NEW slot \in Slot, Es!Identify(slot) PROVE EsDeltaInv'
  BY <1>0, <1>3, EsDeltaIdentify
<1>4. ASSUME NEW slot \in Slot, Es!ProbeCapabilities(slot) PROVE EsDeltaInv'
  <2>1. UNCHANGED <<now, sent, state.previous, h2, h3>> /\ scrape[slot].pc = "probing"
    BY <1>0, <1>4 DEF Es!ProbeCapabilities, Es!historyVars, EsTyped, EsState
  <2>2. /\ scrape'[slot].pc = "asking" /\ scrape'[slot].previous = scrape[slot].previous
        /\ scrape'[slot].at = scrape[slot].at
        /\ \A x \in Slot \ {slot} : scrape'[x] = scrape[x]
    BY <1>0, <1>4 DEF Es!ProbeCapabilities, Es!Decide, Es!Set, EsTyped
  <2>3. \A x \in Slot : EsKept(x)
    BY <2>1, <2>2 DEF EsKept, EsCompared, EsMeasured, Es!Idle
  <2>. QED
    BY <1>0, <2>1, <2>3, EsDeltaQuiet
<1>5. ASSUME NEW slot \in Slot, Es!ReadSections(slot) PROVE EsDeltaInv'
  BY <1>0, <1>5, EsDeltaRead
<1>6. ASSUME NEW slot \in Slot, Es!ScrapeFails(slot) PROVE EsDeltaInv'
  <2>1. UNCHANGED <<now, state, sent, h2, h3>>
    BY <1>6 DEF Es!ScrapeFails, Es!historyVars
  <2>2. \A x \in Slot : scrape'[x] \in {Es!Idle, scrape[x]}
    BY <1>0, <1>6 DEF Es!ScrapeFails, Es!Set, EsTyped
  <2>3. \A x \in Slot : EsKept(x)
    BY <2>2 DEF EsKept, EsCompared, EsMeasured, Es!Idle
  <2>. QED
    BY <1>0, <2>1, <2>3, EsDeltaQuiet
<1>7. ASSUME NEW slot \in Slot, Es!DeriveSections(slot) PROVE EsDeltaInv'
  <2> DEFINE s == scrape[slot]
  <2>1. s \in EsListed /\ s.pc = "listed"
    BY <1>0, <1>7, EsSlotTyped DEF Es!DeriveSections
  <2>2. Es!ShardClock(s) \in EsState /\ Es!CachedExplanations(s) \in SUBSET Shard
    BY <1>0, <2>1 DEF Es!ShardClock, Es!CachedExplanations, EsListed, EsTyped, EsState, EsTime
  <2>3. CASE /\ state' = Es!ShardClock(s)
             /\ scrape' = [scrape EXCEPT ![slot] = [s EXCEPT !.pc = "explaining"]]
             /\ UNCHANGED <<now, server, sent, Es!historyVars>>
    <3>1. UNCHANGED <<now, sent, state.previous, h2, h3>>
      BY <1>0, <2>3 DEF Es!historyVars, Es!ShardClock, EsTyped, EsState
    <3>2. /\ scrape'[slot].pc = "explaining" /\ scrape'[slot].previous = s.previous
          /\ scrape'[slot].node = s.node /\ scrape'[slot].at = s.at
          /\ \A x \in Slot \ {slot} : scrape'[x] = scrape[x]
      BY <1>0, <2>1, <2>3 DEF EsTyped, EsListed
    <3>3. \A x \in Slot : EsKept(x)
      BY <2>1, <3>2 DEF EsKept, EsCompared, EsMeasured, Es!Idle
    <3>. QED
      BY <1>0, <3>1, <3>3, EsDeltaQuiet
  <2>4. CASE Es!Finish(slot, Es!ShardClock(s), Es!CachedExplanations(s))
    BY <1>0, <2>1, <2>2, <2>4, EsDeltaFinish DEF EsMeasured
  <2>. QED
    BY <1>7, <2>3, <2>4, Zenon DEF Es!DeriveSections, Es!Set
<1>8. ASSUME NEW slot \in Slot, Es!ExplainUnassignedShards(slot) PROVE EsDeltaInv'
  <2>1. scrape[slot] \in EsExplaining /\ scrape[slot].pc = "explaining"
    BY <1>0, <1>8, EsSlotTyped DEF Es!ExplainUnassignedShards
  <2>2. [state EXCEPT !.lastAllocationExplainAt = scrape[slot].at] \in EsState
    BY <1>0, <2>1 DEF EsExplaining, EsTyped, EsState, EsTime
  <2>3. PICK explanations \in SUBSET scrape[slot].unassigned :
          Es!Finish(slot, [state EXCEPT !.lastAllocationExplainAt = scrape[slot].at], explanations)
    BY <1>8, Zenon DEF Es!ExplainUnassignedShards
  <2>4. explanations \in SUBSET Shard
    BY <2>1 DEF EsExplaining
  <2>. QED
    BY <1>0, <2>1, <2>2, <2>3, <2>4, EsDeltaFinish DEF EsMeasured
<1>. QED
  BY <1>1, <1>2, <1>3, <1>4, <1>5, <1>6, <1>7, <1>8, ZenonT(60) DEF Es!Next

\* The property is what the invariant says of the last payload.
LEMMA EsDeltaImplies == EsDeltaInv => Es!NodeDeltaFitsInterval
  BY Zenon DEF EsDeltaInv, EsSentFits, EsAlone, Es!NodeDeltaFitsInterval
=============================================================================
