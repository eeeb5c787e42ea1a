------------------------------ MODULE EsRates -------------------------------
(***************************************************************************)
(* The rates app/integrations/elasticsearch derives from the counters of   *)
(* two readings: deriveGc, deriveThreadPools and deriveBreakers of a node, *)
(* deriveIndices and deriveIndicesRates of an index.                       *)
(*                                                                         *)
(* The counters belong to the copies of an index and to the processes of   *)
(* the nodes: a restart, a copy that moves and an index made anew set them *)
(* back.  Nodes are read by every collection, indices by every few.  There *)
(* is one index with a primary and a replica and one node; a write takes   *)
(* one unit of time, and the counters stand for all that the code treats   *)
(* in the same way.  One collection follows another; what becomes of the   *)
(* counters when they overlap is in EsCollector.                           *)
(***************************************************************************)
EXTENDS Integers, Sequences, SequencesExt, FiniteSetsExt

CONSTANTS
  IndexInterval,   \* collections from one reading of the indices to the next: 5 in the code
  MaxEvents,       \* bound: what happens in the cluster
  MaxTicks         \* bound: the clock

EsRatesAssumption == {IndexInterval, MaxTicks} \subseteq Nat \ {0} /\ MaxEvents \in Nat

Unknown == << >>

None == [none |-> TRUE]

Work == {"indexTotal", "indexTimeMillis", "queryTotal", "queryTimeMillis"}

Gc == {"young", "G1 Concurrent GC"}

Pool == <<"fetch_shard_store", "search">>

CriticalThreadPools == {"search"}

Breaker == <<"parent", "request">>

Zero(S) == [c \in S |-> 0]

VARIABLES
  now,          \* in collections
  esCopies,     \* the index and the node as they are
  esPrevious,   \* instanceState(): previous and lastIndexAt
  esRates,      \* what the last payload says of them
  esSince       \* history: what happened since each of them was read

vars == <<now, esCopies, esPrevious, esRates, esSince>>

FreshNode == [uptime |-> 0, gc |-> Zero(Gc),
              pools |-> [p \in Range(Pool) |-> [rejected |-> 0, completed |-> 0, queue |-> 0]],
              breakers |-> Zero(Range(Breaker))]

-----------------------------------------------------------------------------
(* The cluster *)

MayHappen == esCopies.events < MaxEvents

Happened(copies) == esCopies' = [copies EXCEPT !.events = @ + 1]

Counted(copy, total, time) == [copy EXCEPT ![total] = @ + 1, ![time] = @ + 1]

\* A document is written to every copy of the index.
Write ==
  /\ MayHappen
  /\ Happened([esCopies EXCEPT !.docs = @ + 1,
                 !.primary = Counted(@, "indexTotal", "indexTimeMillis"),
                 !.replica = Counted(@, "indexTotal", "indexTimeMillis")])
  /\ esSince' = [esSince EXCEPT !.writes = @ + 1]
  /\ UNCHANGED <<now, esPrevious, esRates>>

\* A search reads one of the copies.
Search(copy) ==
  /\ MayHappen
  /\ Happened([esCopies EXCEPT ![copy] = Counted(@, "queryTotal", "queryTimeMillis")])
  /\ esSince' = [esSince EXCEPT !.searches = @ + 1]
  /\ UNCHANGED <<now, esPrevious, esRates>>

\* The replica moves, or the index is deleted and made anew with the same name.
CopiesLost(lost) ==
  /\ MayHappen
  /\ Happened([[c \in DOMAIN esCopies |-> IF c \in lost THEN Zero(Work) ELSE esCopies[c]]
                 EXCEPT !.docs = IF "primary" \in lost THEN 0 ELSE @])
  /\ esSince' = [esSince EXCEPT !.indexReset = TRUE]
  /\ UNCHANGED <<now, esPrevious, esRates>>

\* The node of the primary is lost: the replica takes its place, with the counters of
\* its own, and a new one is made.
Promote ==
  /\ MayHappen
  /\ Happened([esCopies EXCEPT !.primary = esCopies.replica, !.replica = Zero(Work)])
  /\ esSince' = [esSince EXCEPT !.indexReset = TRUE]
  /\ UNCHANGED <<now, esPrevious, esRates>>

\* All documents are deleted, which is no reset of the counters.
DeleteAll ==
  /\ MayHappen
  /\ esCopies.docs > 0
  /\ Happened([esCopies EXCEPT !.docs = 0])
  /\ esSince' = [esSince EXCEPT !.indexReset = TRUE]
  /\ UNCHANGED <<now, esPrevious, esRates>>

\* A node collects garbage, completes a task, rejects one over a full queue, trips a
\* breaker.
NodeWorks ==
  /\ MayHappen
  /\ \/ \E c \in Gc : Happened([esCopies EXCEPT !.node.gc[c] = @ + 1])
     \/ \E p \in Range(Pool) : Happened([esCopies EXCEPT !.node.pools[p].completed = @ + 1])
     \/ \E p \in Range(Pool) : Happened([esCopies EXCEPT !.node.pools[p].rejected = @ + 1,
                                                          !.node.pools[p].queue = 1])
     \/ \E b \in Range(Breaker) : Happened([esCopies EXCEPT !.node.breakers[b] = @ + 1])
  /\ esSince' = [esSince EXCEPT !.nodeEvents = @ + 1]
  /\ UNCHANGED <<now, esPrevious, esRates>>

NodeRestart ==
  /\ MayHappen
  /\ Happened([esCopies EXCEPT !.node = FreshNode])
  /\ esSince' = [esSince EXCEPT !.nodeReset = TRUE]
  /\ UNCHANGED <<now, esPrevious, esRates>>

-----------------------------------------------------------------------------
(* The derivations *)

CounterDelta(current, previous, reset) ==
  IF reset \/ previous > current THEN 0 ELSE current - previous

Deltas(current, previous, reset) ==
  [c \in DOMAIN current |-> CounterDelta(current[c], IF reset THEN 0 ELSE previous[c], reset)]

\* perSecond, meanLatency, percentage: a pair, unknown if there is nothing to divide by.
Per(part, whole) == IF whole <= 0 THEN Unknown ELSE <<part, whole>>

OldGeneration(collector) == collector \in {"old", "G1 Concurrent GC", "ZGC", "Shenandoah"}

DeriveGc(current, previous, reset, interval) ==
  LET deltas == Deltas(current, previous, reset)
      sum(collectors) == FoldFunctionOnSet(+, 0, deltas, collectors)
      old == {c \in DOMAIN current : OldGeneration(c)}
  IN  [total |-> sum(DOMAIN current), old |-> sum(old), young |-> sum(DOMAIN current \ old),
       perSecond |-> Per(sum(DOMAIN current), interval)]

\* Most first, then most of the second measure; ties stay in their order.
SortedBy(names, first, second) ==
  LET before(i, j) ==
        LET a == <<first[names[i]], second[names[i]]>>
            b == <<first[names[j]], second[names[j]]>>
        IN  a[1] > b[1] \/ (a[1] = b[1] /\ (a[2] > b[2] \/ (a[2] = b[2] /\ i < j)))
      order == SetToSortSeq(DOMAIN names, before)
  IN  [k \in DOMAIN order |-> names[order[k]]]

\* A pool is listed if it matters or if it did something.
DeriveThreadPools(current, previous, reset) ==
  LET delta(p, what) == CounterDelta(current[p][what], IF reset THEN 0 ELSE previous[p][what], reset)
      interesting(p) == \/ p \in CriticalThreadPools
                        \/ current[p].queue > 0
                        \/ current[p].rejected > 0
                        \/ delta(p, "completed") > 0
      pools == SelectSeq(Pool, interesting)
      rejectedDelta == [p \in Range(pools) |-> delta(p, "rejected")]
      queue == [p \in Range(pools) |-> current[p].queue]
  IN  [order |-> SortedBy(pools, rejectedDelta, queue),
       rejectedDelta |-> rejectedDelta,
       completedDelta |-> [p \in Range(pools) |-> delta(p, "completed")]]

DeriveBreakers(current, previous, reset) ==
  LET tripped == Deltas(current, previous, reset)
  IN  [order |-> SortedBy(Breaker, tripped, [b \in DOMAIN tripped |-> 0]), trippedDelta |-> tripped]

\* Of one `indices` section: of the primaries of an index, or of all its copies.
DeriveIndicesRates(current, previous, reset, interval) ==
  LET deltas == Deltas(current, previous, reset)
  IN  [operationsDelta |-> deltas["indexTotal"],
       operationsPerSecond |-> Per(deltas["indexTotal"], interval),
       averageLatencyMs |-> Per(deltas["indexTimeMillis"], deltas["indexTotal"]),
       queryDelta |-> deltas["queryTotal"],
       queriesPerSecond |-> Per(deltas["queryTotal"], interval),
       averageQueryLatencyMs |-> Per(deltas["queryTimeMillis"], deltas["queryTotal"])]

\* Fewer than half of the documents are left: the counters are taken for reset.
IndexReset(current, previous) == previous = None \/ 2 * current.docs < previous.docs

\* Mutation: the writes are taken from all the copies.
DeriveIndicesOfTotal(current, previous, interval) ==
  LET reset == IndexReset(current, previous)
      of(part) ==
        DeriveIndicesRates(current[part], IF reset THEN Zero(Work) ELSE previous[part],
                           reset, interval)
  IN  [indexingDelta |-> of("total").operationsDelta,
       indexingPerSecond |-> of("total").operationsPerSecond,
       averageIndexingLatencyMs |-> of("total").averageLatencyMs,
       searchDelta |-> of("total").queryDelta,
       searchesPerSecond |-> of("total").queriesPerSecond,
       averageQueryLatencyMs |-> of("total").averageQueryLatencyMs]

\* Searches run on every copy and come from `total`, writes from the primaries.
DeriveIndices(current, previous, interval) ==
  LET reset == IndexReset(current, previous)
      of(part) ==
        DeriveIndicesRates(current[part], IF reset THEN Zero(Work) ELSE previous[part],
                           reset, interval)
  IN  [indexingDelta |-> of("primaries").operationsDelta,
       indexingPerSecond |-> of("primaries").operationsPerSecond,
       averageIndexingLatencyMs |-> of("primaries").averageLatencyMs,
       searchDelta |-> of("total").queryDelta,
       searchesPerSecond |-> of("total").queriesPerSecond,
       averageQueryLatencyMs |-> of("total").averageQueryLatencyMs]

-----------------------------------------------------------------------------
(* Collections *)

\* parseIndexStats, parseIndicesSection
ParseIndicesSection ==
  [docs |-> esCopies.docs, primaries |-> esCopies.primary,
   total |-> [c \in Work |-> esCopies.primary[c] + esCopies.replica[c]]]

\* parseGcCollectors, parseThreadPools, parseBreakers
ParseNode == esCopies.node

DeriveNode(previous, node, interval) ==
  LET reset == previous = None \/ node.uptime < previous.uptime
      of(part) == IF reset THEN node[part] ELSE previous[part]
  IN  [gc |-> DeriveGc(node.gc, of("gc"), reset, interval),
       pools |-> DeriveThreadPools(node.pools, of("pools"), reset),
       breakers |-> DeriveBreakers(node.breakers, of("breakers"), reset)]

\* Seconds, in collections, since the last one that succeeded.
IntervalSeconds == IF esPrevious.collectedAt = 0 THEN 0 ELSE now - esPrevious.collectedAt

IndicesDue == esPrevious.lastIndexAt = 0 \/ now - esPrevious.lastIndexAt >= IndexInterval

NothingSince ==
  [writes |-> 0, searches |-> 0, indexReset |-> FALSE, nodeEvents |-> 0, nodeReset |-> FALSE]

\* What the history starts anew: the index when it was read, the node always.
Since(listed) ==
  IF listed THEN NothingSince ELSE [esSince EXCEPT !.nodeEvents = 0, !.nodeReset = FALSE]

\* A collection ends.  `list` and `detailed` say whether the
\* indices are listed and their counters read, `nodes` whether the node answers.
Collect(list, detailed, nodes) ==
  LET listed == list /\ IndicesDue
      index == IF listed /\ detailed THEN ParseIndicesSection ELSE None
      node == IF nodes THEN ParseNode ELSE None
  IN  /\ esRates' =
           [index |-> IF index = None THEN None
                      ELSE DeriveIndices(index, esPrevious.index, IntervalSeconds),
            node |-> IF node = None THEN None
                     ELSE DeriveNode(esPrevious.node, node, IntervalSeconds),
            since |-> esSince,
            indexSpan |-> IF esPrevious.index = None THEN 0 ELSE now - esPrevious.lastIndexAt,
            nodeKnown |-> esPrevious.node # None]
      /\ esPrevious' =
           [collectedAt |-> now,
            node |-> node,
            index |-> IF listed THEN index ELSE esPrevious.index,
            lastIndexAt |-> IF listed THEN now ELSE esPrevious.lastIndexAt]
      /\ esSince' = Since(listed)

Minute ==
  /\ now < MaxTicks
  /\ now' = now + 1
  /\ esCopies' = [esCopies EXCEPT !.node.uptime = @ + 1]
  /\ UNCHANGED <<esPrevious, esRates, esSince>>

Collection ==
  /\ now > esPrevious.collectedAt
  /\ \E list, detailed, nodes \in BOOLEAN : Collect(list, detailed, nodes)
  /\ UNCHANGED <<now, esCopies>>

Init ==
  /\ now = 1
  /\ esCopies = [primary |-> Zero(Work), replica |-> Zero(Work), docs |-> 0, node |-> FreshNode, events |-> 0]
  /\ esPrevious = [collectedAt |-> 0, node |-> None, index |-> None, lastIndexAt |-> 0]
  /\ esRates = [index |-> None, node |-> None]
  /\ esSince = NothingSince

Next ==
  \/ Write
  \/ \E copy \in {"primary", "replica"} : Search(copy)
  \/ \E lost \in {{"replica"}, {"primary", "replica"}} : CopiesLost(lost)
  \/ Promote
  \/ DeleteAll
  \/ NodeWorks
  \/ NodeRestart
  \/ Minute
  \/ Collection

Spec == Init /\ [][Next]_vars

-----------------------------------------------------------------------------
(* Properties *)

\* The clocks agree, and the counters stay in their bounds.
TypeOK ==
  /\ now \in 1 .. MaxTicks
  /\ esCopies.events \in 0 .. MaxEvents
  /\ esPrevious.collectedAt \in 0 .. now
  /\ esPrevious.lastIndexAt \in 0 .. esPrevious.collectedAt

\* A write counts once however many copies take it, a search on whichever copy it ran;
\* what a node did shows in its collectors, pools and breakers.  Whatever was reset or
\* moved, no payload tells more than what happened since the reading before, and
\* exactly that if nothing was; a pool that rejects is listed, and first.
RatesTellWhatHappened ==
  LET r == esRates
  IN  /\ r.index # None =>
           /\ r.index.indexingDelta <= r.since.writes /\ r.index.searchDelta <= r.since.searches
           /\ (r.indexSpan > 0 /\ ~r.since.indexReset) =>
                r.index.indexingDelta = r.since.writes /\ r.index.searchDelta = r.since.searches
      /\ r.node # None =>
           LET pools == r.node.pools
               rejected == FoldFunction(+, 0, pools.rejectedDelta)
               told == r.node.gc.total + rejected + FoldFunction(+, 0, pools.completedDelta)
                         + FoldFunction(+, 0, r.node.breakers.trippedDelta)
           IN  /\ told <= r.since.nodeEvents
               /\ (r.nodeKnown /\ ~r.since.nodeReset) => told = r.since.nodeEvents
               /\ r.node.gc.old + r.node.gc.young = r.node.gc.total
               /\ rejected > 0 => pools.rejectedDelta[pools.order[1]] > 0

\* "A delayed tick would otherwise inflate every rate": a rate is over the time between
\* the two readings it compares.  The code divides what an index did since the last
\* reading of the indices by the time since the last collection.
IndexRateOverItsInterval ==
  (esRates.index # None /\ esRates.indexSpan > 0 /\ esRates.index.searchDelta > 0) =>
    esRates.index.searchesPerSecond = <<esRates.index.searchDelta, esRates.indexSpan>>
=============================================================================
