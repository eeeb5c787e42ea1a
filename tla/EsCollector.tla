---------------------------- MODULE EsCollector ----------------------------
(***************************************************************************)
(* app/integrations/elasticsearch: one cluster, scraped on every tick of   *)
(* collectMetrics.  A scrape asks a dozen APIs one after the other while   *)
(* the cluster goes on working, loses a shard or finds a place for it, and *)
(* restarts its node; every request may fail.  A request is tried up to    *)
(* three times and for half a minute each, and nothing keeps the next tick *)
(* waiting, so that scrapes overlap: they share instanceState(id).         *)
(*                                                                         *)
(* The cluster has one data node with one operation counter.  Of the       *)
(* sections that are read by a clock the model has the shards, on which    *)
(* the explanations depend; the metadata are in EsMetadata, the indices in *)
(* EsRates, and nothing remembers the others.  What a payload's arrays are *)
(* cut to is in EsPayload.                                                 *)
(***************************************************************************)
EXTENDS Integers, FiniteSetsExt

CONSTANTS
  Slot,             \* bound: scrapes that overlap
  Shard,            \* the shards that may be unassigned
  MaxEvents,        \* bound: operations, restarts and moves of shards
  MaxTicks,         \* bound: ticks of collectMetrics
  SectionInterval,  \* shardIntervalSeconds, in ticks
  ExplainInterval,  \* allocationExplainIntervalSeconds, in ticks
  SlowInterval      \* capabilityIntervalSeconds, in ticks

EsAssumption ==
  /\ Slot \subseteq Nat
  /\ {MaxEvents, MaxTicks, SectionInterval, SlowInterval} \subseteq Nat
  /\ ExplainInterval \in Nat \ {0}

None == -1

TickSeconds == 60

VARIABLES
  now,         \* ticks of collectMetrics so far
  esCluster,   \* Elasticsearch
  esState,     \* instanceState(id)
  esScrape,    \* the scrapes under way
  esSent,      \* the last payload
  esListed,    \* history: the last listing that was sent, and when each shard was last unassigned in one
  esBefore,    \* history: the reading that the payload before the last one told of
  esOverlap    \* history: two scrapes were under way at once

historyVars == <<esListed, esBefore, esOverlap>>
vars == <<now, esCluster, esState, esScrape, esSent, historyVars>>

Idle == [pc |-> "idle"]

Set(slot, s) == esScrape' = [esScrape EXCEPT ![slot] = s]

\* The node's counters; ever and run are history, which the agent cannot see.
NoReading == [uptime |-> None, ops |-> None, ever |-> None, run |-> None]

NoPrevious == [at |-> None, node |-> NoReading]

-----------------------------------------------------------------------------
(* Elasticsearch *)

Quiet == esCluster.ever + esCluster.boots + esCluster.moves >= MaxEvents

Operate ==
  /\ ~Quiet
  /\ esCluster' = [esCluster EXCEPT !.ops = @ + 1, !.ever = @ + 1]
  /\ UNCHANGED <<now, esState, esScrape, esSent, historyVars>>

\* The node restarts within a tick: it is there again for the next request.
NodeRestart ==
  /\ ~Quiet
  /\ esCluster' = [esCluster EXCEPT !.boots = @ + 1, !.bootedAt = now, !.ops = 0]
  /\ UNCHANGED <<now, esState, esScrape, esSent, historyVars>>

\* A shard loses its node, or is allocated.
MoveShard(shard) ==
  /\ ~Quiet
  /\ esCluster' = [esCluster EXCEPT !.moves = @ + 1,
                     !.unassigned = IF shard \in @ THEN @ \ {shard} ELSE @ \cup {shard}]
  /\ UNCHANGED <<now, esState, esScrape, esSent, historyVars>>

-----------------------------------------------------------------------------
(* A scrape *)

FreeSlots == {slot \in Slot : esScrape[slot] = Idle}

\* A tick: the endpoint is asked who it is, or no request gets through.
StartScrape ==
  /\ now < MaxTicks
  /\ now' = now + 1
  /\ \/ /\ FreeSlots # {}
        /\ Set(Min(FreeSlots), [pc |-> "asked", at |-> now'])
        /\ esOverlap' = (esOverlap \/ FreeSlots # Slot)
     \/ UNCHANGED <<esScrape, esOverlap>>
  /\ UNCHANGED <<esCluster, esState, esSent, esListed, esBefore>>

Due(at, last, interval) == last = None \/ at - last >= interval

\* Which sections run is decided at once, by the capabilities and the clocks as they are.
Decide(slot, s, explain) ==
  Set(slot, [pc |-> "asking", at |-> s.at, previous |-> s.previous, explain |-> explain,
             shards |-> Due(s.at, esState.lastShardAt, SectionInterval)])

\* The endpoint has identified itself.  What the counters are compared with is read
\* here, before everything else; the capabilities are probed once in a while.
Identify(slot) ==
  LET s == [pc |-> "probing", at |-> esScrape[slot].at, previous |-> esState.previous]
  IN  /\ esScrape[slot].pc = "asked"
      /\ IF Due(s.at, esState.lastCapabilityAt, SlowInterval)
         THEN Set(slot, s) ELSE Decide(slot, s, esState.explain)
      /\ UNCHANGED <<now, esCluster, esState, esSent, historyVars>>

\* A probe that is refused or lost leaves its API out until the next probing.  Explain
\* is the one of them that matters: of the others a request that fails does the same.
ProbeCapabilities(slot) ==
  LET s == esScrape[slot]
  IN  /\ s.pc = "probing"
      /\ \E explain \in BOOLEAN :
           /\ esState' = [esState EXCEPT !.explain = explain, !.lastCapabilityAt = s.at]
           /\ Decide(slot, s, explain)
      /\ UNCHANGED <<now, esCluster, esSent, historyVars>>

Reading ==
  [uptime |-> now - esCluster.bootedAt, ops |-> esCluster.ops, ever |-> esCluster.ever,
   run |-> esCluster.boots]

\* Node stats and cluster health, and without either the scrape fails; then the listing
\* of the shards, if it is wanted.  What they tell does not depend on one another, so
\* that one moment stands for those at which they are read.
ReadSections(slot) ==
  LET s == esScrape[slot]
  IN  /\ s.pc = "asking"
      /\ \E node \in {Reading, NoReading}, listed \in {FALSE, s.shards} :
           Set(slot, [pc |-> "listed", at |-> s.at, previous |-> s.previous, explain |-> s.explain,
                      node |-> node, listed |-> listed,
                      unassigned |-> IF listed THEN esCluster.unassigned ELSE {}])
      /\ UNCHANGED <<now, esCluster, esState, esSent, historyVars>>

\* The endpoint does not answer, is not Elasticsearch, or tells neither of its health
\* nor of its nodes.  Later requests that fail only leave a gap.
ScrapeFails(slot) ==
  /\ esScrape[slot].pc \in {"asked", "asking"}
  /\ Set(slot, Idle)
  /\ UNCHANGED <<now, esCluster, esState, esSent, historyVars>>

CounterDelta(current, previous, reset) ==
  IF reset \/ previous = None \/ current < previous THEN 0 ELSE current - previous

\* deriveNodes: a node of which nothing is remembered, or whose JVM is younger
\* than it was, counts nothing.
DeriveNode(s) ==
  LET previous == s.previous.node
  IN  IF s.node = NoReading THEN None
      ELSE CounterDelta(s.node.ops, previous.ops,
                        previous = NoReading \/ s.node.uptime < previous.uptime)

\* Since the scrape before started, at least a second, and 0 without one.
IntervalSeconds(s) ==
  IF s.previous.at = None THEN 0
  ELSE IF s.at > s.previous.at THEN TickSeconds * (s.at - s.previous.at) ELSE 1

Later(a, b) == IF a > b THEN a ELSE b

\* The payload is made and handed over, and st.previous is replaced: the nodes of this
\* scrape, or none.
Finish(slot, state, explanations) ==
  LET s == esScrape[slot]
  IN  /\ esState' = [state EXCEPT !.explanations = explanations,
                                  !.previous = [at |-> s.at, node |-> s.node]]
      /\ esSent' = [at |-> s.at, interval |-> IntervalSeconds(s), nodeDelta |-> DeriveNode(s),
                    explanations |-> explanations, node |-> s.node, previous |-> s.previous]
      /\ esListed' =
           IF ~s.listed THEN esListed
           ELSE [at |-> s.at, unassigned |-> s.unassigned, offered |-> s.explain,
                 when |-> [shard \in Shard |->
                   IF shard \in s.unassigned THEN Later(s.at, esListed.when[shard])
                                             ELSE esListed.when[shard]]]
      /\ esBefore' = [at |-> esSent.at, node |-> esSent.node]
      /\ Set(slot, Idle)
      /\ UNCHANGED <<now, esCluster, esOverlap>>

\* The clock moves on with a listing that was read.
ShardClock(s) == [esState EXCEPT !.lastShardAt = IF s.listed THEN s.at ELSE @]

Unexplained(s) == s.listed /\ s.explain /\ s.unassigned # {}

\* Mutation: explanations stay when nothing is unassigned any more.
ExplanationsKept(s) == esState.explanations

\* Nothing to explain: the explanations are dropped if the listing says so.
CachedExplanations(s) == IF s.listed /\ s.unassigned = {} THEN {} ELSE esState.explanations

\* The sections are read: explanations are asked for if there is something to explain
\* and they are due, and otherwise the payload is made.
DeriveSections(slot) ==
  LET s == esScrape[slot]
  IN  /\ s.pc = "listed"
      /\ IF Unexplained(s) /\ Due(s.at, esState.lastAllocationExplainAt, ExplainInterval)
         THEN /\ esState' = ShardClock(s)
              /\ Set(slot, [s EXCEPT !.pc = "explaining"])
              /\ UNCHANGED <<now, esCluster, esSent, historyVars>>
         ELSE Finish(slot, ShardClock(s), CachedExplanations(s))

\* explainUnassignedShards: each shard by itself, and some fail.
ExplainUnassignedShards(slot) ==
  LET s == esScrape[slot]
  IN  /\ s.pc = "explaining"
      /\ \E explanations \in SUBSET s.unassigned :
           Finish(slot, [esState EXCEPT !.lastAllocationExplainAt = s.at], explanations)

Init ==
  /\ now = 0
  /\ esCluster = [ops |-> 0, ever |-> 0, boots |-> 0, bootedAt |-> 0, moves |-> 0,
                  unassigned |-> {}]
  /\ esState = [explain |-> FALSE, lastCapabilityAt |-> None, lastShardAt |-> None,
                explanations |-> {}, lastAllocationExplainAt |-> None, previous |-> NoPrevious]
  /\ esScrape = [slot \in Slot |-> Idle]
  /\ esSent = [at |-> None, interval |-> 0, nodeDelta |-> None, explanations |-> {},
               node |-> NoReading, previous |-> NoPrevious]
  /\ esListed = [at |-> 0, unassigned |-> {}, offered |-> FALSE,
                 when |-> [shard \in Shard |-> None]]
  /\ esBefore = NoPrevious
  /\ esOverlap = FALSE

Next ==
  \/ Operate
  \/ NodeRestart
  \/ \E shard \in Shard : MoveShard(shard)
  \/ StartScrape
  \/ \E slot \in Slot :
       \/ Identify(slot) \/ ProbeCapabilities(slot) \/ ReadSections(slot) \/ ScrapeFails(slot)
       \/ DeriveSections(slot) \/ ExplainUnassignedShards(slot)

Spec == Init /\ [][Next]_vars

-----------------------------------------------------------------------------
(* Properties *)

Count == 0 .. MaxEvents

\* Counters, clocks and the scrapes under way stay in the ranges that the code stores.
TypeOK ==
  /\ now \in 0 .. MaxTicks
  /\ esCluster.unassigned \subseteq Shard
  /\ esState.explain \in BOOLEAN
  /\ esState.explanations \subseteq Shard
  /\ esState.previous.at \in {None} \cup 1 .. MaxTicks
  /\ esState.previous.node.ops \in {None} \cup Count
  /\ \A slot \in Slot :
       esScrape[slot].pc \in {"idle", "asked", "probing", "asking", "listed", "explaining"}
  /\ esSent.nodeDelta \in {None} \cup Count

\* What a payload tells as a node's delta is what the node did between the two readings
\* it compares, no more, and that exactly if it did not restart in between, though
\* scrapes overlap.  As long as they do not, it is compared with the payload before, if
\* that had read the node, and divided by the time between the two.
NodeDeltaFitsInterval ==
  LET s == esSent
      previous == s.previous.node
  IN  /\ s.nodeDelta # None =>
           IF previous = NoReading THEN s.nodeDelta = 0
           ELSE /\ s.nodeDelta <= s.node.ever - previous.ever
                /\ s.node.run = previous.run => s.nodeDelta = s.node.ever - previous.ever
      /\ ~esOverlap =>
           /\ s.previous = esBefore
           /\ esBefore.at # None => s.interval = TickSeconds * (s.at - esBefore.at)

\* No payload explains anything after a listing that had every shard assigned; and after
\* one that was made while explain was offered, only shards that were unassigned in a
\* listing that started less than the explain interval before it, though scrapes overlap
\* and the two clocks have any intervals.
ExplanationsOfLastListing ==
  /\ esListed.unassigned = {} => esSent.explanations = {}
  /\ esListed.offered =>
       \A shard \in esSent.explanations :
         /\ esListed.when[shard] # None
         /\ esListed.at - esListed.when[shard] < ExplainInterval

\* "Drop stale explanations rather than showing an explanation for a shard that has
\* since been allocated" (elasticsearch/index.js:1530): with or without explain.
StaleExplanationsDropped == esSent.explanations \subseteq esListed.unassigned
=============================================================================
