----------------------------- MODULE EsPayload -----------------------------
(***************************************************************************)
(* What app/integrations/elasticsearch makes of the answers of a cluster   *)
(* before they are sent: which indices and shards a payload has room for   *)
(* and in which part, which shards are explained, how full the nodes are,  *)
(* and what is reported of a cluster some of whose nodes do not answer.    *)
(*                                                                         *)
(* These are functions of one answer.  A behaviour takes an answer and     *)
(* makes the payload's section of it.  An index is its position in the     *)
(* answer of _cat/indices, a shard is its position in _cat/shards; sizes   *)
(* and counts are small numbers, and the ratios are left as pairs.         *)
(***************************************************************************)
EXTENDS Integers, Sequences, SequencesExt, FiniteSetsExt

CONSTANTS
  MaxRows,        \* bound: indices or shards in an answer
  MaxIndexDetail, \* indices whose counters are asked for: 200 in the code
  MaxPerGroup     \* replicas explained for one cause: 2 in the code

EsPayloadAssumption == {MaxRows, MaxIndexDetail} \subseteq Nat /\ MaxPerGroup \in Nat \ {0}

None == -1

Unknown == << >>

NoMark == [type |-> "none", value |-> 0]

VARIABLES esAnswer, esSection

vars == <<esAnswer, esSection>>

First(n, s) == SubSeq(s, 1, Min({n, Len(s)}))

\* Array.prototype.sort with a comparator that ranks: a stable sort of positions.
RankedBy(rank, indices) ==
  SetToSortSeq(indices, LAMBDA a, b : rank[a] < rank[b] \/ (rank[a] = rank[b] /\ a < b))

-----------------------------------------------------------------------------
(* Indices: [sizes, detailed, maxIndices, perPayload] *)

\* How many are chosen by their size.
Selected(a) == Min({a.maxIndices, MaxIndexDetail})

\* The largest, as far as the request for their details succeeds.
CollectIndices(a) ==
  IF a.detailed
  THEN First(Selected(a), RankedBy([i \in DOMAIN a.sizes |-> -a.sizes[i]], DOMAIN a.sizes))
  ELSE << >>

\* The others follow with what _cat tells, in its order, while there is room.
AllIndices(a) ==
  LET chosen == CollectIndices(a)
      rest == SetToSortSeq(DOMAIN a.sizes \ Range(chosen), <)
  IN  chosen \o First(Max({0, a.maxIndices - Len(chosen)}), rest)

\* Mutation: the follow-ups start with the last index of the first part.
BatchesOverlapping(all, max) ==
  LET parts == IF all = << >> THEN 1 ELSE (Len(all) + max - 1) \div max
  IN  [p \in 1 .. parts |-> SubSeq(all, Max({1, (p - 1) * max}), Min({p * max, Len(all)}))]

\* The primary payload and its follow-ups.
Batches(all, max) ==
  LET parts == IF all = << >> THEN 1 ELSE (Len(all) + max - 1) \div max
  IN  [p \in 1 .. parts |-> SubSeq(all, (p - 1) * max + 1, Min({p * max, Len(all)}))]

-----------------------------------------------------------------------------
(* Shards: [rows, maxShards, maxUnassigned, budget] *)

Unassigned(a) == {i \in DOMAIN a.rows : a.rows[i].state = "UNASSIGNED"}

\* The unassigned first, then those that are on their way, then the others.
CollectShards(a) ==
  LET capped == First(a.maxUnassigned, SetToSortSeq(Unassigned(a), <))
      started == [i \in DOMAIN a.rows |-> IF a.rows[i].state = "STARTED" THEN 1 ELSE 0]
      assigned == RankedBy(started, DOMAIN a.rows \ Unassigned(a))
  IN  [unassigned |-> capped,
       rows |-> capped \o First(Max({0, a.maxShards - Len(capped)}), assigned)]

\* The counts of the listing.
SummariseShards(rows) ==
  LET inState(state) == {i \in DOMAIN rows : rows[i].state = state}
  IN  [total |-> Len(rows),
       started |-> Cardinality(inState("STARTED")),
       unassigned |-> Cardinality(inState("UNASSIGNED")),
       unassignedPrimaries |-> Cardinality({i \in inState("UNASSIGNED") : rows[i].primary})]

\* Primaries first; of the replicas with the same reason only the first few.
ExplainUnassignedShards(a, unassigned) ==
  LET group(i) == <<a.rows[i].reason, a.rows[i].primary>>
      replica == [i \in DOMAIN a.rows |-> IF a.rows[i].primary THEN 0 ELSE 1]
      ranked == RankedBy(replica, Range(unassigned))
      before(i) == {j \in Range(unassigned) : j < i /\ group(j) = group(i)}
      worth(i) == a.rows[i].primary \/ Cardinality(before(i)) < MaxPerGroup
  IN  First(a.budget, SelectSeq(ranked, worth))

-----------------------------------------------------------------------------
(* Disks: [transient, persistent, defaults, total, available] *)

\* A watermark that is not a percentage (ratios are made one) or a size is none.
ParseWatermarkValue(setting) == IF setting.type = "other" THEN NoMark ELSE setting

\* The first layer that has the setting.
ReadSetting(a, level) ==
  LET layers == SelectSeq(<<a.transient, a.persistent, a.defaults>>,
                          LAMBDA layer : level \in DOMAIN layer)
  IN  IF layers = << >> THEN NoMark ELSE ParseWatermarkValue(layers[1][level])

ParseDiskWatermarks(a) == [level \in {"low", "high"} |-> ReadSetting(a, level)]

\* Mutation: a node without a filesystem is below every watermark.
EvaluateWatermarkBlind(marks, total, available) ==
  LET used == IF total > 0 THEN (100 * (total - available)) \div total ELSE 0
      crossed(mark) == mark # NoMark /\
        IF mark.type = "percentage" THEN used >= mark.value ELSE available <= mark.value /\ total > 0
  IN  IF marks = [level \in {"low", "high"} |-> NoMark] THEN "not evaluated"
      ELSE IF crossed(marks["high"]) THEN "high" ELSE IF crossed(marks["low"]) THEN "low" ELSE "ok"

\* The highest mark that is crossed, if both the disk and some mark are known.
EvaluateWatermark(marks, total, available) ==
  LET used == (100 * (total - available)) \div total
      crossed(mark) == mark # NoMark /\
        IF mark.type = "percentage" THEN used >= mark.value ELSE available <= mark.value
  IN  IF marks = [level \in {"low", "high"} |-> NoMark] \/ total <= 0 THEN "not evaluated"
      ELSE IF crossed(marks["high"]) THEN "high" ELSE IF crossed(marks["low"]) THEN "low" ELSE "ok"

-----------------------------------------------------------------------------
(* Nodes: a sequence of [heap, queries, time, hits, misses, total, available] *)

\* num() of a field that may be absent, and nullableNum().
Num(value) == IF value = None THEN 0 ELSE value

NullableNum(value) == value

\* The denominator must be there and above zero: percentage, meanLatency, hitRate.
Ratio(part, total) == IF total <= 0 THEN Unknown ELSE <<part, total>>

MaxKnown(values) == Max({None} \cup values)

\* parseNodesStats and parseFilesystem: gauges stay unknown, sizes become 0.
ParseNodesStats(nodes) ==
  [i \in 1 .. Len(nodes) |->
     [heap |-> NullableNum(nodes[i].heap), queries |-> Num(nodes[i].queries),
      time |-> Num(nodes[i].time), total |-> Num(nodes[i].total),
      available |-> Num(nodes[i].available),
      disk |-> Ratio(Num(nodes[i].total) - Num(nodes[i].available), Num(nodes[i].total))]]

\* Totals over the nodes that answered.
SummariseNodes(nodes) ==
  LET sum(field) == FoldFunction(+, 0, [i \in DOMAIN nodes |-> nodes[i][field]])
  IN  [heap |-> MaxKnown({nodes[i].heap : i \in DOMAIN nodes}),
       latency |-> Ratio(sum("time"), sum("queries")),
       disk |-> Ratio(sum("total") - sum("available"), sum("total"))]

\* The busiest node against the median of those that report, twice the median
\* being the sum of the two in the middle; an idle cluster is not imbalanced.
CompareNodes(values) ==
  LET known == SetToSortSeq({<<v, i>> : v \in Range(values), i \in DOMAIN values},
                            LAMBDA x, y : x[1] < y[1] \/ (x[1] = y[1] /\ x[2] < y[2]))
      sorted == SelectSeq(known, LAMBDA x : values[x[2]] = x[1] /\ x[1] # None)
      n == Len(sorted)
      median2 == sorted[(n + 1) \div 2][1] + sorted[(n + 2) \div 2][1]
  IN  IF n < 2 THEN [comparable |-> FALSE]
      ELSE [comparable |-> TRUE, median2 |-> median2,
            deviation |-> Ratio(2 * sorted[n][1] - median2, median2)]

-----------------------------------------------------------------------------
(* Behaviours *)

SeqUpTo(S, n) == UNION {[1 .. k -> S] : k \in 0 .. n}

IndexAnswers ==
  [kind : {"indices"}, sizes : SeqUpTo(1 .. 2, MaxRows), detailed : BOOLEAN,
   maxIndices : 1 .. 3, perPayload : 1 .. 2]

ShardRow ==
  [primary : BOOLEAN, state : {"UNASSIGNED"}, reason : {"NODE_LEFT", "ALLOCATION_FAILED"}]
    \cup [primary : BOOLEAN, state : {"STARTED", "RELOCATING"}, reason : {""}]

ShardAnswers ==
  [kind : {"shards"}, rows : SeqUpTo(ShardRow, MaxRows - 1), maxShards : {2}, maxUnassigned : {2, 3},
   budget : 1 .. 2]

Setting == [type : {"percentage"}, value : {50}] \cup [type : {"bytes"}, value : {1}]
             \cup [type : {"other"}, value : {0}]

Layer == UNION {[levels -> Setting] : levels \in SUBSET {"low", "high"}}

DiskAnswers ==
  [kind : {"disk"}, transient : Layer, persistent : {[l \in {} |-> 0]}, defaults : Layer,
   total : {None, 0, 4}, available : {None, 1, 3}]

NodeAnswers ==
  [kind : {"nodes"},
   nodes : SeqUpTo([heap : {None, 0, 3}, queries : {None, 0, 2}, time : {0, 4},
                    total : {None, 4}, available : {None, 1}], 2)]

MakeSection(a) ==
  CASE a.kind = "indices" ->
         [kind |-> "indices", parts |-> Batches(AllIndices(a), a.perPayload)]
    [] a.kind = "shards" ->
         LET listing == CollectShards(a)
         IN  [kind |-> "shards", rows |-> listing.rows, unassigned |-> listing.unassigned,
              summary |-> SummariseShards(a.rows),
              explained |-> ExplainUnassignedShards(a, listing.unassigned)]
    [] a.kind = "disk" ->
         [kind |-> "disk",
          level |-> EvaluateWatermark(ParseDiskWatermarks(a), Num(a.total), Num(a.available))]
    [] OTHER ->
         LET nodes == ParseNodesStats(a.nodes)
         IN  [kind |-> "nodes", totals |-> SummariseNodes(nodes),
              heap |-> CompareNodes([i \in 1 .. Len(nodes) |-> nodes[i].heap])]

Init ==
  /\ esAnswer \in IndexAnswers \cup ShardAnswers \cup DiskAnswers \cup NodeAnswers
  /\ esSection = [kind |-> "none"]

MakePayload ==
  /\ esSection.kind = "none"
  /\ esSection' = MakeSection(esAnswer)
  /\ UNCHANGED esAnswer

Next == MakePayload

Spec == Init /\ [][Next]_vars

-----------------------------------------------------------------------------
(* Properties *)

\* What is cut is not what matters.  Every index of a listing that fits is in one part
\* and in no other, and one that is left out is no larger than those that were chosen by
\* their size.  Unassigned shards are cut at their own limit only, never for want of room
\* in the listing, and they are all counted; a moving shard is not cut while a started
\* one is listed; and of those that are kept a replica is explained only after every
\* primary.
NothingUrgentCut ==
  LET a == esAnswer
      s == esSection
  IN  CASE s.kind = "indices" ->
             LET sent == FlattenSeq(s.parts)
                 cut == DOMAIN a.sizes \ Range(sent)
             IN  /\ Cardinality(Range(sent)) = Len(sent)
                 /\ Len(sent) = Min({Len(a.sizes), a.maxIndices})
                 /\ a.detailed => \A j \in cut :
                      Cardinality({i \in Range(sent) : a.sizes[i] >= a.sizes[j]}) >= Selected(a)
                 /\ \A p \in 1 .. Len(s.parts) : Len(s.parts[p]) <= a.perPayload
        [] s.kind = "shards" ->
             LET listed(state) == {i \in Range(s.rows) : a.rows[i].state = state}
                 all(state) == {i \in DOMAIN a.rows : a.rows[i].state = state}
             IN  /\ Cardinality(listed("UNASSIGNED"))
                       = Min({Cardinality(all("UNASSIGNED")), a.maxUnassigned})
                 /\ s.summary.unassigned = Cardinality(all("UNASSIGNED"))
                 /\ listed("STARTED") # {} => all("RELOCATING") \subseteq listed("RELOCATING")
                 /\ \A i \in Range(s.unassigned) :
                      (a.rows[i].primary /\ i \notin Range(s.explained)) =>
                        \A j \in Range(s.explained) : a.rows[j].primary
        [] OTHER -> TRUE

\* "An unknown value is null, never 0": nothing is said of a disk or a watermark that
\* could not be read, of the heap when no node reports it, nor of the latency of
\* queries when there were none; and what is known is reported.  Of a disk that tells
\* its size but not what is available nothing is required: the code takes it for full.
UnknownIsNotZero ==
  LET a == esAnswer
      s == esSection
  IN  CASE s.kind = "disk" ->
             LET marked == \E level \in {"low", "high"} : ReadSetting(a, level) # NoMark
             IN  /\ s.level # "not evaluated" => a.total \notin {None, 0} /\ marked
                 /\ (a.total \notin {None, 0} /\ a.available # None /\ marked) =>
                      s.level # "not evaluated"
        [] s.kind = "nodes" ->
             LET sized == {i \in DOMAIN a.nodes : a.nodes[i].total # None}
                 known == {i \in sized : a.nodes[i].available # None}
             IN  /\ (s.totals.heap = None) <=> \A i \in DOMAIN a.nodes : a.nodes[i].heap = None
                 /\ (s.totals.latency = Unknown) <=> \A i \in DOMAIN a.nodes : a.nodes[i].queries <= 0
                 /\ sized = {} => s.totals.disk = Unknown
                 /\ known # {} => s.totals.disk # Unknown
                 /\ s.heap.comparable <=>
                      Cardinality({i \in DOMAIN a.nodes : a.nodes[i].heap # None}) >= 2
        [] OTHER -> TRUE

\* A section is made of the answer it belongs to.
TypeOK == esSection.kind \in {"none", esAnswer.kind}
=============================================================================
