---------------------------- MODULE OfflineQueue ----------------------------
(***************************************************************************)
(* app/offlineQueue.js as it is written: the array, the running byte       *)
(* total, the eviction loop, the creation times and retry counts, and the  *)
(* file.  The callers (app/socketServer.js) are an environment that may    *)
(* call any exported function at any time.                                 *)
(***************************************************************************)
EXTENDS Integers, Sequences, SequencesExt

CONSTANTS
  Priority, Size, MaxItems, MaxBytes, MaxSubmitted,  \* as in ItemStore
  MaxAge,        \* MAX_AGE_MS, in ticks of the clock
  MaxTime,       \* bound: the last tick
  MaxRetries     \* bound: markFailed calls counted per item

ASSUME QueueAssumption ==
  /\ Priority \subseteq Nat
  /\ Size \subseteq Nat
  /\ MaxItems \in Nat \ {0}
  /\ MaxBytes \in Nat
  /\ MaxSubmitted \in Nat
  /\ MaxAge \in Nat
  /\ MaxTime \in Nat
  /\ MaxRetries \in Nat

VARIABLES
  queue,         \* the array: items in the order of enqueue
  totalBytes,    \* the running total
  persistTimer,  \* TRUE while the 500 ms write timer is pending
  disk,          \* content of queue.json
  diskStale,     \* history: the last write failed, or the last load did
  lastId,        \* history: the id of the last item made
  now            \* Date.now()

vars == <<queue, totalBytes, persistTimer, disk, diskStale, lastId, now>>

Item ==
  [id : 1 .. MaxSubmitted, createdAt : 0 .. MaxTime, retryCount : 0 .. MaxRetries,
   sizeBytes : Size, priority : Priority]

\* Array.filter: the elements of q that are in S, in their order.
Filter(q, S) ==
  LET kept[n \in 0 .. Len(q)] ==
        IF n = 0
        THEN << >>
        ELSE IF q[n] \in S THEN Append(kept[n - 1], q[n]) ELSE kept[n - 1]
  IN  kept[Len(q)]

\* the reduce() over sizeBytes that loadFromDisk, removeExpired and
\* acknowledge recompute the total with
SizeOf(q) ==
  LET sum[n \in 0 .. Len(q)] == IF n = 0 THEN 0 ELSE sum[n - 1] + q[n].sizeBytes
  IN  sum[Len(q)]

\* Mutation: <= for <, which prefers the last of several equally old items.
WorseOrEqual(b, a) ==
  \/ b.priority > a.priority
  \/ b.priority = a.priority /\ b.createdAt <= a.createdAt

\* the test of the scan: b takes the place of the worst item so far
Worse(b, a) ==
  \/ b.priority > a.priority
  \/ b.priority = a.priority /\ b.createdAt < a.createdAt

WorstIdx(q) ==
  LET worst[n \in 0 .. Len(q)] ==
        IF n = 0
        THEN 1
        ELSE IF Worse(q[n], q[worst[n - 1]]) THEN n ELSE worst[n - 1]
  IN  worst[Len(q)]

\* Mutation: > for >= in the test against MAX_ITEMS.
OverfullLate(left, needed) ==
  /\ left.queue # << >>
  /\ left.bytes + needed > MaxBytes \/ Len(left.queue) > MaxItems

\* the condition of the loop, on what is left of the queue and of the total
Overfull(left, needed) ==
  /\ left.queue # << >>
  /\ left.bytes + needed > MaxBytes \/ Len(left.queue) >= MaxItems

\* the body of the loop, which runs at most once for each item
EvictWorst(left, needed) ==
  LET worst == WorstIdx(left.queue)
  IN  IF Overfull(left, needed)
      THEN [queue |-> RemoveAt(left.queue, worst),
            bytes |-> left.bytes - left.queue[worst].sizeBytes]
      ELSE left

EvictToFit(q, bytes, needed) ==
  LET left[n \in 0 .. Len(q)] ==
        IF n = 0 THEN [queue |-> q, bytes |-> bytes] ELSE EvictWorst(left[n - 1], needed)
  IN  left[Len(q)]

Enqueue(p, size) ==
  LET left == EvictToFit(queue, totalBytes, size)
      item == [id |-> lastId + 1, createdAt |-> now, retryCount |-> 0,
               sizeBytes |-> size, priority |-> p]
  IN  /\ lastId < MaxSubmitted
      /\ size <= MaxBytes
      /\ queue' = Append(left.queue, item)
      /\ totalBytes' = left.bytes + size
      /\ persistTimer' = TRUE
      /\ lastId' = lastId + 1
      /\ UNCHANGED <<disk, diskStale, now>>

\* The items whose ids are not among ids.
Without(q, ids) == Filter(q, {i \in ToSet(q) : i.id \notin ids})

\* Mutation: no schedulePersist() after the filter.
AcknowledgeUnsaved(ids) ==
  /\ queue' = Without(queue, ids)
  /\ totalBytes' = SizeOf(queue')
  /\ UNCHANGED <<persistTimer, disk, diskStale, lastId, now>>

Acknowledge(ids) ==
  /\ queue' = Without(queue, ids)
  /\ totalBytes' = SizeOf(queue')
  /\ persistTimer' = (persistTimer \/ Len(queue') < Len(queue))
  /\ UNCHANGED <<disk, diskStale, lastId, now>>

\* Nothing is scheduled: the count reaches the disk with the next change.
MarkFailed(ids) ==
  /\ \A k \in DOMAIN queue : queue[k].id \in ids => queue[k].retryCount < MaxRetries
  /\ queue' = [k \in DOMAIN queue |->
                 IF queue[k].id \in ids
                 THEN [queue[k] EXCEPT !.retryCount = @ + 1]
                 ELSE queue[k]]
  /\ UNCHANGED <<totalBytes, persistTimer, disk, diskStale, lastId, now>>

PersistNow ==
  /\ persistTimer
  /\ persistTimer' = FALSE
  /\ \/ disk' = queue /\ diskStale' = FALSE
     \/ UNCHANGED disk /\ diskStale' = TRUE    \* the write or the rename throws
  /\ UNCHANGED <<queue, totalBytes, lastId, now>>

RemoveExpired(q) == Filter(q, {i \in ToSet(q) : i.createdAt >= now - MaxAge})

\* Mutation: loadFromDisk does not count the bytes it loads.
RestartUncounted ==
  /\ queue' = RemoveExpired(disk)
  /\ totalBytes' = 0
  /\ persistTimer' = (Len(queue') < Len(disk))
  /\ diskStale' = FALSE
  /\ UNCHANGED <<disk, lastId, now>>

\* The process dies at any point and is started again: loadFromDisk, then
\* removeExpired.
Restart ==
  /\ queue' = RemoveExpired(disk)
  /\ totalBytes' = SizeOf(queue')
  /\ persistTimer' = (Len(queue') < Len(disk))
  /\ diskStale' = FALSE
  /\ UNCHANGED <<disk, lastId, now>>

\* readFileSync or JSON.parse throws.
RestartUnreadable ==
  /\ queue' = << >>
  /\ totalBytes' = 0
  /\ persistTimer' = FALSE
  /\ diskStale' = TRUE
  /\ UNCHANGED <<disk, lastId, now>>

Tick ==
  /\ now < MaxTime
  /\ now' = now + 1
  /\ UNCHANGED <<queue, totalBytes, persistTimer, disk, diskStale, lastId>>

Init ==
  /\ queue = << >>
  /\ totalBytes = 0
  /\ persistTimer = FALSE
  /\ disk = << >>
  /\ diskStale = FALSE
  /\ lastId = 0
  /\ now = 0

Next ==
  \/ \E p \in Priority, size \in Size : Enqueue(p, size)
  \/ \E ids \in SUBSET (1 .. lastId) : Acknowledge(ids) \/ MarkFailed(ids)
  \/ PersistNow
  \/ Restart
  \/ RestartUnreadable
  \/ Tick

Spec == Init /\ [][Next]_vars

-----------------------------------------------------------------------------
(* Properties *)

\* Items are whole, totals are numbers, and the file holds a queue.
TypeOK ==
  /\ queue \in Seq(Item)
  /\ disk \in Seq(Item)
  /\ totalBytes \in Nat
  /\ persistTimer \in BOOLEAN
  /\ diskStale \in BOOLEAN
  /\ lastId \in 0 .. MaxSubmitted
  /\ now \in 0 .. MaxTime

\* The running total that evictToFit decides by is the size of the items that
\* are queued, whatever mix of incremental updates and recomputations led
\* here; with it, both limits hold.
WithinLimits ==
  /\ totalBytes = SizeOf(queue)
  /\ totalBytes <= MaxBytes
  /\ Len(queue) <= MaxItems

\* i stays longer than v, or is v.
Outranks(i, v) ==
  \/ i.priority < v.priority
  \/ i.priority = v.priority /\ i.id >= v.id

OutranksOf(v) == Filter(queue, {i \in ToSet(queue) : Outranks(i, v)})

\* Making room is exact: an item stays in the queue if and only if it fits
\* beside the new one together with every item that outranks it, whichever of
\* the two limits is the tight one and however many items have to go.
EvictionIsExact ==
  [][lastId' > lastId =>
       \A v \in ToSet(queue) :
         v \in ToSet(queue') <=> /\ SizeOf(OutranksOf(v)) + Last(queue').sizeBytes <= MaxBytes
                                 /\ Len(OutranksOf(v)) < MaxItems]_vars

\* The comment on PRIORITY: "Priority 3 means a long outage evicts these before
\* it touches core host metrics".  Making room never costs a priority 1 item
\* while the queue ends up holding a priority 3 item.
AdvancedBeforeCore ==
  [][lastId' > lastId /\ (\E i \in ToSet(queue') : i.priority = 3)
       => \A v \in ToSet(queue) : v.priority = 1 => v \in ToSet(queue')]_vars

(* The array implements the set of items: creation time and retry count are   *)
(* projected away, and the place in the array is the order of the ids.        *)
StoredItems(q) ==
  {[id |-> i.id, priority |-> i.priority, sizeBytes |-> i.sizeBytes] : i \in ToSet(q)}

Store == INSTANCE ItemStore WITH queue <- StoredItems(queue), disk <- StoredItems(disk)

\* The module keeps the promise its caller relies on, in every step.
ImplementsItemStore == Store!StoreSpec
=============================================================================
