------------------------------ MODULE ItemStore ------------------------------
(***************************************************************************)
(* What app/offlineQueue.js promises its caller: a bounded set of payloads *)
(* with a copy on disk.                                                    *)
(*                                                                         *)
(* An item's id stands for the UUID enqueue() gives it and, because ids    *)
(* are handed out in order, for its place in the queue: offlineQueue.js    *)
(* only ever appends to the array and filters it, so the array is the set  *)
(* ordered by id.  OfflineQueue.tla models the array, the byte counter and *)
(* the clock literally and is checked to implement this module; Uplink.tla *)
(* builds the socket layer on top of it.                                   *)
(***************************************************************************)
EXTENDS Integers, FiniteSets

CONSTANTS
  Priority,      \* PRIORITY's values: 1 is kept longest, 3 is evicted first
  Size,          \* payload sizes in bytes
  MaxItems,      \* MAX_ITEMS
  MaxBytes,      \* MAX_BYTES
  MaxSubmitted   \* bound: payloads the collectors produce in one behaviour

ASSUME StoreAssumption ==
  /\ Priority \subseteq Nat
  /\ Size \subseteq Nat
  /\ MaxItems \in Nat \ {0}
  /\ MaxBytes \in Nat
  /\ MaxSubmitted \in Nat

VARIABLES
  queue,         \* the items in memory
  persistTimer,  \* TRUE while the 500 ms write timer is pending
  disk,          \* the items in queue.json
  diskStale,     \* history: the last write failed, or the last load did
  lastId         \* history: the id of the last payload produced

storeVars == <<queue, persistTimer, disk, diskStale, lastId>>

Item == [id : 1 .. MaxSubmitted, priority : Priority, sizeBytes : Size]

\* Mutation: map((i, index) => index): positions, which start at 0, for ids.
PositionsForIds(q) == {i.id - 1 : i \in q}

Ids(q) == {i.id : i \in q}

\* The size of the item with this id, if it is in q.
SizeAt(q, id) ==
  IF \E i \in q : i.id = id THEN (CHOOSE i \in q : i.id = id).sizeBytes ELSE 0

Bytes(q) ==
  LET sum[id \in 0 .. MaxSubmitted] == IF id = 0 THEN 0 ELSE sum[id - 1] + SizeAt(q, id)
  IN  sum[MaxSubmitted]

-----------------------------------------------------------------------------
(* Eviction *)

\* a goes before b: less important, or as important and older
EvictedBefore(a, b) ==
  \/ a.priority > b.priority
  \/ a.priority = b.priority /\ a.id < b.id

\* Mutation: > for >= in the test against MAX_ITEMS.
OverfullLate(q, needed) ==
  q # {} /\ (Bytes(q) + needed > MaxBytes \/ Cardinality(q) > MaxItems)

Overfull(q, needed) ==
  q # {} /\ (Bytes(q) + needed > MaxBytes \/ Cardinality(q) >= MaxItems)

\* kept is q without its first few items in the order of eviction
KeepsMostImportant(q, kept) ==
  \A v \in q \ kept, k \in kept : EvictedBefore(v, k)

\* evictToFit leaves kept: it stops at the first set that fits
EvictToFit(q, needed, kept) ==
  /\ KeepsMostImportant(q, kept)
  /\ ~Overfull(kept, needed)
  /\ \A larger \in SUBSET q :
       KeepsMostImportant(q, larger) /\ ~Overfull(larger, needed)
         => larger \subseteq kept

-----------------------------------------------------------------------------
(* The operations of the module *)

\* A payload larger than the whole queue is refused before anything changes.
Enqueue(p, s) ==
  /\ lastId < MaxSubmitted
  /\ s <= MaxBytes
  /\ \E kept \in SUBSET queue :
       /\ EvictToFit(queue, s, kept)
       /\ queue' = kept \cup {[id |-> lastId + 1, priority |-> p, sizeBytes |-> s]}
  /\ lastId' = lastId + 1
  /\ persistTimer' = TRUE
  /\ UNCHANGED <<disk, diskStale>>

\* A payload that is produced but never reaches the queue.
Bypass ==
  /\ lastId < MaxSubmitted
  /\ lastId' = lastId + 1
  /\ UNCHANGED <<queue, persistTimer, disk, diskStale>>

\* Mutation: no schedulePersist() after the filter.
AcknowledgeUnsaved(ids) ==
  /\ queue' = {i \in queue : i.id \notin ids}
  /\ UNCHANGED <<persistTimer, disk, diskStale, lastId>>

Acknowledge(ids) ==
  /\ queue' = {i \in queue : i.id \notin ids}
  /\ persistTimer' = (persistTimer \/ queue' # queue)
  /\ UNCHANGED <<disk, diskStale, lastId>>

\* The items one flush sends: the size oldest ones.
PeekBatch(q, size) ==
  {i \in q : Cardinality({j \in q : j.id < i.id}) < size}

\* The write timer fires; the rename makes the new content visible at once.
PersistNow ==
  /\ persistTimer
  /\ persistTimer' = FALSE
  /\ disk' = queue
  /\ diskStale' = FALSE
  /\ UNCHANGED <<queue, lastId>>

\* The same when the write or the rename throws: logged, and not retried.
PersistFails ==
  /\ persistTimer
  /\ persistTimer' = FALSE
  /\ diskStale' = TRUE
  /\ UNCHANGED <<queue, disk, lastId>>

\* Mutation: the comparison with the cutoff is turned round.
RestartWithExpired(expired) ==
  /\ queue' = {i \in disk : i.id <= expired}
  /\ persistTimer' = (queue' # disk)
  /\ diskStale' = FALSE
  /\ UNCHANGED <<disk, lastId>>

\* The process dies and starts again: the file is loaded and the items older
\* than MAX_AGE, here the ids up to expired, are dropped.
Restart(expired) ==
  /\ queue' = {i \in disk : i.id > expired}
  /\ persistTimer' = (queue' # disk)
  /\ diskStale' = FALSE
  /\ UNCHANGED <<disk, lastId>>

\* A restart that cannot read or parse the file starts with an empty queue.
RestartUnreadable ==
  /\ queue' = {}
  /\ persistTimer' = FALSE
  /\ diskStale' = TRUE
  /\ UNCHANGED <<disk, lastId>>

-----------------------------------------------------------------------------
StoreInit ==
  /\ queue = {}
  /\ persistTimer = FALSE
  /\ disk = {}
  /\ diskStale = FALSE
  /\ lastId = 0

StoreNext ==
  \/ \E p \in Priority, s \in Size : Enqueue(p, s)
  \/ Bypass
  \/ \E ids \in SUBSET (1 .. MaxSubmitted) : Acknowledge(ids)
  \/ PersistNow
  \/ PersistFails
  \/ \E expired \in 0 .. lastId : Restart(expired)
  \/ RestartUnreadable

StoreSpec == StoreInit /\ [][StoreNext]_storeVars

-----------------------------------------------------------------------------
(* Properties *)

StoreTypeOK ==
  /\ queue \subseteq Item
  /\ disk \subseteq Item
  /\ persistTimer \in BOOLEAN
  /\ diskStale \in BOOLEAN
  /\ lastId \in 0 .. MaxSubmitted

\* No sequence of enqueues, acknowledgements and restarts makes the queue, in
\* memory or on disk, longer than MAX_ITEMS (evictToFit runs before the push,
\* so it has to leave room for it).
BoundedCount ==
  /\ IsFiniteSet(queue) /\ Cardinality(queue) <= MaxItems
  /\ IsFiniteSet(disk) /\ Cardinality(disk) <= MaxItems

\* Memory and disk differ only while a write is scheduled, or after an I/O
\* error that the code logs and forgets: no operation that changes the queue
\* forgets schedulePersist().
UnsavedIsScheduled == queue # disk => persistTimer \/ diskStale

\* A restart that finds no write pending brings back exactly the queue that
\* was in memory, less its oldest items if they expired: nothing that was
\* acknowledged or evicted reappears, and nothing younger is lost.
SavedQueueSurvives ==
  [][(\E expired \in 0 .. lastId : Restart(expired)) /\ ~persistTimer /\ ~diskStale
       => /\ queue' \subseteq queue
          /\ \A i \in queue', j \in queue : j.id >= i.id => j \in queue']_storeVars
=============================================================================
