---------------------------- MODULE UplinkProofs ----------------------------
(***************************************************************************)
(* Theorems about ItemStore and Uplink for every number of items, every    *)
(* batch size, every number of unsettled batches, every order of calls and *)
(* every mix of crashes, disk errors and disturbances.                     *)
(***************************************************************************)
EXTENDS Uplink, FiniteSetTheorems, TLAPS

(* The store, whatever its callers do *)

\* No operation of the store takes it out of its type.
LEMMA StoreTypeStep == StoreTypeOK /\ [StoreNext]_storeVars => StoreTypeOK'
<1> USE StoreAssumption DEF StoreTypeOK, Item
<1> SUFFICES ASSUME StoreTypeOK, [StoreNext]_storeVars
             PROVE  StoreTypeOK'
  OBVIOUS
<1>1. ASSUME NEW p \in Priority, NEW s \in Size, Enqueue(p, s)
      PROVE  StoreTypeOK'
  BY <1>1 DEF Enqueue
<1>2. CASE Bypass
  BY <1>2 DEF Bypass
<1>3. ASSUME NEW ids \in SUBSET (1 .. MaxSubmitted), Acknowledge(ids)
      PROVE  StoreTypeOK'
  BY <1>3 DEF Acknowledge
<1>4. CASE PersistNow
  BY <1>4 DEF PersistNow
<1>5. CASE PersistFails
  BY <1>5 DEF PersistFails
<1>6. ASSUME NEW expired \in 0 .. lastId, Restart(expired)
      PROVE  StoreTypeOK'
  BY <1>6 DEF Restart
<1>7. CASE RestartUnreadable
  BY <1>7 DEF RestartUnreadable
<1>8. CASE UNCHANGED storeVars
  BY <1>8 DEF storeVars
<1>. QED
  BY <1>1, <1>2, <1>3, <1>4, <1>5, <1>6, <1>7, <1>8 DEF StoreNext

\* The queue and the file hold items only, and no more ids are given out than
\* payloads are produced, whatever the store's callers do.
THEOREM StoreTyping == StoreSpec => []StoreTypeOK
<1>1. StoreInit => StoreTypeOK
  <2>1. 0 \in 0 .. MaxSubmitted
    BY StoreAssumption
  <2>. QED
    BY <2>1 DEF StoreInit, StoreTypeOK, Item
<1>. QED
  BY <1>1, StoreTypeStep, PTL DEF StoreSpec

-----------------------------------------------------------------------------
\* A filter never lengthens a queue (acknowledge, removeExpired).
LEMMA SubsetStaysBounded ==
  ASSUME NEW S, NEW T, T \subseteq S, IsFiniteSet(S), Cardinality(S) <= MaxItems
  PROVE  IsFiniteSet(T) /\ Cardinality(T) <= MaxItems
<1>1. IsFiniteSet(T) /\ Cardinality(T) <= Cardinality(S)
  BY FS_Subset
<1>2. Cardinality(T) \in Nat /\ Cardinality(S) \in Nat
  BY <1>1, FS_CardinalityType
<1>. QED
  BY <1>1, <1>2, StoreAssumption

\* evictToFit leaves room for one more item.
LEMMA EvictionLeavesRoom ==
  ASSUME NEW q, IsFiniteSet(q), NEW needed, NEW kept \in SUBSET q,
         EvictToFit(q, needed, kept), NEW i
  PROVE  /\ IsFiniteSet(kept \cup {i})
         /\ Cardinality(kept \cup {i}) <= MaxItems
<1>1. IsFiniteSet(kept) /\ Cardinality(kept) \in Nat
  BY FS_Subset, FS_CardinalityType
<1>2. /\ IsFiniteSet(kept \cup {i})
      /\ Cardinality(kept \cup {i}) \in Nat
      /\ Cardinality(kept \cup {i}) <= Cardinality(kept) + 1
  <2>1. /\ IsFiniteSet(kept \cup {i})
        /\ Cardinality(kept \cup {i}) = IF i \in kept THEN Cardinality(kept)
                                                      ELSE Cardinality(kept) + 1
    BY <1>1, FS_AddElement
  <2>. QED
    BY <1>1, <2>1
<1>3. CASE kept = {}
  BY <1>2, <1>3, FS_EmptySet, StoreAssumption
<1>4. CASE kept # {}
  <2>1. ~(Cardinality(kept) >= MaxItems)
    BY <1>4 DEF EvictToFit, Overfull
  <2>. QED
    BY <1>1, <1>2, <2>1, StoreAssumption
<1>. QED
  BY <1>3, <1>4

\* MAX_ITEMS bounds the queue in memory and on disk.
THEOREM StoreBounded == StoreSpec => []BoundedCount
<1> USE DEF BoundedCount
<1>1. StoreInit => BoundedCount
  BY FS_EmptySet, StoreAssumption DEF StoreInit
<1>2. BoundedCount /\ [StoreNext]_storeVars => BoundedCount'
  <2> SUFFICES ASSUME BoundedCount, [StoreNext]_storeVars
               PROVE  BoundedCount'
    OBVIOUS
  <2>1. ASSUME NEW p \in Priority, NEW s \in Size, Enqueue(p, s)
        PROVE  BoundedCount'
    <3>1. PICK kept \in SUBSET queue :
            /\ EvictToFit(queue, s, kept)
            /\ queue' = kept \cup {[id |-> lastId + 1, priority |-> p, sizeBytes |-> s]}
      BY <2>1 DEF Enqueue
    <3>2. IsFiniteSet(queue') /\ Cardinality(queue') <= MaxItems
      BY <3>1, EvictionLeavesRoom
    <3>. QED
      BY <2>1, <3>2 DEF Enqueue
  <2>2. CASE Bypass
    BY <2>2 DEF Bypass
  <2>3. ASSUME NEW ids \in SUBSET (1 .. MaxSubmitted), Acknowledge(ids)
        PROVE  BoundedCount'
    <3>1. queue' \subseteq queue /\ disk' = disk
      BY <2>3 DEF Acknowledge
    <3>. QED
      BY <3>1, SubsetStaysBounded
  <2>4. CASE PersistNow
    BY <2>4 DEF PersistNow
  <2>5. CASE PersistFails
    BY <2>5 DEF PersistFails
  <2>6. ASSUME NEW expired \in 0 .. lastId, Restart(expired)
        PROVE  BoundedCount'
    <3>1. queue' \subseteq disk /\ disk' = disk
      BY <2>6 DEF Restart
    <3>. QED
      BY <3>1, SubsetStaysBounded
  <2>7. CASE RestartUnreadable
    BY <2>7, FS_EmptySet, StoreAssumption DEF RestartUnreadable
  <2>8. CASE UNCHANGED storeVars
    BY <2>8 DEF storeVars
  <2>. QED
    BY <2>1, <2>2, <2>3, <2>4, <2>5, <2>6, <2>7, <2>8 DEF StoreNext
<1>. QED
  BY <1>1, <1>2, PTL DEF StoreSpec

-----------------------------------------------------------------------------
\* Every change of the queue is on disk, scheduled, or lost to an I/O error.
THEOREM StoreUnsavedIsScheduled == StoreSpec => []UnsavedIsScheduled
<1>1. StoreInit => UnsavedIsScheduled
  BY DEF StoreInit, UnsavedIsScheduled
<1>2. StoreTypeOK /\ UnsavedIsScheduled /\ [StoreNext]_storeVars => UnsavedIsScheduled'
  <2> SUFFICES ASSUME UnsavedIsScheduled, [StoreNext]_storeVars
               PROVE  UnsavedIsScheduled'
    OBVIOUS
  <2> USE DEF UnsavedIsScheduled
  <2>1. ASSUME NEW p \in Priority, NEW s \in Size, Enqueue(p, s)
        PROVE  UnsavedIsScheduled'
    BY <2>1 DEF Enqueue
  <2>2. CASE Bypass
    BY <2>2 DEF Bypass
  <2>3. ASSUME NEW ids \in SUBSET (1 .. MaxSubmitted), Acknowledge(ids)
        PROVE  UnsavedIsScheduled'
    <3>1. CASE queue' = queue
      BY <2>3, <3>1 DEF Acknowledge
    <3>2. CASE queue' # queue
      BY <2>3, <3>2 DEF Acknowledge
    <3>. QED
      BY <3>1, <3>2
  <2>4. CASE PersistNow
    BY <2>4 DEF PersistNow
  <2>5. CASE PersistFails
    BY <2>5 DEF PersistFails
  <2>6. ASSUME NEW expired \in 0 .. lastId, Restart(expired)
        PROVE  UnsavedIsScheduled'
    BY <2>6 DEF Restart
  <2>7. CASE RestartUnreadable
    BY <2>7 DEF RestartUnreadable
  <2>8. CASE UNCHANGED storeVars
    BY <2>8 DEF storeVars
  <2>. QED
    BY <2>1, <2>2, <2>3, <2>4, <2>5, <2>6, <2>7, <2>8 DEF StoreNext
<1>. QED
  BY <1>1, <1>2, StoreTyping, PTL DEF StoreSpec

\* A restart that finds nothing pending restores the queue, less what expired.
THEOREM StoreSurvives == StoreSpec => SavedQueueSurvives
<1> DEFINE Survives ==
      (\E expired \in 0 .. lastId : Restart(expired)) /\ ~persistTimer /\ ~diskStale
        => /\ queue' \subseteq queue
           /\ \A i \in queue', j \in queue : j.id >= i.id => j \in queue'
<1>1. ASSUME StoreTypeOK, UnsavedIsScheduled
      PROVE  Survives
  <2> SUFFICES ASSUME NEW expired \in 0 .. lastId, Restart(expired),
                      ~persistTimer, ~diskStale
               PROVE  /\ queue' \subseteq queue
                      /\ \A i \in queue', j \in queue : j.id >= i.id => j \in queue'
    OBVIOUS
  <2>1. queue' = {i \in queue : i.id > expired}
    BY <1>1 DEF UnsavedIsScheduled, Restart
  <2>2. \A i \in queue : i.id \in Int
    BY <1>1 DEF StoreTypeOK, Item
  <2>3. expired \in Int
    BY <1>1 DEF StoreTypeOK
  <2>. QED
    BY <2>1, <2>2, <2>3
<1>2. StoreTypeOK /\ UnsavedIsScheduled /\ [StoreNext]_storeVars => [Survives]_storeVars
  BY <1>1
<1>. QED
  BY <1>2, StoreTyping, StoreUnsavedIsScheduled, PTL DEF StoreSpec, SavedQueueSurvives

-----------------------------------------------------------------------------
(***************************************************************************)
(* The socket layer touches the queue only through the operations of       *)
(* ItemStore, so everything proved of the store holds of the agent.        *)
(***************************************************************************)
LEMMA StoreStep == TypeOK /\ [Next]_vars => [StoreNext]_storeVars
<1> SUFFICES ASSUME TypeOK, [Next]_vars
             PROVE  [StoreNext]_storeVars
  OBVIOUS
<1>1. CASE EmitDirect
  BY <1>1 DEF EmitDirect, StoreNext
<1>2. CASE EmitQueued
  BY <1>2 DEF EmitQueued, StoreNext
<1>3. ASSUME NEW f \in flights, AckArrives(f)
      PROVE  [StoreNext]_storeVars
  <2>1. f.reply \in SUBSET (1 .. MaxSubmitted)
    BY DEF TypeOK, Flight
  <2>2. Acknowledge(f.reply)
    BY <1>3 DEF AckArrives
  <2>. QED
    BY <2>1, <2>2 DEF StoreNext
<1>4. CASE PersistFires
  BY <1>4 DEF PersistFires, StoreNext
<1>5. CASE CrashRestart
  BY <1>5 DEF CrashRestart, StoreNext
<1>6. ASSUME \/ InitSocket \/ OnConnect \/ OnConnectRefused \/ OnDisconnect
             \/ OnAccountSuspended \/ OnAccountActive \/ SuspendedRetry
             \/ EmitOneShot \/ FlushFires
             \/ \E f \in flights : \E accepted \in SUBSET f.batch : ServerHandles(f, accepted)
             \/ \E f \in flights : FlushTimeout(f)
             \/ UNCHANGED vars
      PROVE  UNCHANGED storeVars
  BY <1>6 DEF InitSocket, OnConnect, OnConnectRefused, OnDisconnect, Disconnect,
       OnAccountSuspended, OnAccountActive, SuspendedRetry, EmitOneShot, FlushFires,
       ServerHandles, FlushTimeout, vars
<1>. QED
  BY <1>1, <1>2, <1>3, <1>4, <1>5, <1>6 DEF Next

(***************************************************************************)
(* Types.                                                                  *)
(***************************************************************************)

\* Losing the connection changes the channel of a batch and nothing else.
LEMMA CutOffType ==
  ASSUME NEW fs \in SUBSET Flight
  PROVE  CutOff(fs) \subseteq Flight
<1>1. \A f \in fs : [f EXCEPT !.channel = "lost"] \in Flight
  BY DEF Flight
<1>. QED
  BY <1>1 DEF CutOff, Live

\* The types of every variable, and of every batch under way.
LEMMA TypeStep == TypeOK /\ [Next]_vars => TypeOK'
<1> SUFFICES ASSUME TypeOK, StoreTypeOK', [Next]_vars
             PROVE  TypeOK'
  BY StoreStep, StoreTypeStep DEF TypeOK
<1> USE DEF TypeOK
<1>1. CASE InitSocket
  BY <1>1 DEF InitSocket
<1>2. CASE OnConnect
  <2>1. flushTimer' \in BOOLEAN
    BY <1>2 DEF OnConnect
  <2>2. oneShots' \in 0 .. MaxOneShots
    BY <1>2, UplinkAssumption DEF OnConnect
  <2>. QED
    BY <1>2, <2>1, <2>2 DEF OnConnect
<1>3. CASE OnConnectRefused
  BY <1>3 DEF OnConnectRefused
<1>4. CASE OnDisconnect
  BY <1>4, CutOffType DEF OnDisconnect, Disconnect
<1>5. CASE OnAccountSuspended
  BY <1>5, CutOffType DEF OnAccountSuspended, Disconnect
<1>6. CASE OnAccountActive
  BY <1>6 DEF OnAccountActive
<1>7. CASE SuspendedRetry
  BY <1>7 DEF SuspendedRetry
<1>8. CASE EmitDirect
  <2>1. lastId' \in 1 .. MaxSubmitted
    BY <1>8, StoreAssumption DEF EmitDirect, Bypass, StoreTypeOK
  <2>. QED
    BY <1>8, <2>1 DEF EmitDirect, linkVars
<1>9. CASE EmitQueued
  BY <1>9 DEF EmitQueued, linkVars
<1>10. CASE EmitOneShot
  BY <1>10, UplinkAssumption DEF EmitOneShot
<1>11. CASE FlushFires
  <2>1. flights' \subseteq Flight
    <3>1. CASE UNCHANGED flights
      BY <3>1
    <3>2. ASSUME NEW name \in FlushId,
                 flights' = flights \cup
                   {[name |-> name, batch |-> Ids(PeekBatch(queue, BatchSize)),
                     waiting |-> TRUE, channel |-> "request", reply |-> {}]}
          PROVE  flights' \subseteq Flight
      <4> DEFINE sent == [name |-> name, batch |-> Ids(PeekBatch(queue, BatchSize)),
                          waiting |-> TRUE, channel |-> "request", reply |-> {}]
      <4>1. Ids(PeekBatch(queue, BatchSize)) \in SUBSET (1 .. MaxSubmitted)
        BY DEF Ids, PeekBatch, StoreTypeOK, Item
      <4>2. sent \in Flight
        BY <4>1 DEF Flight
      <4>. HIDE DEF sent
      <4>3. flights' = flights \cup {sent}
        BY <3>2 DEF sent
      <4>. QED
        BY <4>2, <4>3
    <3>. QED
      BY <1>11, <3>1, <3>2 DEF FlushFires
  <2>. QED
    BY <1>11, <2>1 DEF FlushFires
<1>12. ASSUME NEW f \in flights, NEW accepted \in SUBSET f.batch, ServerHandles(f, accepted)
       PROVE  TypeOK'
  <2>1. f \in Flight /\ accepted \in SUBSET (1 .. MaxSubmitted)
    BY DEF Flight
  <2>2. [f EXCEPT !.channel = "reply", !.reply = accepted] \in Flight
    BY <2>1 DEF Flight
  <2>. QED
    BY <1>12, <2>1, <2>2 DEF ServerHandles
<1>13. ASSUME NEW f \in flights, AckArrives(f)
       PROVE  TypeOK'
  <2>1. flushTimer' \in BOOLEAN
    BY <1>13 DEF AckArrives, ScheduledAfter
  <2>. QED
    BY <1>13, <2>1 DEF AckArrives
<1>14. ASSUME NEW f \in flights, FlushTimeout(f)
       PROVE  TypeOK'
  <2>1. [f EXCEPT !.waiting = FALSE] \in Flight
    BY DEF Flight
  <2>2. flushTimer' \in BOOLEAN
    BY <1>14 DEF FlushTimeout, ScheduledAfter
  <2>. QED
    BY <1>14, <2>1, <2>2 DEF FlushTimeout, Live
<1>15. CASE PersistFires
  BY <1>15 DEF PersistFires, linkVars
<1>16. CASE CrashRestart
  <2>1. oneShots' \in 0 .. MaxOneShots
    BY <1>16, UplinkAssumption DEF CrashRestart
  <2>. QED
    BY <1>16, <2>1 DEF CrashRestart
<1>17. CASE UNCHANGED vars
  BY <1>17 DEF vars, linkVars
<1>. QED
  BY <1>1, <1>2, <1>3, <1>4, <1>5, <1>6, <1>7, <1>8, <1>9, <1>10, <1>11, <1>12,
     <1>13, <1>14, <1>15, <1>16, <1>17 DEF Next

\* The type invariant of the agent's link.
THEOREM UplinkTyping == Spec => []TypeOK
<1>1. Init => TypeOK
  <2>1. StoreTypeOK /\ oneShots = 0 /\ MaxOneShots \in Nat => oneShots \in 0 .. MaxOneShots
    OBVIOUS
  <2>2. StoreInit => StoreTypeOK
    <3>1. 0 \in 0 .. MaxSubmitted
      BY StoreAssumption
    <3>. QED
      BY <3>1 DEF StoreInit, StoreTypeOK, Item
  <2>. QED
    BY <2>1, <2>2, UplinkAssumption DEF Init, TypeOK
<1>. QED
  BY <1>1, TypeStep, PTL DEF Spec

\* The agent implements the store: every step is one of its operations or
\* leaves it alone.
THEOREM UplinkImplementsStore == Spec => StoreSpec
<1>1. Init => StoreInit
  BY DEF Init
<1>. QED
  BY <1>1, StoreStep, UplinkTyping, PTL DEF Spec, StoreSpec

\* Hence its queue is bounded, its unsaved changes are scheduled, and a saved
\* queue survives a restart.
THEOREM UplinkBounded == Spec => []BoundedCount
BY UplinkImplementsStore, StoreBounded, PTL

THEOREM UplinkUnsavedIsScheduled == Spec => []UnsavedIsScheduled
BY UplinkImplementsStore, StoreUnsavedIsScheduled, PTL

\* A restart with nothing unsaved restores the agent's queue, less what expired.
THEOREM UplinkSurvives == Spec => SavedQueueSurvives
BY UplinkImplementsStore, StoreSurvives, PTL

(***************************************************************************)
(* The connection.                                                         *)
(***************************************************************************)

\* No timer of an open connection outlives it, and a suspended account is not
\* connected.
THEOREM UplinkQuiet == Spec => []QuietWhenOffline
<1>1. Init => QuietWhenOffline
  BY DEF Init, QuietWhenOffline
<1>2. TypeOK /\ QuietWhenOffline /\ [Next]_vars => QuietWhenOffline'
  <2> SUFFICES ASSUME TypeOK, QuietWhenOffline, [Next]_vars
               PROVE  QuietWhenOffline'
    OBVIOUS
  <2> USE DEF QuietWhenOffline, Connected
  <2>1. CASE InitSocket
    BY <2>1 DEF InitSocket
  <2>2. CASE OnConnect
    BY <2>2 DEF OnConnect
  <2>3. CASE OnConnectRefused
    BY <2>3 DEF OnConnectRefused
  <2>4. CASE OnDisconnect
    BY <2>4 DEF OnDisconnect, Disconnect
  <2>5. CASE OnAccountSuspended
    BY <2>5 DEF OnAccountSuspended, Disconnect
  <2>6. CASE OnAccountActive
    BY <2>6 DEF OnAccountActive
  <2>7. CASE SuspendedRetry
    BY <2>7 DEF SuspendedRetry
  <2>8. CASE FlushFires
    BY <2>8 DEF FlushFires
  <2>9. ASSUME NEW f \in flights, AckArrives(f)
        PROVE  QuietWhenOffline'
    BY <2>9 DEF AckArrives, ScheduledAfter
  <2>10. ASSUME NEW f \in flights, FlushTimeout(f)
         PROVE  QuietWhenOffline'
    BY <2>10 DEF FlushTimeout, ScheduledAfter
  <2>11. CASE CrashRestart
    BY <2>11 DEF CrashRestart
  <2>12. ASSUME \/ EmitDirect \/ EmitQueued \/ EmitOneShot \/ PersistFires
                \/ \E f \in flights : \E accepted \in SUBSET f.batch : ServerHandles(f, accepted)
                \/ UNCHANGED vars
         PROVE  UNCHANGED <<sock, isSuspended, suspendedTimer, flushTimer>>
    BY <2>12 DEF EmitDirect, EmitQueued, EmitOneShot, PersistFires, ServerHandles, linkVars, vars
  <2>. QED
    BY <2>1, <2>2, <2>3, <2>4, <2>5, <2>6, <2>7, <2>8, <2>9, <2>10, <2>11, <2>12 DEF Next
<1>. QED
  BY <1>1, <1>2, UplinkTyping, PTL DEF Spec

(***************************************************************************)
(* The flush loop.                                                         *)
(***************************************************************************)

\* No lost wake-up.  It is inductive together with QuietWhenOffline, which
\* excludes the one early return of flushOnce that would end the loop with
\* items left: a suspended account on an open connection.
THEOREM UplinkFlushArmed == Spec => []FlushArmed
<1>1. Init => FlushArmed
  BY DEF Init, FlushArmed, Connected
<1>2. TypeOK /\ QuietWhenOffline /\ FlushArmed /\ [Next]_vars => FlushArmed'
  <2> SUFFICES ASSUME TypeOK, QuietWhenOffline, FlushArmed, [Next]_vars,
                      sock' = "connected", queue' # {}
               PROVE  flushTimer' \/ \E f \in flights' : f.waiting
    BY DEF FlushArmed, Connected
  <2> USE DEF FlushArmed, Connected
  <2>1. CASE OnConnect
    BY <2>1 DEF OnConnect, storeVars
  <2>2. CASE OnDisconnect \/ OnAccountSuspended \/ EmitQueued \/ CrashRestart \/ SuspendedRetry
    BY <2>2 DEF OnDisconnect, OnAccountSuspended, Disconnect, EmitQueued, CrashRestart,
         SuspendedRetry, QuietWhenOffline, linkVars
  <2>3. CASE FlushFires
    <3>1. queue # {} /\ ~isSuspended /\ Connected
      BY <2>3 DEF FlushFires, QuietWhenOffline, storeVars
    <3>2. PICK name \in FlushId :
            flights' = flights \cup
              {[name |-> name, batch |-> Ids(PeekBatch(queue, BatchSize)),
                waiting |-> TRUE, channel |-> "request", reply |-> {}]}
      BY <2>3, <3>1 DEF FlushFires
    <3> DEFINE sent == [name |-> name, batch |-> Ids(PeekBatch(queue, BatchSize)),
                        waiting |-> TRUE, channel |-> "request", reply |-> {}]
    <3>3. sent.waiting
      OBVIOUS
    <3>. HIDE DEF sent
    <3>4. sent \in flights'
      BY <3>2 DEF sent
    <3>. QED
      BY <3>3, <3>4
  <2>4. ASSUME NEW f \in flights, NEW accepted \in SUBSET f.batch, ServerHandles(f, accepted)
        PROVE  flushTimer' \/ \E g \in flights' : g.waiting
    <3> DEFINE answered == [f EXCEPT !.channel = "reply", !.reply = accepted]
    <3>1. f \in Flight
      BY DEF TypeOK
    <3>2. answered.waiting = f.waiting
      BY <3>1 DEF Flight
    <3>. HIDE DEF answered
    <3>3. flights' = (flights \ {f}) \cup {answered}
      BY <2>4 DEF ServerHandles, answered
    <3>4. flushTimer \/ \E g \in flights : g.waiting
      BY <2>4 DEF ServerHandles, storeVars
    <3>5. CASE flushTimer
      BY <2>4, <3>5 DEF ServerHandles
    <3>6. ASSUME NEW g \in flights, g.waiting
          PROVE  \E h \in flights' : h.waiting
      BY <3>2, <3>3, <3>6
    <3>. QED
      BY <3>4, <3>5, <3>6
  <2>5. ASSUME NEW f \in flights, AckArrives(f)
        PROVE  flushTimer' \/ \E g \in flights' : g.waiting
    <3>1. queue # {} /\ sock = "connected"
      BY <2>5 DEF AckArrives, Acknowledge
    <3>2. CASE f.waiting
      BY <2>5, <3>1, <3>2 DEF AckArrives, ScheduledAfter, QuietWhenOffline
    <3>3. CASE ~f.waiting
      BY <2>5, <3>1, <3>3 DEF AckArrives
    <3>. QED
      BY <3>2, <3>3
  <2>6. ASSUME NEW f \in flights, FlushTimeout(f)
        PROVE  flushTimer'
    BY <2>6 DEF FlushTimeout, ScheduledAfter, QuietWhenOffline, storeVars
  <2>7. ASSUME \/ InitSocket \/ OnConnectRefused \/ OnAccountActive \/ EmitDirect
               \/ EmitOneShot \/ PersistFires \/ UNCHANGED vars
        PROVE  /\ UNCHANGED <<queue, flushTimer, flights>>
               /\ sock = "connected"
    BY <2>7 DEF InitSocket, OnConnectRefused, OnAccountActive, EmitDirect, Bypass, EmitOneShot,
         PersistFires, PersistNow, PersistFails, linkVars, storeVars, vars
  <2>. QED
    BY <2>1, <2>2, <2>3, <2>4, <2>5, <2>6, <2>7 DEF Next
<1>. QED
  BY <1>1, <1>2, UplinkTyping, UplinkQuiet, PTL DEF Spec

\* An acknowledgement, however late, names only what the server has stored.
THEOREM UplinkRepliesAreStored == Spec => []RepliesAreStored
<1>1. Init => RepliesAreStored
  BY DEF Init, RepliesAreStored
<1>2. TypeOK /\ RepliesAreStored /\ [Next]_vars => RepliesAreStored'
  <2> SUFFICES ASSUME TypeOK, RepliesAreStored, [Next]_vars
               PROVE  RepliesAreStored'
    OBVIOUS
  <2>1. ASSUME NEW f \in flights, NEW accepted \in SUBSET f.batch, ServerHandles(f, accepted)
        PROVE  RepliesAreStored'
    <3> DEFINE answered == [f EXCEPT !.channel = "reply", !.reply = accepted]
    <3>1. answered.reply = accepted
      BY DEF TypeOK, Flight
    <3>. HIDE DEF answered
    <3>2. flights' = (flights \ {f}) \cup {answered} /\ stored' = stored \cup accepted
      BY <2>1 DEF ServerHandles, answered
    <3>. QED
      BY <3>1, <3>2 DEF RepliesAreStored
  <2>2. ASSUME NEW f \in flights, FlushTimeout(f)
        PROVE  RepliesAreStored'
    <3> DEFINE late == [f EXCEPT !.waiting = FALSE]
    <3>1. late.reply = f.reply
      BY DEF TypeOK, Flight
    <3>. HIDE DEF late
    <3>2. flights' \subseteq flights \cup {late} /\ stored' = stored
      BY <2>2 DEF FlushTimeout, Live, late
    <3>. QED
      BY <3>1, <3>2 DEF RepliesAreStored
  <2>3. CASE FlushFires
    <3>1. CASE UNCHANGED flights
      BY <2>3, <3>1 DEF FlushFires, RepliesAreStored
    <3>2. ASSUME NEW name \in FlushId,
                 flights' = flights \cup
                   {[name |-> name, batch |-> Ids(PeekBatch(queue, BatchSize)),
                     waiting |-> TRUE, channel |-> "request", reply |-> {}]}
          PROVE  RepliesAreStored'
      BY <2>3, <3>2 DEF FlushFires, RepliesAreStored
    <3>. QED
      BY <2>3, <3>1, <3>2 DEF FlushFires
  <2>4. CASE OnDisconnect \/ OnAccountSuspended
    <3>1. flights' = CutOff(flights) /\ stored' = stored
      BY <2>4 DEF OnDisconnect, OnAccountSuspended, Disconnect
    <3>2. \A f \in flights : [f EXCEPT !.channel = "lost"].reply = f.reply
      BY DEF TypeOK, Flight
    <3>. QED
      BY <3>1, <3>2 DEF CutOff, Live, RepliesAreStored
  <2>5. ASSUME \/ InitSocket \/ OnConnect \/ OnConnectRefused \/ OnAccountActive
               \/ SuspendedRetry \/ EmitDirect \/ EmitQueued \/ EmitOneShot
               \/ \E f \in flights : AckArrives(f)
               \/ PersistFires \/ CrashRestart \/ UNCHANGED vars
        PROVE  flights' \subseteq flights /\ stored \subseteq stored'
    BY <2>5 DEF InitSocket, OnConnect, OnConnectRefused, OnAccountActive, SuspendedRetry,
         EmitDirect, EmitQueued, EmitOneShot, AckArrives, PersistFires, CrashRestart,
         linkVars, vars
  <2>6. flights' \subseteq flights /\ stored \subseteq stored' => RepliesAreStored'
    BY DEF RepliesAreStored
  <2>. QED
    BY <2>1, <2>2, <2>3, <2>4, <2>5, <2>6 DEF Next
<1>. QED
  BY <1>1, <1>2, UplinkTyping, PTL DEF Spec

\* At least once: an item leaves the queue only when the server has it, when a
\* younger payload needs its place, or in a crash.
THEOREM UplinkRemovedOnlyWhenStored == Spec => RemovedOnlyWhenStored
<1>1. RepliesAreStored /\ [Next]_vars => [RemovesOnlyStored]_vars
  <2> SUFFICES ASSUME RepliesAreStored, Next, NEW i \in queue, i \notin queue'
               PROVE  i.id \in stored \/ EmitQueued \/ CrashRestart
    BY DEF RemovesOnlyStored
  <2>1. ASSUME NEW f \in flights, AckArrives(f)
        PROVE  i.id \in stored
    BY <2>1 DEF AckArrives, Acknowledge, RepliesAreStored
  <2>2. ASSUME \/ InitSocket \/ OnConnect \/ OnConnectRefused \/ OnDisconnect
               \/ OnAccountSuspended \/ OnAccountActive \/ SuspendedRetry \/ EmitDirect
               \/ EmitOneShot \/ FlushFires \/ PersistFires
               \/ \E f \in flights : \E accepted \in SUBSET f.batch : ServerHandles(f, accepted)
               \/ \E f \in flights : FlushTimeout(f)
        PROVE  queue' = queue
    BY <2>2 DEF InitSocket, OnConnect, OnConnectRefused, OnDisconnect, Disconnect,
         OnAccountSuspended, OnAccountActive, SuspendedRetry, EmitDirect, Bypass, EmitOneShot,
         FlushFires, PersistFires, PersistNow, PersistFails, ServerHandles, FlushTimeout, storeVars
  <2>. QED
    BY <2>1, <2>2 DEF Next
<1>. QED
  BY <1>1, UplinkRepliesAreStored, PTL DEF Spec, RemovedOnlyWhenStored

(***************************************************************************)
(* The number of flush loops.                                              *)
(***************************************************************************)

\* Only finitely many batches are ever unsettled.
FiniteFlights == IsFiniteSet(flights)

\* Cutting off a finite set of batches leaves a finite set, with no more
\* pending promises than before.
LEMMA CutOffShrinks ==
  ASSUME NEW fs \in SUBSET Flight, IsFiniteSet(fs)
  PROVE  /\ IsFiniteSet(CutOff(fs))
         /\ Cardinality(Awaited(CutOff(fs))) <= Cardinality(Awaited(fs))
<1> DEFINE cut(f) == [f EXCEPT !.channel = "lost"]
<1>1. \A f \in fs : cut(f).waiting = f.waiting
  BY DEF Flight
<1>2. IsFiniteSet({cut(f) : f \in fs})
  <2> DEFINE g == [f \in fs |-> cut(f)]
  <2>1. g \in Surjection(fs, {cut(f) : f \in fs})
    BY DEF Surjection
  <2>. QED
    BY <2>1, FS_Surjection
<1>3. IsFiniteSet(CutOff(fs))
  <2>1. CutOff(fs) \subseteq {cut(f) : f \in fs}
    BY DEF CutOff, Live
  <2>. QED
    BY <1>2, <2>1, FS_Subset
<1>4. IsFiniteSet(Awaited(fs))
  BY FS_Subset DEF Awaited
<1>5. Cardinality(Awaited(CutOff(fs))) <= Cardinality(Awaited(fs))
  <2> DEFINE h == [f \in Awaited(fs) |-> cut(f)]
             image == {cut(f) : f \in Awaited(fs)}
  <2>1. h \in Surjection(Awaited(fs), image)
    BY DEF Surjection
  <2>2. IsFiniteSet(image) /\ Cardinality(image) <= Cardinality(Awaited(fs))
    BY <1>4, <2>1, FS_Surjection
  <2>3. Awaited(CutOff(fs)) \subseteq image
    <3>1. \A f \in fs : cut(f).waiting => f \in Awaited(fs)
      BY <1>1 DEF Awaited
    <3>. QED
      BY <3>1 DEF Awaited, CutOff, Live
  <2>4. Cardinality(Awaited(CutOff(fs))) <= Cardinality(image)
    BY <2>2, <2>3, FS_Subset
  <2>5. /\ Cardinality(Awaited(CutOff(fs))) \in Nat
        /\ Cardinality(image) \in Nat
        /\ Cardinality(Awaited(fs)) \in Nat
    BY <1>4, <2>2, <2>3, FS_Subset, FS_CardinalityType
  <2>. QED
    BY <2>2, <2>4, <2>5
<1>. QED
  BY <1>3, <1>5

\* Every step keeps the set of unsettled batches finite.
LEMMA FiniteStep == TypeOK /\ FiniteFlights /\ [Next]_vars => FiniteFlights'
<1> SUFFICES ASSUME TypeOK, FiniteFlights, [Next]_vars
             PROVE  FiniteFlights'
  OBVIOUS
<1> USE DEF FiniteFlights
<1>1. CASE OnDisconnect \/ OnAccountSuspended
  BY <1>1, CutOffShrinks DEF OnDisconnect, OnAccountSuspended, Disconnect, TypeOK
<1>2. ASSUME NEW f, flights' \subseteq flights \cup {f}
      PROVE  IsFiniteSet(flights')
  BY <1>2, FS_AddElement, FS_Subset
<1>3. CASE FlushFires
  <2>1. \E f : flights' \subseteq flights \cup {f}
    BY <1>3 DEF FlushFires
  <2>. QED
    BY <1>2, <2>1
<1>4. ASSUME NEW f \in flights, NEW accepted \in SUBSET f.batch, ServerHandles(f, accepted)
      PROVE  FiniteFlights'
  <2>1. \E g : flights' \subseteq flights \cup {g}
    BY <1>4 DEF ServerHandles
  <2>. QED
    BY <1>2, <2>1
<1>5. ASSUME NEW f \in flights, FlushTimeout(f)
      PROVE  FiniteFlights'
  <2>1. \E g : flights' \subseteq flights \cup {g}
    BY <1>5 DEF FlushTimeout, Live
  <2>. QED
    BY <1>2, <2>1
<1>6. ASSUME \/ InitSocket \/ OnConnect \/ OnConnectRefused \/ OnAccountActive
             \/ SuspendedRetry \/ EmitDirect \/ EmitQueued \/ EmitOneShot
             \/ \E f \in flights : AckArrives(f)
             \/ PersistFires \/ CrashRestart \/ UNCHANGED vars
      PROVE  flights' \subseteq flights
  BY <1>6 DEF InitSocket, OnConnect, OnConnectRefused, OnAccountActive, SuspendedRetry,
       EmitDirect, EmitQueued, EmitOneShot, AckArrives, PersistFires, CrashRestart,
       linkVars, vars
<1>7. flights' \subseteq flights => FiniteFlights'
  BY FS_Subset
<1>. QED
  BY <1>1, <1>3, <1>4, <1>5, <1>6, <1>7 DEF Next

\* Settling or replacing one batch: the pending promises do not become more,
\* and they become fewer when a pending one is settled.
LEMMA SettleOne ==
  ASSUME NEW fs, IsFiniteSet(fs), NEW f \in fs, NEW gs,
         Awaited(gs) \subseteq Awaited(fs) \ {f}
  PROVE  /\ Cardinality(Awaited(gs)) \in Nat
         /\ Cardinality(Awaited(fs)) \in Nat
         /\ Cardinality(Awaited(gs)) <= Cardinality(Awaited(fs))
         /\ f.waiting => Cardinality(Awaited(gs)) + 1 <= Cardinality(Awaited(fs))
<1>1. IsFiniteSet(Awaited(fs)) /\ Cardinality(Awaited(fs)) \in Nat
  BY FS_Subset, FS_CardinalityType DEF Awaited
<1>2. /\ IsFiniteSet(Awaited(fs) \ {f})
      /\ Cardinality(Awaited(fs) \ {f}) \in Nat
      /\ Cardinality(Awaited(fs) \ {f}) = IF f \in Awaited(fs)
                                          THEN Cardinality(Awaited(fs)) - 1
                                          ELSE Cardinality(Awaited(fs))
  BY <1>1, FS_RemoveElement, FS_CardinalityType
<1>3. /\ Cardinality(Awaited(gs)) \in Nat
      /\ Cardinality(Awaited(gs)) <= Cardinality(Awaited(fs) \ {f})
  BY <1>2, FS_Subset, FS_CardinalityType
<1>4. f.waiting => f \in Awaited(fs)
  BY DEF Awaited
<1>. QED
  BY <1>1, <1>2, <1>3, <1>4

\* A set within one element of a finite set has at most one element more.
LEMMA OneMore ==
  ASSUME NEW S, IsFiniteSet(S), NEW x, NEW T, T \subseteq S \cup {x}
  PROVE  /\ Cardinality(S) \in Nat
         /\ Cardinality(T) \in Nat
         /\ Cardinality(T) <= Cardinality(S) + 1
<1> DEFINE C == S \cup {x}
<1>1. IsFiniteSet(C) /\ Cardinality(C) = IF x \in S THEN Cardinality(S) ELSE Cardinality(S) + 1
  BY FS_AddElement
<1>2. T \in SUBSET C
  OBVIOUS
<1>. HIDE DEF C
<1>3. IsFiniteSet(T) /\ Cardinality(T) <= Cardinality(C)
  BY <1>1, <1>2, FS_Subset
<1>4. Cardinality(S) \in Nat /\ Cardinality(C) \in Nat /\ Cardinality(T) \in Nat
  BY <1>1, <1>3, FS_CardinalityType
<1>. QED
  BY <1>1, <1>3, <1>4

\* One loop per connection: only 'connect' adds to the pending timer and
\* promises, so a stable connection never ends up with more of them.
THEOREM UplinkLoopsStartAtConnect == Spec => LoopsStartAtConnect
<1>1. Init => FiniteFlights
  BY FS_EmptySet DEF Init, FiniteFlights
<1>2. Spec => []FiniteFlights
  BY <1>1, FiniteStep, UplinkTyping, PTL DEF Spec
<1>3. TypeOK /\ QuietWhenOffline /\ FiniteFlights /\ [Next]_vars => [GrowsAtConnect]_vars
  <2> SUFFICES ASSUME TypeOK, QuietWhenOffline, FiniteFlights, Next, Loops' > Loops
               PROVE  ~Connected /\ Connected'
    BY DEF GrowsAtConnect
  <2> DEFINE timers  == IF flushTimer THEN 1 ELSE 0
             pending == Cardinality(Awaited(flights))
  <2>0. /\ IsFiniteSet(flights) /\ IsFiniteSet(Awaited(flights)) /\ pending \in Nat
        /\ timers \in {0, 1} /\ timers' \in {0, 1}
        /\ Loops = pending + timers /\ Loops' = pending' + timers'
    BY FS_Subset, FS_CardinalityType DEF FiniteFlights, Awaited, Loops
  <2>1. CASE OnConnect
    BY <2>1 DEF OnConnect, Connected
  <2>2. CASE OnDisconnect \/ OnAccountSuspended \/ CrashRestart
    <3>1. timers' = 0
      BY <2>2 DEF OnDisconnect, OnAccountSuspended, Disconnect, CrashRestart
    <3>2. pending' \in Nat /\ pending' <= pending
      <4>1. CASE CrashRestart
        BY <2>0, <4>1, FS_EmptySet DEF CrashRestart, Awaited
      <4>2. CASE OnDisconnect \/ OnAccountSuspended
        <5>1. flights' = CutOff(flights)
          BY <4>2 DEF OnDisconnect, OnAccountSuspended, Disconnect
        <5>2. IsFiniteSet(flights') /\ pending' <= pending
          BY <2>0, <5>1, CutOffShrinks DEF TypeOK
        <5>. QED
          BY <5>2, FS_Subset, FS_CardinalityType DEF Awaited
      <4>. QED
        BY <2>2, <4>1, <4>2
    <3>. QED
      BY <2>0, <3>1, <3>2
  <2>3. CASE FlushFires
    <3>1. timers = 1 /\ timers' = 0
      BY <2>3 DEF FlushFires
    <3>2. PICK f : Awaited(flights') \subseteq Awaited(flights) \cup {f}
      BY <2>3 DEF FlushFires, Awaited
    <3>3. pending' \in Nat /\ pending' <= pending + 1
      BY <2>0, <3>2, OneMore
    <3>. QED
      BY <2>0, <3>1, <3>3
  <2>4. ASSUME NEW f \in flights, NEW accepted \in SUBSET f.batch, ServerHandles(f, accepted)
        PROVE  FALSE
    <3> DEFINE answered == [f EXCEPT !.channel = "reply", !.reply = accepted]
    <3>1. answered.waiting = f.waiting
      BY DEF TypeOK, Flight
    <3>. HIDE DEF answered
    <3>2. flights' = (flights \ {f}) \cup {answered} /\ flushTimer' = flushTimer
      BY <2>4 DEF ServerHandles, answered
    <3>3. CASE ~f.waiting
      <4>1. Awaited(flights') \subseteq Awaited(flights) \ {f}
        BY <3>1, <3>2, <3>3 DEF Awaited
      <4>2. pending' \in Nat /\ pending' <= pending
        BY <2>0, <4>1, SettleOne
      <4>. QED
        BY <2>0, <3>2, <4>2
    <3>4. CASE f.waiting
      <4>1. Awaited(flights \ {f}) \subseteq Awaited(flights) \ {f}
        BY DEF Awaited
      <4>2. /\ Cardinality(Awaited(flights \ {f})) \in Nat
            /\ Cardinality(Awaited(flights \ {f})) + 1 <= pending
        BY <2>0, <3>4, <4>1, SettleOne
      <4>3. Awaited(flights') \subseteq Awaited(flights \ {f}) \cup {answered}
        BY <3>2 DEF Awaited
      <4>4. IsFiniteSet(Awaited(flights \ {f}))
        BY <2>0, <4>1, FS_Subset
      <4>5. pending' \in Nat /\ pending' <= Cardinality(Awaited(flights \ {f})) + 1
        BY <4>3, <4>4, OneMore
      <4>. QED
        BY <2>0, <3>2, <4>2, <4>5
    <3>. QED
      BY <3>3, <3>4
  <2>5. ASSUME NEW f \in flights, AckArrives(f) \/ FlushTimeout(f)
        PROVE  FALSE
    <3>1. Awaited(flights') \subseteq Awaited(flights) \ {f}
      <4>1. CASE AckArrives(f)
        BY <4>1 DEF AckArrives, Awaited
      <4>2. CASE FlushTimeout(f)
        <5> DEFINE late == [f EXCEPT !.waiting = FALSE]
        <5>1. ~late.waiting
          BY DEF TypeOK, Flight
        <5>. HIDE DEF late
        <5>2. flights' \subseteq (flights \ {f}) \cup {late}
          BY <4>2 DEF FlushTimeout, Live, late
        <5>. QED
          BY <5>1, <5>2 DEF Awaited
      <4>. QED
        BY <2>5, <4>1, <4>2
    <3>2. /\ pending' \in Nat /\ pending' <= pending
          /\ f.waiting => pending' + 1 <= pending
      BY <2>0, <3>1, SettleOne
    <3>3. CASE f.waiting
      BY <2>0, <3>2, <3>3
    <3>4. CASE ~f.waiting
      <4>1. timers' = timers
        BY <2>5, <3>4 DEF AckArrives, FlushTimeout
      <4>. QED
        BY <2>0, <3>2, <4>1
    <3>. QED
      BY <3>3, <3>4
  <2>6. ASSUME \/ InitSocket \/ OnConnectRefused \/ OnAccountActive \/ SuspendedRetry
               \/ EmitDirect \/ EmitQueued \/ EmitOneShot \/ PersistFires
        PROVE  FALSE
    <3>1. UNCHANGED <<flushTimer, flights>>
      BY <2>6 DEF InitSocket, OnConnectRefused, OnAccountActive, SuspendedRetry, EmitDirect,
           EmitQueued, EmitOneShot, PersistFires, linkVars
    <3>. QED
      BY <2>0, <3>1
  <2>. QED
    BY <2>1, <2>2, <2>3, <2>4, <2>5, <2>6 DEF Next
<1>. QED
  BY <1>2, <1>3, UplinkTyping, UplinkQuiet, PTL DEF Spec, LoopsStartAtConnect
=============================================================================
