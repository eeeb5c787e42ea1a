-------------------------- MODULE GitlabCollector --------------------------
(***************************************************************************)
(* app/integrations/gitlab: one project and one kind of object.  A tick    *)
(* starts a collector that fetches what was updated since a cursor, takes  *)
(* every version it has not seen, and hands the fresh ones over.           *)
(*                                                                         *)
(* The tick ends as soon as one of its collectors fails, and the others go *)
(* on: stragglers of earlier ticks share the cursor and the table of seen  *)
(* versions with the collector of the current one.  The collector here is  *)
(* that of merge requests, which waits for a second request after every    *)
(* object it takes; those of pipelines, jobs and deployments take the same *)
(* steps in one go.                                                        *)
(*                                                                         *)
(* The state file is written at the end of a tick.  A version of an object *)
(* is the time of its update.  What is fetched fits one page.              *)
(***************************************************************************)
EXTENDS Integers, FiniteSetsExt

CONSTANTS
  Object,        \* ids of the objects
  Slot,          \* bound: collectors that run at once
  MaxTime,       \* bound: the last tick of the clock
  MaxUpdates,    \* bound: updates of objects in one behaviour
  FirstWindow,   \* the hour that is looked back at first
  Overlap,       \* the minute that every fetch looks back
  Lag,           \* the longest time from an update's timestamp to its visibility
  SeenMax,       \* the 5000 entries of seenUpdated
  SeenPruned,    \* the 1000 entries deleted from it when it is full
  MaxCrashes     \* bound: crashes

ASSUME CollectorAssumption ==
  /\ Object \subseteq Nat \ {0}
  /\ MaxTime \in Nat \ {0} /\ {FirstWindow, MaxUpdates, MaxCrashes} \subseteq Nat
  /\ Lag \in Nat /\ Overlap \in Nat /\ Lag <= Overlap
  /\ SeenMax \in Nat /\ SeenPruned \in 1 .. SeenMax

None == -1

Nobody == 0

ASSUME SlotAssumption == Slot \subseteq Nat \ {Nobody}

VARIABLES
  now,
  updated,      \* GitLab: the updated_at of each object, 0 for none
  updates,      \* history: number of updates
  lastSeen,     \* state.lastSeen, or None
  seen,         \* state.seenUpdated: the version by object, 0 for no entry
  saved,        \* gitlab-state.json
  current,      \* the collector the tick waits for: running is current # Nobody
  collector,    \* the collectors by slot
  handed,       \* history: versions handed to emit.js
  pruned,       \* history: objects deleted from seenUpdated
  crashes,      \* history: number of crashes
  lost,         \* history: versions that died with a straggler, but not their entries
  horizon       \* history: a first fetch did not ask for what is older than this

stateVars == <<lastSeen, seen>>
historyVars == <<updates, handed, pruned, crashes, lost, horizon>>
vars == <<now, updated, stateVars, saved, current, collector, historyVars>>

Version == [id : Object, at : 1 .. MaxTime]

\* items is what is left of the answer.  newest starts as since, so it also says
\* what a request asks for.
Idle == [pc |-> "idle", items |-> {}, fresh |-> {}, newest |-> 0]

Collector ==
  [pc : {"idle", "fetching", "taking"}, items : SUBSET Version,
   fresh : SUBSET Version, newest : 0 .. MaxTime]

Set(slot, c) == collector' = [collector EXCEPT ![slot] = c]

-----------------------------------------------------------------------------
(* GitLab and the clock *)

Tock ==
  /\ now < MaxTime
  /\ now' = now + 1
  /\ UNCHANGED <<updated, stateVars, saved, current, collector, historyVars>>

\* The change becomes visible up to Lag after its timestamp.
Update(id) ==
  /\ updates < MaxUpdates
  /\ updates' = updates + 1
  /\ \E at \in Max({1, now - Lag}) .. now :
       /\ at > updated[id]
       /\ updated' = [updated EXCEPT ![id] = at]
  /\ UNCHANGED <<now, stateVars, saved, current, collector, handed, pruned, crashes, lost,
                 horizon>>

Answer(since) == {v \in Version : v.at = updated[v.id] /\ v.at >= since}

\* The answer is listed by time of update, ascending.
ListedBefore(v, w) == v.at < w.at \/ (v.at = w.at /\ v.id < w.id)

-----------------------------------------------------------------------------
(* A tick *)

\* Mutation: no fetch looks back beyond the cursor.
GetSinceCursor == Max({0, IF lastSeen = None THEN now - FirstWindow ELSE lastSeen})

\* Times before the first are one.
GetSince ==
  Max({0, (IF lastSeen = None THEN now - FirstWindow ELSE lastSeen) - Overlap})

FreeSlots == {s \in Slot : collector[s] = Idle}

\* running is set; the collector runs up to its first await.
StartTick ==
  /\ current = Nobody
  /\ \E slot \in FreeSlots :
       /\ \A other \in FreeSlots : slot <= other
       /\ current' = slot
       /\ Set(slot, [Idle EXCEPT !.pc = "fetching", !.newest = GetSince])
  /\ horizon' = IF lastSeen = None THEN Max({horizon, GetSince}) ELSE horizon
  /\ UNCHANGED <<now, updated, stateVars, saved, updates, handed, pruned, crashes, lost>>

\* What collectors have taken and not handed over.
Held == UNION {collector[s].fresh : s \in Slot}

\* Promise.all resolves when every collector is done and rejects when the first
\* one fails, which may be one of another kind at any time.  What the stragglers hold
\* has its entries in the file, and is not in it itself: held is history.
EndTick ==
  /\ current # Nobody
  /\ current' = Nobody
  /\ saved' = [lastSeen |-> lastSeen, seen |-> seen, held |-> Held]
  /\ UNCHANGED <<now, updated, stateVars, collector, historyVars>>

-----------------------------------------------------------------------------
(* A collector *)

Fetched(slot) ==
  LET c == collector[slot]
  IN  /\ c.pc = "fetching"
      /\ Set(slot, [c EXCEPT !.pc = "taking", !.items = Answer(c.newest)])
      /\ UNCHANGED <<now, updated, stateVars, saved, current, historyVars>>

\* A timeout or an error, which is not retried: the retry calls sleep, which
\* api.js does not define.
FetchFails(slot) ==
  /\ collector[slot].pc = "fetching"
  /\ Set(slot, Idle)
  /\ UNCHANGED <<now, updated, stateVars, saved, current, historyVars>>

\* Over the limit the entries with the smallest ids go, the new one perhaps
\* among them: integer keys are enumerated in ascending order.
Overflowing(bag) ==
  LET ids == {id \in Object : bag[id] # 0}
  IN  IF Cardinality(ids) > SeenMax
      THEN {id \in ids : Cardinality({j \in ids : j < id}) < SeenPruned}
      ELSE {}

\* Mutation: < for <=.
AcceptedAgain(v) == v.at >= seen[v.id]

\* acceptIfUpdated says yes
Accepted(v) == v.at > seen[v.id]

\* Mutation: break for continue at an object that was seen.
TakeUntilSeen(slot) ==
  LET c == collector[slot]
  IN  /\ c.pc = "taking"
      /\ \E v \in c.items :
           /\ \A w \in c.items : ~ListedBefore(w, v)
           /\ IF Accepted(v)
              THEN /\ seen' = [seen EXCEPT ![v.id] = v.at]
                   /\ Set(slot, [c EXCEPT !.items = @ \ {v}, !.fresh = @ \cup {v},
                                          !.newest = Max({@, v.at})])
              ELSE /\ Set(slot, [c EXCEPT !.items = {}])
                   /\ UNCHANGED seen
      /\ UNCHANGED <<now, updated, lastSeen, saved, current, historyVars>>

Take(slot, v) ==
  LET c == collector[slot]
      bag == [seen EXCEPT ![v.id] = v.at]
  IN  /\ seen' = [id \in Object |-> IF id \in Overflowing(bag) THEN 0 ELSE bag[id]]
      /\ pruned' = pruned \cup Overflowing(bag)
      /\ Set(slot, [c EXCEPT !.items = @ \ {v}, !.fresh = @ \cup {v},
                             !.newest = Max({@, v.at})])

PassOver(slot, v) ==
  /\ Set(slot, [collector[slot] EXCEPT !.items = @ \ {v}])
  /\ UNCHANGED <<seen, pruned>>

\* One turn of the loop: the entry is made before the loop waits again.
TakeItem(slot) ==
  LET c == collector[slot]
  IN  /\ c.pc = "taking"
      /\ \E v \in c.items :
           /\ \A w \in c.items : ~ListedBefore(w, v)
           /\ IF Accepted(v) THEN Take(slot, v) ELSE PassOver(slot, v)
      /\ UNCHANGED <<now, updated, lastSeen, saved, current, updates, handed, crashes, lost,
                     horizon>>

\* The end of the collector.  Without anything fresh newest is still since, and
\* the cursor moves back.
Finish(slot) ==
  LET c == collector[slot]
  IN  /\ c.pc = "taking"
      /\ c.items = {}
      /\ handed' = handed \cup c.fresh
      /\ lastSeen' = c.newest
      /\ Set(slot, Idle)
      /\ UNCHANGED <<now, updated, seen, saved, current, updates, pruned, crashes, lost, horizon>>

-----------------------------------------------------------------------------
NoEntries == [id \in Object |-> 0]

\* The agent dies and is started again, with the file or, if it was cut off,
\* without.
Restart ==
  /\ crashes < MaxCrashes
  /\ crashes' = crashes + 1
  /\ \/ /\ lastSeen' = saved.lastSeen
        /\ seen' = saved.seen
        /\ lost' = lost \cup (saved.held \ handed)
     \/ /\ lastSeen' = None
        /\ seen' = NoEntries
        /\ UNCHANGED lost
  /\ current' = Nobody
  /\ collector' = [s \in Slot |-> Idle]
  /\ pruned' = Object
  /\ UNCHANGED <<now, updated, saved, updates, handed, horizon>>

Init ==
  /\ now = 1
  /\ updated = NoEntries
  /\ updates = 0
  /\ lastSeen = None
  /\ seen = NoEntries
  /\ saved = [lastSeen |-> None, seen |-> NoEntries, held |-> {}]
  /\ current = Nobody
  /\ collector = [s \in Slot |-> Idle]
  /\ handed = {}
  /\ pruned = {}
  /\ crashes = 0
  /\ lost = {}
  /\ horizon = 0

Next ==
  \/ Tock
  \/ \E id \in Object : Update(id)
  \/ StartTick
  \/ EndTick
  \/ \E slot \in Slot : Fetched(slot) \/ FetchFails(slot) \/ TakeItem(slot) \/ Finish(slot)
  \/ Restart

Spec == Init /\ [][Next]_vars

\* setInterval fires, every request ends in time, and GitLab answers now and then.
Fairness ==
  /\ WF_vars(StartTick)
  /\ WF_vars(EndTick)
  /\ \A slot \in Slot :
       /\ SF_vars(Fetched(slot))
       /\ WF_vars(TakeItem(slot))
       /\ WF_vars(Finish(slot))

LiveSpec == Spec /\ Fairness

-----------------------------------------------------------------------------
(* Properties *)

\* Times are of the clock, entries of existing objects, a collector is in one of its steps.
TypeOK ==
  /\ now \in 1 .. MaxTime
  /\ updated \in [Object -> 0 .. MaxTime]
  /\ lastSeen \in {None} \cup 0 .. MaxTime
  /\ seen \in [Object -> 0 .. MaxTime]
  /\ saved \in [lastSeen : {None} \cup 0 .. MaxTime, seen : [Object -> 0 .. MaxTime],
                held : SUBSET Version]
  /\ current \in Slot \cup {Nobody}
  /\ collector \in [Slot -> Collector]
  /\ handed \subseteq Version
  /\ pruned \subseteq Object
  /\ crashes \in 0 .. MaxCrashes
  /\ lost \subseteq Version
  /\ horizon \in 0 .. MaxTime

\* The last version of an object, unless a first fetch looked back less far.
Due(v) == v.at = updated[v.id] /\ v.at >= horizon

\* The next fetch sees every version that was not yet handed over, or held by
\* a collector that is on its way to do so, whatever stragglers do to the cursor
\* and however old the state file is; unless it is older than what a first fetch
\* looks back to, or a straggler held it when the file was written and had not handed
\* it over when the agent died: those alone are lost.
CursorNeverSkips ==
  lastSeen # None =>
    \A v \in Version : Due(v) => v \in handed \cup Held \cup lost \/ v.at >= GetSince

\* No version is taken by two collectors, or again after it was handed over,
\* though each may have fetched it; unless its entry was pruned, or lost with
\* the process.
TakenOnce ==
  \A s \in Slot : \A v \in collector[s].fresh :
    v.id \notin pruned => /\ v \notin handed
                          /\ \A other \in Slot \ {s} : v \notin collector[other].fresh

\* When GitLab falls silent, every update has been handed over, or died with a
\* straggler whose entries were saved: failed fetches, ticks that end early and
\* stragglers that live delay it and no more.
EveryUpdateHanded ==
  <>[](\A v \in Version : Due(v) => v \in handed \cup lost)
=============================================================================
