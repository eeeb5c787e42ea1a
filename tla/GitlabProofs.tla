---------------------------- MODULE GitlabProofs ----------------------------
(***************************************************************************)
(* The cursor and the table of the GitLab collectors, for any number of    *)
(* objects and of collectors that run at once, any delay that the overlap  *)
(* covers, and any number of crashes.                                      *)
(***************************************************************************)
EXTENDS GitlabCollector, TLAPS

-----------------------------------------------------------------------------
(* Types *)

\* The larger of two integers is one of them.
LEMMA MaxOfTwo ==
  ASSUME NEW a \in Int, NEW b \in Int
  PROVE  Max({a, b}) = IF a >= b THEN a ELSE b
  BY DEF Max

\* A request asks for a time of the clock's range.
LEMMA GetSinceType ==
  ASSUME TypeOK
  PROVE  /\ GetSince \in 0 .. MaxTime
         /\ lastSeen # None => GetSince = IF lastSeen >= Overlap THEN lastSeen - Overlap ELSE 0
         /\ lastSeen = None => (GetSince = 0 \/ GetSince <= now - Overlap)
<1> DEFINE t == (IF lastSeen = None THEN now - FirstWindow ELSE lastSeen) - Overlap
<1>1. /\ now \in Nat /\ now <= MaxTime /\ Overlap \in Nat /\ FirstWindow \in Nat /\ MaxTime \in Nat
      /\ lastSeen # None => lastSeen \in Nat /\ lastSeen <= MaxTime
  BY CollectorAssumption DEF TypeOK
<1>2. t \in Int /\ t <= MaxTime
  BY <1>1
<1>3. GetSince = IF 0 >= t THEN 0 ELSE t
  BY <1>2, MaxOfTwo DEF GetSince
<1>. QED
  BY <1>1, <1>2, <1>3

\* The program starts in a state of its types.
LEMMA TypeInit == Init => TypeOK
<1>. SUFFICES ASSUME Init PROVE TypeOK
  OBVIOUS
<1>1. MaxTime \in Nat \ {0} /\ MaxCrashes \in Nat
  BY CollectorAssumption
<1>2. Idle \in Collector
  BY <1>1 DEF Idle, Collector
<1>3. NoEntries \in [Object -> 0 .. MaxTime]
  BY <1>1 DEF NoEntries
<1>4. collector \in [Slot -> Collector]
  BY <1>2 DEF Init
<1>5. saved \in [lastSeen : {None} \cup 0 .. MaxTime, seen : [Object -> 0 .. MaxTime],
                held : SUBSET Version]
  BY <1>3 DEF Init
<1>6. handed \subseteq Version /\ pruned \subseteq Object
  BY DEF Init
<1>7. updated \in [Object -> 0 .. MaxTime] /\ seen \in [Object -> 0 .. MaxTime]
  BY <1>3 DEF Init
<1>8. now \in 1 .. MaxTime /\ crashes \in 0 .. MaxCrashes /\ horizon \in 0 .. MaxTime
  BY <1>1 DEF Init
<1>9. lastSeen \in {None} \cup 0 .. MaxTime /\ current \in Slot \cup {Nobody}
      /\ lost \subseteq Version
  BY DEF Init
<1>. QED
  BY <1>3, <1>4, <1>5, <1>6, <1>7, <1>8, <1>9 DEF TypeOK

\* A collector that has changed in its slot is still one of the collectors.
LEMMA SetType ==
  ASSUME collector \in [Slot -> Collector], NEW slot \in Slot, NEW c \in Collector, Set(slot, c)
  PROVE  /\ collector' \in [Slot -> Collector]
         /\ collector'[slot] = c
         /\ \A s \in Slot \ {slot} : collector'[s] = collector[s]
  BY DEF Set

\* What a collector does to an item that it accepts, for the proofs below.
LEMMA TakeType ==
  ASSUME TypeOK, NEW slot \in Slot, NEW v \in collector[slot].items, Accepted(v), Take(slot, v),
         collector[slot].pc = "taking"
  PROVE  /\ v \in Version
         /\ seen' \in [Object -> 0 .. MaxTime]
         /\ pruned \subseteq pruned' /\ pruned' \subseteq Object
         /\ \A id \in Object : \/ seen'[id] = (IF id = v.id THEN v.at ELSE seen[id])
                               \/ seen'[id] = 0 /\ id \in pruned'
         /\ collector' \in [Slot -> Collector]
         /\ \A s \in Slot \ {slot} : collector'[s] = collector[s]
         /\ collector'[slot].pc = "taking"
         /\ collector'[slot].items = collector[slot].items \ {v}
         /\ collector'[slot].fresh = collector[slot].fresh \cup {v}
         /\ collector'[slot].newest
              = IF collector[slot].newest >= v.at THEN collector[slot].newest ELSE v.at
<1> DEFINE c == collector[slot]
           bag == [seen EXCEPT ![v.id] = v.at]
           newest == Max({c.newest, v.at})
           d == [c EXCEPT !.items = @ \ {v}, !.fresh = @ \cup {v}, !.newest = newest]
<1>1. c \in Collector /\ v \in Version
  BY DEF TypeOK, Collector
<1>2. v.id \in Object /\ v.at \in 1 .. MaxTime /\ c.newest \in 0 .. MaxTime /\ MaxTime \in Nat
  BY <1>1, CollectorAssumption DEF Version, Collector
<1>3. newest = (IF c.newest >= v.at THEN c.newest ELSE v.at) /\ newest \in 0 .. MaxTime
  BY <1>2, MaxOfTwo
<1>4. bag \in [Object -> 0 .. MaxTime]
  BY <1>2 DEF TypeOK
<1>5. Overflowing(bag) \subseteq Object
  BY DEF Overflowing
<1>6. /\ seen' = [id \in Object |-> IF id \in Overflowing(bag) THEN 0 ELSE bag[id]]
      /\ pruned' = pruned \cup Overflowing(bag)
      /\ Set(slot, d)
  BY DEF Take
<1>7. /\ d \in Collector /\ d.pc = "taking" /\ d.items = c.items \ {v}
      /\ d.fresh = c.fresh \cup {v} /\ d.newest = newest
  <2>. HIDE DEF newest
  <2>. QED
    BY <1>1, <1>3 DEF Collector
<1>8. /\ collector' \in [Slot -> Collector]
      /\ collector'[slot] = d
      /\ \A s \in Slot \ {slot} : collector'[s] = collector[s]
  <2>1. collector \in [Slot -> Collector]
    BY DEF TypeOK
  <2>. HIDE DEF d
  <2>. QED
    BY <1>6, <1>7, <2>1, SetType
<1>9. /\ seen' \in [Object -> 0 .. MaxTime]
      /\ \A id \in Object : \/ seen'[id] = (IF id = v.id THEN v.at ELSE seen[id])
                            \/ seen'[id] = 0 /\ id \in pruned'
  <2>1. \A id \in Object : bag[id] = IF id = v.id THEN v.at ELSE seen[id]
    BY DEF TypeOK
  <2>. HIDE DEF bag
  <2>. QED
    BY <1>2, <1>4, <1>6, <2>1
<1>. QED
  BY <1>1, <1>3, <1>5, <1>6, <1>7, <1>8, <1>9 DEF TypeOK

\* And to one that it has seen.
LEMMA PassOverType ==
  ASSUME TypeOK, NEW slot \in Slot, NEW v \in collector[slot].items, PassOver(slot, v),
         collector[slot].pc = "taking"
  PROVE  /\ v \in Version
         /\ UNCHANGED <<seen, pruned>>
         /\ collector' \in [Slot -> Collector]
         /\ \A s \in Slot \ {slot} : collector'[s] = collector[s]
         /\ collector'[slot].pc = "taking"
         /\ collector'[slot].items = collector[slot].items \ {v}
         /\ collector'[slot].fresh = collector[slot].fresh
         /\ collector'[slot].newest = collector[slot].newest
<1> DEFINE c == collector[slot]
           d == [c EXCEPT !.items = @ \ {v}]
<1>1. c \in Collector /\ v \in Version
  BY DEF TypeOK, Collector
<1>2. /\ d \in Collector /\ d.pc = "taking" /\ d.items = c.items \ {v}
      /\ d.fresh = c.fresh /\ d.newest = c.newest
  BY <1>1 DEF Collector
<1>3. Set(slot, d) /\ UNCHANGED <<seen, pruned>>
  BY DEF PassOver
<1>4. /\ collector' \in [Slot -> Collector]
      /\ collector'[slot] = d
      /\ \A s \in Slot \ {slot} : collector'[s] = collector[s]
  <2>1. collector \in [Slot -> Collector]
    BY DEF TypeOK
  <2>. HIDE DEF d
  <2>. QED
    BY <1>2, <1>3, <2>1, SetType
<1>. QED
  BY <1>1, <1>2, <1>3, <1>4

\* Every action keeps the types.
LEMMA TypeStep ==
  ASSUME TypeOK, [Next]_vars
  PROVE  TypeOK'
<1>0. /\ MaxTime \in Nat \ {0} /\ MaxCrashes \in Nat /\ None = -1
      /\ \A s \in Slot : collector[s] \in Collector
  BY CollectorAssumption DEF TypeOK, None
<1>1. Idle \in Collector
  BY <1>0 DEF Idle, Collector
<1>2. CASE Tock
  BY <1>0, <1>2 DEF Tock, TypeOK, stateVars, historyVars, Version
<1>3. ASSUME NEW id \in Object, Update(id) PROVE TypeOK'
  <2>1. PICK at \in Max({1, now - Lag}) .. now : updated' = [updated EXCEPT ![id] = at]
    BY <1>3 DEF Update
  <2>2. at \in 0 .. MaxTime
    <3>1. 1 \in Int /\ now - Lag \in Int /\ now \in 1 .. MaxTime
      BY <1>0, CollectorAssumption DEF TypeOK
    <3>2. Max({1, now - Lag}) \in Int /\ Max({1, now - Lag}) >= 1
      BY <3>1, MaxOfTwo
    <3>. QED
      BY <1>0, <2>1, <3>1, <3>2
  <2>3. updated' \in [Object -> 0 .. MaxTime]
    BY <2>1, <2>2 DEF TypeOK
  <2>4. UNCHANGED <<now, stateVars, saved, current, collector, handed, pruned, crashes, lost,
                   horizon>>
    BY <1>3 DEF Update
  <2>. QED
    BY <2>3, <2>4 DEF TypeOK, stateVars, historyVars, Version
<1>4. CASE StartTick
  <2>1. GetSince \in 0 .. MaxTime
    BY GetSinceType
  <2>2. PICK slot \in FreeSlots :
          current' = slot /\ Set(slot, [Idle EXCEPT !.pc = "fetching", !.newest = GetSince])
    BY <1>4 DEF StartTick
  <2>3. slot \in Slot
    BY <2>2 DEF FreeSlots
  <2>4. [Idle EXCEPT !.pc = "fetching", !.newest = GetSince] \in Collector
    BY <1>1, <2>1 DEF Collector
  <2>5. collector' \in [Slot -> Collector]
    <3>1. collector \in [Slot -> Collector]
      BY DEF TypeOK
    <3>. QED
      BY <2>2, <2>3, <2>4, <3>1, SetType
  <2>6. horizon' \in 0 .. MaxTime
    <3>1. horizon \in 0 .. MaxTime /\ Max({horizon, GetSince}) \in 0 .. MaxTime
      BY <1>0, <2>1, MaxOfTwo DEF TypeOK
    <3>. QED
      BY <1>4, <3>1 DEF StartTick
  <2>7. UNCHANGED <<now, updated, stateVars, saved, handed, pruned, crashes, lost>>
    BY <1>4 DEF StartTick
  <2>. QED
    BY <2>2, <2>3, <2>5, <2>6, <2>7 DEF TypeOK, stateVars, Version
<1>5. CASE EndTick
  <2>1. saved' \in [lastSeen : {None} \cup 0 .. MaxTime, seen : [Object -> 0 .. MaxTime],
                    held : SUBSET Version]
    <3>1. Held \subseteq Version
      BY <1>0 DEF Held, Collector
    <3>. QED
      BY <1>5, <3>1 DEF EndTick, TypeOK
  <2>2. current' = Nobody /\ UNCHANGED <<now, updated, stateVars, collector, historyVars>>
    BY <1>5 DEF EndTick
  <2>. QED
    BY <2>1, <2>2 DEF TypeOK, stateVars, historyVars, Version
<1>6. ASSUME NEW slot \in Slot, Fetched(slot) PROVE TypeOK'
  <2> DEFINE c == collector[slot]
             d == [c EXCEPT !.pc = "taking", !.items = Answer(c.newest)]
  <2>1. Set(slot, d) /\ UNCHANGED <<now, updated, stateVars, saved, current, historyVars>>
    BY <1>6 DEF Fetched
  <2>2. d \in Collector
    <3>1. Answer(c.newest) \subseteq Version
      BY DEF Answer
    <3>. QED
      BY <1>0, <3>1 DEF Collector
  <2>3. collector \in [Slot -> Collector]
    BY DEF TypeOK
  <2>4. collector' \in [Slot -> Collector]
    <3>. HIDE DEF d
    <3>. QED
      BY <2>1, <2>2, <2>3, SetType
  <2>. QED
    BY <2>1, <2>4 DEF TypeOK, stateVars, historyVars, Version
<1>7. ASSUME NEW slot \in Slot, FetchFails(slot) PROVE TypeOK'
  <2>1. Set(slot, Idle) /\ UNCHANGED <<now, updated, stateVars, saved, current, historyVars>>
    BY <1>7 DEF FetchFails
  <2>2. collector' \in [Slot -> Collector]
    BY <1>1, <2>1, SetType DEF TypeOK
  <2>. QED
    BY <2>1, <2>2 DEF TypeOK, stateVars, historyVars, Version
<1>8. ASSUME NEW slot \in Slot, TakeItem(slot) PROVE TypeOK'
  <2>1. /\ collector[slot].pc = "taking"
        /\ UNCHANGED <<now, updated, lastSeen, saved, current, handed, crashes, lost, horizon>>
    BY <1>8 DEF TakeItem
  <2>2. PICK v \in collector[slot].items : IF Accepted(v) THEN Take(slot, v) ELSE PassOver(slot, v)
    BY <1>8 DEF TakeItem
  <2>3. /\ seen' \in [Object -> 0 .. MaxTime]
        /\ collector' \in [Slot -> Collector]
        /\ pruned' \subseteq Object
    <3>1. CASE Accepted(v)
      <4>1. Take(slot, v)
        BY <2>2, <3>1
      <4>. QED
        BY <2>1, <3>1, <4>1, TakeType
    <3>2. CASE ~Accepted(v)
      <4>1. PassOver(slot, v)
        BY <2>2, <3>2
      <4>2. collector' \in [Slot -> Collector] /\ UNCHANGED <<seen, pruned>>
        BY <2>1, <4>1, PassOverType
      <4>. QED
        BY <4>2 DEF TypeOK
    <3>. QED
      BY <3>1, <3>2
  <2>. QED
    BY <2>1, <2>3 DEF TypeOK, Version
<1>9. ASSUME NEW slot \in Slot, Finish(slot) PROVE TypeOK'
  <2>1. /\ Set(slot, Idle)
        /\ handed' = handed \cup collector[slot].fresh
        /\ lastSeen' = collector[slot].newest
        /\ UNCHANGED <<now, updated, seen, saved, current, pruned, crashes, lost, horizon>>
    BY <1>9 DEF Finish
  <2>2. collector' \in [Slot -> Collector]
    BY <1>1, <2>1, SetType DEF TypeOK
  <2>3. collector[slot].fresh \subseteq Version /\ collector[slot].newest \in 0 .. MaxTime
    BY <1>0 DEF Collector
  <2>. QED
    BY <2>1, <2>2, <2>3 DEF TypeOK, Version
<1>10. CASE Restart
  <2>1. saved.lastSeen \in {None} \cup 0 .. MaxTime /\ saved.seen \in [Object -> 0 .. MaxTime]
        /\ saved.held \subseteq Version /\ lost \subseteq Version
    BY DEF TypeOK
  <2>2. NoEntries \in [Object -> 0 .. MaxTime]
    BY <1>0 DEF NoEntries
  <2>3. collector' \in [Slot -> Collector] /\ current' = Nobody /\ pruned' = Object
        /\ crashes' \in 0 .. MaxCrashes
    <3>1. collector' = [s \in Slot |-> Idle] /\ current' = Nobody /\ pruned' = Object
          /\ crashes < MaxCrashes /\ crashes' = crashes + 1 /\ crashes \in 0 .. MaxCrashes
      BY <1>10 DEF Restart, TypeOK
    <3>. QED
      BY <1>0, <1>1, <3>1
  <2>4. lastSeen' \in {None} \cup 0 .. MaxTime /\ seen' \in [Object -> 0 .. MaxTime]
        /\ lost' \subseteq Version
    BY <1>10, <2>1, <2>2 DEF Restart, TypeOK
  <2>5. UNCHANGED <<now, updated, saved, handed, horizon>>
    BY <1>10 DEF Restart
  <2>. QED
    BY <2>3, <2>4, <2>5 DEF TypeOK, Version
<1>11. CASE UNCHANGED vars
  BY <1>11 DEF TypeOK, vars, stateVars, historyVars, Version
<1>. QED
  BY <1>2, <1>3, <1>4, <1>5, <1>6, <1>7, <1>8, <1>9, <1>10, <1>11 DEF Next

\* The types hold in every state.
THEOREM GitlabTypes == Spec => []TypeOK
<1>. QED
  BY TypeInit, TypeStep, PTL DEF Spec

-----------------------------------------------------------------------------
(* No version is taken twice *)

\* The table knows what was taken, but for entries that were pruned: with this, a
\* version that is accepted was neither handed over nor is it held.
TakenInv ==
  /\ \A v \in Version : v \in handed \cup Held /\ v.id \notin pruned => v.at <= seen[v.id]
  /\ TakenOnce

\* Nothing but the actions of a collector, and a restart, disturbs it.
LEMMA TakenStep ==
  ASSUME TypeOK, TypeOK', TakenInv, [Next]_vars
  PROVE  TakenInv'
<1>0. \A s \in Slot : collector[s].fresh \subseteq Version
  BY DEF TypeOK, Collector
<1>1. ASSUME UNCHANGED <<seen, handed, pruned>>,
             \A s \in Slot : collector'[s].fresh \subseteq collector[s].fresh
      PROVE  TakenInv'
  <2>1. Held' \subseteq Held /\ Version' = Version
    BY <1>1 DEF Held, Version
  <2>. QED
    BY <1>1, <2>1 DEF TakenInv, TakenOnce
<1>2. CASE Tock \/ EndTick \/ UNCHANGED vars \/ \E id \in Object : Update(id)
  <2>1. UNCHANGED <<seen, handed, pruned, collector>>
    BY <1>2 DEF Tock, EndTick, Update, vars, stateVars, historyVars
  <2>. QED
    BY <1>1, <2>1
<1>3. ASSUME NEW slot \in Slot, NEW c, Set(slot, c), c.fresh \subseteq collector[slot].fresh,
             UNCHANGED <<seen, handed, pruned>>
      PROVE  TakenInv'
  <2>1. \A s \in Slot : collector'[s] = IF s = slot THEN c ELSE collector[s]
    BY <1>3 DEF Set, TypeOK
  <2>2. \A s \in Slot : collector'[s].fresh \subseteq collector[s].fresh
    BY <1>3, <2>1
  <2>. QED
    BY <1>1, <1>3, <2>2
<1>4. CASE StartTick
  <2>1. PICK slot \in FreeSlots :
          Set(slot, [Idle EXCEPT !.pc = "fetching", !.newest = GetSince])
    BY <1>4 DEF StartTick
  <2>2. slot \in Slot /\ [Idle EXCEPT !.pc = "fetching", !.newest = GetSince].fresh = {}
    BY <2>1 DEF FreeSlots, Idle
  <2>. QED
    BY <1>3, <1>4, <2>1, <2>2 DEF StartTick, stateVars
<1>5. ASSUME NEW slot \in Slot, Fetched(slot) PROVE TakenInv'
  <2> DEFINE d == [collector[slot] EXCEPT !.pc = "taking", !.items = Answer(collector[slot].newest)]
  <2>1. Set(slot, d) /\ d.fresh = collector[slot].fresh
    BY <1>5 DEF Fetched, TypeOK, Collector
  <2>. QED
    BY <1>3, <1>5, <2>1 DEF Fetched, stateVars, historyVars
<1>6. ASSUME NEW slot \in Slot, FetchFails(slot) PROVE TakenInv'
  <2>1. Set(slot, Idle) /\ Idle.fresh = {}
    BY <1>6 DEF FetchFails, Idle
  <2>. QED
    BY <1>3, <1>6, <2>1 DEF FetchFails, stateVars, historyVars
<1>7. ASSUME NEW slot \in Slot, TakeItem(slot) PROVE TakenInv'
  <2>1. collector[slot].pc = "taking" /\ handed' = handed
    BY <1>7 DEF TakeItem
  <2>2. PICK v \in collector[slot].items : IF Accepted(v) THEN Take(slot, v) ELSE PassOver(slot, v)
    BY <1>7 DEF TakeItem
  <2>3. CASE ~Accepted(v)
    <3>1. PassOver(slot, v)
      BY <2>2, <2>3
    <3>2. /\ UNCHANGED <<seen, pruned>>
          /\ \A s \in Slot \ {slot} : collector'[s] = collector[s]
          /\ collector'[slot].fresh = collector[slot].fresh
      BY <2>1, <3>1, PassOverType
    <3>. QED
      BY <1>1, <2>1, <3>2
  <2>4. CASE Accepted(v)
    <3>1. Take(slot, v)
      BY <2>2, <2>4
    <3>2. /\ v \in Version
          /\ pruned \subseteq pruned'
          /\ \A id \in Object : \/ seen'[id] = (IF id = v.id THEN v.at ELSE seen[id])
                                \/ seen'[id] = 0 /\ id \in pruned'
          /\ \A s \in Slot \ {slot} : collector'[s] = collector[s]
          /\ collector'[slot].fresh = collector[slot].fresh \cup {v}
      BY <2>1, <2>4, <3>1, TakeType
    <3>3. /\ v.at > seen[v.id] /\ v.id \in Object /\ v.at \in Nat
          /\ \A id \in Object : seen[id] \in Nat
          /\ \A w \in Version : w.id \in Object /\ w.at \in Nat
      BY <2>4, <3>2 DEF Accepted, TypeOK, Version
    <3>4. v.id \notin pruned => v \notin handed \cup Held
      BY <3>2, <3>3 DEF TakenInv
    <3>5. \A w : w \in Held' <=> w \in Held \/ w = v
      BY <3>2 DEF Held
    <3>6. ASSUME NEW w \in Version, w \in handed' \cup Held', w.id \notin pruned'
          PROVE  w.at <= seen'[w.id]
      <4>1. seen'[w.id] = (IF w.id = v.id THEN v.at ELSE seen[w.id]) /\ w.id \notin pruned
        BY <3>2, <3>3, <3>6
      <4>2. CASE w = v
        BY <3>3, <4>1, <4>2
      <4>3. CASE w # v
        <5>1. w.at <= seen[w.id]
          BY <2>1, <3>5, <3>6, <4>1, <4>3 DEF TakenInv
        <5>. QED
          BY <3>3, <4>1, <5>1
      <4>. QED
        BY <4>2, <4>3
    <3>7. ASSUME NEW s \in Slot, NEW w \in collector'[s].fresh, w.id \notin pruned'
          PROVE  /\ w \notin handed'
                 /\ \A other \in Slot \ {s} : w \notin collector'[other].fresh
      <4>1. w.id \notin pruned
        BY <3>2, <3>7
      <4>2. CASE w = v
        <5>1. v \notin handed /\ \A other \in Slot : v \notin collector[other].fresh
          BY <3>4, <4>1, <4>2 DEF Held
        <5>2. s = slot
          BY <3>2, <3>7, <4>2, <5>1
        <5>. QED
          BY <2>1, <3>2, <4>2, <5>1, <5>2
      <4>3. CASE w # v
        <5>1. \A t \in Slot : w \in collector'[t].fresh <=> w \in collector[t].fresh
          BY <3>2, <4>3
        <5>2. w \notin handed /\ \A other \in Slot \ {s} : w \notin collector[other].fresh
          BY <3>7, <4>1, <5>1 DEF TakenInv, TakenOnce
        <5>. QED
          BY <2>1, <5>1, <5>2
      <4>. QED
        BY <4>2, <4>3
    <3>. QED
      BY <3>6, <3>7 DEF TakenInv, TakenOnce, Version
  <2>. QED
    BY <2>3, <2>4
<1>8. ASSUME NEW slot \in Slot, Finish(slot) PROVE TakenInv'
  <2>1. Set(slot, Idle) /\ handed' = handed \cup collector[slot].fresh /\ UNCHANGED <<seen, pruned>>
    BY <1>8 DEF Finish
  <2>2. \A s \in Slot : collector'[s].fresh = IF s = slot THEN {} ELSE collector[s].fresh
    BY <2>1 DEF Set, TypeOK, Idle
  <2>3. handed' \cup Held' \subseteq handed \cup Held
    BY <2>1, <2>2 DEF Held
  <2>4. ASSUME NEW s \in Slot, NEW w \in collector'[s].fresh, w.id \notin pruned
        PROVE  /\ w \notin handed'
               /\ \A other \in Slot \ {s} : w \notin collector'[other].fresh
    <3>1. s # slot /\ w \in collector[s].fresh
      BY <2>2
    <3>2. w \notin handed /\ \A other \in Slot \ {s} : w \notin collector[other].fresh
      BY <2>4, <3>1 DEF TakenInv, TakenOnce
    <3>. QED
      BY <2>1, <2>2, <3>1, <3>2
  <2>. QED
    BY <2>1, <2>3, <2>4 DEF TakenInv, TakenOnce, Version
<1>9. CASE Restart
  <2>1. pruned' = Object /\ \A s \in Slot : collector'[s].fresh = {}
    BY <1>9 DEF Restart, Idle
  <2>. QED
    BY <2>1 DEF TakenInv, TakenOnce, Version
<1>. QED
  BY <1>2, <1>4, <1>5, <1>6, <1>7, <1>8, <1>9 DEF Next

\* acceptIfUpdated and its table: whatever collectors run at once and whatever their
\* requests answer, a version whose entry was kept is taken by one of them, once.
THEOREM VersionsTakenOnce == Spec => []TakenOnce
<1>1. Init => TakenInv
  <2>. SUFFICES ASSUME Init PROVE TakenInv
    OBVIOUS
  <2>1. handed = {} /\ \A s \in Slot : collector[s].fresh = {}
    BY DEF Init, Idle
  <2>. QED
    BY <2>1 DEF TakenInv, TakenOnce, Held
<1>2. TypeOK /\ TypeOK' /\ TakenInv /\ [Next]_vars => TakenInv'
  BY TakenStep
<1>3. TakenInv => TakenOnce
  BY DEF TakenInv
<1>. QED
  BY <1>1, <1>2, <1>3, GitlabTypes, PTL DEF Spec

-----------------------------------------------------------------------------
(* The cursor *)

Known(v) == v \in handed \cup Held \cup lost

\* No cursor, entry or item is ahead of the clock or of GitLab, and a request asks for
\* what the longest delay reaches back to.
Timely ==
  /\ \A id \in Object :
       updated[id] <= now /\ seen[id] <= updated[id] /\ saved.seen[id] <= updated[id]
  /\ lastSeen <= now /\ saved.lastSeen <= now
  /\ \A s \in Slot :
       /\ collector[s].newest <= now
       /\ collector[s].pc = "fetching" => \/ collector[s].newest = 0
                                          \/ collector[s].newest <= now - Overlap
       /\ collector[s].pc # "taking" => collector[s].items = {} /\ collector[s].fresh = {}
       /\ \A v \in collector[s].items : v.at <= updated[v.id]

\* The overlap of the next fetch reaches what was not yet taken.
CursorReaches ==
  lastSeen # None =>
    \A v \in Version : Due(v) => Known(v) \/ v.at >= lastSeen - Overlap

\* The last version of an object has an entry only if it was taken.
TableKnows == \A v \in Version : v.at = updated[v.id] /\ seen[v.id] >= v.at => Known(v)

\* So does that of a collector, wherever it is in its answer when it moves the cursor.
Reaches(s) ==
  /\ collector[s].pc = "fetching" =>
       \A v \in Version : Due(v) => Known(v) \/ v.at >= collector[s].newest
  /\ collector[s].pc = "taking" =>
       \A v \in Version \ collector[s].items :
         Due(v) => \/ Known(v)
                   \/ /\ v.at >= collector[s].newest - Overlap
                      /\ \A u \in collector[s].items : v.at >= u.at - Overlap

\* The file is as good as the memory when it was written, but for what stragglers held.
FileReaches ==
  /\ saved.lastSeen # None =>
       \A v \in Version : Due(v) => \/ v \in handed \cup saved.held \cup lost
                                   \/ v.at >= saved.lastSeen - Overlap
  /\ \A v \in Version :
       v.at = updated[v.id] /\ saved.seen[v.id] >= v.at => v \in handed \cup saved.held \cup lost

CursorInv ==
  /\ Timely /\ CursorReaches /\ TableKnows /\ FileReaches
  /\ \A s \in Slot : Reaches(s)

\* The numbers among the variables, for the leaves that do arithmetic.
LEMMA Numbers ==
  ASSUME TypeOK
  PROVE  /\ now \in Nat /\ horizon \in Int /\ lastSeen \in Int /\ saved.lastSeen \in Int
         /\ now >= 1 /\ now <= MaxTime /\ MaxTime \in Nat /\ None = -1
         /\ Overlap \in Nat /\ Lag \in Nat /\ Lag <= Overlap
         /\ \A id \in Object : updated[id] \in Int /\ seen[id] \in Int /\ saved.seen[id] \in Int
         /\ \A s \in Slot : /\ collector[s].newest \in Nat
                            /\ collector[s].pc \in {"idle", "fetching", "taking"}
                            /\ collector[s].items \subseteq Version
                            /\ collector[s].fresh \subseteq Version
         /\ \A v \in Version : v.id \in Object /\ v.at \in Int /\ v.at >= 1
<1>1. MaxTime \in Nat /\ Overlap \in Nat /\ Lag \in Nat /\ Lag <= Overlap /\ None = -1
  BY CollectorAssumption DEF None
<1>2. /\ now \in Nat /\ horizon \in Int /\ lastSeen \in Int /\ now >= 1 /\ now <= MaxTime
      /\ \A id \in Object : updated[id] \in Int /\ seen[id] \in Int
  BY <1>1 DEF TypeOK
<1>3. saved.lastSeen \in Int /\ \A id \in Object : saved.seen[id] \in Int
  <2>1. saved.lastSeen \in {None} \cup 0 .. MaxTime /\ saved.seen \in [Object -> 0 .. MaxTime]
    BY DEF TypeOK
  <2>. QED
    BY <1>1, <2>1
<1>4. \A s \in Slot : collector[s] \in Collector
  BY DEF TypeOK
<1>5. \A v \in Version : v.id \in Object /\ v.at \in Int /\ v.at >= 1
  BY <1>1 DEF Version
<1>. QED
  BY <1>1, <1>2, <1>3, <1>4, <1>5 DEF Collector

\* What a step leaves alone still reaches, when GitLab does not move and nothing that
\* is known is forgotten.
LEMMA Carried ==
  ASSUME TypeOK, TypeOK', updated' = updated, horizon <= horizon',
         \A v \in Version : Known(v) => Known(v)'
  PROVE  /\ \A v \in Version : Due(v)' => Due(v)
         /\ CursorReaches /\ lastSeen' = lastSeen => CursorReaches'
         /\ TableKnows /\ seen' = seen => TableKnows'
         /\ FileReaches /\ saved' = saved /\ handed \subseteq handed' /\ lost \subseteq lost'
              => FileReaches'
         /\ \A s \in Slot : Reaches(s) /\ collector'[s] = collector[s] => Reaches(s)'
<1>1. Version' = Version
  BY DEF Version
<1>2. \A v \in Version : Due(v)' => Due(v)
  <2>1. /\ \A v \in Version : v.at \in Int
        /\ horizon \in Int
    BY Numbers
  <2>2. horizon' \in Int
    BY Numbers DEF TypeOK
  <2>. QED
    BY <2>1, <2>2 DEF Due
<1>3. CursorReaches /\ lastSeen' = lastSeen => CursorReaches'
  BY <1>1, <1>2 DEF CursorReaches
<1>4. TableKnows /\ seen' = seen => TableKnows'
  BY <1>1 DEF TableKnows
<1>5. FileReaches /\ saved' = saved /\ handed \subseteq handed' /\ lost \subseteq lost'
              => FileReaches'
  BY <1>1, <1>2 DEF FileReaches
<1>6. \A s \in Slot : Reaches(s) /\ collector'[s] = collector[s] => Reaches(s)'
  BY <1>1, <1>2 DEF Reaches
<1>. QED
  BY <1>2, <1>3, <1>4, <1>5, <1>6

\* GitLab moves: the new version is younger than what any cursor looks back over.
LEMMA UpdateReaches ==
  ASSUME TypeOK, TypeOK', CursorInv, NEW id \in Object, Update(id)
  PROVE  CursorInv'
<1>1. PICK at \in Max({1, now - Lag}) .. now :
        at > updated[id] /\ updated' = [updated EXCEPT ![id] = at]
  BY DEF Update
<1>2. UNCHANGED <<now, lastSeen, seen, saved, current, collector, handed, lost, horizon>>
  BY DEF Update, stateVars, historyVars
<1>3. at \in Int /\ at >= now - Lag /\ at <= now /\ at >= now - Overlap
  <2>1. now - Lag \in Int /\ 1 \in Int /\ now \in Int /\ Lag <= Overlap /\ Lag \in Int /\ Overlap \in Int
    BY Numbers
  <2>2. Max({1, now - Lag}) \in Int /\ Max({1, now - Lag}) >= now - Lag
    BY <2>1, MaxOfTwo
  <2>. QED
    BY <1>1, <2>1, <2>2
<1>4. \A i \in Object : updated'[i] = IF i = id THEN at ELSE updated[i]
  BY <1>1 DEF TypeOK
<1>5. \A v \in Version : v.at = updated'[v.id]
        => v.at = updated[v.id] \/ (v.id = id /\ v.at = at)
  BY <1>4, Numbers
<1>6. /\ Version' = Version /\ \A v : Known(v)' = Known(v)
      /\ \A v \in Version : Due(v)' => Due(v) \/ (v.id = id /\ v.at = at)
  <2>1. Version' = Version /\ \A v : Known(v)' = Known(v)
    BY <1>2 DEF Version, Known, Held
  <2>2. \A v \in Version : Due(v)' => Due(v) \/ (v.id = id /\ v.at = at)
    BY <1>2, <1>5 DEF Due
  <2>. QED
    BY <2>1, <2>2
<1>7. Timely'
  <2>1. \A i \in Object : updated[i] <= updated'[i] /\ updated'[i] <= now
    BY <1>1, <1>3, <1>4, Numbers DEF CursorInv, Timely
  <2>2. \A i \in Object : seen[i] <= updated'[i] /\ saved.seen[i] <= updated'[i]
    <3>1. \A i \in Object : updated'[i] \in Int
      BY <1>3, <1>4, Numbers
    <3>. QED
      BY <2>1, <3>1, Numbers DEF CursorInv, Timely
  <2>3. ASSUME NEW s \in Slot, NEW v \in collector[s].items PROVE v.at <= updated'[v.id]
    <3>1. v \in Version /\ v.at <= updated[v.id]
      BY Numbers DEF CursorInv, Timely
    <3>2. v.id \in Object /\ v.at \in Int /\ updated[v.id] \in Int /\ updated'[v.id] \in Int
      BY <1>3, <1>4, <3>1, Numbers
    <3>. QED
      BY <2>1, <3>1, <3>2
  <2>. QED
    BY <1>2, <2>1, <2>2, <2>3 DEF CursorInv, Timely
<1>9. CursorInv'
  <2>0. CursorReaches /\ TableKnows /\ FileReaches /\ \A s \in Slot : Reaches(s)
    BY DEF CursorInv
  <2>1. CursorReaches'
    <3>1. lastSeen <= now /\ lastSeen \in Int
      BY Numbers DEF CursorInv, Timely
    <3>2. at >= lastSeen - Overlap
      BY <1>3, <3>1, Numbers
    <3>. QED
      BY <1>2, <1>6, <2>0, <3>2 DEF CursorReaches
  <2>2. at > seen[id] /\ at > saved.seen[id]
    BY <1>1, <1>3, Numbers DEF CursorInv, Timely
  <2>3. TableKnows'
    <3>1. \A v \in Version : v.id = id /\ v.at = at => ~(seen[v.id] >= v.at)
      BY <1>3, <2>2, Numbers
    <3>. QED
      BY <1>2, <1>5, <1>6, <2>0, <3>1 DEF TableKnows
  <2>4. FileReaches'
    <3>1. saved.lastSeen <= now
      BY DEF CursorInv, Timely
    <3>2. at >= saved.lastSeen - Overlap
      BY <1>3, <3>1, Numbers
    <3>3. \A v \in Version : v.id = id /\ v.at = at => ~(saved.seen[v.id] >= v.at)
      BY <1>3, <2>2, Numbers
    <3>. QED
      BY <1>2, <1>5, <1>6, <2>0, <3>2, <3>3 DEF FileReaches
  <2>5. ASSUME NEW s \in Slot PROVE Reaches(s)'
    <3> DEFINE c == collector[s]
    <3>1. c.newest \in Nat /\ c.newest <= now /\ c.items \subseteq Version
      BY Numbers DEF CursorInv, Timely
    <3>2. at >= c.newest - Overlap
      BY <1>3, <3>1, Numbers
    <3>3. \A u \in c.items : at >= u.at - Overlap
      <4>1. \A u \in c.items : u.at \in Int /\ u.at <= updated[u.id] /\ updated[u.id] <= now
                               /\ updated[u.id] \in Int
        BY <3>1, Numbers DEF CursorInv, Timely
      <4>. QED
        BY <1>3, <4>1, Numbers
    <3>4. c.pc = "fetching" => at >= c.newest
      <4>1. c.pc = "fetching" => c.newest = 0 \/ c.newest <= now - Overlap
        BY DEF CursorInv, Timely
      <4>2. at >= 0
        <5>1. updated[id] \in 0 .. MaxTime /\ MaxTime \in Nat
          BY Numbers DEF TypeOK
        <5>. QED
          BY <1>1, <1>3, <5>1
      <4>. QED
        BY <1>3, <3>1, <4>1, <4>2, Numbers
    <3>. QED
      BY <1>2, <1>6, <2>0, <3>2, <3>3, <3>4 DEF Reaches
  <2>. QED
    BY <1>2, <1>7, <2>1, <2>3, <2>4, <2>5 DEF CursorInv
<1>. QED
  BY <1>9

\* A collector asks for what the cursor reaches.
LEMMA StartReaches ==
  ASSUME TypeOK, TypeOK', CursorInv, StartTick
  PROVE  CursorInv'
<1>1. PICK slot \in FreeSlots :
        Set(slot, [Idle EXCEPT !.pc = "fetching", !.newest = GetSince])
  BY DEF StartTick
<1>2. UNCHANGED <<now, updated, lastSeen, seen, saved, handed, lost>>
  BY DEF StartTick, stateVars
<1>3. horizon' = IF lastSeen = None THEN Max({horizon, GetSince}) ELSE horizon
  BY DEF StartTick
<1>4. /\ slot \in Slot /\ collector[slot].fresh = {}
      /\ collector'[slot].pc = "fetching" /\ collector'[slot].newest = GetSince
      /\ collector'[slot].items = {} /\ collector'[slot].fresh = {}
      /\ \A s \in Slot \ {slot} : collector'[s] = collector[s]
  BY <1>1 DEF FreeSlots, Set, Idle, TypeOK
<1>5. \A v : Known(v)' = Known(v)
  BY <1>2, <1>4 DEF Known, Held
<1>6. /\ GetSince \in Int /\ GetSince >= 0 /\ GetSince <= now
      /\ GetSince = 0 \/ GetSince <= now - Overlap
      /\ lastSeen # None => GetSince = 0 \/ GetSince = lastSeen - Overlap
  <2>1. lastSeen <= now
    BY DEF CursorInv, Timely
  <2>2. GetSince \in 0 .. MaxTime
    BY GetSinceType
  <2>. QED
    BY <2>1, <2>2, GetSinceType, Numbers
<1>7. horizon <= horizon' /\ (lastSeen = None => GetSince <= horizon') /\ horizon' \in Int
  BY <1>3, <1>6, MaxOfTwo, Numbers
<1>8. Timely'
  BY <1>2, <1>4, <1>6, Numbers DEF CursorInv, Timely
<1>9. CursorInv'
  <2>0. CursorReaches /\ TableKnows /\ FileReaches /\ \A s \in Slot : Reaches(s)
    BY DEF CursorInv
  <2>1. /\ CursorReaches' /\ TableKnows' /\ FileReaches'
        /\ \A s \in Slot \ {slot} : Reaches(s)'
    BY <1>2, <1>4, <1>5, <1>7, <2>0, Carried
  <2>2. Reaches(slot)'
    <3>1. ASSUME NEW v \in Version, Due(v)' PROVE Known(v)' \/ v.at >= GetSince
      <4>1. v.at \in Int /\ v.at >= 1 /\ v.at >= horizon'
        BY <3>1, Numbers DEF Due
      <4>2. CASE lastSeen = None
        BY <1>6, <1>7, <4>1, <4>2
      <4>3. CASE lastSeen # None
        <5>1. Due(v)
          BY <1>2, <1>5, <1>7, <3>1, Carried
        <5>2. Known(v) \/ v.at >= lastSeen - Overlap
          BY <2>0, <4>3, <5>1 DEF CursorReaches
        <5>. QED
          BY <1>5, <1>6, <4>1, <4>3, <5>2
      <4>. QED
        BY <4>2, <4>3
    <3>. QED
      BY <1>4, <3>1 DEF Reaches, Version
  <2>. QED
    BY <1>8, <2>1, <2>2 DEF CursorInv
<1>. QED
  BY <1>2, <1>8, <1>9 DEF CursorInv

\* The answer holds what the collector asked for.
LEMMA FetchedReaches ==
  ASSUME TypeOK, TypeOK', CursorInv, NEW slot \in Slot, Fetched(slot)
  PROVE  CursorInv'
<1> DEFINE c == collector[slot]
<1>1. UNCHANGED <<now, updated, lastSeen, seen, saved, handed, lost, horizon>>
  BY DEF Fetched, stateVars, historyVars
<1>2. /\ c.pc = "fetching" /\ collector'[slot].pc = "taking"
      /\ collector'[slot].items = Answer(c.newest)
      /\ collector'[slot].newest = c.newest /\ collector'[slot].fresh = c.fresh
      /\ \A s \in Slot \ {slot} : collector'[s] = collector[s]
  <2>1. c \in Collector
    BY DEF TypeOK
  <2>. QED
    BY <2>1 DEF Fetched, Set, TypeOK, Collector
<1>3. \A v : Known(v)' = Known(v)
  BY <1>1, <1>2 DEF Known, Held
<1>4. Timely'
  <2>1. \A v \in Answer(c.newest) : v.at <= updated[v.id]
    BY Numbers DEF Answer
  <2>. QED
    BY <1>1, <1>2, <2>1 DEF CursorInv, Timely
<1>5. CursorInv'
  <2>0. CursorReaches /\ TableKnows /\ FileReaches /\ \A s \in Slot : Reaches(s)
    BY DEF CursorInv
  <2>1. /\ CursorReaches' /\ TableKnows' /\ FileReaches'
        /\ \A s \in Slot \ {slot} : Reaches(s)'
    BY <1>1, <1>2, <1>3, <2>0, Carried, Numbers
  <2>2. Reaches(slot)'
    <3>1. ASSUME NEW v \in Version, Due(v), v \notin Answer(c.newest) PROVE Known(v)
      <4>1. Known(v) \/ v.at >= c.newest
        BY <1>2, <2>0, <3>1 DEF Reaches
      <4>. QED
        BY <3>1, <4>1 DEF Answer, Due
    <3>2. \A v : Due(v)' = Due(v)
      BY <1>1 DEF Due
    <3>. QED
      BY <1>2, <1>3, <3>1, <3>2 DEF Reaches, Version
  <2>. QED
    BY <1>1, <1>4, <2>1, <2>2 DEF CursorInv
<1>. QED
  BY <1>5

\* The file is written from what reaches, beside what the stragglers hold.
LEMMA EndTickReaches ==
  ASSUME TypeOK, TypeOK', CursorInv, EndTick
  PROVE  CursorInv'
<1>1. UNCHANGED <<now, updated, lastSeen, seen, collector, handed, lost, horizon>>
  BY DEF EndTick, stateVars, historyVars
<1>2. /\ saved'.lastSeen = lastSeen /\ saved'.seen = seen
      /\ saved'.held = Held
  BY DEF EndTick
<1>3. Timely'
  BY <1>1, <1>2 DEF CursorInv, Timely
<1>4. CursorInv'
  <2>0. CursorReaches /\ TableKnows /\ FileReaches /\ \A s \in Slot : Reaches(s)
    BY DEF CursorInv
  <2>1. CursorReaches' /\ TableKnows' /\ \A s \in Slot : Reaches(s)'
    <3>1. \A v : Known(v)' = Known(v)
      BY <1>1 DEF Known, Held
    <3>. QED
      BY <1>1, <2>0, <3>1, Carried, Numbers
  <2>2. FileReaches'
    <3>4. Version' = Version /\ \A v : Due(v)' = Due(v)
      BY <1>1 DEF Version, Due
    <3>. QED
      BY <1>1, <1>2, <2>0, <3>4 DEF FileReaches, CursorReaches, TableKnows, Known
  <2>. QED
    BY <1>1, <1>3, <2>1, <2>2 DEF CursorInv
<1>. QED
  BY <1>4

\* A collector whose request fails holds nothing.
LEMMA FailReaches ==
  ASSUME TypeOK, TypeOK', CursorInv, NEW slot \in Slot, FetchFails(slot)
  PROVE  CursorInv'
<1>1. UNCHANGED <<now, updated, lastSeen, seen, saved, handed, lost, horizon>>
  BY DEF FetchFails, stateVars, historyVars
<1>2. /\ collector[slot].pc = "fetching" /\ collector'[slot] = Idle
      /\ \A s \in Slot \ {slot} : collector'[s] = collector[s]
  BY DEF FetchFails, Set, TypeOK
<1>3. collector[slot].fresh = {}
  BY <1>2 DEF CursorInv, Timely
<1>4. \A v : Known(v)' = Known(v)
  BY <1>1, <1>2, <1>3 DEF Known, Held, Idle
<1>5. Timely'
  BY <1>1, <1>2, Numbers DEF CursorInv, Timely, Idle
<1>6. CursorInv'
  <2>0. CursorReaches /\ TableKnows /\ FileReaches /\ \A s \in Slot : Reaches(s)
    BY DEF CursorInv
  <2>1. /\ CursorReaches' /\ TableKnows' /\ FileReaches'
        /\ \A s \in Slot \ {slot} : Reaches(s)'
    BY <1>1, <1>2, <1>4, <2>0, Carried, Numbers
  <2>2. Reaches(slot)'
    BY <1>2 DEF Reaches, Idle
  <2>. QED
    BY <1>1, <1>5, <2>1, <2>2 DEF CursorInv
<1>. QED
  BY <1>6

\* What is taken is known, and what is passed over was.
LEMMA TakeReaches ==
  ASSUME TypeOK, TypeOK', CursorInv, NEW slot \in Slot, TakeItem(slot)
  PROVE  CursorInv'
<1> DEFINE c == collector[slot]
<1>1. c.pc = "taking" /\ UNCHANGED <<now, updated, lastSeen, saved, handed, lost, horizon>>
  BY DEF TakeItem
<1>2. PICK v \in c.items : IF Accepted(v) THEN Take(slot, v) ELSE PassOver(slot, v)
  BY DEF TakeItem
<1>3. v \in Version /\ v.at <= updated[v.id] /\ updated[v.id] <= now
  BY Numbers DEF CursorInv, Timely
<1>4. v.id \in Object /\ v.at \in Int /\ updated[v.id] \in Int /\ seen[v.id] \in Int
  BY <1>3, Numbers
<1>5. CASE Accepted(v)
  <2>1. /\ \A id \in Object : \/ seen'[id] = (IF id = v.id THEN v.at ELSE seen[id])
                              \/ seen'[id] = 0 /\ id \in pruned'
        /\ \A s \in Slot \ {slot} : collector'[s] = collector[s]
        /\ collector'[slot].pc = "taking"
        /\ collector'[slot].items = c.items \ {v}
        /\ collector'[slot].fresh = c.fresh \cup {v}
        /\ collector'[slot].newest = IF c.newest >= v.at THEN c.newest ELSE v.at
    BY <1>1, <1>2, <1>5, TakeType
  <2>2. \A w : Known(w)' <=> Known(w) \/ w = v
    BY <1>1, <2>1 DEF Known, Held
  <2>3. Timely'
    <3>1. \A id \in Object : seen'[id] <= updated[id]
      <4>1. \A id \in Object : updated[id] >= 0 /\ updated[id] \in Int /\ seen[id] <= updated[id]
        <5>1. updated \in [Object -> 0 .. MaxTime] /\ MaxTime \in Nat
          BY Numbers DEF TypeOK
        <5>. QED
          BY <5>1 DEF CursorInv, Timely
      <4>. QED
        BY <1>3, <2>1, <4>1
    <3>2. collector'[slot].newest <= now
      BY <1>3, <1>4, <2>1, Numbers DEF CursorInv, Timely
    <3>. QED
      BY <1>1, <2>1, <3>1, <3>2 DEF CursorInv, Timely
  <2>4. CursorInv'
    <3>0. CursorReaches /\ TableKnows /\ FileReaches /\ \A s \in Slot : Reaches(s)
      BY DEF CursorInv
    <3>1. /\ CursorReaches' /\ FileReaches' /\ \A s \in Slot \ {slot} : Reaches(s)'
      BY <1>1, <2>1, <2>2, <3>0, Carried, Numbers
    <3>2. TableKnows'
      <4>1. ASSUME NEW w \in Version, w.at = updated[w.id], seen'[w.id] >= w.at
            PROVE  Known(w) \/ w = v
        <5>1. w.id \in Object /\ w.at \in Int /\ w.at >= 1
          BY Numbers
        <5>2. seen'[w.id] = (IF w.id = v.id THEN v.at ELSE seen[w.id])
          BY <2>1, <4>1, <5>1
        <5>3. CASE w.id = v.id
          <6>1. w.at = v.at
            BY <1>3, <1>4, <4>1, <5>1, <5>2, <5>3
          <6>. QED
            BY <1>3, <5>3, <6>1 DEF Version
        <5>4. CASE w.id # v.id
          BY <3>0, <4>1, <5>2, <5>4 DEF TableKnows
        <5>. QED
          BY <5>3, <5>4
      <4>. QED
        BY <1>1, <2>2, <4>1 DEF TableKnows, Version
    <3>3. Reaches(slot)'
      <4>1. ASSUME NEW w \in Version, w \notin c.items \ {v}, Due(w), ~Known(w), w # v
            PROVE  /\ w.at >= collector'[slot].newest - Overlap
                   /\ \A u \in c.items \ {v} : w.at >= u.at - Overlap
        <5>1. w.at >= c.newest - Overlap /\ \A u \in c.items : w.at >= u.at - Overlap
          BY <1>1, <3>0, <4>1 DEF Reaches
        <5>. QED
          BY <2>1, <5>1
      <4>2. Version' = Version /\ \A w : Due(w)' = Due(w)
        BY <1>1 DEF Version, Due
      <4>. QED
        BY <2>1, <2>2, <4>1, <4>2 DEF Reaches
    <3>. QED
      BY <1>1, <2>3, <3>1, <3>2, <3>3 DEF CursorInv
  <2>. QED
    BY <2>4
<1>6. CASE ~Accepted(v)
  <2>1. /\ UNCHANGED <<seen, pruned>>
        /\ \A s \in Slot \ {slot} : collector'[s] = collector[s]
        /\ collector'[slot].pc = "taking"
        /\ collector'[slot].items = c.items \ {v}
        /\ collector'[slot].fresh = c.fresh
        /\ collector'[slot].newest = c.newest
    BY <1>1, <1>2, <1>6, PassOverType
  <2>2. \A w : Known(w)' = Known(w)
    BY <1>1, <2>1 DEF Known, Held
  <2>3. Timely'
    BY <1>1, <2>1 DEF CursorInv, Timely
  <2>4. CursorInv'
    <3>0. CursorReaches /\ TableKnows /\ FileReaches /\ \A s \in Slot : Reaches(s)
      BY DEF CursorInv
    <3>1. /\ CursorReaches' /\ TableKnows' /\ FileReaches'
          /\ \A s \in Slot \ {slot} : Reaches(s)'
      BY <1>1, <2>1, <2>2, <3>0, Carried, Numbers
    <3>2. Due(v) => Known(v)
      <4>1. seen[v.id] >= v.at
        BY <1>4, <1>6 DEF Accepted
      <4>. QED
        BY <1>3, <3>0, <4>1 DEF TableKnows, Due
    <3>3. Reaches(slot)'
      <4>1. Version' = Version /\ \A w : Due(w)' = Due(w)
        BY <1>1 DEF Version, Due
      <4>. QED
        BY <1>1, <2>1, <2>2, <3>0, <3>2, <4>1 DEF Reaches
    <3>. QED
      BY <1>1, <2>3, <3>1, <3>3 DEF CursorInv
  <2>. QED
    BY <2>4
<1>. QED
  BY <1>5, <1>6

\* The cursor moves to where its collector reaches.
LEMMA FinishReaches ==
  ASSUME TypeOK, TypeOK', CursorInv, NEW slot \in Slot, Finish(slot)
  PROVE  CursorInv'
<1> DEFINE c == collector[slot]
<1>1. /\ c.pc = "taking" /\ c.items = {}
      /\ handed' = handed \cup c.fresh /\ lastSeen' = c.newest
      /\ UNCHANGED <<now, updated, seen, saved, lost, horizon>>
      /\ collector'[slot] = Idle /\ \A s \in Slot \ {slot} : collector'[s] = collector[s]
  BY DEF Finish, Set, TypeOK
<1>2. \A v : Known(v)' = Known(v)
  BY <1>1 DEF Known, Held, Idle
<1>3. Timely'
  BY <1>1, Numbers DEF CursorInv, Timely, Idle
<1>4. CursorInv'
  <2>0. CursorReaches /\ TableKnows /\ FileReaches /\ \A s \in Slot : Reaches(s)
    BY DEF CursorInv
  <2>1. TableKnows' /\ FileReaches' /\ \A s \in Slot \ {slot} : Reaches(s)'
    BY <1>1, <1>2, <2>0, Carried, Numbers
  <2>2. Reaches(slot)'
    BY <1>1 DEF Reaches, Idle
  <2>3. CursorReaches'
    <3>1. Version' = Version /\ \A v : Due(v)' = Due(v)
      BY <1>1 DEF Version, Due
    <3>. QED
      BY <1>1, <1>2, <2>0, <3>1 DEF Reaches, CursorReaches
  <2>. QED
    BY <1>1, <1>3, <2>1, <2>2, <2>3 DEF CursorInv
<1>. QED
  BY <1>4

\* The memory is what the file holds, or empty.
LEMMA RestartReaches ==
  ASSUME TypeOK, TypeOK', CursorInv, Restart
  PROVE  CursorInv'
<1>1. /\ UNCHANGED <<now, updated, saved, handed, horizon>>
      /\ \A s \in Slot : collector'[s] = Idle
  BY DEF Restart
<1>2. \A v : Known(v)' <=> v \in handed \cup lost'
  BY <1>1 DEF Known, Held, Idle
<1>3. Version' = Version /\ \A v : Due(v)' = Due(v)
  BY <1>1 DEF Version, Due
<1>4. \A s \in Slot : Reaches(s)'
  BY <1>1 DEF Reaches, Idle
<1>5. lost \subseteq lost' => FileReaches'
  BY <1>1, <1>3 DEF CursorInv, FileReaches
<1>6. CASE lastSeen' = saved.lastSeen /\ seen' = saved.seen
           /\ lost' = lost \cup (saved.held \ handed)
  <2>1. Timely'
    BY <1>1, <1>6, Numbers DEF CursorInv, Timely, Idle
  <2>2. CursorReaches' /\ TableKnows'
    <3>1. \A v : v \in handed \cup saved.held \cup lost => Known(v)'
      BY <1>2, <1>6
    <3>2. FileReaches
      BY DEF CursorInv
    <3>. QED
      BY <1>1, <1>3, <1>6, <3>1, <3>2 DEF FileReaches, CursorReaches, TableKnows
  <2>. QED
    BY <1>4, <1>5, <1>6, <2>1, <2>2 DEF CursorInv
<1>7. CASE lastSeen' = None /\ seen' = NoEntries /\ lost' = lost
  <2>1. Timely'
    <3>1. \A id \in Object : seen'[id] = 0 /\ updated[id] >= 0
      <4>1. updated \in [Object -> 0 .. MaxTime]
        BY DEF TypeOK
      <4>. QED
        BY <1>7, <4>1, Numbers DEF NoEntries
    <3>. QED
      BY <1>1, <1>7, <3>1, Numbers DEF CursorInv, Timely, Idle
  <2>2. CursorReaches'
    BY <1>7 DEF CursorReaches
  <2>3. TableKnows'
    <3>1. \A v \in Version : ~(seen'[v.id] >= v.at)
      BY <1>7, Numbers DEF NoEntries
    <3>. QED
      BY <1>3, <3>1 DEF TableKnows
  <2>. QED
    BY <1>4, <1>5, <1>7, <2>1, <2>2, <2>3 DEF CursorInv
<1>. QED
  BY <1>6, <1>7 DEF Restart

\* gitlab/state.js: whatever stragglers do to the cursor, and however old the file is
\* that the agent starts from, the next fetch reaches every version that was not taken;
\* what died with a straggler whose entries were in the file is the only loss.
THEOREM CursorSkipsNothing == Spec => []CursorNeverSkips
<1>1. Init => CursorInv
  <2>. SUFFICES ASSUME Init PROVE CursorInv
    OBVIOUS
  <2>1. /\ \A id \in Object : updated[id] = 0 /\ seen[id] = 0 /\ saved.seen[id] = 0
        /\ now = 1 /\ lastSeen = None /\ saved.lastSeen = None /\ None = -1
        /\ \A s \in Slot : collector[s] = Idle
    BY DEF Init, NoEntries, None
  <2>2. Timely
    BY <2>1 DEF Timely, Idle
  <2>3. \A s \in Slot : Reaches(s)
    BY <2>1 DEF Reaches, Idle
  <2>4. \A v \in Version : v.at # updated[v.id]
    BY <2>1, TypeInit, Numbers
  <2>. QED
    BY <2>1, <2>2, <2>3, <2>4 DEF CursorInv, CursorReaches, TableKnows, FileReaches
<1>2. TypeOK /\ TypeOK' /\ CursorInv /\ [Next]_vars => CursorInv'
  <2>. SUFFICES ASSUME TypeOK, TypeOK', CursorInv, [Next]_vars PROVE CursorInv'
    OBVIOUS
  <2>1. CASE Tock
    <3>1. /\ now' = now + 1
          /\ UNCHANGED <<updated, lastSeen, seen, saved, collector, handed, lost, horizon>>
      BY <2>1 DEF Tock, stateVars, historyVars
    <3>2. Timely'
      BY <3>1, Numbers DEF CursorInv, Timely
    <3>3. \A v : Known(v)' = Known(v)
      BY <3>1 DEF Known, Held
    <3>. QED
      BY <3>1, <3>2, <3>3, Carried, Numbers DEF CursorInv
  <2>2. CASE UNCHANGED vars
    BY <2>2 DEF vars, stateVars, historyVars, CursorInv, Timely, CursorReaches, TableKnows,
                FileReaches, Reaches, Known, Held, Due, Version
  <2>. QED
    BY <2>1, <2>2, UpdateReaches, StartReaches, EndTickReaches, FetchedReaches, FailReaches,
       TakeReaches, FinishReaches, RestartReaches DEF Next
<1>3. TypeOK /\ CursorInv => CursorNeverSkips
  <2>. SUFFICES ASSUME TypeOK, CursorInv, lastSeen # None,
                       NEW v \in Version, Due(v)
                PROVE  v \in handed \cup Held \cup lost \/ v.at >= GetSince
    BY DEF CursorNeverSkips
  <2>1. Known(v) \/ v.at >= lastSeen - Overlap
    BY DEF CursorInv, CursorReaches
  <2>. QED
    BY <2>1, GetSinceType, Numbers DEF Known
<1>. QED
  BY <1>1, <1>2, <1>3, GitlabTypes, PTL DEF Spec
=============================================================================
