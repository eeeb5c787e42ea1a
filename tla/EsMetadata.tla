---------------------------- MODULE EsMetadata ----------------------------
(***************************************************************************)
(* The metadata of app/integrations/elasticsearch/index.js: the topology   *)
(* and the master, which a scrape refreshes once in a while and compares   *)
(* with the master that was observed last.  Scrapes share                  *)
(* instanceState(id) and overlap, as in EsCollector, which has the rest of *)
(* a scrape.                                                               *)
(***************************************************************************)
EXTENDS Integers, FiniteSetsExt

CONSTANTS
  Slot,          \* bound: scrapes that overlap
  MaxEvents,     \* bound: elections
  MaxTicks,      \* bound: ticks of collectMetrics
  SlowInterval   \* metadataIntervalSeconds, in ticks

EsMetadataAssumption ==
  /\ Slot \subseteq Nat
  /\ {MaxEvents, MaxTicks, SlowInterval} \subseteq Nat

None == -1

Master == {1, 2}

VARIABLES
  now,          \* ticks of collectMetrics so far
  esMaster,     \* Elasticsearch: its master, and the elections so far
  esTopology,   \* instanceState(id): metadata.master, lastMetadataAt, lastMasterNodeId, masterChanges
  esRefresh,    \* the scrapes under way, until their metadata are refreshed
  esRefreshed   \* history: the term of the newest master observed, and the refreshes that came late

vars == <<now, esMaster, esTopology, esRefresh, esRefreshed>>

Idle == [pc |-> "idle"]

Set(slot, s) == esRefresh' = [esRefresh EXCEPT ![slot] = s]

\* A master and, as history, its term: the elections before it was read.
NoMaster == [id |-> None, term |-> 0]

-----------------------------------------------------------------------------
(* Elasticsearch *)

Elect ==
  /\ esMaster.elections < MaxEvents
  /\ \E master \in Master \ {esMaster.id} :
       esMaster' = [id |-> master, elections |-> esMaster.elections + 1]
  /\ UNCHANGED <<now, esTopology, esRefresh, esRefreshed>>

-----------------------------------------------------------------------------
(* A scrape *)

FreeSlots == {slot \in Slot : esRefresh[slot] = Idle}

\* A tick: the endpoint is asked who it is, or no request gets through.
StartScrape ==
  /\ now < MaxTicks
  /\ now' = now + 1
  /\ \/ FreeSlots # {} /\ Set(Min(FreeSlots), [pc |-> "asked", at |-> now'])
     \/ UNCHANGED esRefresh
  /\ UNCHANGED <<esMaster, esTopology, esRefreshed>>

Due(at) == esTopology.lastMetadataAt = None \/ at - esTopology.lastMetadataAt >= SlowInterval

\* The endpoint has identified itself and its capabilities are known.  When the metadata
\* are not due the master is the one that was observed last, or none, and nothing changes.
Identify(slot) ==
  LET s == esRefresh[slot]
  IN  /\ s.pc = "asked"
      /\ Set(slot, IF Due(s.at) THEN [pc |-> "metadata", at |-> s.at, master |-> esTopology.master]
                                ELSE Idle)
      /\ UNCHANGED <<now, esMaster, esTopology, esRefreshed>>

\* The endpoint does not answer, or is not Elasticsearch.
ScrapeFails(slot) ==
  /\ esRefresh[slot].pc = "asked"
  /\ Set(slot, Idle)
  /\ UNCHANGED <<now, esMaster, esTopology, esRefreshed>>

\* collectMetadata asks for the master among others; one that was not read is the one
\* of before.
CollectMetadata(slot) ==
  LET s == esRefresh[slot]
  IN  /\ s.pc = "metadata"
      /\ \E master \in {[id |-> esMaster.id, term |-> esMaster.elections], s.master} :
           Set(slot, [pc |-> "observed", at |-> s.at, master |-> master])
      /\ UNCHANGED <<now, esMaster, esTopology, esRefreshed>>

\* Mutation: the first master that is observed is a change.
ChangedFromNone(master) == master.id # None /\ esTopology.lastMaster # master.id

\* A change is one between two masters that were both observed.
MasterChanged(master) ==
  master.id # None /\ esTopology.lastMaster # None /\ esTopology.lastMaster # master.id

\* All the answers are there.  That this one is older than one that another scrape has
\* had is history.
RefreshMetadata(slot) ==
  LET s == esRefresh[slot]
      observed == s.master.id # None
  IN  /\ s.pc = "observed"
      /\ esTopology' =
           [master |-> s.master, lastMetadataAt |-> s.at,
            lastMaster |-> IF observed THEN s.master.id ELSE esTopology.lastMaster,
            masterChanges |-> esTopology.masterChanges + IF MasterChanged(s.master) THEN 1 ELSE 0]
      /\ esRefreshed' =
           IF ~observed THEN esRefreshed
           ELSE IF s.master.term < esRefreshed.term THEN [esRefreshed EXCEPT !.late = @ + 1]
           ELSE [esRefreshed EXCEPT !.term = s.master.term]
      /\ Set(slot, Idle)
      /\ UNCHANGED <<now, esMaster>>

Init ==
  /\ now = 0
  /\ esMaster = [id |-> 1, elections |-> 0]
  /\ esTopology = [master |-> NoMaster, lastMetadataAt |-> None, lastMaster |-> None,
                   masterChanges |-> 0]
  /\ esRefresh = [slot \in Slot |-> Idle]
  /\ esRefreshed = [term |-> 0, late |-> 0]

Next ==
  \/ Elect
  \/ StartScrape
  \/ \E slot \in Slot :
       Identify(slot) \/ ScrapeFails(slot) \/ CollectMetadata(slot) \/ RefreshMetadata(slot)

Spec == Init /\ [][Next]_vars

-----------------------------------------------------------------------------
(* Properties *)

\* Only a master that was elected is remembered, and the clock of one that was refreshed.
TypeOK ==
  /\ now \in 0 .. MaxTicks
  /\ esMaster \in [id : Master, elections : 0 .. MaxEvents]
  /\ esTopology.master.id \in Master \cup {None}
  /\ esTopology.lastMetadataAt \in {None} \cup 1 .. MaxTicks
  /\ \A slot \in Slot : esRefresh[slot].pc \in {"idle", "asked", "metadata", "observed"}

\* The changes of the master that are counted are no more than the elections there were,
\* whatever refreshes fail, miss an election or see the same master again; one that comes
\* late, after a scrape which read the master of a later term, adds two more at most: it
\* looks like an election, and so does the return.
NoInventedElection ==
  esTopology.masterChanges <= esMaster.elections + 2 * esRefreshed.late
=============================================================================
