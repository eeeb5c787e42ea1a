------------------------- MODULE ProcessHistory --------------------------
(***************************************************************************)
(* app/discovery/detectProcesses.js: the scan at the start of the agent    *)
(* and the snapshot of every minute list the processes, wait for the list, *)
(* and compare it with process-history.json to find restarts; the history  *)
(* is written in a file of its own and renamed, and survives the agent.    *)
(*                                                                         *)
(* A service is a command, of which any number of processes may run.       *)
(* There is one scan at a time.                                            *)
(***************************************************************************)
EXTENDS Integers, Sequences, SequencesExt, FiniteSetsExt, Functions

CONSTANTS
  Service,           \* commands of important runtimes that are not noise
  RestartThreshold,  \* restarts that make a warning
  Window,            \* RESTART_WINDOW_MS, in ticks
  Retained,          \* ticks for which a command that is gone is remembered
  MaxProcessEntries, \* MAX_PROCESS_ENTRIES
  MaxStarts,         \* bound: starts of all processes
  MaxKills,          \* bound: kills of the agent
  MaxTicks           \* bound: scans

ProcessHistoryAssumption ==
  /\ {RestartThreshold, MaxProcessEntries} \subseteq Nat \ {0}
  /\ {Window, Retained, MaxStarts, MaxKills, MaxTicks} \subseteq Nat

Nothing == [x \in {} |-> 0]

\* A map after an assignment to one of its keys.
Put(map, key, value) ==
  [k \in DOMAIN map \cup {key} |-> IF k = key THEN value ELSE map[k]]

VARIABLES
  now,          \* scans so far, a tick apart
  hostProcess,  \* the processes that run, the starts of all, and those of every service
  procHistory,  \* process-history.json: by command the pid, when it was seen, its restarts
  procScan,     \* the scan under way, with its list
  procWarned,   \* the warnings of the last scan
  procKills,    \* kills of the agent so far
  procCrowds    \* history: by service, processes that were listed beside another

vars == <<now, hostProcess, procHistory, procScan, procWarned, procKills, procCrowds>>

Idle == [pc |-> "idle"]

-----------------------------------------------------------------------------
(* The host *)

\* A process starts, beside others of its service or not, with a pid of its own.
StartProcess(svc) ==
  /\ hostProcess.starts < MaxStarts
  /\ hostProcess' = [starts |-> hostProcess.starts + 1,
                     run |-> hostProcess.run \cup {[service |-> svc, pid |-> hostProcess.starts + 1]},
                     of |-> [hostProcess.of EXCEPT ![svc] = @ + 1]]
  /\ UNCHANGED <<now, procHistory, procScan, procWarned, procKills, procCrowds>>

StopProcess(process) ==
  /\ hostProcess' = [hostProcess EXCEPT !.run = @ \ {process}]
  /\ UNCHANGED <<now, procHistory, procScan, procWarned, procKills, procCrowds>>

-----------------------------------------------------------------------------
(* Restarts *)

\* The restarts of the last RESTART_WINDOW_MS.
Fresh(times, at) ==
  LET upTo[n \in 0 .. Len(times)] ==
        IF n = 0
        THEN << >>
        ELSE IF times[n] > at - Window THEN Append(upTo[n - 1], times[n]) ELSE upTo[n - 1]
  IN  upTo[Len(times)]

\* The entry of a process beside the one of its command, which may be that of another
\* process of the same list: another pid is a restart now.
Entry(history, process, at) ==
  LET svc == process.service
      known == svc \in DOMAIN history
      times == IF known THEN Fresh(history[svc].restartTimes, at) ELSE << >>
      restarted == known /\ history[svc].pid # process.pid
  IN  [pid |-> process.pid, seenAt |-> at,
       restartTimes |-> IF restarted THEN Append(times, at) ELSE times]

\* Mutation: a restart does not put the new pid into the history.
SeenWithOldPid(list, history, at) ==
  LET after[n \in 0 .. Len(list)] ==
        IF n = 0 THEN history
        ELSE LET svc == list[n].service
                 entry == Entry(after[n - 1], list[n], at)
             IN  Put(after[n - 1], svc,
                     IF svc \in DOMAIN history THEN [entry EXCEPT !.pid = history[svc].pid] ELSE entry)
  IN  after

\* The loop over the list: the history after each process of it.
Seen(list, history, at) ==
  LET after[n \in 0 .. Len(list)] ==
        IF n = 0 THEN history
        ELSE Put(after[n - 1], list[n].service, Entry(after[n - 1], list[n], at))
  IN  after

\* detectRestarts: commands that were not seen for a while are forgotten.
Remember(list, history, at) ==
  LET all == Seen(list, history, at)[Len(list)]
  IN  Restrict(all, {svc \in DOMAIN all : all[svc].seenAt >= at - Retained})

\* The processes whose pid was another, if that makes enough restarts.
Warnings(list, history, at) ==
  LET after == Seen(list, history, at)
      count(n) == Len(after[n][list[n].service].restartTimes)
      restarted(n) == LET svc == list[n].service
                      IN  svc \in DOMAIN after[n - 1] /\ after[n - 1][svc].pid # list[n].pid
  IN  {[service |-> list[n].service, count |-> count(n)] :
         n \in {i \in 1 .. Len(list) : restarted(i) /\ count(i) >= RestartThreshold}}

\* Mutation: one entry more than the cap is kept.
CappedLate(history) ==
  {Restrict(history, kept) :
     kept \in {K \in SUBSET DOMAIN history :
                 /\ Cardinality(K) = Min({MaxProcessEntries + 1, Cardinality(DOMAIN history)})
                 /\ \A i \in K, j \in DOMAIN history \ K : history[i].seenAt >= history[j].seenAt}}

\* saveProcessHistory: the entries that were seen last, ties broken in any way.
Capped(history) ==
  {Restrict(history, kept) :
     kept \in {K \in SUBSET DOMAIN history :
                 /\ Cardinality(K) = Min({MaxProcessEntries, Cardinality(DOMAIN history)})
                 /\ \A i \in K, j \in DOMAIN history \ K : history[i].seenAt >= history[j].seenAt}}

-----------------------------------------------------------------------------
(* A scan *)

Several(svc) == Cardinality({process \in hostProcess.run : process.service = svc})

\* si.processes(), in any order.  How many of a service are listed at once is history: of
\* every one the loop may find another pid, and the next scan once more of one that is left.
StartScan ==
  /\ now < MaxTicks
  /\ procScan.pc = "idle"
  /\ now' = now + 1
  /\ \E list \in SetToSeqs(hostProcess.run) :
       procScan' = [pc |-> "listed", list |-> list]
  /\ procCrowds' = [svc \in Service |->
       procCrowds[svc] + IF Several(svc) > 1 THEN Several(svc) + 1 ELSE 0]
  /\ UNCHANGED <<hostProcess, procHistory, procWarned, procKills>>

\* The rest of detectProcesses: the history is read, changed and renamed into place.
DetectRestarts ==
  LET list == procScan.list
  IN  /\ procScan.pc = "listed"
      /\ procWarned' = Warnings(list, procHistory, now)
      /\ procHistory' \in Capped(Remember(list, procHistory, now))
      /\ procScan' = Idle
      /\ UNCHANGED <<now, hostProcess, procKills, procCrowds>>

\* The agent is killed and started again; a scan under way is lost.
Killed ==
  /\ procKills < MaxKills
  /\ procScan' = Idle
  /\ procKills' = procKills + 1
  /\ UNCHANGED <<now, hostProcess, procHistory, procWarned, procCrowds>>

Init ==
  /\ now = 0
  /\ hostProcess = [starts |-> 0, run |-> {}, of |-> [svc \in Service |-> 0]]
  /\ procHistory = Nothing
  /\ procScan = Idle
  /\ procWarned = {}
  /\ procKills = 0
  /\ procCrowds = [svc \in Service |-> 0]

Next ==
  \/ \E svc \in Service : StartProcess(svc)
  \/ \E process \in hostProcess.run : StopProcess(process)
  \/ StartScan
  \/ DetectRestarts
  \/ Killed

Spec == Init /\ [][Next]_vars

-----------------------------------------------------------------------------
(* Properties *)

\* The history keeps to its cap, and knows no pid and no time that was not.
TypeOK ==
  /\ now \in 0 .. MaxTicks
  /\ procScan.pc \in {"idle", "listed"}
  /\ DOMAIN procHistory \subseteq Service
  /\ Cardinality(DOMAIN procHistory) <= MaxProcessEntries
  /\ \A svc \in DOMAIN procHistory :
       procHistory[svc].pid \in 1 .. MaxStarts /\ procHistory[svc].seenAt \in 1 .. now

\* A warning counts restarts that took place, each once, across kills of the agent,
\* processes that are gone and come back, and a history that is pruned and capped: as
\* long as no two processes of the command were listed at once.  Of several each counts
\* once more in every scan, and one that is left once more after it, so that a warning
\* tells no more than starts and those.
WarnedOnlyAfterRestarts ==
  \A w \in procWarned : w.count < hostProcess.of[w.service] + procCrowds[w.service]
=============================================================================
