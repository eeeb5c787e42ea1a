----------------------------- MODULE Discovery -----------------------------
(***************************************************************************)
(* app/discovery/autoConfig.js: the scan of the host at the start of the   *)
(* agent merges the services and logs it finds into integration.json and   *)
(* log-watchlist.json.  The user edits the two files meanwhile, and the    *)
(* agent may be killed anywhere, in the middle of a write too:             *)
(* writeFileSync truncates the file before it writes it.                   *)
(*                                                                         *)
(* What the scan finds is arbitrary: the list of processes is that of      *)
(* ProcessHistory.  The user does not save a file between the two ends of  *)
(* a write.                                                                *)
(***************************************************************************)
EXTENDS Integers

CONSTANTS
  Service,           \* the services of SERVICE_DEFINITIONS
  CanAutoEnable,     \* those that need no credentials
  LogFile,           \* paths of LOG_DEFINITIONS, each an evidence of no service
  MaxEdits,          \* bound: edits by the user
  MaxKills           \* bound: kills of the agent

DiscoveryAssumption ==
  /\ CanAutoEnable \subseteq Service
  /\ {MaxEdits, MaxKills} \subseteq Nat

Nothing == [x \in {} |-> 0]

\* A map after an assignment to one of its keys, and one filled in from another.
Put(map, key, value) ==
  [k \in DOMAIN map \cup {key} |-> IF k = key THEN value ELSE map[k]]

FilledIn(map, other) ==
  [k \in DOMAIN map \cup DOMAIN other |-> IF k \in DOMAIN map THEN map[k] ELSE other[k]]

\* A file: what it says, or that it was truncated and not written.
File(data) == [torn |-> FALSE, data |-> data]

Torn == [torn |-> TRUE, data |-> Nothing]

VARIABLES
  hostFiles,    \* integration.json and log-watchlist.json
  discScan,     \* the scan: not begun, one of its steps, or done
  discFaults,   \* edits and kills so far
  discSwitch    \* WATCHLOG_AUTO_ENABLE_RECOMMENDED_LOGS

vars == <<hostFiles, discScan, discFaults, discSwitch>>

At(pc) == [pc |-> pc]

-----------------------------------------------------------------------------
(* The user *)

\* The user writes an entry for a service, with credentials; autoDetected is a key that
\* only discovery sets, but the user may set it to false.
EditIntegration(svc) ==
  /\ discFaults.edits < MaxEdits
  /\ ~hostFiles.integrations.torn
  /\ \E monitor \in BOOLEAN, autoDetected \in {"unset", "no"} :
       hostFiles' = [hostFiles EXCEPT !.integrations.data =
         Put(@, svc, [monitor |-> monitor, config |-> "user", autoDetected |-> autoDetected,
                      state |-> "unset"])]
  /\ discFaults' = [discFaults EXCEPT !.edits = @ + 1]
  /\ UNCHANGED <<discScan, discSwitch>>

\* The user turns a log on or off.
EditWatchlist(log) ==
  /\ discFaults.edits < MaxEdits
  /\ ~hostFiles.watchlist.torn
  /\ \E enabled \in BOOLEAN :
       hostFiles' = [hostFiles EXCEPT !.watchlist.data = Put(@, log, enabled)]
  /\ discFaults' = [discFaults EXCEPT !.edits = @ + 1]
  /\ UNCHANGED <<discScan, discSwitch>>

-----------------------------------------------------------------------------
(* Services and logs *)

\* detectServices: found by a process, an open port, a log file or a container;
\* enabled if it needs no credentials.  How sure that is only is for display.
DetectService(svc, evidence) ==
  CASE evidence = {} -> "not_detected"
    [] svc \in CanAutoEnable -> "enabled"
    [] OTHER -> "detected_needs_config"

\* Whether a log file is of use: it may be missing, unreadable, empty, stale or rotated.
ShouldRecommend(status) == status = "detected"

\* Mutation: what was found replaces the settings of an entry.
MergedOverSettings(entry, found) ==
  [monitor |-> entry.monitor \/ found = "enabled", config |-> "default",
   autoDetected |-> "yes", state |-> found]

\* The entry of a service that was there.  One that does not say counts as detected from
\* now on, and what was detected is monitored as soon as that needs no credentials.  An
\* access log of nginx that the entry lacks is filled in.
Merged(entry, found) ==
  LET autoDetected == IF entry.autoDetected = "unset" THEN "yes" ELSE entry.autoDetected
  IN  [monitor |-> entry.monitor \/ (autoDetected = "yes" /\ found = "enabled"),
       config |-> entry.config, autoDetected |-> autoDetected, state |-> found]

\* syncIntegrations on what could be read of the file.
SyncedIntegrations(integrations, found) ==
  LET detected == {svc \in Service : found[svc] # "not_detected"}
  IN  [svc \in DOMAIN integrations \cup detected |->
         IF svc \notin detected THEN integrations[svc]
         ELSE IF svc \in DOMAIN integrations THEN Merged(integrations[svc], found[svc])
         ELSE [monitor |-> found[svc] = "enabled", config |-> "default",
               autoDetected |-> "yes", state |-> found[svc]]]

\* Mutation: a recommended log is enabled.
SyncedEnabled(watchlist, recommended) ==
  FilledIn(watchlist, [log \in recommended |-> TRUE])

\* syncLogWatchlist: recommended logs are added, and enabled only by the switch.
SyncedWatchlist(watchlist, recommended) ==
  FilledIn(watchlist, [log \in recommended |-> discSwitch])

-----------------------------------------------------------------------------
(* A scan *)

\* loadJson: a file that cannot be parsed is as good as an empty one.
LoadJson(file) == file.data

\* What is written later, and what was read.
Pending(pc, file, data) == [pc |-> pc, read |-> file, pending |-> data]

\* detectServices and syncIntegrations up to the write: nothing is written if nothing
\* changed.
SyncIntegrations ==
  /\ discScan.pc = "idle"
  /\ \E evidence \in [Service -> {{}, {"process"}}] :
       LET found == [svc \in Service |-> DetectService(svc, evidence[svc])]
           loaded == LoadJson(hostFiles.integrations)
           synced == SyncedIntegrations(loaded, found)
       IN  discScan' = IF synced = loaded THEN At("logs")
                       ELSE Pending("saveIntegrations", hostFiles.integrations, synced)
  /\ UNCHANGED <<hostFiles, discFaults, discSwitch>>

\* saveJson, in its two steps.
TruncateIntegrations ==
  /\ discScan.pc = "saveIntegrations"
  /\ hostFiles' = [hostFiles EXCEPT !.integrations = Torn]
  /\ discScan' = [discScan EXCEPT !.pc = "writeIntegrations"]
  /\ UNCHANGED <<discFaults, discSwitch>>

WriteIntegrations ==
  /\ discScan.pc = "writeIntegrations"
  /\ hostFiles' = [hostFiles EXCEPT !.integrations = File(discScan.pending)]
  /\ discScan' = At("logs")
  /\ UNCHANGED <<discFaults, discSwitch>>

\* detectLogs, and syncLogWatchlist likewise.
SyncLogWatchlist ==
  /\ discScan.pc = "logs"
  /\ \E status \in [LogFile -> {"detected", "stale"}] :
       LET loaded == LoadJson(hostFiles.watchlist)
           synced == SyncedWatchlist(loaded, {l \in LogFile : ShouldRecommend(status[l])})
       IN  discScan' = IF synced = loaded THEN At("done")
                       ELSE Pending("saveWatchlist", hostFiles.watchlist, synced)
  /\ UNCHANGED <<hostFiles, discFaults, discSwitch>>

TruncateWatchlist ==
  /\ discScan.pc = "saveWatchlist"
  /\ hostFiles' = [hostFiles EXCEPT !.watchlist = Torn]
  /\ discScan' = [discScan EXCEPT !.pc = "writeWatchlist"]
  /\ UNCHANGED <<discFaults, discSwitch>>

WriteWatchlist ==
  /\ discScan.pc = "writeWatchlist"
  /\ hostFiles' = [hostFiles EXCEPT !.watchlist = File(discScan.pending)]
  /\ discScan' = At("done")
  /\ UNCHANGED <<discFaults, discSwitch>>

\* The agent is killed, or stops, and is started again, perhaps with another switch: it
\* scans once after it started.
Killed ==
  /\ discFaults.kills < MaxKills
  /\ discScan' = At("idle")
  /\ discSwitch' \in BOOLEAN
  /\ discFaults' = [discFaults EXCEPT !.kills = @ + 1]
  /\ UNCHANGED hostFiles

Init ==
  /\ hostFiles = [integrations |-> File(Nothing), watchlist |-> File(Nothing)]
  /\ discScan = At("idle")
  /\ discFaults = [edits |-> 0, kills |-> 0]
  /\ discSwitch \in BOOLEAN

Next ==
  \/ \E svc \in Service : EditIntegration(svc)
  \/ \E log \in LogFile : EditWatchlist(log)
  \/ SyncIntegrations \/ TruncateIntegrations \/ WriteIntegrations
  \/ SyncLogWatchlist \/ TruncateWatchlist \/ WriteWatchlist
  \/ Killed

Spec == Init /\ [][Next]_vars

-----------------------------------------------------------------------------
(* Properties *)

\* The scan is in one of its steps, and only a save leaves a file truncated.
TypeOK ==
  /\ discScan.pc \in {"idle", "saveIntegrations", "writeIntegrations",
                      "logs", "saveWatchlist", "writeWatchlist", "done"}
  /\ DOMAIN hostFiles.integrations.data \subseteq Service
  /\ DOMAIN hostFiles.watchlist.data \subseteq LogFile
  /\ discFaults.kills = 0 =>
       /\ hostFiles.integrations.torn => discScan.pc = "writeIntegrations"
       /\ hostFiles.watchlist.torn => discScan.pc = "writeWatchlist"

Edit == discFaults'.edits # discFaults.edits

\* The user has not saved a file since the scan under way read it.
NotSavedSince(file) == "read" \in DOMAIN discScan => discScan.read = file

\* "without overwriting user settings" (autoConfig.js:20), as far as the code keeps it:
\* once the user has written an entry or a log no scan removes it, changes its
\* credentials, turns it off, or turns on a log or what needs credentials.  What needs
\* none is turned on unless the entry itself says that it was not detected, where the
\* comments (autoConfig.js:44, 64) promise that the flag of an entry the user made is
\* never touched.  A new log is enabled by the switch only.  Two things are not kept: what
\* is saved between the read and the write of a scan, and a file that a kill left truncated.
KeepsUserSettings ==
  ~Edit =>
    LET written(old, new) == IF new.torn /\ ~old.torn THEN discScan'.pending ELSE new.data
        file == hostFiles.integrations
        entries == written(file, hostFiles'.integrations)
        list == hostFiles.watchlist
        logs == written(list, hostFiles'.watchlist)
    IN  /\ ~file.torn /\ NotSavedSince(file) =>
             \A svc \in DOMAIN file.data :
               /\ svc \in DOMAIN entries
               /\ entries[svc].config = file.data[svc].config
               /\ entries[svc].monitor # file.data[svc].monitor =>
                    /\ entries[svc].monitor
                    /\ svc \in CanAutoEnable
                    /\ file.data[svc].autoDetected # "no"
        /\ ~list.torn /\ NotSavedSince(list) =>
             /\ DOMAIN list.data \subseteq DOMAIN logs
             /\ \A log \in DOMAIN logs :
                  logs[log] = IF log \in DOMAIN list.data THEN list.data[log] ELSE discSwitch

UserSettingsKept == [][KeepsUserSettings]_vars
=============================================================================
