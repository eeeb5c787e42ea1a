------------------------------ MODULE LogAgent ------------------------------
(***************************************************************************)
(* app/log-agent.js and app/normalizer/normalizeLogLines.js: how the lines *)
(* of a watched file become log events.  chokidar reports a change, one    *)
(* window of the file is read, its lines are grouped into events, and an   *)
(* event is emitted unless an equal message was emitted a moment ago.      *)
(*                                                                         *)
(* The handler is synchronous and one action.  The reader is the one of    *)
(* LogTail, of which this module needs only that it delivers the complete  *)
(* lines in order, and that a window may end after any of them.            *)
(***************************************************************************)
EXTENDS Integers, Sequences, SequencesExt

CONSTANTS
  Key,           \* the deduplication keys of messages: name and first 100 characters
  RecentLogsMax, \* RECENT_LOGS_MAX
  RecentEvicted, \* keys that make room when the table is full: a fifth of it
  MaxLines,      \* bound: lines of the file
  MaxReloads     \* bound: changes of log-watchlist.json

ASSUME AgentAssumption ==
  /\ {MaxLines, MaxReloads} \subseteq Nat
  /\ RecentLogsMax \in Nat
  /\ RecentEvicted \in 1 .. RecentLogsMax

\* A line that opens an error, one that looks like a stack frame, any other.
Kind == {"error", "frame", "plain"}

Line == [kind : Kind, key : Key]

VARIABLES
  file,           \* the complete lines of the file
  watched,        \* the watcher: "none", "grouped", or "custom" for format and pattern
  changed,        \* chokidar has a change to report
  read,           \* number of lines the reader's offset has passed
  pendingEvent,   \* fileNormalizerState: the line numbers of the open event
  recentLogKeys,  \* the Set, in the order of insertion
  expiries,       \* the timers of addRecentKey, oldest first
  events,         \* history: what became of the lines that were read
  readEnds,       \* history: the lines at which a read ended
  reloads         \* history: number of reloads

vars == <<file, watched, changed, read, pendingEvent, recentLogKeys, expiries,
          events, readEnds, reloads>>

\* An event: its lines, whether they were grouped, and where it went: "emitted",
\* "duplicate" or "forgotten".
Event(lines, grouped, fate) == [lines |-> lines, grouped |-> grouped, fate |-> fate]

\* The numbers of the lines after the first a, up to b.
LinesAfter(a, b) == [k \in 1 .. b - a |-> a + k]

-----------------------------------------------------------------------------
(* normalizeLogLines *)

\* What the loop carries: the open event and the finished ones.
Flush(acc) ==
  IF acc.current = << >>
  THEN acc
  ELSE [current |-> << >>, done |-> Append(acc.done, acc.current)]

\* Mutation: only the first frame is taken for part of the error.
AddLineOneFrame(acc, n) ==
  CASE file[n].kind = "error" ->
         [Flush(acc) EXCEPT !.current = <<n>>]
    [] file[n].kind = "frame" /\ Len(acc.current) = 1 ->
         [acc EXCEPT !.current = Append(@, n)]
    [] OTHER ->
         [current |-> << >>, done |-> Append(Flush(acc).done, <<n>>)]

AddLine(acc, n) ==
  CASE file[n].kind = "error" ->
         [Flush(acc) EXCEPT !.current = <<n>>]
    [] file[n].kind = "frame" /\ acc.current # << >> ->
         [acc EXCEPT !.current = Append(@, n)]
    [] OTHER ->
         [current |-> << >>, done |-> Append(Flush(acc).done, <<n>>)]

\* At the end of the batch: an open event that has frames is taken for complete.
EndOfBatch(acc) == IF Len(acc.current) > 1 THEN Flush(acc) ELSE acc

\* The open event and the finished ones after k of the unread lines.
Grouped[k \in 0 .. Len(file) - read] ==
  IF k = 0
  THEN [current |-> pendingEvent, done |-> << >>]
  ELSE AddLine(Grouped[k - 1], read + k)

NormalizeLogLines(upTo) == EndOfBatch(Grouped[upTo - read])

-----------------------------------------------------------------------------
(* emitNormalizedEvent, and the end of processLogLine *)

MakeRoom(keys) ==
  IF Len(keys) >= RecentLogsMax THEN SubSeq(keys, RecentEvicted + 1, Len(keys)) ELSE keys

\* Mutation: a key that has a timer already gets no second one.
ArmOnce(timers, timer) ==
  IF \E i \in DOMAIN timers : timers[i].key = timer.key THEN timers ELSE Append(timers, timer)

Arm(timers, timer) == Append(timers, timer)

\* An event is known by the message of its first line.  A timer remembers the
\* event it was armed for, as history.
EmitEvent(acc, lines, grouped) ==
  LET key     == file[Head(lines)].key
      fate(f) == Append(acc.events, Event(lines, grouped, f))
  IN  IF key \in ToSet(acc.keys)
      THEN [acc EXCEPT !.events = fate("duplicate")]
      ELSE [keys   |-> Append(MakeRoom(acc.keys), key),
            timers |-> Arm(acc.timers, [key |-> key, event |-> Len(acc.events) + 1]),
            events |-> fate("emitted")]

EmitAll(batch, grouped) ==
  LET emitted[n \in 0 .. Len(batch)] ==
        IF n = 0
        THEN [keys |-> recentLogKeys, timers |-> expiries, events |-> events]
        ELSE EmitEvent(emitted[n - 1], batch[n], grouped)
  IN  emitted[Len(batch)]

\* Set.delete.
Delete(keys, key) ==
  IF key \in ToSet(keys)
  THEN RemoveAt(keys, CHOOSE i \in DOMAIN keys : keys[i] = key)
  ELSE keys

-----------------------------------------------------------------------------
(* The file, the watcher and the configuration *)

WriteLine(line) ==
  /\ Len(file) < MaxLines
  /\ file' = Append(file, line)
  /\ changed' = (watched # "none")
  /\ UNCHANGED <<watched, read, pendingEvent, recentLogKeys, expiries, events, readEnds, reloads>>

\* What the handler makes of the lines up to upTo: nothing when there are none, one
\* event of each under a format or pattern of the user, or groups.
Processed(upTo) ==
  IF upTo = read \/ watched = "custom"
  THEN [done |-> [k \in 1 .. upTo - read |-> <<read + k>>], current |-> pendingEvent]
  ELSE NormalizeLogLines(upTo)

\* The 'change' handler.  Nothing is read if the read fails; what is left in the
\* file waits for the next change.
OnChange ==
  /\ changed
  /\ changed' = FALSE
  /\ \E upTo \in read .. Len(file) :
       LET result == Processed(upTo)
           after  == EmitAll(result.done, watched = "grouped")
       IN  /\ read' = upTo
           /\ pendingEvent' = result.current
           /\ recentLogKeys' = after.keys
           /\ expiries' = after.timers
           /\ events' = after.events
           /\ readEnds' = readEnds \cup {upTo}
  /\ UNCHANGED <<file, watched, reloads>>

\* The timer of the key that was added first deletes it, or what was added under
\* the same name since.
ExpireKey ==
  /\ expiries # << >>
  /\ recentLogKeys' = Delete(recentLogKeys, Head(expiries).key)
  /\ expiries' = Tail(expiries)
  /\ UNCHANGED <<file, watched, changed, read, pendingEvent, events, readEnds, reloads>>

Forget(lines) ==
  IF lines = << >>
  THEN events
  ELSE Append(events, Event(lines, TRUE, "forgotten"))

\* Mutation: the open event outlives the watcher.
ReloadKeepsPending ==
  /\ reloads < MaxReloads
  /\ reloads' = reloads + 1
  /\ watched' \in {"none", "grouped", "custom"}
  /\ changed' = FALSE
  /\ UNCHANGED <<file, read, pendingEvent, recentLogKeys, expiries, events, readEnds>>

\* startMonitoring closes the watchers with what they had to report and clears
\* fileNormalizerState.  The offset and the keys are kept.
Reload ==
  /\ reloads < MaxReloads
  /\ reloads' = reloads + 1
  /\ watched' \in {"none", "grouped", "custom"}
  /\ changed' = FALSE
  /\ pendingEvent' = << >>
  /\ events' = Forget(pendingEvent)
  /\ UNCHANGED <<file, read, recentLogKeys, expiries, readEnds>>

Init ==
  /\ file = << >>
  /\ watched \in {"grouped", "custom"}
  /\ changed = FALSE
  /\ read = 0
  /\ pendingEvent = << >>
  /\ recentLogKeys = << >>
  /\ expiries = << >>
  /\ events = << >>
  /\ readEnds = {}
  /\ reloads = 0

Next ==
  \/ \E line \in Line : WriteLine(line)
  \/ OnChange
  \/ ExpireKey
  \/ Reload

Spec == Init /\ [][Next]_vars

-----------------------------------------------------------------------------
(* Properties *)

\* The line at which the first i events end.
EndOf(i) == IF i = 0 THEN 0 ELSE Last(events[i].lines)

\* Every line that was read is in exactly one event, in the order of the file, or in
\* the one that is still open, however reads and reloads cut the file: each event goes
\* on where the one before it ended.
EveryLineOnce ==
  /\ \A i \in DOMAIN events :
       /\ events[i].lines # << >>
       /\ events[i].lines = LinesAfter(EndOf(i - 1), EndOf(i))
  /\ pendingEvent = LinesAfter(EndOf(Len(events)), read)

\* A stack frame is parted from its error only where a read ended: within one
\* window each error comes with all its frames.
TornOnlyBetweenReads ==
  \A i \in DOMAIN events :
    LET e == events[i]
        n == Last(e.lines)
    IN  e.grouped /\ file[Head(e.lines)].kind = "error" /\ n < read /\ n \notin readEnds
          => file[n + 1].kind # "frame"

\* No message is muted for ever: a key in the table has a timer to come that was
\* armed when it was last emitted, through evictions, returns of an evicted key
\* and timers that were armed for an earlier stay.  The table holds at most
\* RECENT_LOGS_MAX of them.
KeysExpire ==
  /\ Len(recentLogKeys) <= RecentLogsMax
  /\ \A k \in ToSet(recentLogKeys) :
       \E t \in ToSet(expiries) :
         /\ t.key = k
         /\ \A i \in t.event + 1 .. Len(events) :
              events[i].fate = "emitted" => file[Head(events[i].lines)].key # k

\* "If the open event already has stack frames it arrived complete in this
\* batch": no frame of it follows.
StackArrivedComplete ==
  \A i \in DOMAIN events :
    LET e == events[i]
        n == Last(e.lines)
    IN  e.grouped /\ Len(e.lines) > 1 /\ n < Len(file) => file[n + 1].kind # "frame"
=============================================================================
