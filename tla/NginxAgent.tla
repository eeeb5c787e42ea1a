----------------------------- MODULE NginxAgent -----------------------------
(***************************************************************************)
(* app/integrations/nginx.js: the access log is followed line by line,     *)
(* lines wait in logBuffer and are sent by a timer, or at once when there  *)
(* are MAX_BUFFER of them: counted by origin and class of status for one   *)
(* database, one by one for the other.  A second timer asks systemctl how  *)
(* nginx does and tells every change.                                      *)
(*                                                                         *)
(* A question takes two processes, and the timer does not wait for their   *)
(* answers: questions overlap and may be answered in any order.            *)
(***************************************************************************)
EXTENDS Integers, Sequences, SequencesExt, FiniteSets

CONSTANTS
  MaxBuffer,   \* MAX_BUFFER
  MaxLines,    \* bound: lines of the log
  MaxChecks,   \* bound: questions
  MaxChanges   \* bound: starts and stops of nginx

NginxAssumption ==
  /\ MaxBuffer \in Nat \ {0}
  /\ {MaxLines, MaxChecks, MaxChanges} \subseteq Nat

Unasked == "null"

Origin == {"host", "invalid-url"}

StatusClass == {1, 2, 5}

VARIABLES
  nginxLog,      \* history: the lines the format matches, in order
  nginxBuffer,   \* logBuffer
  nginxSent,     \* [influx, elastic] of every flush
  nginxServer,   \* [active, changes]
  nginxChecks,   \* the questions under way and what they saw
  nginxStatus    \* [previous, updates]: previousStatus and what was told

vars == <<nginxLog, nginxBuffer, nginxSent, nginxServer, nginxChecks, nginxStatus>>

lineVars == <<nginxLog, nginxBuffer, nginxSent>>

checkVars == <<nginxServer, nginxChecks, nginxStatus>>

-----------------------------------------------------------------------------
(* Lines *)

Line == [origin : Origin, class : StatusClass]

\* Per origin: all lines, and those of the classes that are counted.
Stats(buffer) ==
  LET lines(o) == {i \in DOMAIN buffer : buffer[i].origin = o}
      ofClass(o, c) == {i \in lines(o) : buffer[i].class = c}
  IN  [o \in {buffer[i].origin : i \in DOMAIN buffer} |->
         [total |-> Cardinality(lines(o)),
          classes |-> [c \in 2 .. 5 |-> Cardinality(ofClass(o, c))]]]

\* flushLogBuffer of what is in the buffer.
Flushed(buffer) ==
  IF buffer = << >> THEN nginxSent
  ELSE Append(nginxSent, [influx |-> Stats(buffer), elastic |-> buffer])

\* Mutation: a full buffer is sent and not emptied.
TakenFull(buffer) ==
  /\ nginxBuffer' = buffer
  /\ nginxSent' = IF Len(buffer) >= MaxBuffer THEN Flushed(buffer) ELSE nginxSent

Taken(buffer) ==
  IF Len(buffer) >= MaxBuffer
  THEN nginxBuffer' = << >> /\ nginxSent' = Flushed(buffer)
  ELSE nginxBuffer' = buffer /\ UNCHANGED nginxSent

\* Lines of another format, and those without a path, are passed over.
ProcessLogLine(line) ==
  /\ Len(nginxLog) < MaxLines
  /\ nginxLog' = Append(nginxLog, line)
  /\ Taken(Append(nginxBuffer, line))
  /\ UNCHANGED checkVars

FlushLogBuffer ==
  /\ nginxBuffer # << >>
  /\ nginxSent' = Flushed(nginxBuffer)
  /\ nginxBuffer' = << >>
  /\ UNCHANGED nginxLog
  /\ UNCHANGED checkVars

-----------------------------------------------------------------------------
(* Status *)

Changes ==
  /\ nginxServer.changes < MaxChanges
  /\ nginxServer' = [active |-> ~nginxServer.active, changes |-> nginxServer.changes + 1]
  /\ UNCHANGED <<nginxChecks, nginxStatus>>
  /\ UNCHANGED lineVars

\* The timer: `which systemctl` is started.
MonitorNginxStatus ==
  /\ Len(nginxChecks) < MaxChecks
  /\ nginxChecks' = Append(nginxChecks, "which")
  /\ UNCHANGED <<nginxServer, nginxStatus>>
  /\ UNCHANGED lineVars

Becomes(c, stage) == nginxChecks' = [nginxChecks EXCEPT ![c] = stage]

\* There is no systemctl, or the process failed.
NoSystemctl(c) ==
  /\ nginxChecks[c] = "which"
  /\ Becomes(c, "done")
  /\ nginxStatus' = [nginxStatus EXCEPT !.previous = Unasked]
  /\ UNCHANGED nginxServer
  /\ UNCHANGED lineVars

\* `systemctl is-active nginx` runs and says what it sees, or nothing.
IsActive(c) ==
  /\ nginxChecks[c] = "which"
  /\ \E said \in {IF nginxServer.active THEN "active" ELSE "inactive", ""} : Becomes(c, said)
  /\ UNCHANGED <<nginxServer, nginxStatus>>
  /\ UNCHANGED lineVars

\* Mutation: what was told is remembered only if nginx is up.
ToldIfActive(status, seen) ==
  [previous |-> IF seen = "active" THEN seen ELSE status.previous,
   updates |-> IF status.previous = seen THEN status.updates
               ELSE Append(status.updates, [status |-> seen, prev |-> status.previous])]

Told(status, seen) ==
  [previous |-> seen,
   updates |-> IF status.previous = seen THEN status.updates
               ELSE Append(status.updates, [status |-> seen, prev |-> status.previous])]

StatusKnown(c) ==
  /\ nginxChecks[c] \in {"active", "inactive", ""}
  /\ nginxStatus' = Told(nginxStatus, nginxChecks[c])
  /\ Becomes(c, "done")
  /\ UNCHANGED nginxServer
  /\ UNCHANGED lineVars

Init ==
  /\ nginxLog = << >>
  /\ nginxBuffer = << >>
  /\ nginxSent = << >>
  /\ nginxServer = [active |-> TRUE, changes |-> 0]
  /\ nginxChecks = << >>
  /\ nginxStatus = [previous |-> Unasked, updates |-> << >>]

Next ==
  \/ \E line \in Line : ProcessLogLine(line)
  \/ FlushLogBuffer
  \/ Changes
  \/ MonitorNginxStatus
  \/ \E c \in DOMAIN nginxChecks : NoSystemctl(c) \/ IsActive(c) \/ StatusKnown(c)

Spec == Init /\ [][Next]_vars

-----------------------------------------------------------------------------
(* Properties *)

\* The buffer stays below its limit between two lines, and a check is in one of its steps.
TypeOK ==
  /\ nginxLog \in Seq(Line) /\ nginxBuffer \in Seq(Line)
  /\ Len(nginxBuffer) < MaxBuffer
  /\ Range(nginxChecks) \subseteq {"which", "active", "inactive", "", "done"}

\* All the lines that flushes sent one by one, in order.
ToldOneByOne(flushes) ==
  LET upTo[n \in 0 .. Len(flushes)] ==
        IF n = 0 THEN << >> ELSE upTo[n - 1] \o flushes[n].elastic
  IN  upTo[Len(flushes)]

\* The lines that a flush counted, of an origin.
ToldInTotal(stats, o) == IF o \in DOMAIN stats THEN stats[o].total ELSE 0

\* Whichever flush takes a line, the one that is due or the one the line causes, it is
\* told once to either database, in order, and the totals add up to the lines.
EveryLineToldOnce ==
  /\ nginxLog = ToldOneByOne(nginxSent) \o nginxBuffer
  /\ \A i \in DOMAIN nginxSent :
       ToldInTotal(nginxSent[i].influx, "host") + ToldInTotal(nginxSent[i].influx, "invalid-url")
         = Len(nginxSent[i].elastic)

\* However late the answers come and in whatever order, every update tells a change, and
\* continues from the update before it, unless systemctl could not be asked in between.
UpdatesAreChanges ==
  LET u == nginxStatus.updates
  IN  /\ \A i \in DOMAIN u : u[i].status # u[i].prev
      /\ \A i \in 2 .. Len(u) : u[i].prev \in {u[i - 1].status, Unasked}
      /\ u # << >> => nginxStatus.previous \in {Last(u).status, Unasked}
=============================================================================
