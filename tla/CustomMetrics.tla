---------------------------- MODULE CustomMetrics ----------------------------
(***************************************************************************)
(* app/index.js: the custom metrics.  Programs on the host send samples by *)
(* GET / and GET /node, which do the same; the agent keeps one record for  *)
(* each metric, and every 10 seconds hands the records to                  *)
(* emitWhenConnected and starts anew.  The payload is sent, queued while   *)
(* there is no connection, or dropped while the account is suspended.      *)
(*                                                                         *)
(* Every handler runs to its end before the next one: a request is         *)
(* answered first, and then handled without a pause.  The average of a     *)
(* record is its sum over its count, and is left out.  A sample that is    *)
(* absent, no number or 0 counts as none.                                  *)
(***************************************************************************)
EXTENDS Integers, Sequences, SequencesExt, FiniteSetsExt, Functions

CONSTANTS
  Metric,      \* names of metrics
  Sample,      \* values that are sent
  Percent,     \* the values from 0 to 100 among them
  MaxMetrics,  \* metrics at one time: 1000 in the code
  MaxSamples,  \* bound: requests
  MaxFlushes   \* bound: ticks of 10 seconds

CustomMetricsAssumption ==
  /\ Percent \subseteq Sample
  /\ Sample \subseteq Int
  /\ {MaxSamples, MaxFlushes} \subseteq Nat
  /\ MaxMetrics \in Nat \ {0}

Method == {"increment", "decrement", "distribution", "gauge", "percentage", "systembyte"}

Nothing == [m \in {} |-> 0]

\* A map after an assignment to one of its keys.
Put(map, key, value) ==
  [k \in DOMAIN map \cup {key} |-> IF k = key THEN value ELSE map[k]]

VARIABLES
  customMetrics,  \* the records since the last tick, by metric
  socket,         \* "connected", "offline" or "suspended"
  payloads,       \* what was sent, queued and dropped so far
  samples,        \* history: the samples of each metric since the last tick
  received        \* history: the samples that were taken so far, and all requests

vars == <<customMetrics, socket, payloads, samples, received>>

-----------------------------------------------------------------------------
(* Samples *)

\* What a method makes of the value; 0 is none.
Value(method, value) ==
  CASE method = "decrement" -> IF value > 0 THEN -value ELSE value
    [] method = "percentage" -> IF value \in Percent THEN value ELSE 0
    [] OTHER -> value

\* Mutation: a record that is there keeps its minimum.
AggregatedWithoutMin(record, method, value) ==
  IF method = "distribution"
  THEN [count |-> record.count + 1, sum |-> value, min |-> value, max |-> value, last |-> value]
  ELSE [count |-> record.count + 1, sum |-> record.sum + value, min |-> record.min,
        max |-> Max({record.max, value}), last |-> value]

\* A record and one more sample; a distribution forgets the samples before it.
Aggregated(record, method, value) ==
  IF method = "distribution"
  THEN [count |-> record.count + 1, sum |-> value, min |-> value, max |-> value, last |-> value]
  ELSE [count |-> record.count + 1, sum |-> record.sum + value, min |-> Min({record.min, value}),
        max |-> Max({record.max, value}), last |-> value]

FirstRecord(value) == [count |-> 1, sum |-> value, min |-> value, max |-> value, last |-> value]

\* Nothing is taken when there are too many metrics, not even for one of them.
TakeSample(metric, method, value) ==
  LET taken == Cardinality(DOMAIN customMetrics) < MaxMetrics /\ Value(method, value) # 0
      record == IF metric \in DOMAIN customMetrics
                THEN Aggregated(customMetrics[metric], method, Value(method, value))
                ELSE FirstRecord(Value(method, value))
      before == IF metric \in DOMAIN samples THEN samples[metric] ELSE << >>
  IN  /\ received.requests < MaxSamples
      /\ customMetrics' = IF taken THEN Put(customMetrics, metric, record) ELSE customMetrics
      /\ samples' = IF taken
                    THEN Put(samples, metric,
                             Append(before, [method |-> method, value |-> Value(method, value)]))
                    ELSE samples
      /\ received' = [taken |-> received.taken + IF taken THEN 1 ELSE 0,
                      requests |-> received.requests + 1, flushes |-> received.flushes]
      /\ UNCHANGED <<socket, payloads>>

-----------------------------------------------------------------------------
(* Ticks *)

\* The samples that records stand for: so many of each metric.
CountedIn(records) == UNION {{m} \X (1 .. records[m].count) : m \in DOMAIN records}

CountOf(records) == Cardinality(CountedIn(records))

\* Mutation: the records stay until there is a connection.
KeptWhileOffline == IF socket = "offline" THEN customMetrics ELSE Nothing

Cleared == Nothing

\* emitWhenConnected, and the records are cleared whatever it did with them.
Flush ==
  LET route == CASE socket = "suspended" -> "dropped"
                 [] socket = "connected" -> "sent"
                 [] OTHER -> "queued"
  IN  /\ received.flushes < MaxFlushes
      /\ payloads' = [payloads EXCEPT ![route] = @ + CountOf(customMetrics)]
      /\ customMetrics' = Cleared
      /\ samples' = Nothing
      /\ received' = [received EXCEPT !.flushes = @ + 1]
      /\ UNCHANGED socket

SocketChanges ==
  /\ \E state \in {"connected", "offline", "suspended"} \ {socket} : socket' = state
  /\ UNCHANGED <<customMetrics, payloads, samples, received>>

Init ==
  /\ customMetrics = Nothing
  /\ socket = "offline"
  /\ payloads = [sent |-> 0, queued |-> 0, dropped |-> 0]
  /\ samples = Nothing
  /\ received = [taken |-> 0, requests |-> 0, flushes |-> 0]

Next ==
  \/ \E metric \in Metric, method \in Method, value \in Sample : TakeSample(metric, method, value)
  \/ Flush
  \/ SocketChanges

Spec == Init /\ [][Next]_vars

-----------------------------------------------------------------------------
(* Properties *)

\* There is room for every record, and the socket is in one of its states.
TypeOK ==
  /\ DOMAIN customMetrics \subseteq Metric
  /\ Cardinality(DOMAIN customMetrics) <= MaxMetrics
  /\ socket \in {"connected", "offline", "suspended"}

\* A sample that was taken is counted in exactly one place, in a payload that was
\* sent, queued or dropped, or in the records that are still here, whatever the
\* connection does between the ticks.
EverySampleOnce ==
  payloads.sent + payloads.queued + payloads.dropped + CountOf(customMetrics) = received.taken

\* The first sample that is not forgotten, and the sum of those from there on.
StartOf(all) == Max({1} \cup {i \in 1 .. Len(all) : all[i].method = "distribution"})

SumSince(start, all) ==
  LET upTo[n \in 0 .. Len(all)] == IF n < start THEN 0 ELSE upTo[n - 1] + all[n].value
  IN  upTo[Len(all)]

Tells(r, all) ==
  LET since == StartOf(all) .. Len(all)
  IN  /\ r.count = Len(all)
      /\ r.last = all[Len(all)].value
      /\ r.sum = SumSince(StartOf(all), all)
      /\ \A i \in since : r.min <= all[i].value /\ all[i].value <= r.max
      /\ \E i, j \in since : r.min = all[i].value /\ r.max = all[j].value

\* A record tells of the samples of its metric: their number, the last one, and of
\* those since the last distribution (that one included) the sum and the bounds,
\* although methods are mixed and the two routes interleave.
RecordsTellSamples == \A m \in DOMAIN customMetrics : Tells(customMetrics[m], samples[m])
=============================================================================
