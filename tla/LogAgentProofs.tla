--------------------------- MODULE LogAgentProofs ---------------------------
(***************************************************************************)
(* What log-agent.js makes of the lines of a file, for every number of     *)
(* lines, keys and reloads and every size of the table of recent messages. *)
(*                                                                         *)
(* Both loops of the 'change' handler are recursive functions: Grouped on  *)
(* the lines that are read, and the one of EmitAll on the events.          *)
(***************************************************************************)
EXTENDS LogAgent, InductionLemmas

\* A sequence of n elements of S is a sequence over S.
LEMMA Enumerated ==
  ASSUME NEW S, NEW n \in Nat, NEW f \in [1 .. n -> S]
  PROVE  f \in Seq(S) /\ Len(f) = n /\ DOMAIN f = 1 .. n
  OBVIOUS

\* The lines after a, up to b.
LEMMA LinesBetween ==
  ASSUME NEW a \in Nat, NEW b \in Nat, a <= b
  PROVE  /\ LinesAfter(a, b) \in Seq(Nat)
         /\ Len(LinesAfter(a, b)) = b - a
         /\ a = b <=> LinesAfter(a, b) = << >>
         /\ a < b => Head(LinesAfter(a, b)) = a + 1 /\ Last(LinesAfter(a, b)) = b
<1> DEFINE f == LinesAfter(a, b)
<1>1. b - a \in Nat
  OBVIOUS
<1>2. f \in [1 .. b - a -> Nat]
  BY <1>1 DEF LinesAfter
<1>3. f \in Seq(Nat) /\ Len(f) = b - a /\ DOMAIN f = 1 .. b - a
  BY <1>1, <1>2, Enumerated, Zenon
<1>4. \A k \in 1 .. b - a : f[k] = a + k
  BY DEF LinesAfter
<1>. HIDE DEF f
<1>5. a < b => Head(f) = a + 1 /\ Last(f) = b
  <2>1. a < b => 1 \in 1 .. b - a /\ b - a \in 1 .. b - a
    OBVIOUS
  <2>. QED
    BY <1>3, <1>4, <2>1 DEF Last
<1>6. a = b <=> f = << >>
  BY <1>3
<1>. QED
  BY <1>3, <1>5, <1>6 DEF f

\* One line more.
LEMMA LineMore ==
  ASSUME NEW a \in Nat, NEW b \in Nat, a <= b
  PROVE  /\ Append(LinesAfter(a, b), b + 1) = LinesAfter(a, b + 1)
         /\ LinesAfter(b, b + 1) = <<b + 1>>
<1> DEFINE f == LinesAfter(a, b)
           g == LinesAfter(a, b + 1)
<1>1. b + 1 \in Nat /\ a <= b + 1 /\ b <= b + 1
  OBVIOUS
<1>2. f \in Seq(Nat) /\ Len(f) = b - a /\ g \in Seq(Nat) /\ Len(g) = (b + 1) - a
  BY <1>1, LinesBetween, Zenon
<1>3. (\A k \in 1 .. b - a : f[k] = a + k) /\ (\A k \in 1 .. (b + 1) - a : g[k] = a + k)
  BY DEF LinesAfter
<1>4. LinesAfter(b, b + 1) = <<b + 1>>
  <2>1. LinesAfter(b, b + 1) \in Seq(Nat) /\ Len(LinesAfter(b, b + 1)) = (b + 1) - b
    BY <1>1, LinesBetween, Zenon
  <2>2. LinesAfter(b, b + 1)[1] = b + 1
    BY DEF LinesAfter
  <2>. HIDE DEF LinesAfter
  <2>. QED
    BY <2>1, <2>2
<1>. HIDE DEF f, g
<1>5. Append(f, b + 1) = g
  BY SMTT(30), <1>2, <1>3
<1>. QED
  BY <1>4, <1>5 DEF f, g

-----------------------------------------------------------------------------
(* Events that follow one another *)

\* The line at which ends what comes before the i-th part of s, which begins after a.
EndBefore(s, a, i) == IF i = 1 THEN a ELSE Last(s[i - 1])

\* The i-th part goes on where the one before it ended.
Continues(s, a, i, b) ==
  /\ s[i] # << >>
  /\ s[i] = LinesAfter(EndBefore(s, a, i), Last(s[i]))
  /\ Last(s[i]) \in a + 1 .. b
  /\ Head(s[i]) \in a + 1 .. b

\* The parts of s are the lines after a, up to b, each once and in order.
Follows(s, a, b) ==
  /\ s \in Seq(Seq(Nat)) /\ a \in Nat /\ b \in Nat /\ a <= b
  /\ b = EndBefore(s, a, Len(s) + 1)
  /\ \A i \in 1 .. Len(s) : Continues(s, a, i, b)

\* No part, no line.
LEMMA FollowsNothing ==
  ASSUME NEW a \in Nat PROVE Follows(<< >>, a, a)
  BY DEF Follows, EndBefore

\* Another part goes on to c.
LEMMA FollowsMore ==
  ASSUME NEW s, NEW a, NEW b, Follows(s, a, b), NEW c \in Nat, b < c
  PROVE  Follows(Append(s, LinesAfter(b, c)), a, c)
<1> DEFINE l == LinesAfter(b, c)
           t == Append(s, l)
<1>1. s \in Seq(Seq(Nat)) /\ a \in Nat /\ b \in Nat /\ a <= b /\ Len(s) \in Nat
      /\ b = EndBefore(s, a, Len(s) + 1)
  BY DEF Follows
<1>2. l \in Seq(Nat) /\ l # << >> /\ Head(l) = b + 1 /\ Last(l) = c
  <2>1. b \in Nat /\ c \in Nat /\ b <= c /\ b # c
    BY <1>1
  <2>. QED
    BY <2>1, LinesBetween, Zenon
<1>. HIDE DEF l
<1>3. /\ t \in Seq(Seq(Nat)) /\ Len(t) = Len(s) + 1 /\ t[Len(s) + 1] = l
      /\ \A i \in 1 .. Len(s) : t[i] = s[i]
  BY <1>1, <1>2
<1>. HIDE DEF t
<1>4. \A i \in 1 .. Len(s) + 1 : EndBefore(t, a, i) = EndBefore(s, a, i)
  <2>1. SUFFICES ASSUME NEW i \in 1 .. Len(s) + 1 PROVE EndBefore(t, a, i) = EndBefore(s, a, i)
    OBVIOUS
  <2>2. i # 1 => i - 1 \in 1 .. Len(s)
    BY <1>1
  <2>. QED
    BY <1>3, <2>2, Zenon DEF EndBefore
<1>5. EndBefore(t, a, Len(t) + 1) = c
  <2>1. Len(t) + 1 # 1 /\ (Len(t) + 1) - 1 = Len(s) + 1
    BY <1>1, <1>3
  <2>. QED
    BY <1>2, <1>3, <2>1 DEF EndBefore
<1>6. ASSUME NEW i \in 1 .. Len(t) PROVE Continues(t, a, i, c)
  <2>1. CASE i \in 1 .. Len(s)
    <3>1. Continues(s, a, i, b)
      BY <2>1 DEF Follows
    <3>2. t[i] = s[i] /\ EndBefore(t, a, i) = EndBefore(s, a, i)
      BY <1>1, <1>3, <1>4, <2>1
    <3>3. a + 1 .. b \subseteq a + 1 .. c
      BY <1>1
    <3>. QED
      BY <3>1, <3>2, <3>3, Zenon DEF Continues
  <2>2. CASE i = Len(s) + 1
    <3>1. t[i] = l /\ EndBefore(t, a, i) = b
      BY <1>1, <1>3, <1>4, <2>2
    <3>2. c \in a + 1 .. c /\ b + 1 \in a + 1 .. c
      BY <1>1
    <3>. QED
      BY <1>2, <3>1, <3>2, Zenon DEF Continues, l
  <2>. QED
    BY <1>1, <1>3, <2>1, <2>2
<1>. QED
  BY <1>1, <1>3, <1>5, <1>6 DEF Follows, t, l

\* What is known of a part.
LEMMA PartOfFile ==
  ASSUME NEW s, NEW a, NEW b, Follows(s, a, b), NEW i \in 1 .. Len(s)
  PROVE  /\ s[i] # << >> /\ Head(s[i]) \in a + 1 .. b /\ Last(s[i]) \in a + 1 .. b
         /\ EndBefore(s, a, i) \in Nat /\ EndBefore(s, a, i) < Last(s[i])
         /\ s[i] = LinesAfter(EndBefore(s, a, i), Last(s[i]))
         /\ a \in Nat /\ b \in Nat
<1>1. Continues(s, a, i, b) /\ a \in Nat /\ b \in Nat /\ s \in Seq(Seq(Nat)) /\ Len(s) \in Nat
  BY DEF Follows
<1>2. EndBefore(s, a, i) \in Nat
  <2>1. CASE i = 1
    BY <1>1, <2>1 DEF EndBefore
  <2>2. CASE i # 1
    <3>1. i - 1 \in 1 .. Len(s)
      BY <1>1, <2>2
    <3>2. Continues(s, a, i - 1, b)
      BY <3>1 DEF Follows
    <3>3. Last(s[i - 1]) \in Nat
      BY <1>1, <3>2 DEF Continues
    <3>. QED
      BY <2>2, <3>3 DEF EndBefore
  <2>. QED
    BY <2>1, <2>2
<1>3. EndBefore(s, a, i) < Last(s[i])
  <2>1. s[i] # << >> /\ s[i] = LinesAfter(EndBefore(s, a, i), Last(s[i])) /\ Last(s[i]) \in Nat
    BY <1>1 DEF Continues
  <2> DEFINE m == EndBefore(s, a, i)
             n == Last(s[i])
  <2>2. 1 .. n - m # {}
    <3>1. DOMAIN s[i] = 1 .. n - m
      BY <2>1, Zenon DEF LinesAfter
    <3>2. s[i] \in Seq(Nat)
      BY <1>1
    <3>3. Len(s[i]) \in Nat /\ Len(s[i]) # 0 /\ DOMAIN s[i] = 1 .. Len(s[i])
      BY <2>1, <3>2
    <3>4. 1 \in 1 .. Len(s[i])
      BY <3>3
    <3>. QED
      BY <3>1, <3>3, <3>4, Zenon
  <2>3. m \in Nat /\ n \in Nat
    BY <1>2, <2>1
  <2>. HIDE DEF m, n
  <2>4. m < n
    BY <2>2, <2>3
  <2>. QED
    BY <2>4 DEF m, n
<1>. QED
  BY <1>1, <1>2, <1>3, Zenon DEF Continues

-----------------------------------------------------------------------------
(* What holds of the agent *)

EventRecord ==
  [lines : Seq(Nat), grouped : BOOLEAN, fate : {"emitted", "duplicate", "forgotten"}]

Timer == [key : Key, event : Nat]

AgentTyped ==
  /\ file \in Seq(Line)
  /\ watched \in {"none", "grouped", "custom"}
  /\ changed \in BOOLEAN
  /\ read \in 0 .. Len(file)
  /\ pendingEvent \in Seq(Nat)
  /\ recentLogKeys \in Seq(Key)
  /\ expiries \in Seq(Timer)
  /\ events \in Seq(EventRecord)
  /\ readEnds \in SUBSET Nat

\* The lines of each event of evs.
LinesOf(evs) == [i \in 1 .. Len(evs) |-> evs[i].lines]

\* Where the last of them ends.
EndOfAll(evs) == EndBefore(LinesOf(evs), 0, Len(evs) + 1)

\* An error that is held back was opened by the grouping watcher that is still there.
AgentInv ==
  /\ AgentTyped
  /\ Follows(LinesOf(events), 0, EndOfAll(events)) /\ EndOfAll(events) <= read
  /\ pendingEvent = LinesAfter(EndOfAll(events), read)
  /\ pendingEvent # << >> => watched = "grouped" /\ file[Head(pendingEvent)].kind = "error"
  /\ changed => watched # "none"
  /\ read > 0 => read \in readEnds

\* What the invariant says of lines, parts and events.
LEMMA LinesOfEvents ==
  ASSUME NEW evs \in Seq(EventRecord)
  PROVE  /\ LinesOf(evs) \in Seq(Seq(Nat)) /\ Len(LinesOf(evs)) = Len(evs)
         /\ \A i \in 1 .. Len(evs) : LinesOf(evs)[i] = evs[i].lines
<1>1. Len(evs) \in Nat /\ \A i \in 1 .. Len(evs) : evs[i].lines \in Seq(Nat)
  <2>1. Len(evs) \in Nat /\ \A i \in 1 .. Len(evs) : evs[i] \in EventRecord
    OBVIOUS
  <2>. QED
    BY <2>1 DEF EventRecord
<1>2. LinesOf(evs) \in [1 .. Len(evs) -> Seq(Nat)]
  BY <1>1 DEF LinesOf
<1>. QED
  BY <1>1, <1>2, Enumerated DEF LinesOf

LEMMA OneEventMore ==
  ASSUME NEW evs \in Seq(EventRecord), NEW e \in EventRecord
  PROVE  /\ LinesOf(Append(evs, e)) = Append(LinesOf(evs), e.lines)
         /\ Append(evs, e) \in Seq(EventRecord)
         /\ EndOfAll(Append(evs, e)) = Last(e.lines)
<1> DEFINE t == Append(evs, e)
           a == LinesOf(evs)
           b == LinesOf(t)
<1>1. /\ t \in Seq(EventRecord) /\ Len(t) = Len(evs) + 1 /\ Len(evs) \in Nat
      /\ t[Len(evs) + 1] = e /\ \A i \in 1 .. Len(evs) : t[i] = evs[i]
  OBVIOUS
<1>. HIDE DEF t
<1>2. /\ a \in Seq(Seq(Nat)) /\ Len(a) = Len(evs) /\ b \in Seq(Seq(Nat)) /\ Len(b) = Len(t)
      /\ \A i \in 1 .. Len(evs) : a[i] = evs[i].lines
      /\ \A i \in 1 .. Len(t) : b[i] = t[i].lines
  BY <1>1, LinesOfEvents, Zenon
<1>3. e.lines \in Seq(Nat)
  BY DEF EventRecord
<1>. HIDE DEF a, b
<1>4. b[Len(evs) + 1] = e.lines /\ \A i \in 1 .. Len(evs) : b[i] = a[i]
  <2>1. Len(evs) + 1 \in 1 .. Len(t) /\ \A i \in 1 .. Len(evs) : i \in 1 .. Len(t)
    BY <1>1
  <2>. QED
    BY <1>1, <1>2, <2>1, Zenon
<1>5. b = Append(a, e.lines)
  BY <1>1, <1>2, <1>3, <1>4
<1>6. EndBefore(b, 0, Len(t) + 1) = Last(e.lines)
  <2>1. Len(t) + 1 # 1 /\ (Len(t) + 1) - 1 = Len(evs) + 1
    BY <1>1
  <2>. QED
    BY <1>4, <2>1 DEF EndBefore
<1>. QED
  BY <1>1, <1>5, <1>6, Zenon DEF a, b, t, EndOfAll

-----------------------------------------------------------------------------
(* normalizeLogLines *)

\* What the loop carries.
Group == [current : Seq(Nat), done : Seq(Seq(Nat))]

\* AddLine carries on what it was given.
LEMMA AddLineTyped ==
  ASSUME NEW acc \in Group, NEW n \in Nat
  PROVE  AddLine(acc, n) \in Group
<1>1. /\ acc.current \in Seq(Nat) /\ acc.done \in Seq(Seq(Nat)) /\ <<n>> \in Seq(Nat)
      /\ << >> \in Seq(Nat) /\ Append(acc.current, n) \in Seq(Nat)
  BY DEF Group
<1>2. Flush(acc) \in Group
  BY <1>1 DEF Flush, Group
<1>3. [Flush(acc) EXCEPT !.current = <<n>>] \in Group
  BY <1>1, <1>2 DEF Group
<1>4. [acc EXCEPT !.current = Append(@, n)] \in Group
  BY <1>1 DEF Group
<1>5. [current |-> << >>, done |-> Append(Flush(acc).done, <<n>>)] \in Group
  BY <1>1, <1>2 DEF Group
<1>. QED
  BY <1>3, <1>4, <1>5, Zenon DEF AddLine

\* The loop adds one line after the other.
LEMMA GroupedByLines ==
  ASSUME AgentInv
  PROVE  /\ Grouped[0] = [current |-> pendingEvent, done |-> << >>]
         /\ \A k \in 1 .. Len(file) - read : Grouped[k] = AddLine(Grouped[k - 1], read + k)
<1> DEFINE N == Len(file) - read
           S == Group
           base == [current |-> pendingEvent, done |-> << >>]
           next(f) == [k \in 0 .. N |-> IF k = 0 THEN base ELSE AddLine(f[k - 1], read + k)]
           step == [k \in 1 .. N |-> [acc \in S |-> AddLine(acc, read + k)]]
<1>1. N \in Nat /\ read \in Nat /\ base \in S
  BY DEF AgentInv, AgentTyped, Group
<1>2. step \in [1 .. N -> [S -> S]]
  <2>1. ASSUME NEW k \in 1 .. N, NEW acc \in S PROVE AddLine(acc, read + k) \in S
    <3>1. read + k \in Nat
      BY <1>1
    <3>. QED
      BY <3>1, AddLineTyped
  <2>. QED
    BY <2>1
<1>3. PICK g \in [0 .. N -> S] : Recursion(g, base, N, step)
  <2>. HIDE DEF step, N, base, S
  <2>. QED
    BY <1>1, <1>2, RecursiveFunction
<1>4. \A k \in 1 .. N : g[k] = AddLine(g[k - 1], read + k)
  <2>1. ASSUME NEW k \in 1 .. N PROVE g[k] = AddLine(g[k - 1], read + k)
    <3>1. k - 1 \in 0 .. N
      BY <1>1
    <3>2. g[k] = step[k][g[k - 1]] /\ g[k - 1] \in S
      BY <1>3, <3>1 DEF Recursion
    <3>. QED
      BY <3>2, Zenon
  <2>. QED
    BY <2>1
<1>5. g[0] = base
  BY <1>3 DEF Recursion
<1>6. g = next(g)
  <2>1. ASSUME NEW k \in 0 .. N PROVE g[k] = next(g)[k]
    <3>1. CASE k = 0
      BY <1>5, <3>1, Zenon
    <3>2. CASE k # 0
      <4>1. k \in 1 .. N
        BY <1>1, <3>2
      <4>. QED
        BY <1>4, <3>2, <4>1, Zenon
    <3>. QED
      BY <3>1, <3>2
  <2>2. DOMAIN next(g) = 0 .. N /\ next(g) = [k \in 0 .. N |-> next(g)[k]]
        /\ g = [k \in 0 .. N |-> g[k]]
    BY <1>3
  <2>. HIDE DEF next, N, S
  <2>. QED
    BY <2>1, <2>2
<1>7. Grouped = CHOOSE f : f = next(f)
  BY Zenon DEF Grouped
<1>8. Grouped = next(Grouped)
  <2>. HIDE DEF next
  <2>. QED
    BY <1>6, <1>7
<1>9. ASSUME NEW k \in 1 .. N PROVE Grouped[k] = AddLine(Grouped[k - 1], read + k)
  <2>1. k \in 0 .. N /\ k # 0
    BY <1>1
  <2>2. next(Grouped)[k] = AddLine(Grouped[k - 1], read + k)
    BY <2>1, Zenon
  <2>. HIDE DEF next
  <2>. QED
    BY <1>8, <2>2, Zenon
<1>10. Grouped[0] = base
  <2>1. 0 \in 0 .. N
    BY <1>1
  <2>2. next(Grouped)[0] = base
    BY <2>1, Zenon
  <2>. HIDE DEF next
  <2>. QED
    BY <1>8, <2>2, Zenon
<1>. QED
  BY <1>9, <1>10

\* An error of the lines l comes with all its frames.
Whole(l) == file[Head(l)].kind = "error" => file[Last(l) + 1].kind # "frame"

\* acc holds the unread lines up to n: events that are whole, and the open one.
GroupsLines(acc, n) ==
  /\ acc \in Group
  /\ \E m \in Nat :
       /\ Follows(acc.done, EndOfAll(events), m) /\ m <= n
       /\ acc.current = LinesAfter(m, n)
       /\ acc.current # << >> => file[Head(acc.current)].kind = "error"
  /\ \A i \in 1 .. Len(acc.done) : Whole(acc.done[i])

\* A line that is no frame closes the open event, whole.
LEMMA FlushGroups ==
  ASSUME NEW n \in Nat, NEW acc, GroupsLines(acc, n), file[n + 1].kind # "frame"
  PROVE  GroupsLines(Flush(acc), n) /\ Flush(acc).current = << >>
<1>1. PICK m \in Nat :
       /\ Follows(acc.done, EndOfAll(events), m) /\ m <= n
       /\ acc.current = LinesAfter(m, n)
       /\ acc.current # << >> => file[Head(acc.current)].kind = "error"
  BY DEF GroupsLines
<1>2. acc \in Group /\ \A i \in 1 .. Len(acc.done) : Whole(acc.done[i])
  BY DEF GroupsLines
<1>3. CASE acc.current = << >>
  <2>1. Flush(acc) = acc
    BY <1>3 DEF Flush
  <2>. QED
    BY <1>3, <2>1
<1>4. CASE acc.current # << >>
  <2> DEFINE l == LinesAfter(m, n)
             d == Append(acc.done, l)
             new == Flush(acc)
  <2>1. new.current = << >> /\ new.done = d /\ new = [current |-> << >>, done |-> d]
    BY <1>1, <1>4, Zenon DEF Flush
  <2>2. m < n /\ l \in Seq(Nat) /\ Last(l) = n
    BY SMTT(30), <1>1, <1>4, LinesBetween
  <2>3. Follows(d, EndOfAll(events), n)
    BY <1>1, <2>2, FollowsMore, Zenon
  <2>4. Whole(l)
    BY <2>2, Zenon DEF Whole
  <2>5. new.current = LinesAfter(n, n)
    BY <2>1, LinesBetween
  <2>6. acc.done \in Seq(Seq(Nat)) /\ Len(acc.done) \in Nat
    BY <1>2 DEF Group
  <2>. HIDE DEF l
  <2>7. \A i \in 1 .. Len(d) : Whole(d[i])
    <3>1. Len(d) = Len(acc.done) + 1 /\ d[Len(acc.done) + 1] = l
          /\ \A i \in 1 .. Len(acc.done) : d[i] = acc.done[i]
      BY <2>2, <2>6
    <3>2. SUFFICES ASSUME NEW i \in 1 .. Len(d) PROVE Whole(d[i])
      OBVIOUS
    <3>3. i = Len(acc.done) + 1 \/ i \in 1 .. Len(acc.done)
      BY <2>6, <3>1
    <3>. HIDE DEF d
    <3>. QED
      BY <1>2, <2>4, <3>1, <3>3, Zenon
  <2>8. d \in Seq(Seq(Nat))
    BY <2>2, <2>6
  <2>9. new \in Group
    BY <2>1, <2>8 DEF Group
  <2>10. n <= n
    OBVIOUS
  <2>11. GroupsLines(new, n)
    <3>. HIDE DEF d, new
    <3>. QED
      BY <2>1, <2>3, <2>5, <2>7, <2>9, <2>10, Zenon DEF GroupsLines
  <2>. QED
    BY <2>1, <2>11
<1>. QED
  BY <1>3, <1>4

\* The next line opens an event, joins the open one, or closes it and is one alone.
LEMMA AddLineGroups ==
  ASSUME NEW n \in Nat, NEW acc, GroupsLines(acc, n), file[n + 1].kind \in Kind
  PROVE  GroupsLines(AddLine(acc, n + 1), n + 1)
<1> DEFINE new == AddLine(acc, n + 1)
<1>. SUFFICES GroupsLines(new, n + 1)
  OBVIOUS
<1>0. n + 1 \in Nat /\ n <= n + 1 /\ n < n + 1 /\ n + 1 <= n + 1 /\ acc \in Group
  BY DEF GroupsLines
<1>1. new \in Group
  BY <1>0, AddLineTyped
<1>2. CASE file[n + 1].kind = "frame" /\ acc.current # << >>
  <2>1. file[n + 1].kind # "error"
    BY <1>2
  <2>2. new = [acc EXCEPT !.current = Append(@, n + 1)]
    BY <1>2, <2>1, Zenon DEF AddLine
  <2>3. new.current = Append(acc.current, n + 1) /\ new.done = acc.done
    BY <1>0, <2>2 DEF Group
  <2>4. PICK m \in Nat :
         /\ Follows(acc.done, EndOfAll(events), m) /\ m <= n
         /\ acc.current = LinesAfter(m, n)
         /\ acc.current # << >> => file[Head(acc.current)].kind = "error"
    BY DEF GroupsLines
  <2>5. new.current = LinesAfter(m, n + 1) /\ m <= n + 1
    <3>1. m <= n + 1
      BY <2>4
    <3>2. Append(LinesAfter(m, n), n + 1) = LinesAfter(m, n + 1)
      BY <2>4, LineMore, Zenon
    <3>. QED
      BY <2>3, <2>4, <3>1, <3>2, Zenon
  <2>6. Head(new.current) = Head(acc.current)
    <3>1. m < n
      BY <1>2, <2>4, LinesBetween
    <3>2. m < n + 1 /\ m <= n + 1 /\ n + 1 \in Nat
      BY <2>4
    <3>3. Head(LinesAfter(m, n)) = m + 1 /\ Head(LinesAfter(m, n + 1)) = m + 1
      BY <2>4, <3>1, <3>2, LinesBetween, Zenon
    <3>. QED
      BY <2>4, <2>5, <3>3, Zenon
  <2>7. \A i \in 1 .. Len(acc.done) : Whole(acc.done[i])
    BY DEF GroupsLines
  <2>. HIDE DEF new
  <2>. QED
    BY <1>1, <1>2, <2>3, <2>4, <2>5, <2>6, <2>7, Zenon DEF GroupsLines
<1>3. CASE file[n + 1].kind # "frame"
  <2> DEFINE f == Flush(acc)
  <2>1. GroupsLines(f, n) /\ f.current = << >>
    BY <1>3, FlushGroups, Zenon
  <2>2. PICK m \in Nat :
         /\ Follows(f.done, EndOfAll(events), m) /\ m <= n
         /\ f.current = LinesAfter(m, n)
    BY <2>1, Zenon DEF GroupsLines
  <2>3. m = n
    BY <2>1, <2>2, LinesBetween
  <2>4. /\ \A i \in 1 .. Len(f.done) : Whole(f.done[i])
        /\ f \in Group
    BY <2>1, Zenon DEF GroupsLines
  <2>5. LinesAfter(n, n + 1) = <<n + 1>> /\ Head(<<n + 1>>) = n + 1
    BY LineMore
  <2>. HIDE DEF f
  <2>6. CASE file[n + 1].kind = "error"
    <3>1. new = [f EXCEPT !.current = <<n + 1>>]
      BY <2>6, Zenon DEF AddLine, f
    <3>2. new.current = <<n + 1>> /\ new.done = f.done
      BY <2>4, <3>1 DEF Group
    <3>. HIDE DEF new
    <3>. QED
      BY <1>0, <1>1, <2>2, <2>3, <2>4, <2>5, <2>6, <3>2, Zenon DEF GroupsLines
  <2>7. CASE file[n + 1].kind # "error"
    <3> DEFINE d == Append(f.done, <<n + 1>>)
    <3>1. new = [current |-> << >>, done |-> d]
      BY <1>3, <2>7, Zenon DEF AddLine, f
    <3>2. new.current = << >> /\ new.done = d
      BY <3>1
    <3>3. Follows(d, EndOfAll(events), n + 1)
      BY <1>0, <2>2, <2>3, <2>5, FollowsMore, Zenon
    <3>4. new.current = LinesAfter(n + 1, n + 1)
      BY <1>0, <3>2, LinesBetween, Zenon
    <3>5. Whole(<<n + 1>>)
      BY <2>5, <2>7, Zenon DEF Whole
    <3>6. f.done \in Seq(Seq(Nat)) /\ Len(f.done) \in Nat
      BY <2>4 DEF Group
    <3>7. \A i \in 1 .. Len(d) : Whole(d[i])
      <4>1. Len(d) = Len(f.done) + 1 /\ d[Len(f.done) + 1] = <<n + 1>>
            /\ \A i \in 1 .. Len(f.done) : d[i] = f.done[i]
        BY <3>6
      <4>2. SUFFICES ASSUME NEW i \in 1 .. Len(d) PROVE Whole(d[i])
        OBVIOUS
      <4>3. i = Len(f.done) + 1 \/ i \in 1 .. Len(f.done)
        BY <3>6, <4>1
      <4>. HIDE DEF d
      <4>. QED
        BY <2>4, <3>5, <4>1, <4>3, Zenon
    <3>. HIDE DEF new, d
    <3>. QED
      BY <1>0, <1>1, <3>2, <3>3, <3>4, <3>7, Zenon DEF GroupsLines
  <2>. QED
    BY <2>6, <2>7
<1>4. CASE file[n + 1].kind = "frame" /\ acc.current = << >>
  <2> DEFINE d == Append(acc.done, <<n + 1>>)
  <2>1. Flush(acc) = acc
    BY <1>4, Zenon DEF Flush
  <2>2. file[n + 1].kind # "error"
    BY <1>4
  <2>3. new = [current |-> << >>, done |-> d]
    BY <1>4, <2>1, <2>2, Zenon DEF AddLine
  <2>4. new.current = << >> /\ new.done = d
    BY <2>3
  <2>5. PICK m \in Nat :
         /\ Follows(acc.done, EndOfAll(events), m) /\ m <= n
         /\ acc.current = LinesAfter(m, n)
    BY Zenon DEF GroupsLines
  <2>6. m = n
    BY <1>4, <2>5, LinesBetween
  <2>7. LinesAfter(n, n + 1) = <<n + 1>> /\ Head(<<n + 1>>) = n + 1
    BY LineMore
  <2>8. Follows(d, EndOfAll(events), n + 1)
    BY <1>0, <2>5, <2>6, <2>7, FollowsMore, Zenon
  <2>9. new.current = LinesAfter(n + 1, n + 1)
    BY <1>0, <2>4, LinesBetween, Zenon
  <2>10. Whole(<<n + 1>>)
    BY <2>2, <2>7, Zenon DEF Whole
  <2>11. /\ acc.done \in Seq(Seq(Nat)) /\ Len(acc.done) \in Nat
         /\ \A i \in 1 .. Len(acc.done) : Whole(acc.done[i])
    <3>1. \A i \in 1 .. Len(acc.done) : Whole(acc.done[i])
      BY Zenon DEF GroupsLines
    <3>. QED
      BY <1>0, <3>1 DEF Group
  <2>12. \A i \in 1 .. Len(d) : Whole(d[i])
    <3>1. Len(d) = Len(acc.done) + 1 /\ d[Len(acc.done) + 1] = <<n + 1>>
          /\ \A i \in 1 .. Len(acc.done) : d[i] = acc.done[i]
      BY <2>11
    <3>2. SUFFICES ASSUME NEW i \in 1 .. Len(d) PROVE Whole(d[i])
      OBVIOUS
    <3>3. i = Len(acc.done) + 1 \/ i \in 1 .. Len(acc.done)
      BY <2>11, <3>1
    <3>. HIDE DEF d
    <3>. QED
      BY <2>10, <2>11, <3>1, <3>3, Zenon
  <2>. HIDE DEF new, d
  <2>. QED
    BY <1>0, <1>1, <2>4, <2>8, <2>9, <2>12, Zenon DEF GroupsLines
<1>. QED
  BY <1>2, <1>3, <1>4

\* After each line the lines so far are grouped.
LEMMA GroupedLines ==
  ASSUME AgentInv
  PROVE  \A k \in 0 .. Len(file) - read : GroupsLines(Grouped[k], read + k)
<1> DEFINE N == Len(file) - read
           T == {k \in Nat : k <= N => GroupsLines(Grouped[k], read + k)}
<1>1. N \in Nat /\ read \in Nat /\ Len(file) \in Nat
  BY DEF AgentInv, AgentTyped
<1>2. 0 \in T
  <2> DEFINE base == [current |-> pendingEvent, done |-> << >>]
             e == EndOfAll(events)
  <2>1. Grouped[0] = base /\ base.current = pendingEvent /\ base.done = << >> /\ base \in Group
    BY GroupedByLines DEF AgentInv, AgentTyped, Group
  <2>2. /\ e \in Nat /\ e <= read /\ pendingEvent = LinesAfter(e, read)
        /\ pendingEvent # << >> => file[Head(pendingEvent)].kind = "error"
    BY DEF AgentInv, Follows
  <2>. HIDE DEF e
  <2>3. Follows(<< >>, e, e)
    BY <2>2, FollowsNothing, Zenon
  <2>4. \A i \in 1 .. Len(<< >>) : Whole(base.done[i])
    OBVIOUS
  <2>. HIDE DEF base
  <2>5. GroupsLines(base, read)
    BY <2>1, <2>2, <2>3, <2>4, Zenon DEF GroupsLines, e
  <2>6. read + 0 = read
    BY <1>1
  <2>. QED
    BY <1>1, <2>1, <2>5, <2>6, Zenon
<1>3. ASSUME NEW k \in Nat, k \in T PROVE k + 1 \in T
  <2>1. SUFFICES ASSUME k + 1 <= N PROVE GroupsLines(Grouped[k + 1], read + (k + 1))
    OBVIOUS
  <2>2. /\ k <= N /\ k + 1 \in 1 .. N /\ (k + 1) - 1 = k
        /\ read + k \in Nat /\ read + (k + 1) = (read + k) + 1
        /\ (read + k) + 1 \in 1 .. Len(file)
    BY <1>1, <2>1
  <2>3. GroupsLines(Grouped[k], read + k)
    BY <1>3, <2>2
  <2>4. Grouped[k + 1] = AddLine(Grouped[k], read + (k + 1))
    BY <2>2, GroupedByLines
  <2>5. file[(read + k) + 1].kind \in Kind
    <3>1. file \in Seq(Line)
      BY DEF AgentInv, AgentTyped
    <3>2. file[(read + k) + 1] \in Line
      BY <2>2, <3>1
    <3>. QED
      BY <3>2 DEF Line
  <2>. QED
    BY <2>2, <2>3, <2>4, <2>5, AddLineGroups, Zenon
<1>. HIDE DEF T
<1>4. Nat \subseteq T
  BY <1>2, <1>3, SetInduction
<1>. QED
  BY <1>1, <1>4 DEF T

\* What the handler makes of the lines up to upTo: they are in events that follow, or in
\* the open one; when they were grouped the events are whole, but for the last.
Processes(r, upTo) ==
  /\ \E m \in Nat :
       /\ Follows(r.done, EndOfAll(events), m) /\ m <= upTo
       /\ r.current = LinesAfter(m, upTo)
  /\ r.current # << >> => watched = "grouped" /\ file[Head(r.current)].kind = "error"
  /\ watched = "grouped" => \A i \in 1 .. Len(r.done) : Last(r.done[i]) = upTo \/ Whole(r.done[i])

\* Nothing is read.
LEMMA ProcessedNothing ==
  ASSUME AgentInv
  PROVE  Processes(Processed(read), read)
<1> DEFINE e == EndOfAll(events)
           r == [done |-> << >>, current |-> pendingEvent]
<1>1. /\ e \in Nat /\ e <= read /\ pendingEvent = LinesAfter(e, read)
      /\ pendingEvent # << >> => watched = "grouped" /\ file[Head(pendingEvent)].kind = "error"
      /\ read \in Nat
  BY DEF AgentInv, Follows, AgentTyped
<1>2. Processed(read) = r
  <2>1. [k \in 1 .. read - read |-> <<read + k>>] = << >>
    BY <1>1
  <2>. QED
    BY <2>1, Zenon DEF Processed
<1>3. r.done = << >> /\ r.current = pendingEvent /\ \A i \in 1 .. Len(<< >>) : FALSE
  OBVIOUS
<1>4. Follows(<< >>, e, e)
  BY <1>1, FollowsNothing, Zenon
<1>. HIDE DEF r, e
<1>. QED
  BY <1>1, <1>2, <1>3, <1>4, Zenon DEF Processes, e

\* Each line is an event of its own.
LEMMA ProcessedOneByOne ==
  ASSUME AgentInv, watched = "custom", NEW upTo \in read .. Len(file)
  PROVE  Processes(Processed(upTo), upTo)
<1> DEFINE N == upTo - read
           d == [k \in 1 .. N |-> <<read + k>>]
           r == [done |-> d, current |-> pendingEvent]
<1>1. /\ read \in Nat /\ upTo \in Nat /\ N \in Nat /\ read + N = upTo /\ read <= upTo
      /\ pendingEvent = << >>
  BY DEF AgentInv, AgentTyped
<1>2. EndOfAll(events) = read
  <2>1. /\ EndOfAll(events) \in Nat /\ EndOfAll(events) <= read
        /\ pendingEvent = LinesAfter(EndOfAll(events), read)
    BY DEF AgentInv, Follows
  <2>. QED
    BY <1>1, <2>1, LinesBetween
<1>3. Processed(upTo) = r
  BY Zenon DEF Processed
<1>4. r.done = d /\ r.current = << >>
  BY <1>1
<1>5. /\ d \in Seq(Seq(Nat)) /\ Len(d) = N
      /\ \A k \in 1 .. N : d[k] = <<read + k>>
  <2>1. d \in [1 .. N -> Seq(Nat)]
    <3>1. \A k \in 1 .. N : read + k \in Nat
      BY <1>1
    <3>. HIDE DEF N
    <3>. QED
      BY <3>1
  <2>2. \A k \in 1 .. N : d[k] = <<read + k>>
    OBVIOUS
  <2>. HIDE DEF d, N
  <2>. QED
    BY <1>1, <2>1, <2>2, Enumerated, Zenon
<1>. HIDE DEF d
<1>6. ASSUME NEW i \in 1 .. N PROVE Continues(d, read, i, upTo)
  <2>1. i \in Nat /\ (read + i) - 1 \in Nat /\ ((read + i) - 1) + 1 = read + i
        /\ read + i \in read + 1 .. upTo
    BY <1>1
  <2>2. EndBefore(d, read, i) = (read + i) - 1
    <3>1. CASE i = 1
      BY <1>1, <3>1 DEF EndBefore
    <3>2. CASE i # 1
      <4>1. i - 1 \in 1 .. N /\ read + (i - 1) = (read + i) - 1
        BY <1>1, <2>1, <3>2
      <4>2. d[i - 1] = <<(read + i) - 1>>
        BY <1>5, <4>1
      <4>3. Last(<<(read + i) - 1>>) = (read + i) - 1
        BY DEF Last
      <4>. QED
        BY <3>2, <4>2, <4>3, Zenon DEF EndBefore
    <3>. QED
      BY <3>1, <3>2
  <2>3. LinesAfter((read + i) - 1, read + i) = <<read + i>>
    <3> DEFINE x == (read + i) - 1
    <3>1. x \in Nat /\ x <= x
      BY <2>1
    <3>. HIDE DEF x
    <3>2. LinesAfter(x, x + 1) = <<x + 1>>
      BY <3>1, LineMore, Zenon
    <3>. QED
      BY <2>1, <3>2, Zenon DEF x
  <2>4. d[i] = <<read + i>>
    BY <1>5
  <2>5. <<read + i>> # << >> /\ Last(<<read + i>>) = read + i /\ Head(<<read + i>>) = read + i
    BY DEF Last
  <2>. QED
    BY <2>1, <2>2, <2>3, <2>4, <2>5, Zenon DEF Continues
<1>7. EndBefore(d, read, Len(d) + 1) = upTo
  <2>1. CASE N = 0
    <3>1. Len(d) + 1 = 1 /\ upTo = read
      BY <1>1, <1>5, <2>1
    <3>. QED
      BY <3>1, Zenon DEF EndBefore
  <2>2. CASE N # 0
    <3>1. Len(d) + 1 # 1 /\ (Len(d) + 1) - 1 = N /\ N \in 1 .. N
      BY <1>1, <1>5, <2>2
    <3>2. d[N] = <<upTo>>
      BY <1>1, <1>5, <3>1
    <3>3. Last(<<upTo>>) = upTo
      BY DEF Last
    <3>. QED
      BY <3>1, <3>2, <3>3, Zenon DEF EndBefore
  <2>. QED
    BY <2>1, <2>2
<1>8. Follows(d, read, upTo)
  <2>. HIDE DEF N
  <2>. QED
    BY <1>1, <1>5, <1>6, <1>7 DEF Follows
<1>9. LinesAfter(upTo, upTo) = << >> /\ upTo <= upTo
  BY <1>1, LinesBetween
<1>. HIDE DEF r
<1>. QED
  BY <1>1, <1>2, <1>3, <1>4, <1>8, <1>9, Zenon DEF Processes

\* Lines are grouped, and an open event that has frames is closed.
LEMMA ProcessedGroups ==
  ASSUME AgentInv, watched = "grouped", NEW upTo \in read .. Len(file)
  PROVE  Processes(Processed(upTo), upTo)
<1>1. CASE upTo = read
  BY <1>1, ProcessedNothing
<1>2. CASE upTo # read
  <2> DEFINE acc == Grouped[upTo - read]
             r == EndOfBatch(acc)
  <2>1. upTo - read \in 0 .. Len(file) - read /\ read + (upTo - read) = upTo /\ upTo \in Nat
    BY DEF AgentInv, AgentTyped
  <2>2. GroupsLines(acc, upTo)
    BY <2>1, GroupedLines
  <2>3. Processed(upTo) = r
    BY <1>2, Zenon DEF Processed, NormalizeLogLines
  <2>. HIDE DEF acc
  <2>4. PICK m \in Nat :
         /\ Follows(acc.done, EndOfAll(events), m) /\ m <= upTo
         /\ acc.current = LinesAfter(m, upTo)
         /\ acc.current # << >> => file[Head(acc.current)].kind = "error"
    BY <2>2, Zenon DEF GroupsLines
  <2>5. acc \in Group /\ \A i \in 1 .. Len(acc.done) : Whole(acc.done[i])
    BY <2>2, Zenon DEF GroupsLines
  <2>6. CASE ~(Len(acc.current) > 1)
    <3>1. r = acc
      BY <2>6, Zenon DEF EndOfBatch
    <3>. HIDE DEF r
    <3>. QED
      BY <2>3, <2>4, <2>5, <3>1, Zenon DEF Processes
  <2>7. CASE Len(acc.current) > 1
    <3> DEFINE l == LinesAfter(m, upTo)
               d == Append(acc.done, l)
    <3>1. acc.current # << >>
      BY <2>7
    <3>2. r.current = << >> /\ r.done = d
      <4>1. r = [current |-> << >>, done |-> d]
        BY <2>4, <2>7, <3>1, Zenon DEF EndOfBatch, Flush
      <4>. QED
        BY <4>1
    <3>3. m < upTo /\ l \in Seq(Nat) /\ Last(l) = upTo
      <4>1. m # upTo
        BY <2>1, <2>4, <3>1, LinesBetween
      <4>2. m < upTo
        BY <2>1, <2>4, <4>1
      <4>. QED
        BY <2>1, <2>4, <4>2, LinesBetween, Zenon
    <3>4. Follows(d, EndOfAll(events), upTo)
      BY <2>1, <2>4, <3>3, FollowsMore, Zenon
    <3>5. acc.done \in Seq(Seq(Nat)) /\ Len(acc.done) \in Nat
      BY <2>5 DEF Group
    <3>. HIDE DEF l, r
    <3>6. \A i \in 1 .. Len(d) : Last(d[i]) = upTo \/ Whole(d[i])
      <4>1. Len(d) = Len(acc.done) + 1 /\ d[Len(acc.done) + 1] = l
            /\ \A i \in 1 .. Len(acc.done) : d[i] = acc.done[i]
        BY <3>3, <3>5
      <4>2. SUFFICES ASSUME NEW i \in 1 .. Len(d) PROVE Last(d[i]) = upTo \/ Whole(d[i])
        OBVIOUS
      <4>3. i = Len(acc.done) + 1 \/ i \in 1 .. Len(acc.done)
        BY <3>5, <4>1
      <4>. HIDE DEF d
      <4>. QED
        BY <2>5, <3>3, <4>1, <4>3, Zenon
    <3>7. LinesAfter(upTo, upTo) = << >> /\ upTo <= upTo
      BY <2>1, LinesBetween
    <3>. HIDE DEF d
    <3>. QED
      BY <2>1, <2>3, <3>2, <3>4, <3>6, <3>7, Zenon DEF Processes
  <2>. QED
    BY <2>6, <2>7
<1>. QED
  BY <1>1, <1>2

\* There is a watcher when there is something to process.
LEMMA ProcessedLines ==
  ASSUME AgentInv, changed, NEW upTo \in read .. Len(file)
  PROVE  Processes(Processed(upTo), upTo)
<1>1. watched \in {"grouped", "custom"}
  BY DEF AgentInv, AgentTyped
<1>. QED
  BY <1>1, ProcessedGroups, ProcessedOneByOne

-----------------------------------------------------------------------------
(* emitNormalizedEvent *)

\* What the events of a batch change.
Emission == [keys : Seq(Key), timers : Seq(Timer), events : Seq(EventRecord)]

Before == [keys |-> recentLogKeys, timers |-> expiries, events |-> events]

\* The part l is in the file.
InFile(l) == l \in Seq(Nat) /\ l # << >> /\ Head(l) \in 1 .. Len(file)

\* What an event does, as the code branches.
Muted(acc, l) == file[Head(l)].key \in ToSet(acc.keys)

LEMMA EmitMuted ==
  ASSUME NEW acc, NEW l, NEW grouped, Muted(acc, l)
  PROVE  EmitEvent(acc, l, grouped)
           = [acc EXCEPT !.events = Append(acc.events, Event(l, grouped, "duplicate"))]
  BY Zenon DEF EmitEvent, Muted

LEMMA EmitHeard ==
  ASSUME NEW acc, NEW l, NEW grouped, ~Muted(acc, l)
  PROVE  EmitEvent(acc, l, grouped)
           = [keys   |-> Append(MakeRoom(acc.keys), file[Head(l)].key),
              timers |-> Append(acc.timers,
                                [key |-> file[Head(l)].key, event |-> Len(acc.events) + 1]),
              events |-> Append(acc.events, Event(l, grouped, "emitted"))]
  BY Zenon DEF EmitEvent, Muted, Arm

\* Making room takes keys away from the front.
LEMMA RoomMade ==
  ASSUME NEW keys \in Seq(Key)
  PROVE  /\ MakeRoom(keys) \in Seq(Key)
         /\ Len(keys) <= RecentLogsMax => Len(MakeRoom(keys)) + 1 <= RecentLogsMax
         /\ \E d \in Nat : /\ Len(MakeRoom(keys)) + d = Len(keys)
                           /\ \A i \in 1 .. Len(MakeRoom(keys)) : MakeRoom(keys)[i] = keys[i + d]
<1>1. RecentLogsMax \in Nat /\ RecentEvicted \in 1 .. RecentLogsMax /\ Len(keys) \in Nat
  BY AgentAssumption
<1>2. CASE Len(keys) >= RecentLogsMax
  <2> DEFINE r == SubSeq(keys, RecentEvicted + 1, Len(keys))
  <2>1. MakeRoom(keys) = r
    BY <1>2, Zenon DEF MakeRoom
  <2>2. /\ r \in Seq(Key) /\ Len(r) = Len(keys) - RecentEvicted
        /\ \A i \in 1 .. Len(r) : r[i] = keys[i + RecentEvicted]
    BY <1>1, <1>2
  <2>. HIDE DEF r
  <2>3. RecentEvicted \in Nat /\ Len(r) + RecentEvicted = Len(keys)
    BY <1>1, <2>2
  <2>4. Len(keys) <= RecentLogsMax => Len(r) + 1 <= RecentLogsMax
    BY SMTT(30), <1>1, <2>2
  <2>. QED
    BY <2>1, <2>2, <2>3, <2>4, Zenon
<1>3. CASE ~(Len(keys) >= RecentLogsMax)
  <2>1. MakeRoom(keys) = keys
    BY <1>3, Zenon DEF MakeRoom
  <2>2. Len(keys) + 1 <= RecentLogsMax
    BY <1>1, <1>3
  <2>3. Len(keys) + 0 = Len(keys) /\ \A i \in 1 .. Len(keys) : keys[i] = keys[i + 0]
    BY <1>1
  <2>. QED
    BY <2>1, <2>2, <2>3
<1>. QED
  BY <1>2, <1>3

\* The key of a line.
LEMMA KeyOfPart ==
  ASSUME AgentTyped, NEW l, InFile(l)
  PROVE  file[Head(l)].key \in Key /\ l \in Seq(Nat)
<1>1. file \in Seq(Line) /\ Head(l) \in 1 .. Len(file)
  BY DEF AgentTyped, InFile
<1>2. file[Head(l)] \in Line
  BY <1>1
<1>. QED
  BY <1>2 DEF Line, InFile

\* One event more, whatever became of it.
LEMMA EmitTyped ==
  ASSUME AgentTyped, NEW acc \in Emission, NEW l, InFile(l), NEW grouped \in BOOLEAN
  PROVE  /\ EmitEvent(acc, l, grouped) \in Emission
         /\ \E fate \in {"emitted", "duplicate"} :
              EmitEvent(acc, l, grouped).events = Append(acc.events, Event(l, grouped, fate))
<1> DEFINE new == EmitEvent(acc, l, grouped)
           key == file[Head(l)].key
           e(f) == Event(l, grouped, f)
<1>1. /\ acc.keys \in Seq(Key) /\ acc.timers \in Seq(Timer) /\ acc.events \in Seq(EventRecord)
      /\ Len(acc.events) \in Nat
  BY DEF Emission
<1>2. key \in Key /\ l \in Seq(Nat)
  BY KeyOfPart, Zenon
<1>3. e("duplicate") \in EventRecord /\ e("emitted") \in EventRecord
  BY <1>2 DEF Event, EventRecord
<1>4. CASE Muted(acc, l)
  <2>1. new = [acc EXCEPT !.events = Append(acc.events, e("duplicate"))]
    BY <1>4, EmitMuted, Zenon
  <2>. HIDE DEF e, new
  <2>2. new.events = Append(acc.events, e("duplicate")) /\ new \in Emission
    <3>1. ASSUME NEW x \in Seq(EventRecord)
          PROVE  [acc EXCEPT !.events = x] \in Emission /\ [acc EXCEPT !.events = x].events = x
      BY DEF Emission
    <3>2. Append(acc.events, e("duplicate")) \in Seq(EventRecord)
      BY <1>1, <1>3
    <3>. QED
      BY <2>1, <3>1, <3>2, Zenon
  <2>. QED
    BY <2>2 DEF e, new
<1>5. CASE ~Muted(acc, l)
  <2> DEFINE timer == [key |-> key, event |-> Len(acc.events) + 1]
  <2>1. new = [keys   |-> Append(MakeRoom(acc.keys), key),
               timers |-> Append(acc.timers, timer),
               events |-> Append(acc.events, e("emitted"))]
    BY <1>5, EmitHeard, Zenon
  <2>2. timer \in Timer
    BY <1>1, <1>2 DEF Timer
  <2>3. MakeRoom(acc.keys) \in Seq(Key)
    BY <1>1, RoomMade, Zenon
  <2>. HIDE DEF e, new, timer, key
  <2>4. new.events = Append(acc.events, e("emitted")) /\ new \in Emission
    BY <1>1, <1>2, <1>3, <2>1, <2>2, <2>3 DEF Emission
  <2>. QED
    BY <2>4 DEF e, new
<1>. QED
  BY <1>4, <1>5

\* g is what the batch has changed after each of its events.
Emits(g, batch, grouped) ==
  /\ g[0] = Before
  /\ \A n \in 1 .. Len(batch) : g[n] = EmitEvent(g[n - 1], batch[n], grouped)
  /\ g[Len(batch)] = EmitAll(batch, grouped)

LEMMA EmittedOneByOne ==
  ASSUME AgentTyped, NEW batch \in Seq(Seq(Nat)), NEW grouped \in BOOLEAN,
         \A i \in 1 .. Len(batch) : InFile(batch[i])
  PROVE  \E g \in [0 .. Len(batch) -> Emission] : Emits(g, batch, grouped)
<1> DEFINE N == Len(batch)
           S == Emission
           next(f) == [n \in 0 .. N |-> IF n = 0
                                        THEN [keys |-> recentLogKeys, timers |-> expiries,
                                              events |-> events]
                                        ELSE EmitEvent(f[n - 1], batch[n], grouped)]
           step == [n \in 1 .. N |-> [acc \in S |-> EmitEvent(acc, batch[n], grouped)]]
           h == CHOOSE f : f = next(f)
<1>1. N \in Nat /\ Before \in S
  BY DEF AgentTyped, Emission, Before
<1>2. step \in [1 .. N -> [S -> S]]
  <2>1. ASSUME NEW n \in 1 .. N, NEW acc \in S PROVE EmitEvent(acc, batch[n], grouped) \in S
    BY EmitTyped, Zenon
  <2>. QED
    BY <2>1
<1>3. PICK g \in [0 .. N -> S] : Recursion(g, Before, N, step)
  <2>. HIDE DEF step, N, S
  <2>. QED
    BY <1>1, <1>2, RecursiveFunction
<1>4. \A n \in 1 .. N : g[n] = EmitEvent(g[n - 1], batch[n], grouped)
  <2>1. ASSUME NEW n \in 1 .. N PROVE g[n] = EmitEvent(g[n - 1], batch[n], grouped)
    <3>1. n - 1 \in 0 .. N
      BY <1>1
    <3>2. g[n] = step[n][g[n - 1]] /\ g[n - 1] \in S
      BY <1>3, <3>1 DEF Recursion
    <3>. QED
      BY <3>2, Zenon
  <2>. QED
    BY <2>1
<1>5. g[0] = Before
  BY <1>3 DEF Recursion
<1>6. g = next(g)
  <2>1. ASSUME NEW n \in 0 .. N PROVE g[n] = next(g)[n]
    <3>1. CASE n = 0
      BY <1>5, <3>1, Zenon DEF Before
    <3>2. CASE n # 0
      <4>1. n \in 1 .. N
        BY <1>1, <3>2
      <4>. QED
        BY <1>4, <3>2, <4>1, Zenon
    <3>. QED
      BY <3>1, <3>2
  <2>2. DOMAIN next(g) = 0 .. N /\ next(g) = [n \in 0 .. N |-> next(g)[n]]
        /\ g = [n \in 0 .. N |-> g[n]]
    BY <1>3
  <2>. HIDE DEF next, N, S
  <2>. QED
    BY <2>1, <2>2
<1>7. EmitAll(batch, grouped) = h[N]
  BY Zenon DEF EmitAll
<1>8. h = next(h)
  <2>. HIDE DEF next
  <2>. QED
    BY <1>6
<1>9. ASSUME NEW n \in 1 .. N PROVE h[n] = EmitEvent(h[n - 1], batch[n], grouped)
  <2>1. n \in 0 .. N /\ n # 0
    BY <1>1
  <2>2. next(h)[n] = EmitEvent(h[n - 1], batch[n], grouped)
    <3>. HIDE DEF h
    <3>. QED
      BY <2>1, Zenon
  <2>. HIDE DEF next, h
  <2>. QED
    BY <1>8, <2>2, Zenon
<1>10. h[0] = Before
  <2>1. 0 \in 0 .. N
    BY <1>1
  <2>2. next(h)[0] = Before
    <3>. HIDE DEF h
    <3>. QED
      BY <2>1, Zenon DEF Before
  <2>. HIDE DEF next, h
  <2>. QED
    BY <1>8, <2>2, Zenon
<1>11. DOMAIN h = 0 .. N /\ h = [n \in 0 .. N |-> h[n]]
  <2>1. DOMAIN next(h) = 0 .. N /\ next(h) = [n \in 0 .. N |-> next(h)[n]]
    <3>. HIDE DEF h
    <3>. QED
      BY Zenon
  <2>. HIDE DEF next, h
  <2>. QED
    BY <1>8, <2>1, Zenon
<1>. HIDE DEF h
<1>12. \A n \in Nat : n <= N => h[n] \in S
  <2> DEFINE T == {n \in Nat : n <= N => h[n] \in S}
  <2>1. 0 \in T
    BY <1>1, <1>10
  <2>2. ASSUME NEW n \in Nat, n \in T PROVE n + 1 \in T
    <3>1. SUFFICES ASSUME n + 1 <= N PROVE h[n + 1] \in S
      OBVIOUS
    <3>2. h[n] \in S /\ n + 1 \in 1 .. N /\ (n + 1) - 1 = n
      BY <1>1, <2>2, <3>1
    <3>3. h[n + 1] = EmitEvent(h[n], batch[n + 1], grouped)
      BY <1>9, <3>2
    <3>4. InFile(batch[n + 1])
      BY <3>2
    <3>5. h[n] \in Emission
      BY <3>2
    <3>6. EmitEvent(h[n], batch[n + 1], grouped) \in Emission
      BY <3>4, <3>5, EmitTyped, Zenon
    <3>. QED
      BY <3>3, <3>6, Zenon
  <2>. HIDE DEF T
  <2>3. Nat \subseteq T
    BY <2>1, <2>2, SetInduction
  <2>. QED
    BY <2>3 DEF T
<1>13. h \in [0 .. N -> S]
  <2>1. \A n \in 0 .. N : h[n] \in S
    BY <1>1, <1>12
  <2>. HIDE DEF N, S
  <2>. QED
    BY <1>11, <2>1
<1>. QED
  BY <1>7, <1>9, <1>10, <1>13, Zenon DEF Emits

-----------------------------------------------------------------------------
(* Every line once *)

\* The parts that a handler processes are in the file.
LEMMA ProcessedInFile ==
  ASSUME AgentInv, NEW upTo \in read .. Len(file), NEW r, Processes(r, upTo)
  PROVE  r.done \in Seq(Seq(Nat)) /\ \A i \in 1 .. Len(r.done) : InFile(r.done[i])
<1>1. PICK m \in Nat : Follows(r.done, EndOfAll(events), m) /\ m <= upTo
  BY DEF Processes
<1>2. r.done \in Seq(Seq(Nat))
  BY <1>1 DEF Follows
<1>3. ASSUME NEW i \in 1 .. Len(r.done) PROVE InFile(r.done[i])
  <2>1. r.done[i] # << >> /\ Head(r.done[i]) \in EndOfAll(events) + 1 .. m
        /\ EndOfAll(events) \in Nat
    BY <1>1, PartOfFile, Zenon
  <2>2. Head(r.done[i]) \in 1 .. Len(file)
    <3>1. m <= Len(file) /\ Len(file) \in Nat
      BY <1>1 DEF AgentInv, AgentTyped
    <3>. QED
      BY <2>1, <3>1
  <2>3. r.done[i] \in Seq(Nat)
    BY <1>2
  <2>. QED
    BY <2>1, <2>2, <2>3, Zenon DEF InFile
<1>. QED
  BY <1>2, <1>3

\* The events that are emitted go on where those before them ended.
LEMMA EmittedFollow ==
  ASSUME AgentInv, NEW batch, NEW m, Follows(batch, EndOfAll(events), m),
         \A i \in 1 .. Len(batch) : InFile(batch[i]), NEW grouped \in BOOLEAN
  PROVE  /\ EmitAll(batch, grouped) \in Emission
         /\ Follows(LinesOf(EmitAll(batch, grouped).events), 0,
                    EndOfAll(EmitAll(batch, grouped).events))
         /\ EndOfAll(EmitAll(batch, grouped).events) = m
<1> DEFINE N == Len(batch)
           e == EndOfAll(events)
           Good(acc, n) == /\ Follows(LinesOf(acc.events), 0, EndOfAll(acc.events))
                           /\ EndOfAll(acc.events) = EndBefore(batch, e, n + 1)
<1>1. /\ batch \in Seq(Seq(Nat)) /\ N \in Nat /\ e \in Nat
      /\ m = EndBefore(batch, e, N + 1)
  BY DEF Follows
<1>2. AgentTyped
  BY DEF AgentInv
<1>3. PICK g \in [0 .. N -> Emission] : Emits(g, batch, grouped)
  BY <1>1, <1>2, EmittedOneByOne, Zenon
<1> DEFINE T == {n \in Nat : n <= N => Good(g[n], n)}
<1>4. 0 \in T
  <2>1. g[0] = Before /\ Before.events = events
    BY <1>3, Zenon DEF Emits, Before
  <2>2. EndBefore(batch, e, 0 + 1) = e
    BY DEF EndBefore
  <2>. QED
    BY <2>1, <2>2, Zenon DEF AgentInv
<1>5. ASSUME NEW n \in Nat, n \in T PROVE n + 1 \in T
  <2>1. SUFFICES ASSUME n + 1 <= N PROVE Good(g[n + 1], n + 1)
    OBVIOUS
  <2>2. n <= N /\ n \in 0 .. N /\ n + 1 \in 1 .. N /\ (n + 1) - 1 = n /\ (n + 1) + 1 # 1
        /\ ((n + 1) + 1) - 1 = n + 1
    BY <1>1, <2>1
  <2> DEFINE acc == g[n]
             l == batch[n + 1]
             a == EndOfAll(acc.events)
             z == Last(l)
  <2>3. acc \in Emission /\ Good(acc, n) /\ InFile(l)
    BY <1>3, <1>5, <2>2
  <2>4. g[n + 1] = EmitEvent(acc, l, grouped)
    BY <1>3, <2>2 DEF Emits
  <2>5. PICK fate \in {"emitted", "duplicate"} :
          EmitEvent(acc, l, grouped).events = Append(acc.events, Event(l, grouped, fate))
    BY <1>2, <2>3, EmitTyped, Zenon
  <2>6. a = EndBefore(batch, e, n + 1) /\ a \in Nat /\ a < z /\ l = LinesAfter(a, z) /\ z \in Nat
    <3>1. a = EndBefore(batch, e, n + 1)
      BY <2>3
    <3>2. /\ z \in e + 1 .. m /\ EndBefore(batch, e, n + 1) \in Nat
          /\ EndBefore(batch, e, n + 1) < z /\ l = LinesAfter(EndBefore(batch, e, n + 1), z)
          /\ m \in Nat
      BY <2>2, PartOfFile, Zenon
    <3>3. z \in Nat
      BY <1>1, <3>2
    <3>. QED
      BY <3>1, <3>2, <3>3, Zenon
  <2>7. Event(l, grouped, fate) \in EventRecord /\ Event(l, grouped, fate).lines = l
    <3>1. l \in Seq(Nat)
      BY <2>3 DEF InFile
    <3>. QED
      BY <2>5, <3>1 DEF Event, EventRecord
  <2>8. acc.events \in Seq(EventRecord)
    BY <2>3 DEF Emission
  <2>. HIDE DEF acc, l, z
  <2>9. Follows(Append(LinesOf(acc.events), LinesAfter(a, z)), 0, z)
    BY <2>3, <2>6, FollowsMore, Zenon
  <2>10. /\ LinesOf(Append(acc.events, Event(l, grouped, fate)))
              = Append(LinesOf(acc.events), LinesAfter(a, z))
         /\ EndOfAll(Append(acc.events, Event(l, grouped, fate))) = z
    BY <2>6, <2>7, <2>8, OneEventMore, Zenon DEF z
  <2>11. EndBefore(batch, e, (n + 1) + 1) = z
    BY <2>2, Zenon DEF EndBefore, z, l
  <2>. QED
    BY <2>4, <2>5, <2>9, <2>10, <2>11, Zenon
<1>. HIDE DEF T
<1>6. Nat \subseteq T
  BY <1>4, <1>5, SetInduction
<1>7. Good(g[N], N) /\ g[N] \in Emission
  <2>1. N <= N /\ N \in 0 .. N
    BY <1>1
  <2>. QED
    BY <1>1, <1>3, <1>6, <2>1 DEF T
<1>8. g[N] = EmitAll(batch, grouped)
  BY <1>3, Zenon DEF Emits
<1>. QED
  BY <1>1, <1>7, <1>8, Zenon

\* The change handler has read up to upTo, made r of it and emitted that.
Handles(upTo, r, after) ==
  /\ changed /\ Processes(r, upTo) /\ after = EmitAll(r.done, watched = "grouped")
  /\ r.done \in Seq(Seq(Nat)) /\ \A i \in 1 .. Len(r.done) : InFile(r.done[i])
  /\ read' = upTo /\ pendingEvent' = r.current
  /\ recentLogKeys' = after.keys /\ expiries' = after.timers
  /\ events' = after.events /\ readEnds' = readEnds \cup {upTo}
  /\ file' = file /\ watched' = watched /\ changed' = FALSE
  /\ after \in Emission
  /\ Follows(LinesOf(after.events), 0, EndOfAll(after.events))
  /\ Follows(r.done, EndOfAll(events), EndOfAll(after.events))
  /\ EndOfAll(after.events) <= upTo
  /\ r.current = LinesAfter(EndOfAll(after.events), upTo)

LEMMA Change ==
  ASSUME AgentInv, OnChange
  PROVE  \E upTo \in read .. Len(file) : \E r, after : Handles(upTo, r, after)
<1>1. PICK upTo \in read .. Len(file) :
         LET r == Processed(upTo)
             after == EmitAll(r.done, watched = "grouped")
         IN  /\ read' = upTo /\ pendingEvent' = r.current
             /\ recentLogKeys' = after.keys /\ expiries' = after.timers
             /\ events' = after.events /\ readEnds' = readEnds \cup {upTo}
  BY Zenon DEF OnChange
<1>2. changed /\ changed' = FALSE /\ file' = file /\ watched' = watched
  BY Zenon DEF OnChange
<1> DEFINE r == Processed(upTo)
           grouped == watched = "grouped"
           after == EmitAll(r.done, grouped)
<1>3. Processes(r, upTo)
  BY <1>2, ProcessedLines, Zenon
<1>4. r.done \in Seq(Seq(Nat)) /\ \A i \in 1 .. Len(r.done) : InFile(r.done[i])
  BY <1>3, ProcessedInFile, Zenon
<1>. HIDE DEF r
<1>5. PICK m \in Nat :
       /\ Follows(r.done, EndOfAll(events), m) /\ m <= upTo
       /\ r.current = LinesAfter(m, upTo)
  BY <1>3, Zenon DEF Processes
<1>6. grouped \in BOOLEAN
  OBVIOUS
<1>. HIDE DEF grouped
<1>7. /\ after \in Emission
      /\ Follows(LinesOf(after.events), 0, EndOfAll(after.events))
      /\ EndOfAll(after.events) = m
  <2> DEFINE batch == r.done
  <2>1. Follows(batch, EndOfAll(events), m) /\ \A i \in 1 .. Len(batch) : InFile(batch[i])
    BY <1>4, <1>5
  <2>. HIDE DEF batch
  <2>2. /\ EmitAll(batch, grouped) \in Emission
        /\ Follows(LinesOf(EmitAll(batch, grouped).events), 0,
                   EndOfAll(EmitAll(batch, grouped).events))
        /\ EndOfAll(EmitAll(batch, grouped).events) = m
    BY <1>6, <2>1, EmittedFollow
  <2>. QED
    BY <2>2 DEF batch
<1>. HIDE DEF after
<1>8. /\ Follows(r.done, EndOfAll(events), EndOfAll(after.events))
      /\ EndOfAll(after.events) <= upTo
      /\ r.current = LinesAfter(EndOfAll(after.events), upTo)
  BY <1>5, <1>7, Zenon
<1>9. /\ read' = upTo /\ pendingEvent' = r.current
      /\ recentLogKeys' = after.keys /\ expiries' = after.timers
      /\ events' = after.events /\ readEnds' = readEnds \cup {upTo}
  BY <1>1, Zenon DEF r, after, grouped
<1>10. after = EmitAll(r.done, watched = "grouped")
  BY Zenon DEF after, grouped
<1>11. Handles(upTo, r, after)
  BY <1>2, <1>3, <1>4, <1>7, <1>8, <1>9, <1>10, Zenon DEF Handles
<1>. QED
  BY <1>11, Zenon

\* Nothing is known of a file before it is read.
LEMMA AgentInit == Init => AgentInv
<1>. SUFFICES ASSUME Init PROVE AgentInv
  OBVIOUS
<1>1. /\ file = << >> /\ watched \in {"grouped", "custom"} /\ changed = FALSE /\ read = 0
      /\ pendingEvent = << >> /\ recentLogKeys = << >> /\ expiries = << >>
      /\ events = << >> /\ readEnds = {}
  BY DEF Init
<1>2. AgentTyped
  <2>1. Len(file) = 0 /\ 0 \in 0 .. 0
    BY <1>1
  <2>2. << >> \in Seq(Line) /\ << >> \in Seq(Nat) /\ << >> \in Seq(Key) /\ << >> \in Seq(Timer)
        /\ << >> \in Seq(EventRecord) /\ {} \in SUBSET Nat
    OBVIOUS
  <2>. QED
    BY <1>1, <2>1, <2>2, Zenon DEF AgentTyped
<1>3. LinesOf(events) = << >> /\ EndOfAll(events) = 0
  BY <1>1 DEF LinesOf, EndOfAll, EndBefore
<1>4. Follows(<< >>, 0, 0) /\ LinesAfter(0, 0) = << >> /\ 0 <= 0
  BY FollowsNothing, LinesBetween
<1>. QED
  BY <1>1, <1>2, <1>3, <1>4 DEF AgentInv

\* A line that is written changes none that is there.
LEMMA LineWritten ==
  ASSUME AgentTyped, NEW line \in Line, WriteLine(line)
  PROVE  /\ file' \in Seq(Line) /\ Len(file') = Len(file) + 1
         /\ \A n \in 1 .. Len(file) : file'[n] = file[n]
         /\ UNCHANGED <<watched, read, pendingEvent, recentLogKeys, expiries, events, readEnds>>
         /\ changed' = (watched # "none")
  BY DEF AgentTyped, WriteLine

\* What is taken from the keys is less.
LEMMA KeyDeleted ==
  ASSUME NEW keys \in Seq(Key), NEW key
  PROVE  /\ Delete(keys, key) \in Seq(Key)
         /\ \/ Delete(keys, key) = keys /\ key \notin ToSet(keys)
            \/ \E p \in 1 .. Len(keys) :
                 /\ keys[p] = key /\ Len(Delete(keys, key)) = Len(keys) - 1
                 /\ \A i \in 1 .. Len(keys) - 1 :
                      Delete(keys, key)[i] = keys[IF i < p THEN i ELSE i + 1]
<1>1. CASE key \notin ToSet(keys)
  BY <1>1, Zenon DEF Delete
<1>2. CASE key \in ToSet(keys)
  <2> DEFINE p == CHOOSE i \in DOMAIN keys : keys[i] = key
             d == SubSeq(keys, 1, p - 1) \o SubSeq(keys, p + 1, Len(keys))
  <2>1. DOMAIN keys = 1 .. Len(keys) /\ Len(keys) \in Nat
    OBVIOUS
  <2>2. p \in DOMAIN keys /\ keys[p] = key
    <3>1. \E i \in DOMAIN keys : keys[i] = key
      BY <1>2, Zenon DEF ToSet
    <3>. QED
      BY <3>1, Zenon
  <2>3. Delete(keys, key) = d
    BY <1>2, Zenon DEF Delete, RemoveAt
  <2>. HIDE DEF p
  <2>4. /\ SubSeq(keys, 1, p - 1) \in Seq(Key) /\ Len(SubSeq(keys, 1, p - 1)) = p - 1
        /\ SubSeq(keys, p + 1, Len(keys)) \in Seq(Key)
        /\ Len(SubSeq(keys, p + 1, Len(keys))) = Len(keys) - p
        /\ \A i \in 1 .. p - 1 : SubSeq(keys, 1, p - 1)[i] = keys[i]
        /\ \A i \in 1 .. Len(keys) - p : SubSeq(keys, p + 1, Len(keys))[i] = keys[i + p]
    BY SMTT(30), <2>1, <2>2
  <2> DEFINE a == SubSeq(keys, 1, p - 1)
             b == SubSeq(keys, p + 1, Len(keys))
  <2>. HIDE DEF a, b
  <2>5. /\ a \in Seq(Key) /\ Len(a) = p - 1 /\ b \in Seq(Key) /\ Len(b) = Len(keys) - p
        /\ \A i \in 1 .. p - 1 : a[i] = keys[i]
        /\ \A i \in 1 .. Len(keys) - p : b[i] = keys[i + p]
    BY <2>4 DEF a, b
  <2>6. d = a \o b
    BY DEF a, b
  <2>. HIDE DEF d
  <2>7. d \in Seq(Key) /\ Len(d) = Len(keys) - 1
    <3>1. a \o b \in Seq(Key) /\ Len(a \o b) = Len(a) + Len(b)
      BY <2>5
    <3>2. (p - 1) + (Len(keys) - p) = Len(keys) - 1
      BY <2>1, <2>2
    <3>. QED
      BY <2>5, <2>6, <3>1, <3>2, Zenon
  <2>8. ASSUME NEW i \in 1 .. Len(keys) - 1
        PROVE  d[i] = keys[IF i < p THEN i ELSE i + 1]
    <3>1. CASE i < p
      <4>1. i \in 1 .. p - 1
        BY <2>1, <2>2, <3>1
      <4>. QED
        BY <2>5, <2>6, <3>1, <4>1
    <3>2. CASE ~(i < p)
      <4>1. i - (p - 1) \in 1 .. Len(keys) - p /\ (i - (p - 1)) + p = i + 1
        BY <2>1, <2>2, <3>2
      <4>2. d[i] = b[i - (p - 1)]
        BY SMTT(30), <2>1, <2>2, <2>5, <2>6, <3>2
      <4>. QED
        BY <2>5, <3>2, <4>1, <4>2
    <3>. QED
      BY <3>1, <3>2
  <2>. QED
    BY <2>1, <2>2, <2>3, <2>7, <2>8, Zenon
<1>. QED
  BY <1>1, <1>2

\* What the open event holds.
LEMMA OpenEvent ==
  ASSUME AgentInv
  PROVE  /\ EndOfAll(events) \in Nat /\ read \in Nat /\ read <= Len(file) /\ Len(file) \in Nat
         /\ pendingEvent = << >> <=> EndOfAll(events) = read
         /\ pendingEvent # << >> =>
              /\ EndOfAll(events) < read /\ Last(pendingEvent) = read /\ read \in readEnds
              /\ Head(pendingEvent) \in 1 .. read /\ pendingEvent \in Seq(Nat)
<1> DEFINE e == EndOfAll(events)
<1>1. /\ e \in Nat /\ e <= read /\ pendingEvent = LinesAfter(e, read)
      /\ read \in Nat /\ read <= Len(file) /\ Len(file) \in Nat
      /\ read > 0 => read \in readEnds
  BY DEF AgentInv, Follows, AgentTyped
<1>. HIDE DEF e
<1>2. pendingEvent = << >> <=> e = read
  BY <1>1, LinesBetween
<1>3. ASSUME pendingEvent # << >>
      PROVE  /\ e < read /\ Last(pendingEvent) = read /\ read \in readEnds
             /\ Head(pendingEvent) \in 1 .. read /\ pendingEvent \in Seq(Nat)
  <2>1. e < read /\ e + 1 \in 1 .. read /\ read > 0
    BY <1>1, <1>2, <1>3
  <2>. QED
    BY <1>1, <2>1, LinesBetween, Zenon
<1>. QED
  BY <1>1, <1>2, <1>3, Zenon DEF e

\* The log that is written to.
LEMMA WriteKeeps ==
  ASSUME AgentInv, NEW line \in Line, WriteLine(line)
  PROVE  AgentInv'
<1>1. /\ file' \in Seq(Line) /\ Len(file') = Len(file) + 1
      /\ \A n \in 1 .. Len(file) : file'[n] = file[n]
      /\ UNCHANGED <<watched, read, pendingEvent, recentLogKeys, expiries, events, readEnds>>
      /\ changed' = (watched # "none")
  BY LineWritten DEF AgentInv
<1>2. /\ watched' = watched /\ read' = read /\ pendingEvent' = pendingEvent
      /\ recentLogKeys' = recentLogKeys /\ expiries' = expiries /\ events' = events
      /\ readEnds' = readEnds
  BY <1>1
<1>3. read \in 0 .. Len(file')
  BY <1>1 DEF AgentInv, AgentTyped
<1>4. changed' \in BOOLEAN /\ (changed' => watched # "none")
  BY <1>1, Zenon
<1>5. AgentTyped'
  BY <1>1, <1>2, <1>3, <1>4, Zenon DEF AgentInv, AgentTyped
<1>6. pendingEvent # << >> => file'[Head(pendingEvent)].kind = "error"
  <2>1. pendingEvent # << >> => Head(pendingEvent) \in 1 .. Len(file)
    BY OpenEvent
  <2>. QED
    BY <1>1, <2>1, Zenon DEF AgentInv
<1>. QED
  BY <1>2, <1>4, <1>5, <1>6, Zenon DEF AgentInv

\* The handler.
LEMMA ChangeKeeps ==
  ASSUME AgentInv, OnChange
  PROVE  AgentInv'
<1>1. PICK upTo \in read .. Len(file) : \E r, after : Handles(upTo, r, after)
  BY Change, Zenon
<1>2. PICK r, after : Handles(upTo, r, after)
  BY <1>1, Zenon
<1>3. /\ read' = upTo /\ pendingEvent' = r.current
      /\ recentLogKeys' = after.keys /\ expiries' = after.timers
      /\ events' = after.events /\ readEnds' = readEnds \cup {upTo}
      /\ file' = file /\ watched' = watched /\ changed' = FALSE
  BY <1>2, Zenon DEF Handles
<1>4. /\ after \in Emission
      /\ Follows(LinesOf(after.events), 0, EndOfAll(after.events))
      /\ EndOfAll(after.events) <= upTo
      /\ r.current = LinesAfter(EndOfAll(after.events), upTo)
      /\ Processes(r, upTo)
  BY <1>2, Zenon DEF Handles
<1>5. /\ read \in Nat /\ Len(file) \in Nat /\ upTo \in 0 .. Len(file) /\ upTo \in Nat
      /\ EndOfAll(after.events) \in Nat
  BY <1>4 DEF AgentInv, AgentTyped, Follows
<1>6. AgentTyped'
  <2>1. after.keys \in Seq(Key) /\ after.timers \in Seq(Timer) /\ after.events \in Seq(EventRecord)
    BY <1>4 DEF Emission
  <2>2. r.current \in Seq(Nat)
    BY <1>4, <1>5, LinesBetween, ZenonT(60)
  <2>3. readEnds \cup {upTo} \in SUBSET Nat
    BY <1>5 DEF AgentInv, AgentTyped
  <2>4. FALSE \in BOOLEAN
    OBVIOUS
  <2>. QED
    BY <1>3, <1>5, <2>1, <2>2, <2>3, <2>4, Zenon DEF AgentInv, AgentTyped
<1>7. r.current # << >> => watched = "grouped" /\ file[Head(r.current)].kind = "error"
  BY <1>4, Zenon DEF Processes
<1>8. upTo \in readEnds \cup {upTo}
  OBVIOUS
<1>. QED
  BY <1>3, <1>4, <1>6, <1>7, <1>8, Zenon DEF AgentInv

\* The timers and the configuration.
LEMMA ExpireKeeps ==
  ASSUME AgentInv, ExpireKey
  PROVE  AgentInv'
<1>1. /\ recentLogKeys' = Delete(recentLogKeys, Head(expiries).key)
      /\ expiries' = Tail(expiries) /\ expiries # << >>
      /\ file' = file /\ watched' = watched /\ changed' = changed /\ read' = read
      /\ pendingEvent' = pendingEvent /\ events' = events /\ readEnds' = readEnds
  BY DEF ExpireKey
<1>2. recentLogKeys \in Seq(Key) /\ expiries \in Seq(Timer)
  BY DEF AgentInv, AgentTyped
<1>3. Delete(recentLogKeys, Head(expiries).key) \in Seq(Key) /\ Tail(expiries) \in Seq(Timer)
  BY <1>1, <1>2, KeyDeleted
<1>4. AgentTyped'
  BY <1>1, <1>3, Zenon DEF AgentInv, AgentTyped
<1>. QED
  BY <1>1, <1>4, Zenon DEF AgentInv

LEMMA ReloadKeeps ==
  ASSUME AgentInv, Reload
  PROVE  AgentInv'
<1>1. /\ watched' \in {"none", "grouped", "custom"} /\ changed' = FALSE /\ pendingEvent' = << >>
      /\ events' = Forget(pendingEvent) /\ file' = file /\ read' = read
      /\ recentLogKeys' = recentLogKeys /\ expiries' = expiries /\ readEnds' = readEnds
  BY DEF Reload
<1>2. /\ EndOfAll(events) \in Nat /\ read \in Nat /\ read <= read
      /\ pendingEvent = << >> => EndOfAll(events) = read
      /\ pendingEvent # << >> =>
           EndOfAll(events) < read /\ Last(pendingEvent) = read /\ pendingEvent \in Seq(Nat)
  BY OpenEvent
<1>3. /\ events' \in Seq(EventRecord)
      /\ Follows(LinesOf(events'), 0, EndOfAll(events'))
      /\ EndOfAll(events') = read
  <2>1. CASE pendingEvent = << >>
    <3>1. events' = events
      BY <1>1, <2>1, Zenon DEF Forget
    <3>. QED
      BY <1>2, <2>1, <3>1, Zenon DEF AgentInv, AgentTyped
  <2>2. CASE pendingEvent # << >>
    <3> DEFINE new == Event(pendingEvent, TRUE, "forgotten")
    <3>1. events' = Append(events, new)
      BY <1>1, <2>2, Zenon DEF Forget
    <3>2. new \in EventRecord /\ new.lines = pendingEvent
      BY <1>2, <2>2 DEF Event, EventRecord
    <3>. HIDE DEF new
    <3>3. events \in Seq(EventRecord) /\ pendingEvent = LinesAfter(EndOfAll(events), read)
          /\ Follows(LinesOf(events), 0, EndOfAll(events))
      BY DEF AgentInv, AgentTyped
    <3>4. Follows(Append(LinesOf(events), pendingEvent), 0, read)
      BY <1>2, <2>2, <3>3, FollowsMore, Zenon
    <3>5. /\ LinesOf(Append(events, new)) = Append(LinesOf(events), pendingEvent)
          /\ Append(events, new) \in Seq(EventRecord)
          /\ EndOfAll(Append(events, new)) = read
      BY <1>2, <2>2, <3>2, <3>3, OneEventMore, Zenon
    <3>. QED
      BY <3>1, <3>4, <3>5, Zenon
  <2>. QED
    BY <2>1, <2>2
<1>4. << >> = LinesAfter(read, read) /\ << >> \in Seq(Nat) /\ FALSE \in BOOLEAN
  BY <1>2, LinesBetween
<1>5. AgentTyped'
  BY <1>1, <1>3, <1>4, Zenon DEF AgentInv, AgentTyped
<1>. QED
  BY <1>1, <1>2, <1>3, <1>4, <1>5, Zenon DEF AgentInv

LEMMA AgentStep ==
  ASSUME AgentInv, [Next]_vars
  PROVE  AgentInv'
<1>1. CASE UNCHANGED vars
  BY <1>1 DEF vars, AgentInv, AgentTyped
<1>2. CASE Next
  <2>1. ASSUME NEW line \in Line, WriteLine(line) PROVE AgentInv'
    BY <2>1, WriteKeeps
  <2>2. CASE OnChange
    BY <2>2, ChangeKeeps
  <2>3. CASE ExpireKey
    BY <2>3, ExpireKeeps
  <2>4. CASE Reload
    BY <2>4, ReloadKeeps
  <2>. QED
    BY <1>2, <2>1, <2>2, <2>3, <2>4, Zenon DEF Next
<1>. QED
  BY <1>1, <1>2

LEMMA AgentKept == Spec => []AgentInv
  BY AgentInit, AgentStep, PTL DEF Spec

\* Every line that was read is in one event, in the order of the file, or in the one that
\* is still open, wherever windows end and however often the watchers are replaced.
THEOREM LinesInOneEvent == Spec => []EveryLineOnce
<1>1. AgentInv => EveryLineOnce
  <2>. SUFFICES ASSUME AgentInv PROVE EveryLineOnce
    OBVIOUS
  <2>1. /\ events \in Seq(EventRecord) /\ Len(events) \in Nat
        /\ Follows(LinesOf(events), 0, EndOfAll(events))
        /\ pendingEvent = LinesAfter(EndOfAll(events), read)
    BY DEF AgentInv, AgentTyped
  <2>2. /\ Len(LinesOf(events)) = Len(events)
        /\ \A i \in 1 .. Len(events) : LinesOf(events)[i] = events[i].lines
    BY <2>1, LinesOfEvents, Zenon
  <2>3. ASSUME NEW i \in 1 .. Len(events) + 1
        PROVE  EndBefore(LinesOf(events), 0, i) = EndOf(i - 1)
    <3>1. CASE i = 1
      BY <3>1 DEF EndBefore, EndOf
    <3>2. CASE i # 1
      <4>1. i - 1 \in 1 .. Len(events) /\ i - 1 # 0
        BY <2>1, <3>2
      <4>. QED
        BY <2>2, <3>2, <4>1, Zenon DEF EndBefore, EndOf
    <3>. QED
      BY <3>1, <3>2
  <2>4. EndOfAll(events) = EndOf(Len(events))
    <3>1. Len(events) + 1 \in 1 .. Len(events) + 1 /\ (Len(events) + 1) - 1 = Len(events)
      BY <2>1
    <3>2. EndBefore(LinesOf(events), 0, Len(events) + 1) = EndOf((Len(events) + 1) - 1)
      BY <2>3, <3>1
    <3>. QED
      BY <3>1, <3>2, Zenon DEF EndOfAll
  <2>5. ASSUME NEW i \in DOMAIN events
        PROVE  events[i].lines # << >> /\ events[i].lines = LinesAfter(EndOf(i - 1), EndOf(i))
    <3>1. i \in 1 .. Len(events) /\ i \in 1 .. Len(events) + 1 /\ i # 0
      BY <2>1
    <3>2. Continues(LinesOf(events), 0, i, EndOfAll(events))
      BY <2>1, <2>2, <3>1, Zenon DEF Follows
    <3>3. EndOf(i) = Last(events[i].lines)
      BY <3>1, Zenon DEF EndOf
    <3>. QED
      BY <2>2, <2>3, <3>1, <3>2, <3>3, Zenon DEF Continues
  <2>. QED
    BY <2>1, <2>4, <2>5, Zenon DEF EveryLineOnce
<1>. QED
  BY <1>1, AgentKept, PTL

-----------------------------------------------------------------------------
(* Stacks *)

\* evs is what was there and the first n parts of the batch.
Told(evs, batch, grouped, n) ==
  /\ evs \in Seq(EventRecord) /\ Len(evs) = Len(events) + n
  /\ \A i \in 1 .. Len(events) : evs[i] = events[i]
  /\ \A i \in 1 .. n : evs[Len(events) + i].lines = batch[i]
                       /\ evs[Len(events) + i].grouped = grouped

\* One more.
LEMMA ToldMore ==
  ASSUME Len(events) \in Nat, NEW evs, NEW batch, NEW grouped \in BOOLEAN, NEW n \in Nat,
         Told(evs, batch, grouped, n), NEW e \in EventRecord,
         e.lines = batch[n + 1], e.grouped = grouped
  PROVE  Told(Append(evs, e), batch, grouped, n + 1)
<1> DEFINE t == Append(evs, e)
           L == Len(events)
<1>1. evs \in Seq(EventRecord) /\ Len(evs) = L + n
  BY DEF Told
<1>2. /\ t \in Seq(EventRecord) /\ Len(t) = (L + n) + 1 /\ t[(L + n) + 1] = e
      /\ \A i \in 1 .. L + n : t[i] = evs[i]
  BY <1>1
<1>. HIDE DEF t, L
<1>3. L \in Nat /\ (L + n) + 1 = L + (n + 1)
  BY DEF L
<1>4. \A i \in 1 .. L : t[i] = events[i]
  <2>1. \A i \in 1 .. L : i \in 1 .. L + n
    BY <1>3
  <2>. QED
    BY <1>2, <2>1, Zenon DEF Told, L
<1>5. ASSUME NEW i \in 1 .. n + 1 PROVE t[L + i].lines = batch[i] /\ t[L + i].grouped = grouped
  <2>1. CASE i = n + 1
    BY <1>2, <1>3, <2>1
  <2>2. CASE i # n + 1
    <3>1. i \in 1 .. n /\ L + i \in 1 .. L + n
      BY <1>3, <2>2
    <3>. QED
      BY <1>2, <3>1, Zenon DEF Told, L
  <2>. QED
    BY <2>1, <2>2
<1>. QED
  BY <1>2, <1>3, <1>4, <1>5, Zenon DEF Told, t, L

\* A batch is told event by event.
LEMMA EmittedTold ==
  ASSUME AgentTyped, NEW batch \in Seq(Seq(Nat)), NEW grouped \in BOOLEAN,
         \A i \in 1 .. Len(batch) : InFile(batch[i])
  PROVE  Told(EmitAll(batch, grouped).events, batch, grouped, Len(batch))
<1> DEFINE N == Len(batch)
<1>0. N \in Nat /\ Len(events) \in Nat /\ events \in Seq(EventRecord)
  BY DEF AgentTyped
<1>1. PICK g \in [0 .. N -> Emission] : Emits(g, batch, grouped)
  BY EmittedOneByOne, Zenon
<1> DEFINE T == {n \in Nat : n <= N => Told(g[n].events, batch, grouped, n)}
<1>2. 0 \in T
  <2>1. g[0].events = events
    <3>1. g[0] = Before
      BY <1>1, Zenon DEF Emits
    <3>. QED
      BY <3>1 DEF Before
  <2>2. Told(events, batch, grouped, 0)
    BY <1>0 DEF Told
  <2>. QED
    BY <2>1, <2>2, Zenon
<1>3. ASSUME NEW n \in Nat, n \in T PROVE n + 1 \in T
  <2>1. SUFFICES ASSUME n + 1 <= N PROVE Told(g[n + 1].events, batch, grouped, n + 1)
    OBVIOUS
  <2>2. n <= N /\ n \in 0 .. N /\ n + 1 \in 1 .. N /\ (n + 1) - 1 = n
    BY <1>0, <2>1
  <2>3. g[n] \in Emission /\ Told(g[n].events, batch, grouped, n) /\ InFile(batch[n + 1])
    BY <1>1, <1>3, <2>2
  <2>4. g[n + 1] = EmitEvent(g[n], batch[n + 1], grouped)
    BY <1>1, <2>2 DEF Emits
  <2>5. PICK fate \in {"emitted", "duplicate"} :
          EmitEvent(g[n], batch[n + 1], grouped).events
            = Append(g[n].events, Event(batch[n + 1], grouped, fate))
    BY <2>3, EmitTyped, Zenon
  <2> DEFINE e == Event(batch[n + 1], grouped, fate)
  <2>6. e \in EventRecord /\ e.lines = batch[n + 1] /\ e.grouped = grouped
    <3>1. batch[n + 1] \in Seq(Nat)
      BY <2>3 DEF InFile
    <3>. QED
      BY <2>5, <3>1 DEF Event, EventRecord
  <2>. HIDE DEF e
  <2>7. Told(Append(g[n].events, e), batch, grouped, n + 1)
    BY <1>0, <2>3, <2>6, ToldMore, Zenon
  <2>. QED
    BY <2>4, <2>5, <2>7, Zenon DEF e
<1>. HIDE DEF T
<1>4. Nat \subseteq T
  BY <1>2, <1>3, SetInduction
<1>5. Told(g[N].events, batch, grouped, N)
  <2>1. N <= N
    BY <1>0
  <2>. QED
    BY <1>0, <1>4, <2>1 DEF T
<1>. QED
  BY <1>1, <1>5, Zenon DEF Emits

\* What is told of the event e, when rd lines of f were read in portions that end at ends:
\* an error is parted from a frame only there.
Joined(e, f, rd, ends) ==
  e.grouped /\ f[Head(e.lines)].kind = "error" /\ Last(e.lines) < rd /\ Last(e.lines) \notin ends
    => f[Last(e.lines) + 1].kind # "frame"

TornInv ==
  /\ AgentInv
  /\ \A i \in 1 .. Len(events) : Joined(events[i], file, read, readEnds)

\* Where an event lies.
LEMMA EventInFile ==
  ASSUME AgentInv, NEW i \in 1 .. Len(events)
  PROVE  /\ events[i].lines # << >>
         /\ Head(events[i].lines) \in 1 .. read /\ Last(events[i].lines) \in 1 .. read
         /\ Last(events[i].lines) <= EndOfAll(events)
<1> DEFINE s == LinesOf(events)
           e == EndOfAll(events)
<1>1. Follows(s, 0, e) /\ e <= read /\ read \in Nat /\ events \in Seq(EventRecord)
  BY DEF AgentInv, AgentTyped
<1>2. i \in 1 .. Len(s) /\ s[i] = events[i].lines
  BY <1>1, LinesOfEvents, Zenon
<1>. HIDE DEF s, e
<1>3. s[i] # << >> /\ Head(s[i]) \in 0 + 1 .. e /\ Last(s[i]) \in 0 + 1 .. e /\ e \in Nat
  BY <1>1, <1>2, PartOfFile, Zenon
<1>4. Head(s[i]) \in 1 .. read /\ Last(s[i]) \in 1 .. read /\ Last(s[i]) <= e
  BY <1>1, <1>3
<1>. QED
  BY <1>2, <1>3, <1>4, Zenon DEF e

LEMMA TornStep ==
  ASSUME TornInv, [Next]_vars
  PROVE  TornInv'
<1>0. AgentInv /\ AgentInv'
  BY AgentStep, Zenon DEF TornInv
<1>1. SUFFICES \A i \in 1 .. Len(events') : Joined(events'[i], file', read', readEnds')
  BY <1>0, Zenon DEF TornInv
<1>2. \A i \in 1 .. Len(events) : Joined(events[i], file, read, readEnds)
  BY DEF TornInv
<1>3. CASE UNCHANGED vars
  BY <1>2, <1>3 DEF vars
<1>4. ASSUME NEW line \in Line, WriteLine(line)
      PROVE  \A i \in 1 .. Len(events') : Joined(events'[i], file', read', readEnds')
  <2>1. /\ \A n \in 1 .. Len(file) : file'[n] = file[n]
        /\ events' = events /\ read' = read /\ readEnds' = readEnds
    BY <1>0, <1>4, LineWritten DEF AgentInv
  <2>2. SUFFICES ASSUME NEW i \in 1 .. Len(events)
                 PROVE  Joined(events[i], file', read, readEnds)
    BY <2>1, Zenon
  <2>3. Head(events[i].lines) \in 1 .. read /\ Last(events[i].lines) \in 1 .. read
    BY <1>0, EventInFile, Zenon
  <2>4. read \in Nat /\ Len(file) \in Nat /\ read <= Len(file)
    BY <1>0, OpenEvent, Zenon
  <2>5. /\ Head(events[i].lines) \in 1 .. Len(file)
        /\ Last(events[i].lines) < read => Last(events[i].lines) + 1 \in 1 .. Len(file)
    BY <2>3, <2>4
  <2>. QED
    BY <1>2, <2>1, <2>5, Zenon DEF Joined
<1>5. CASE OnChange
  <2>1. PICK upTo \in read .. Len(file) : \E r, after : Handles(upTo, r, after)
    BY <1>0, <1>5, Change, Zenon
  <2>2. PICK r, after : Handles(upTo, r, after)
    BY <2>1, Zenon
  <2> DEFINE grouped == watched = "grouped"
             L == Len(events)
  <2>3. grouped \in BOOLEAN /\ AgentTyped
    BY <1>0, Zenon DEF AgentInv
  <2>4. Told(after.events, r.done, grouped, Len(r.done))
    <3>1. after = EmitAll(r.done, grouped) /\ r.done \in Seq(Seq(Nat))
          /\ \A i \in 1 .. Len(r.done) : InFile(r.done[i])
      BY <2>2, Zenon DEF Handles
    <3>. HIDE DEF grouped
    <3>. QED
      BY <2>3, <3>1, EmittedTold, Zenon
  <2>5. /\ events' = after.events /\ file' = file /\ read' = upTo /\ readEnds' = readEnds \cup {upTo}
        /\ Processes(r, upTo)
    BY <2>2, Zenon DEF Handles
  <2>6. L \in Nat /\ read \in Nat /\ upTo \in Nat /\ read <= upTo
    BY <2>3 DEF AgentTyped
  <2>7. ASSUME NEW i \in 1 .. L PROVE Joined(events[i], file, upTo, readEnds \cup {upTo})
    <3>1. Last(events[i].lines) \in 1 .. read
      BY <1>0, EventInFile, Zenon
    <3>2. Last(events[i].lines) = read => read \in readEnds
      <4>1. Last(events[i].lines) = read => read > 0
        BY <2>6, <3>1
      <4>. QED
        BY <1>0, <4>1, Zenon DEF AgentInv
    <3>3. Last(events[i].lines) \notin readEnds => Last(events[i].lines) < read
      BY <2>6, <3>1, <3>2
    <3>. QED
      BY <1>2, <3>3, Zenon DEF Joined
  <2>8. ASSUME NEW i \in 1 .. Len(r.done), NEW e, e.lines = r.done[i], e.grouped = grouped
        PROVE  Joined(e, file, upTo, readEnds \cup {upTo})
    <3>1. grouped => Last(r.done[i]) = upTo \/ Whole(r.done[i])
      BY <2>5, Zenon DEF Processes
    <3>2. upTo \in readEnds \cup {upTo}
      OBVIOUS
    <3>. HIDE DEF grouped
    <3>. QED
      BY <2>8, <3>1, <3>2, Zenon DEF Joined, Whole
  <2>9. SUFFICES ASSUME NEW i \in 1 .. Len(after.events)
                 PROVE  Joined(after.events[i], file, upTo, readEnds \cup {upTo})
    BY <2>5, Zenon
  <2>10. Len(after.events) = L + Len(r.done) /\ Len(r.done) \in Nat
    <3>1. r.done \in Seq(Seq(Nat))
      BY <2>2, Zenon DEF Handles
    <3>. QED
      BY <2>4, <3>1 DEF Told
  <2>11. CASE i \in 1 .. L
    BY <2>4, <2>7, <2>11, Zenon DEF Told
  <2>12. CASE i \notin 1 .. L
    <3> DEFINE j == i - L
    <3>1. j \in 1 .. Len(r.done) /\ L + j = i
      BY <2>6, <2>10, <2>12
    <3>. HIDE DEF j, grouped
    <3>2. after.events[i].lines = r.done[j] /\ after.events[i].grouped = grouped
      BY <2>4, <3>1, Zenon DEF Told
    <3>. QED
      BY <2>8, <3>1, <3>2, Zenon
  <2>. QED
    BY <2>11, <2>12
<1>6. CASE ExpireKey
  <2>1. events' = events /\ file' = file /\ read' = read /\ readEnds' = readEnds
    BY <1>6 DEF ExpireKey
  <2>. QED
    BY <1>2, <2>1, Zenon
<1>7. CASE Reload
  <2>1. /\ events' = Forget(pendingEvent) /\ file' = file /\ read' = read /\ readEnds' = readEnds
    BY <1>7 DEF Reload
  <2>2. CASE pendingEvent = << >>
    <3>1. events' = events
      BY <2>1, <2>2, Zenon DEF Forget
    <3>. QED
      BY <1>2, <2>1, <3>1, Zenon
  <2>3. CASE pendingEvent # << >>
    <3> DEFINE e == Event(pendingEvent, TRUE, "forgotten")
    <3>1. events' = Append(events, e) /\ e.lines = pendingEvent
      BY <2>1, <2>3 DEF Forget, Event
    <3>2. Last(pendingEvent) = read /\ read \in Nat
      BY <1>0, <2>3, OpenEvent, Zenon
    <3>3. Len(events) \in Nat /\ events \in Seq(EventRecord)
      BY <1>0 DEF AgentInv, AgentTyped
    <3>. HIDE DEF e
    <3>4. /\ Len(events') = Len(events) + 1 /\ events'[Len(events) + 1] = e
          /\ \A i \in 1 .. Len(events) : events'[i] = events[i]
      BY <3>1, <3>3
    <3>5. Joined(e, file, read, readEnds)
      <4>1. ~(read < read)
        BY <3>2
      <4>. QED
        BY <3>1, <3>2, <4>1, Zenon DEF Joined
    <3>6. \A i \in 1 .. Len(events') : i \in 1 .. Len(events) \/ i = Len(events) + 1
      BY <3>3, <3>4
    <3>. QED
      BY <1>2, <2>1, <3>4, <3>5, <3>6, Zenon
  <2>. QED
    BY <2>2, <2>3
<1>. QED
  BY <1>3, <1>4, <1>5, <1>6, <1>7, Zenon DEF Next

\* A stack frame is parted from its error only where a read ended, for any number of
\* lines and any grouping of them.
THEOREM TornWhereReadsEnd == Spec => []TornOnlyBetweenReads
<1>1. Init => TornInv
  <2>1. Init => Len(events) = 0
    BY DEF Init
  <2>2. Init => \A i \in 1 .. Len(events) : FALSE
    BY <2>1
  <2>. QED
    BY <2>2, AgentInit, Zenon DEF TornInv
<1>2. TornInv /\ [Next]_vars => TornInv'
  BY TornStep
<1>3. TornInv => TornOnlyBetweenReads
  <2>. SUFFICES ASSUME TornInv PROVE TornOnlyBetweenReads
    OBVIOUS
  <2>1. DOMAIN events = 1 .. Len(events)
    BY DEF TornInv, AgentInv, AgentTyped
  <2>. QED
    BY <2>1, Zenon DEF TornInv, Joined, TornOnlyBetweenReads
<1>. QED
  BY <1>1, <1>2, <1>3, PTL DEF Spec

-----------------------------------------------------------------------------
(* The table of recent messages *)

\* Nothing with the key of the timer t was emitted in evs after it was armed.
Silent(t, evs, f) ==
  \A i \in t.event + 1 .. Len(evs) :
    evs[i].fate = "emitted" => f[Head(evs[i].lines)].key # t.key

\* A timer of timers will delete the key.
Armed(key, timers, evs, f) ==
  \E i \in 1 .. Len(timers) : timers[i].key = key /\ Silent(timers[i], evs, f)

\* The keys are few, different, and each has its timer.
KeysGood(keys, timers, evs, f) ==
  /\ Len(keys) <= RecentLogsMax
  /\ \A i, j \in 1 .. Len(keys) : keys[i] = keys[j] => i = j
  /\ \A i \in 1 .. Len(keys) : Armed(keys[i], timers, evs, f)

\* An event with another key, or that was not emitted, leaves a timer valid.
LEMMA SilentStill ==
  ASSUME NEW t \in Timer, NEW evs \in Seq(EventRecord), NEW f, Silent(t, evs, f),
         NEW e \in EventRecord, e.fate = "emitted" => f[Head(e.lines)].key # t.key
  PROVE  Silent(t, Append(evs, e), f)
<1> DEFINE s == Append(evs, e)
<1>1. /\ Len(s) = Len(evs) + 1 /\ Len(evs) \in Nat /\ s[Len(evs) + 1] = e
      /\ \A i \in 1 .. Len(evs) : s[i] = evs[i]
  OBVIOUS
<1>2. t.event \in Nat
  BY DEF Timer
<1>. HIDE DEF s
<1>3. SUFFICES ASSUME NEW i \in t.event + 1 .. Len(s), s[i].fate = "emitted"
               PROVE  f[Head(s[i].lines)].key # t.key
  BY Zenon DEF Silent, s
<1>4. \/ i = Len(evs) + 1
      \/ i \in t.event + 1 .. Len(evs) /\ i \in 1 .. Len(evs)
  BY <1>1, <1>2
<1>. QED
  BY <1>1, <1>3, <1>4, Zenon DEF Silent

\* So does one more for every key.
LEMMA ArmedStill ==
  ASSUME NEW key, NEW timers \in Seq(Timer), NEW evs \in Seq(EventRecord), NEW f,
         Armed(key, timers, evs, f),
         NEW e \in EventRecord, e.fate = "emitted" => f[Head(e.lines)].key # key
  PROVE  Armed(key, timers, Append(evs, e), f)
<1>1. PICK i \in 1 .. Len(timers) : timers[i].key = key /\ Silent(timers[i], evs, f)
  BY Zenon DEF Armed
<1>2. timers[i] \in Timer
  OBVIOUS
<1>3. Silent(timers[i], Append(evs, e), f)
  BY <1>1, <1>2, SilentStill, Zenon
<1>. QED
  BY <1>1, <1>3, Zenon DEF Armed

\* And one more timer.
LEMMA ArmedMore ==
  ASSUME NEW key, NEW timers \in Seq(Timer), NEW evs, NEW f, Armed(key, timers, evs, f),
         NEW timer \in Timer
  PROVE  Armed(key, Append(timers, timer), evs, f)
<1> DEFINE s == Append(timers, timer)
<1>1. PICK i \in 1 .. Len(timers) : timers[i].key = key /\ Silent(timers[i], evs, f)
  BY Zenon DEF Armed
<1>2. i \in 1 .. Len(s) /\ s[i] = timers[i]
  OBVIOUS
<1>. HIDE DEF s
<1>. QED
  BY <1>1, <1>2, Zenon DEF Armed, s

\* Only the timer that fires is lost.
LEMMA ArmedLess ==
  ASSUME NEW key, NEW timers \in Seq(Timer), timers # << >>, NEW evs, NEW f,
         Armed(key, timers, evs, f), Head(timers).key # key
  PROVE  Armed(key, Tail(timers), evs, f)
<1> DEFINE s == Tail(timers)
<1>1. PICK i \in 1 .. Len(timers) : timers[i].key = key /\ Silent(timers[i], evs, f)
  BY Zenon DEF Armed
<1>2. i # 1
  BY <1>1
<1>3. i - 1 \in 1 .. Len(s) /\ s[i - 1] = timers[i]
  BY <1>2
<1>. HIDE DEF s
<1>. QED
  BY <1>1, <1>3, Zenon DEF Armed, s

\* Whatever an event does to the table, it stays good.
LEMMA EmitKeys ==
  ASSUME AgentTyped, NEW acc \in Emission, NEW l, InFile(l), NEW grouped \in BOOLEAN,
         KeysGood(acc.keys, acc.timers, acc.events, file)
  PROVE  LET new == EmitEvent(acc, l, grouped)
         IN  KeysGood(new.keys, new.timers, new.events, file)
<1> DEFINE new == EmitEvent(acc, l, grouped)
           key == file[Head(l)].key
           e(f) == Event(l, grouped, f)
<1>1. /\ acc.keys \in Seq(Key) /\ acc.timers \in Seq(Timer) /\ acc.events \in Seq(EventRecord)
      /\ Len(acc.events) \in Nat /\ Len(acc.keys) \in Nat
  BY DEF Emission
<1>2. key \in Key /\ l \in Seq(Nat)
  BY KeyOfPart, Zenon
<1>3. \A f \in {"duplicate", "emitted"} :
        e(f) \in EventRecord /\ e(f).lines = l /\ e(f).fate = f
  BY <1>2 DEF Event, EventRecord
<1>4. CASE Muted(acc, l)
  <2>1. new = [acc EXCEPT !.events = Append(acc.events, e("duplicate"))]
    BY <1>4, EmitMuted, Zenon
  <2>. HIDE DEF new
  <2>2. /\ new.keys = acc.keys /\ new.timers = acc.timers
        /\ new.events = Append(acc.events, e("duplicate"))
    <3>1. ASSUME NEW x
          PROVE  /\ [acc EXCEPT !.events = x].keys = acc.keys
                 /\ [acc EXCEPT !.events = x].timers = acc.timers
                 /\ [acc EXCEPT !.events = x].events = x
      BY DEF Emission
    <3>. QED
      BY <2>1, <3>1, Zenon
  <2>3. \A i \in 1 .. Len(acc.keys) :
          Armed(acc.keys[i], acc.timers, Append(acc.events, e("duplicate")), file)
    <3>1. e("duplicate").fate # "emitted" /\ e("duplicate") \in EventRecord
      BY <1>3
    <3>. HIDE DEF e
    <3>. QED
      BY <1>1, <3>1, ArmedStill, Zenon DEF KeysGood
  <2>4. KeysGood(new.keys, new.timers, new.events, file)
    <3>. HIDE DEF e
    <3>. QED
      BY <2>2, <2>3, Zenon DEF KeysGood
  <2>. QED
    BY <2>4 DEF new
<1>5. CASE ~Muted(acc, l)
  <2> DEFINE timer == [key |-> key, event |-> Len(acc.events) + 1]
             room == MakeRoom(acc.keys)
             keys == Append(room, key)
             timers == Append(acc.timers, timer)
             evs == Append(acc.events, e("emitted"))
  <2>1. new = [keys |-> keys, timers |-> timers, events |-> evs]
    BY <1>5, EmitHeard, Zenon
  <2>2. new.keys = keys /\ new.timers = timers /\ new.events = evs
    BY <2>1
  <2>3. timer \in Timer /\ timer.key = key /\ timer.event = Len(acc.events) + 1
    BY <1>1, <1>2 DEF Timer
  <2>4. \A i \in 1 .. Len(acc.keys) : acc.keys[i] # key
    <3>1. key \notin ToSet(acc.keys)
      BY <1>5, Zenon DEF Muted
    <3>2. DOMAIN acc.keys = 1 .. Len(acc.keys)
      BY <1>1
    <3>. QED
      BY <3>1, <3>2, Zenon DEF ToSet
  <2>5. room \in Seq(Key) /\ Len(room) + 1 <= RecentLogsMax
    BY <1>1, RoomMade, Zenon DEF KeysGood
  <2>6. PICK d \in Nat : /\ Len(room) + d = Len(acc.keys)
                         /\ \A i \in 1 .. Len(room) : room[i] = acc.keys[i + d]
    BY <1>1, RoomMade, Zenon
  <2>7. /\ Len(keys) = Len(room) + 1 /\ keys[Len(room) + 1] = key /\ Len(room) \in Nat
        /\ \A i \in 1 .. Len(room) : keys[i] = room[i]
    <3>. HIDE DEF room, key
    <3>. QED
      BY <1>2, <2>5
  <2>8. e("emitted") \in EventRecord /\ e("emitted").lines = l
    BY <1>3
  <2>. HIDE DEF e, timer, room, key
  <2>9. Len(evs) = Len(acc.events) + 1 /\ Len(timers) = Len(acc.timers) + 1
        /\ timers[Len(acc.timers) + 1] = timer /\ Len(acc.timers) \in Nat
    BY <1>1, <2>3, <2>8
  <2>. HIDE DEF keys
  <2>10. \A i \in 1 .. Len(room) : i + d \in 1 .. Len(acc.keys) /\ keys[i] = acc.keys[i + d]
    BY <2>6, <2>7
  <2>11. Armed(key, timers, evs, file)
    <3>1. Silent(timer, evs, file)
      <4>1. timer.event + 1 .. Len(evs) = {}
        BY <1>1, <2>3, <2>9
      <4>. HIDE DEF evs
      <4>. QED
        BY <4>1, Zenon DEF Silent
    <3>2. Len(acc.timers) + 1 \in 1 .. Len(timers)
      BY <2>9
    <3>. HIDE DEF timers, evs
    <3>. QED
      BY <2>3, <2>9, <3>1, <3>2, Zenon DEF Armed
  <2>12. ASSUME NEW i \in 1 .. Len(room) PROVE Armed(keys[i], timers, evs, file)
    <3> DEFINE k == acc.keys[i + d]
    <3>1. keys[i] = k /\ k # key /\ Armed(k, acc.timers, acc.events, file)
      BY <2>4, <2>10, Zenon DEF KeysGood
    <3>. HIDE DEF k
    <3>2. file[Head(e("emitted").lines)].key # k
      BY <2>8, <3>1 DEF key
    <3>3. Armed(k, acc.timers, evs, file)
      BY <1>1, <2>8, <3>1, <3>2, ArmedStill, Zenon
    <3>. HIDE DEF evs
    <3>4. Armed(k, timers, evs, file)
      BY <1>1, <2>3, <3>3, ArmedMore, Zenon
    <3>. QED
      BY <3>1, <3>4, Zenon
  <2>13. ASSUME NEW i \in 1 .. Len(keys), NEW j \in 1 .. Len(keys), keys[i] = keys[j]
         PROVE  i = j
    <3>1. (i \in 1 .. Len(room) \/ i = Len(room) + 1) /\ (j \in 1 .. Len(room) \/ j = Len(room) + 1)
      BY <2>7
    <3>2. CASE i \in 1 .. Len(room) /\ j \in 1 .. Len(room)
      <4>1. i + d = j + d
        BY <2>10, <2>13, <3>2, Zenon DEF KeysGood
      <4>. QED
        BY <3>2, <4>1
    <3>3. CASE i = Len(room) + 1 /\ j \in 1 .. Len(room)
      BY <2>4, <2>7, <2>10, <2>13, <3>3, Zenon
    <3>4. CASE i \in 1 .. Len(room) /\ j = Len(room) + 1
      BY <2>4, <2>7, <2>10, <2>13, <3>4, Zenon
    <3>. QED
      BY <3>1, <3>2, <3>3, <3>4
  <2>14. \A i \in 1 .. Len(keys) : i \in 1 .. Len(room) \/ i = Len(room) + 1
    BY <2>7
  <2>15. Len(keys) <= RecentLogsMax
    BY <2>5, <2>7
  <2>16. KeysGood(keys, timers, evs, file)
    <3>. HIDE DEF timers, evs
    <3>. QED
      BY <2>7, <2>11, <2>12, <2>13, <2>14, <2>15, Zenon DEF KeysGood
  <2>. QED
    BY <2>2, <2>16, Zenon
<1>. QED
  BY <1>4, <1>5

\* So does a batch.
LEMMA BatchKeys ==
  ASSUME AgentTyped, NEW batch \in Seq(Seq(Nat)), NEW grouped \in BOOLEAN,
         \A i \in 1 .. Len(batch) : InFile(batch[i]),
         KeysGood(recentLogKeys, expiries, events, file)
  PROVE  LET after == EmitAll(batch, grouped)
         IN  KeysGood(after.keys, after.timers, after.events, file)
<1> DEFINE N == Len(batch)
           Good(acc) == KeysGood(acc.keys, acc.timers, acc.events, file)
<1>0. N \in Nat
  OBVIOUS
<1>1. PICK g \in [0 .. N -> Emission] : Emits(g, batch, grouped)
  BY EmittedOneByOne, Zenon
<1> DEFINE T == {n \in Nat : n <= N => Good(g[n])}
<1>2. 0 \in T
  <2>1. g[0] = Before
    BY <1>1, Zenon DEF Emits
  <2>2. Before.keys = recentLogKeys /\ Before.timers = expiries /\ Before.events = events
    BY DEF Before
  <2>. QED
    BY <2>1, <2>2, Zenon
<1>3. ASSUME NEW n \in Nat, n \in T PROVE n + 1 \in T
  <2>1. SUFFICES ASSUME n + 1 <= N PROVE Good(g[n + 1])
    OBVIOUS
  <2>2. n <= N /\ n \in 0 .. N /\ n + 1 \in 1 .. N /\ (n + 1) - 1 = n
    BY <1>0, <2>1
  <2>3. g[n] \in Emission /\ InFile(batch[n + 1])
    BY <1>1, <2>2
  <2>4. Good(g[n])
    BY <1>3, <2>2
  <2>5. g[n + 1] = EmitEvent(g[n], batch[n + 1], grouped)
    BY <1>1, <2>2 DEF Emits
  <2>6. Good(EmitEvent(g[n], batch[n + 1], grouped))
    BY <2>3, <2>4, EmitKeys, Zenon
  <2>. QED
    BY <2>5, <2>6, Zenon
<1>. HIDE DEF T
<1>4. Nat \subseteq T
  BY <1>2, <1>3, SetInduction
<1>5. Good(g[N])
  <2>1. N <= N
    BY <1>0
  <2>. QED
    BY <1>0, <1>4, <2>1 DEF T
<1>. QED
  BY <1>1, <1>5, Zenon DEF Emits

KeysInv == AgentInv /\ KeysGood(recentLogKeys, expiries, events, file)

LEMMA KeysStep ==
  ASSUME KeysInv, [Next]_vars
  PROVE  KeysInv'
<1>0. AgentInv /\ AgentInv'
  BY AgentStep, Zenon DEF KeysInv
<1>1. SUFFICES KeysGood(recentLogKeys', expiries', events', file')
  BY <1>0, Zenon DEF KeysInv
<1>2. KeysGood(recentLogKeys, expiries, events, file)
  BY DEF KeysInv
<1>3. /\ recentLogKeys \in Seq(Key) /\ expiries \in Seq(Timer) /\ events \in Seq(EventRecord)
      /\ AgentTyped
  BY <1>0 DEF AgentInv, AgentTyped
<1>4. CASE UNCHANGED vars
  BY <1>2, <1>4 DEF vars
<1>5. ASSUME NEW line \in Line, WriteLine(line)
      PROVE  KeysGood(recentLogKeys', expiries', events', file')
  <2>1. /\ \A n \in 1 .. Len(file) : file'[n] = file[n]
        /\ events' = events /\ recentLogKeys' = recentLogKeys /\ expiries' = expiries
    BY <1>3, <1>5, LineWritten
  <2>2. ASSUME NEW i \in 1 .. Len(events) PROVE Head(events[i].lines) \in 1 .. Len(file)
    <3>1. Head(events[i].lines) \in 1 .. read
      BY <1>0, EventInFile, Zenon
    <3>2. read <= Len(file) /\ Len(file) \in Nat /\ read \in Nat
      BY <1>0, OpenEvent, Zenon
    <3>. QED
      BY <3>1, <3>2
  <2>3. ASSUME NEW t \in Timer, Silent(t, events, file) PROVE Silent(t, events, file')
    <3>1. t.event \in Nat /\ Len(events) \in Nat
      BY <1>3 DEF Timer
    <3>2. \A i \in t.event + 1 .. Len(events) : i \in 1 .. Len(events)
      BY <3>1
    <3>. QED
      BY <2>1, <2>2, <2>3, <3>2, Zenon DEF Silent
  <2>4. ASSUME NEW key, Armed(key, expiries, events, file)
        PROVE  Armed(key, expiries, events, file')
    <3>1. \A i \in 1 .. Len(expiries) : expiries[i] \in Timer
      BY <1>3
    <3>. QED
      BY <2>3, <2>4, <3>1, Zenon DEF Armed
  <2>. QED
    BY <1>2, <2>1, <2>4, Zenon DEF KeysGood
<1>6. CASE OnChange
  <2>1. PICK upTo \in read .. Len(file) : \E r, after : Handles(upTo, r, after)
    BY <1>0, <1>6, Change, Zenon
  <2>2. PICK r, after : Handles(upTo, r, after)
    BY <2>1, Zenon
  <2>3. /\ after = EmitAll(r.done, watched = "grouped") /\ r.done \in Seq(Seq(Nat))
        /\ \A i \in 1 .. Len(r.done) : InFile(r.done[i])
        /\ recentLogKeys' = after.keys /\ expiries' = after.timers
        /\ events' = after.events /\ file' = file
    BY <2>2, Zenon DEF Handles
  <2>4. (watched = "grouped") \in BOOLEAN
    OBVIOUS
  <2>5. KeysGood(after.keys, after.timers, after.events, file)
    BY <1>2, <1>3, <2>3, <2>4, BatchKeys, Zenon
  <2>. QED
    BY <2>3, <2>5, Zenon
<1>7. CASE ExpireKey
  <2> DEFINE key == Head(expiries).key
             left == Delete(recentLogKeys, key)
  <2>1. /\ expiries # << >> /\ recentLogKeys' = left
        /\ expiries' = Tail(expiries) /\ events' = events /\ file' = file
    BY <1>7 DEF ExpireKey
  <2>. HIDE DEF key
  <2>2. /\ left \in Seq(Key)
        /\ \/ left = recentLogKeys /\ key \notin ToSet(recentLogKeys)
           \/ \E p \in 1 .. Len(recentLogKeys) :
                 /\ recentLogKeys[p] = key /\ Len(left) = Len(recentLogKeys) - 1
                 /\ \A i \in 1 .. Len(recentLogKeys) - 1 :
                      left[i] = recentLogKeys[IF i < p THEN i ELSE i + 1]
    BY <1>3, KeyDeleted
  <2>. HIDE DEF left
  <2>3. Len(recentLogKeys) \in Nat /\ Len(left) \in Nat /\ RecentLogsMax \in Nat
        /\ DOMAIN recentLogKeys = 1 .. Len(recentLogKeys)
    BY <1>3, <2>2, AgentAssumption
  <2>4. ASSUME NEW k, k # key, Armed(k, expiries, events, file)
        PROVE  Armed(k, Tail(expiries), events, file)
    BY <1>3, <2>1, <2>4, ArmedLess, Zenon DEF key
  <2>5. CASE left = recentLogKeys /\ key \notin ToSet(recentLogKeys)
    <3>1. \A i \in 1 .. Len(recentLogKeys) : recentLogKeys[i] # key
      BY <2>3, <2>5, Zenon DEF ToSet
    <3>2. \A i \in 1 .. Len(recentLogKeys) :
            Armed(recentLogKeys[i], Tail(expiries), events, file)
      BY <1>2, <2>4, <3>1, Zenon DEF KeysGood
    <3>3. KeysGood(recentLogKeys, Tail(expiries), events, file)
      BY <1>2, <3>2, Zenon DEF KeysGood
    <3>. QED
      BY <2>1, <2>5, <3>3, Zenon
  <2>6. ASSUME NEW p \in 1 .. Len(recentLogKeys), recentLogKeys[p] = key,
               Len(left) = Len(recentLogKeys) - 1,
               \A i \in 1 .. Len(recentLogKeys) - 1 :
                 left[i] = recentLogKeys[IF i < p THEN i ELSE i + 1]
        PROVE  KeysGood(left, Tail(expiries), events, file)
    <3> DEFINE at(i) == IF i < p THEN i ELSE i + 1
    <3>1. \A i \in 1 .. Len(left) :
            at(i) \in 1 .. Len(recentLogKeys) /\ at(i) # p /\ left[i] = recentLogKeys[at(i)]
      BY <2>3, <2>6
    <3>2. \A i, j \in 1 .. Len(left) : at(i) = at(j) => i = j
      BY <2>3
    <3>3. Len(left) <= RecentLogsMax
      BY <1>2, <2>3, <2>6 DEF KeysGood
    <3>. HIDE DEF at
    <3>4. ASSUME NEW i \in 1 .. Len(left) PROVE left[i] # key
      <4>1. at(i) \in 1 .. Len(recentLogKeys) /\ at(i) # p /\ left[i] = recentLogKeys[at(i)]
        BY <3>1
      <4>2. recentLogKeys[at(i)] = recentLogKeys[p] => at(i) = p
        BY <1>2, <4>1, Zenon DEF KeysGood
      <4>. QED
        BY <2>6, <4>1, <4>2, Zenon
    <3>. QED
      BY <1>2, <2>4, <3>1, <3>2, <3>3, <3>4, ZenonT(60) DEF KeysGood
  <2>. QED
    BY <2>1, <2>2, <2>5, <2>6, Zenon
<1>8. CASE Reload
  <2>1. /\ events' = Forget(pendingEvent) /\ file' = file
        /\ recentLogKeys' = recentLogKeys /\ expiries' = expiries
    BY <1>8 DEF Reload
  <2>2. CASE pendingEvent = << >>
    <3>1. events' = events
      BY <2>1, <2>2, Zenon DEF Forget
    <3>. QED
      BY <1>2, <2>1, <3>1, Zenon
  <2>3. CASE pendingEvent # << >>
    <3> DEFINE e == Event(pendingEvent, TRUE, "forgotten")
    <3>1. events' = Append(events, e)
      BY <2>1, <2>3, Zenon DEF Forget
    <3>2. e \in EventRecord /\ e.fate # "emitted"
      BY <1>3 DEF Event, EventRecord, AgentTyped
    <3>. HIDE DEF e
    <3>3. \A i \in 1 .. Len(recentLogKeys) : Armed(recentLogKeys[i], expiries, Append(events, e), file)
      BY <1>2, <1>3, <3>2, ArmedStill, Zenon DEF KeysGood
    <3>. QED
      BY <1>2, <2>1, <3>1, <3>3, Zenon DEF KeysGood
  <2>. QED
    BY <2>2, <2>3
<1>. QED
  BY <1>4, <1>5, <1>6, <1>7, <1>8, Zenon DEF Next

\* No message is muted for ever, and the table never holds more than RECENT_LOGS_MAX keys,
\* through evictions, keys that come back, and timers of an earlier stay.
THEOREM KeysAreDeleted == Spec => []KeysExpire
<1>1. Init => KeysInv
  <2>1. Init => Len(recentLogKeys) = 0 /\ RecentLogsMax \in Nat
    BY AgentAssumption DEF Init
  <2>2. Init => /\ Len(recentLogKeys) <= RecentLogsMax
                /\ \A i \in 1 .. Len(recentLogKeys) : FALSE
    BY <2>1
  <2>. QED
    BY <2>2, AgentInit, Zenon DEF KeysInv, KeysGood
<1>2. KeysInv /\ [Next]_vars => KeysInv'
  BY KeysStep
<1>3. KeysInv => KeysExpire
  <2>. SUFFICES ASSUME KeysInv PROVE KeysExpire
    OBVIOUS
  <2>1. /\ DOMAIN recentLogKeys = 1 .. Len(recentLogKeys)
        /\ DOMAIN expiries = 1 .. Len(expiries)
    BY DEF KeysInv, AgentInv, AgentTyped
  <2>2. ASSUME NEW k \in ToSet(recentLogKeys)
        PROVE  \E t \in ToSet(expiries) :
                 /\ t.key = k
                 /\ \A i \in t.event + 1 .. Len(events) :
                      events[i].fate = "emitted" => file[Head(events[i].lines)].key # k
    <3>1. PICK i \in 1 .. Len(recentLogKeys) : recentLogKeys[i] = k
      BY <2>1, Zenon DEF ToSet
    <3>2. Armed(k, expiries, events, file)
      BY <3>1, Zenon DEF KeysInv, KeysGood
    <3>3. PICK j \in 1 .. Len(expiries) : expiries[j].key = k /\ Silent(expiries[j], events, file)
      BY <3>2, Zenon DEF Armed
    <3>4. expiries[j] \in ToSet(expiries)
      BY <2>1, <3>3, Zenon DEF ToSet
    <3>. QED
      BY <3>3, <3>4, Zenon DEF Silent
  <2>. QED
    BY <2>2, Zenon DEF KeysExpire, KeysInv, KeysGood
<1>. QED
  BY <1>1, <1>2, <1>3, PTL DEF Spec
=============================================================================
