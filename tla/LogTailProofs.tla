---------------------------- MODULE LogTailProofs ---------------------------
(***************************************************************************)
(* read() of app/logTail.js, for windows, lines and limits of any length   *)
(* and any number of rotations and restarts: what it hands over is in the  *)
(* order of the file and never twice, a line is whole unless it is longer  *)
(* than a window, and what is passed over is counted.                      *)
(***************************************************************************)
EXTENDS LogTail, InductionLemmas, SequenceTheorems, FiniteSetTheorems, FunctionTheorems

-----------------------------------------------------------------------------
(* Types *)

\* A line as it is handed over.
Delivered == [line : Nat, bytes : Nat, of : Nat, followed : BOOLEAN, swapped : BOOLEAN]

TailTyped ==
  /\ inode \in Inode \cup {NoFile} /\ content \in Seq(Nat) /\ lastLine \in Nat /\ replaced \in Nat
  /\ offsets \in [inode : Int, offset : Nat]
  /\ toRead \in Nat /\ lines \in Seq(Delivered) /\ truncatedLines \in Nat
  /\ since \in [replaced : Nat, line : Nat]

-----------------------------------------------------------------------------
(* The file *)

\* The bytes of a line stand together, and lines follow one another in their order:
\* of two bytes the later has the greater number if a newline lies between, and the
\* same otherwise.
Ordered(c) ==
  \A i, j \in 1 .. Len(c) : i < j /\ c[i] # NL /\ c[j] # NL =>
    /\ c[i] <= c[j]
    /\ c[i] = c[j] <=> \A k \in i + 1 .. j - 1 : c[k] # NL

\* Lines are numbered as they are begun; nothing is in a file that is not there.
FileInv ==
  /\ Ordered(content)
  /\ \A i \in 1 .. Len(content) : content[i] <= lastLine
  /\ ~AtLineStart => content[Len(content)] = lastLine
  /\ inode = NoFile => content = << >>

\* Of two integers Min takes the smaller.
LEMMA MinOfTwo ==
  ASSUME NEW a \in Int, NEW b \in Int
  PROVE  Min({a, b}) = IF a <= b THEN a ELSE b
  BY DEF Min

\* What it means that the file ends with a newline, or does not.
LEMMA LineStart ==
  ASSUME content \in Seq(Nat)
  PROVE  /\ Len(content) \in Nat
         /\ ~AtLineStart => Len(content) > 0 /\ content[Len(content)] # NL
         /\ AtLineStart /\ Len(content) > 0 => content[Len(content)] = NL
<1>1. Len(content) \in Nat /\ (content = << >> <=> Len(content) = 0)
  OBVIOUS
<1>. QED
  BY <1>1 DEF AtLineStart, Last

\* A byte of the line that is being written, or of the next one, or a newline, keeps
\* the order.
LEMMA AppendOrdered ==
  ASSUME NEW c \in Seq(Nat), Ordered(c), NEW n \in Nat,
         n # NL => \/ Len(c) > 0 /\ c[Len(c)] = n
                   \/ /\ Len(c) > 0 => c[Len(c)] = NL
                      /\ \A i \in 1 .. Len(c) : c[i] < n
  PROVE  Ordered(Append(c, n))
<1> DEFINE d == Append(c, n)
<1>1. /\ Len(c) \in Nat /\ Len(d) = Len(c) + 1
      /\ \A i \in 1 .. Len(c) : d[i] = c[i] /\ c[i] \in Nat
      /\ d[Len(c) + 1] = n
  OBVIOUS
<1>. HIDE DEF d
<1>2. ASSUME NEW i \in 1 .. Len(d), NEW j \in 1 .. Len(d), i < j, d[i] # NL, d[j] # NL
      PROVE  /\ d[i] <= d[j]
             /\ d[i] = d[j] <=> \A k \in i + 1 .. j - 1 : d[k] # NL
  <2>1. i \in 1 .. Len(c) /\ (\A k \in i + 1 .. j - 1 : d[k] = c[k]) /\ d[i] = c[i]
    BY <1>1, <1>2
  <2>2. CASE j <= Len(c)
    <3>1. j \in 1 .. Len(c) /\ d[j] = c[j]
      BY <1>1, <2>2
    <3>2. /\ c[i] <= c[j]
          /\ c[i] = c[j] <=> \A k \in i + 1 .. j - 1 : c[k] # NL
      BY <1>2, <2>1, <3>1 DEF Ordered
    <3>3. (\A k \in i + 1 .. j - 1 : c[k] # NL) <=> \A k \in i + 1 .. j - 1 : d[k] # NL
      BY <2>1
    <3>. QED
      BY <2>1, <3>1, <3>2, <3>3
  <2>3. CASE j = Len(c) + 1
    <3>1. d[j] = n /\ n # NL
      BY <1>1, <1>2, <2>3
    <3>2. CASE Len(c) > 0 /\ c[Len(c)] = n
      <4>1. CASE i = Len(c)
        <5>1. d[i] = n /\ d[j] = n
          BY <2>1, <3>1, <3>2, <4>1
        <5>2. i + 1 .. j - 1 = {}
          BY <1>1, <2>3, <4>1
        <5>3. \A k \in i + 1 .. j - 1 : d[k] # NL
          BY <5>2
        <5>4. n <= n
          OBVIOUS
        <5>. QED
          BY <5>1, <5>3, <5>4
      <4>2. CASE i < Len(c)
        <5>1. /\ c[i] <= n
              /\ c[i] = n <=> \A k \in i + 1 .. Len(c) - 1 : c[k] # NL
          BY SMTT(30), <1>1, <1>2, <2>1, <3>1, <3>2, <4>2 DEF Ordered
        <5>2. i + 1 .. j - 1 = (i + 1 .. Len(c) - 1) \cup {Len(c)}
          BY <1>1, <2>1, <2>3, <4>2
        <5>. QED
          BY <2>1, <3>1, <3>2, <5>1, <5>2
      <4>. QED
        BY <1>1, <2>1, <4>1, <4>2
    <3>3. CASE ~(Len(c) > 0 /\ c[Len(c)] = n)
      <4>1. c[Len(c)] = NL /\ c[i] < n /\ Len(c) > 0
        BY <1>1, <2>1, <3>1, <3>3
      <4>2. i # Len(c)
        BY <1>2, <2>1, <4>1
      <4>3. Len(c) \in i + 1 .. j - 1
        BY <1>1, <2>1, <2>3, <4>2
      <4>4. d[Len(c)] = NL
        BY <2>1, <4>1, <4>3
      <4>5. d[i] < d[j] /\ d[i] \in Nat /\ d[j] \in Nat
        BY <1>1, <2>1, <3>1, <4>1
      <4>. QED
        BY SMTT(30), <4>3, <4>4, <4>5
    <3>. QED
      BY <3>2, <3>3
  <2>. QED
    BY <1>1, <2>2, <2>3
<1>. QED
  BY <1>2 DEF Ordered, d

\* The writer begins the line after the last, goes on with it, or ends it.
LEMMA WriteKeepsFile ==
  ASSUME TailTyped, FileInv, WriteByte \/ EndLine
  PROVE  /\ FileInv' /\ content' \in Seq(Nat) /\ lastLine' \in Nat
         /\ UNCHANGED <<inode, replaced>>
         /\ Len(content') = Len(content) + 1
         /\ \A i \in 1 .. Len(content) : content'[i] = content[i]
         /\ content'[Len(content')] # NL =>
              /\ content'[Len(content')] = IF AtLineStart THEN lastLine + 1 ELSE lastLine
              /\ lastLine' = content'[Len(content')]
         /\ content'[Len(content')] = NL => ~AtLineStart /\ lastLine' = lastLine
<1>1. /\ content \in Seq(Nat) /\ lastLine \in Nat /\ Len(content) \in Nat
      /\ ~AtLineStart => Len(content) > 0 /\ content[Len(content)] # NL
      /\ AtLineStart /\ Len(content) > 0 => content[Len(content)] = NL
      /\ ~AtLineStart => content[Len(content)] = lastLine
      /\ \A i \in 1 .. Len(content) : content[i] <= lastLine /\ content[i] \in Nat
  BY LineStart DEF TailTyped, FileInv
<1> DEFINE n == content'[Len(content')]
<1>2. /\ content' = Append(content, n) /\ n \in Nat
      /\ n # NL => n = (IF AtLineStart THEN lastLine + 1 ELSE lastLine) /\ lastLine' = n
      /\ n = NL => ~AtLineStart /\ lastLine' = lastLine
      /\ inode # NoFile /\ UNCHANGED <<inode, replaced>>
  <2>1. CASE WriteByte
    <3> DEFINE line == IF AtLineStart THEN lastLine + 1 ELSE Last(content)
    <3>1. line \in Nat \ {NL} /\ line = IF AtLineStart THEN lastLine + 1 ELSE lastLine
      BY <1>1 DEF Last, NL
    <3>2. content' = Append(content, line) /\ lastLine' = line
          /\ inode # NoFile /\ UNCHANGED <<inode, replaced>>
      BY <2>1, Zenon DEF WriteByte
    <3>. HIDE DEF line
    <3>3. n = line
      BY <1>1, <3>1, <3>2
    <3>. QED
      BY <3>1, <3>2, <3>3
  <2>2. CASE EndLine
    <3>1. content' = Append(content, NL) /\ lastLine' = lastLine /\ ~AtLineStart
          /\ inode # NoFile /\ UNCHANGED <<inode, replaced>>
      BY <2>2, Zenon DEF EndLine
    <3>2. n = NL
      BY <1>1, <3>1 DEF NL
    <3>. QED
      BY <3>1, <3>2 DEF NL
  <2>. QED
    BY <2>1, <2>2
<1>. HIDE DEF n
<1>3. /\ Len(content') = Len(content) + 1 /\ content' \in Seq(Nat) /\ lastLine' \in Nat
      /\ \A i \in 1 .. Len(content) : content'[i] = content[i]
      /\ content'[Len(content')] = n
  <2>1. content'[Len(content')] = n
    BY DEF n
  <2>. QED
    BY <1>1, <1>2, <2>1
<1>4. Ordered(content')
  <2>1. n # NL => \/ Len(content) > 0 /\ content[Len(content)] = n
                  \/ /\ Len(content) > 0 => content[Len(content)] = NL
                     /\ \A i \in 1 .. Len(content) : content[i] < n
    BY <1>1, <1>2
  <2>2. Ordered(Append(content, n))
    BY <1>1, <1>2, <2>1, AppendOrdered DEF FileInv
  <2>. QED
    BY <1>2, <2>2
<1>5. \A i \in 1 .. Len(content') : content'[i] <= lastLine'
  BY <1>1, <1>2, <1>3 DEF NL
<1>6. ~AtLineStart' => content'[Len(content')] = lastLine'
  <2>1. content' # << >>
    BY <1>1, <1>3
  <2>. QED
    BY <1>1, <1>2, <1>3, <2>1 DEF AtLineStart, Last
<1>7. FileInv'
  BY <1>2, <1>4, <1>5, <1>6 DEF FileInv, Ordered
<1>. QED
  BY <1>2, <1>3, <1>7

-----------------------------------------------------------------------------
(* The offset *)

\* The offset lies in the content it belongs to.
Placed ==
  /\ since.replaced <= replaced
  /\ offsets = Untracked => toRead = 0
  /\ offsets # Untracked /\ ~Outdated =>
       /\ offsets.offset <= Len(content)
       /\ inode = offsets.inode \/ offsets.offset = 0
       /\ toRead > 0 => inode = offsets.inode /\ inode # NoFile

TailInv == TailTyped /\ FileInv /\ Placed

\* The reader knows nothing of an empty file when it starts.
LEMMA TailInit == Init => TailInv
<1>. SUFFICES ASSUME Init PROVE TailInv
  OBVIOUS
<1>1. /\ inode \in Inode /\ NoFile \notin Inode
  BY TailAssumption DEF Init, NoFile
<1>2. TailTyped
  BY <1>1 DEF Init, TailTyped, Untracked
<1>3. FileInv
  BY <1>1 DEF Init, FileInv, Ordered, AtLineStart
<1>. QED
  BY <1>2, <1>3 DEF Init, TailInv, Placed, Outdated, Untracked

\* The window shows the content from the offset on, whatever content that is by now.
LEMMA WindowShows ==
  ASSUME TailInv, toRead > 0
  PROVE  /\ Window \in Seq(Nat) /\ Len(Window) \in Nat
         /\ DOMAIN Window = 1 .. Len(Window)
         /\ \A i \in 1 .. Len(Window) :
              /\ offsets.offset + i \in 1 .. Len(content)
              /\ Window[i] = content[offsets.offset + i] /\ Window[i] \in Nat
<1> DEFINE from == offsets.offset + 1
           to == Min({offsets.offset + toRead, Len(content)})
<1>1. /\ offsets.offset \in Nat /\ toRead \in Nat /\ Len(content) \in Nat
      /\ content \in Seq(Nat) /\ offsets # Untracked
  BY DEF TailInv, TailTyped, Placed
<1>2. to \in Nat /\ to <= Len(content) /\ to <= offsets.offset + toRead
  <2>1. to = IF offsets.offset + toRead <= Len(content) THEN offsets.offset + toRead
             ELSE Len(content)
    <3>1. offsets.offset + toRead \in Int /\ Len(content) \in Int
      BY <1>1
    <3>. QED
      BY <3>1, MinOfTwo, Zenon
  <2>. HIDE DEF to
  <2>. QED
    BY <1>1, <2>1
<1>3. from \in Int /\ Window = SubSeq(content, from, to)
  BY <1>1 DEF Window
<1>. HIDE DEF to
<1>4. \A i \in from .. to : content[i] \in Nat
  BY <1>1, <1>2
<1>5. /\ Window \in Seq(Nat)
      /\ Len(Window) = IF from <= to THEN to - from + 1 ELSE 0
      /\ \A i \in 1 .. to - from + 1 : Window[i] = content[from + i - 1]
  BY SMTT(30), <1>2, <1>3, <1>4, SubSeqProperties
<1>6. Len(Window) \in Nat /\ DOMAIN Window = 1 .. Len(Window)
  BY <1>5
<1>7. ASSUME NEW i \in 1 .. Len(Window)
      PROVE  /\ offsets.offset + i \in 1 .. Len(content)
             /\ Window[i] = content[offsets.offset + i] /\ Window[i] \in Nat
  <2>1. i \in 1 .. to - from + 1 /\ from + i - 1 = offsets.offset + i
    BY <1>1, <1>2, <1>5, <1>6
  <2>2. Window[i] = content[offsets.offset + i]
    BY <1>5, <2>1
  <2>3. offsets.offset + i \in 1 .. Len(content)
    <3>1. i \in Int /\ 1 <= i /\ i <= to - offsets.offset
      BY <1>1, <1>2, <2>1
    <3>. QED
      BY SMTT(30), <1>1, <1>2, <3>1
  <2>4. content[offsets.offset + i] \in Nat
    BY <1>1, <2>3
  <2>. QED
    BY <2>2, <2>3, <2>4, Zenon
<1>. QED
  BY <1>5, <1>6, <1>7

\* A line that is handed over is described by numbers.
LEMMA DeliveryType ==
  ASSUME TailInv, toRead > 0, NEW line \in Nat
  PROVE  /\ Delivery(line) \in Delivered
         /\ BytesInWindow(line) \in Nat /\ BytesOf(line) \in Nat
         /\ Delivery(line).line = line
<1>1. DOMAIN Window = 1 .. Len(Window) /\ Len(Window) \in Nat
  BY WindowShows
<1>2. DOMAIN content = 1 .. Len(content) /\ Len(content) \in Nat
  BY DEF TailInv, TailTyped
<1>3. BytesInWindow(line) \in Nat
  <2>1. IsFiniteSet(1 .. Len(Window))
    BY <1>1, FS_Interval
  <2>2. IsFiniteSet({i \in 1 .. Len(Window) : Window[i] = line})
    BY <2>1, FS_Subset
  <2>. QED
    BY <1>1, <2>2, FS_CardinalityType DEF BytesInWindow
<1>4. BytesOf(line) \in Nat
  <2>1. IsFiniteSet(1 .. Len(content))
    BY <1>2, FS_Interval
  <2>2. IsFiniteSet({i \in 1 .. Len(content) : content[i] = line})
    BY <2>1, FS_Subset
  <2>. QED
    BY <1>2, <2>2, FS_CardinalityType DEF BytesOf
<1>5. MaxLineLength \in Nat
  BY TailAssumption
<1>6. Min({BytesInWindow(line), MaxLineLength}) \in Nat
  BY <1>3, <1>5, MinOfTwo
<1>. QED
  BY <1>3, <1>4, <1>6 DEF Delivery, Delivered

-----------------------------------------------------------------------------
(* The lines that end in the window *)

\* w is what c holds after o.
PartOf(w, c, o) == \A k \in 1 .. Len(w) : o + k \in 1 .. Len(c) /\ w[k] = c[o + k]

\* What is in order is so in each of its parts.
LEMMA PartOrdered ==
  ASSUME NEW c \in Seq(Nat), NEW w \in Seq(Nat), NEW o \in Nat, Ordered(c), PartOf(w, c, o)
  PROVE  Ordered(w)
<1>. SUFFICES ASSUME NEW i \in 1 .. Len(w), NEW j \in 1 .. Len(w), i < j, w[i] # NL, w[j] # NL
              PROVE  /\ w[i] <= w[j]
                     /\ w[i] = w[j] <=> \A k \in i + 1 .. j - 1 : w[k] # NL
  BY DEF Ordered
<1>0. Len(w) \in Nat /\ Len(c) \in Nat
  OBVIOUS
<1>1. /\ o + i \in 1 .. Len(c) /\ o + j \in 1 .. Len(c) /\ o + i < o + j
      /\ c[o + i] # NL /\ c[o + j] # NL /\ w[i] = c[o + i] /\ w[j] = c[o + j]
  <2>1. o + i \in 1 .. Len(c) /\ w[i] = c[o + i]
    BY Zenon DEF PartOf
  <2>2. o + j \in 1 .. Len(c) /\ w[j] = c[o + j]
    BY Zenon DEF PartOf
  <2>. QED
    BY <1>0, <2>1, <2>2
<1>2. /\ c[o + i] <= c[o + j]
      /\ c[o + i] = c[o + j] <=> \A k \in (o + i) + 1 .. (o + j) - 1 : c[k] # NL
  BY <1>1 DEF Ordered
<1>3. ASSUME NEW k \in i + 1 .. j - 1
      PROVE  o + k \in (o + i) + 1 .. (o + j) - 1 /\ w[k] = c[o + k]
  BY <1>0 DEF PartOf
<1>4. ASSUME NEW k \in (o + i) + 1 .. (o + j) - 1
      PROVE  k - o \in i + 1 .. j - 1 /\ w[k - o] = c[k]
  <2>1. k - o \in i + 1 .. j - 1 /\ o + (k - o) = k
    BY <1>0
  <2>. QED
    BY <1>3, <2>1
<1>. QED
  BY <1>1, <1>2, <1>3, <1>4

\* The window is in order as the content is, of which it is a part.
LEMMA WindowOrdered ==
  ASSUME TailInv, toRead > 0
  PROVE  Ordered(Window)
<1>1. /\ content \in Seq(Nat) /\ Ordered(content) /\ offsets.offset \in Nat
  BY DEF TailInv, TailTyped, FileInv
<1>2. Window \in Seq(Nat) /\ PartOf(Window, content, offsets.offset)
  BY WindowShows, Zenon DEF PartOf
<1>. QED
  BY <1>1, <1>2, PartOrdered

\* g holds what is chosen from the beginning of w, up to each of its places.
Chosen(g, w, ends) ==
  /\ g[0] = << >>
  /\ \A n \in 1 .. Len(w) : g[n] = IF ends[n] THEN Append(g[n - 1], w[n]) ELSE g[n - 1]

LEMMA ChosenExists ==
  ASSUME NEW w \in Seq(Nat), NEW ends \in [1 .. Len(w) -> BOOLEAN]
  PROVE  \E g \in [0 .. Len(w) -> Seq(Nat)] : Chosen(g, w, ends)
<1> DEFINE N == Len(w)
           S == Seq(Nat)
           step == [n \in 1 .. N |-> [e \in S |-> IF ends[n] THEN Append(e, w[n]) ELSE e]]
           base == << >>
<1>1. /\ N \in Nat /\ base \in S /\ \A n \in 1 .. N : w[n] \in Nat
      /\ \A e \in S, n \in Nat : Append(e, n) \in S
  OBVIOUS
<1>2. step \in [1 .. N -> [S -> S]]
  BY <1>1
<1>3. PICK g \in [0 .. N -> S] : Recursion(g, base, N, step)
  <2>1. N \in Nat /\ base \in S
    BY <1>1
  <2>. HIDE DEF N, S, step, base
  <2>. QED
    BY <1>2, <2>1, RecursiveFunction, Zenon
<1>4. ASSUME NEW n \in 1 .. N PROVE n \in 0 .. N /\ n - 1 \in 0 .. N
  BY <1>1
<1>5. \A n \in 1 .. N : g[n] = IF ends[n] THEN Append(g[n - 1], w[n]) ELSE g[n - 1]
  <2>. TAKE n \in 1 .. N
  <2>1. g[n - 1] \in S
    <3>. HIDE DEF S
    <3>. QED
      BY <1>3, <1>4
  <2>2. g[n] = step[n][g[n - 1]]
    BY <1>3 DEF Recursion
  <2>. QED
    BY <2>1, <2>2, Zenon
<1>6. g[0] = << >>
  BY <1>3 DEF Recursion
<1>. QED
  BY <1>5, <1>6 DEF Chosen

\* The lines up to a byte are the lines up to the byte before, and the line of the byte
\* if it is the last of it.
LEMMA EndedByBytes ==
  ASSUME TailInv, toRead > 0
  PROVE  /\ EndedUpTo \in [0 .. Len(Window) -> Seq(Nat)]
         /\ EndedUpTo[0] = << >>
         /\ \A i \in 1 .. Len(Window) :
              EndedUpTo[i] = IF EndsAt(i) THEN Append(EndedUpTo[i - 1], Window[i])
                             ELSE EndedUpTo[i - 1]
<1> DEFINE N == Len(Window)
           S == Seq(Nat)
           next(f) == [i \in 0 .. N |->
                         IF i = 0 THEN << >>
                         ELSE IF EndsAt(i) THEN Append(f[i - 1], Window[i])
                         ELSE f[i - 1]]
           ends == [n \in 1 .. N |-> EndsAt(n)]
<1>1. N \in Nat /\ \A i \in 1 .. N : Window[i] \in Nat
  BY WindowShows
<1>2. << >> \in S /\ \A e \in S, n \in Nat : Append(e, n) \in S
  OBVIOUS
<1>3. ends \in [1 .. N -> BOOLEAN] /\ \A n \in 1 .. N : ends[n] = EndsAt(n)
  BY DEF EndsAt
<1>4. PICK g \in [0 .. N -> S] : Chosen(g, Window, ends)
  <2>1. Window \in Seq(Nat)
    BY WindowShows
  <2>. HIDE DEF ends
  <2>. QED
    BY <1>3, <2>1, ChosenExists
<1>6. \A n \in 1 .. N : g[n] = IF EndsAt(n) THEN Append(g[n - 1], Window[n]) ELSE g[n - 1]
  BY <1>3, <1>4 DEF Chosen
<1>7. g = next(g)
  <2>1. ASSUME NEW i \in 0 .. N PROVE g[i] = next(g)[i]
    <3>1. CASE i = 0
      BY <1>4, <3>1 DEF Chosen
    <3>2. CASE i # 0
      <4>1. i \in 1 .. N
        BY <1>1, <3>2
      <4>. QED
        BY <1>6, <3>2, <4>1, Zenon
    <3>. QED
      BY <3>1, <3>2
  <2>2. DOMAIN next(g) = 0 .. N /\ next(g) = [i \in 0 .. N |-> next(g)[i]]
        /\ g = [i \in 0 .. N |-> g[i]]
    BY <1>4
  <2>. HIDE DEF next
  <2>. QED
    BY <2>1, <2>2
<1>8. EndedUpTo = CHOOSE f : f = next(f)
  BY Zenon DEF EndedUpTo
<1>9. EndedUpTo = next(EndedUpTo)
  <2>. HIDE DEF next
  <2>. QED
    BY <1>7, <1>8
<1>10. \A i \in 1 .. N : EndedUpTo[i] = IF EndsAt(i) THEN Append(EndedUpTo[i - 1], Window[i])
                                       ELSE EndedUpTo[i - 1]
  <2>1. ASSUME NEW i \in 1 .. N
        PROVE  next(EndedUpTo)[i] = IF EndsAt(i) THEN Append(EndedUpTo[i - 1], Window[i])
                                    ELSE EndedUpTo[i - 1]
    <3>1. i \in 0 .. N /\ i # 0
      BY <1>1
    <3>. QED
      BY <3>1, Zenon
  <2>. HIDE DEF next
  <2>. QED
    BY <1>9, <2>1, Zenon
<1>11. EndedUpTo[0] = << >>
  <2>1. 0 \in 0 .. N
    BY <1>1
  <2>2. next(EndedUpTo)[0] = << >>
    BY <2>1, Zenon
  <2>. HIDE DEF next
  <2>. QED
    BY <1>9, <2>2, Zenon
<1>12. DOMAIN EndedUpTo = 0 .. N /\ EndedUpTo = [i \in 0 .. N |-> EndedUpTo[i]]
  <2>1. DOMAIN next(EndedUpTo) = 0 .. N
        /\ next(EndedUpTo) = [i \in 0 .. N |-> next(EndedUpTo)[i]]
    BY Zenon
  <2>. HIDE DEF next
  <2>. QED
    BY <1>9, <2>1, Zenon
<1>13. \A n \in Nat : n \in {i \in Nat : i <= N => EndedUpTo[i] \in S}
  <2> DEFINE T == {i \in Nat : i <= N => EndedUpTo[i] \in S}
  <2>1. 0 \in T
    BY <1>2, <1>11
  <2>2. ASSUME NEW n \in Nat, n \in T PROVE n + 1 \in T
    <3>1. SUFFICES ASSUME n + 1 <= N PROVE EndedUpTo[n + 1] \in S
      OBVIOUS
    <3>2. EndedUpTo[n] \in S /\ n + 1 \in 1 .. N /\ (n + 1) - 1 = n
      BY <1>1, <2>2, <3>1
    <3>3. EndedUpTo[n + 1] = IF EndsAt(n + 1) THEN Append(EndedUpTo[n], Window[n + 1])
                             ELSE EndedUpTo[n]
      BY <1>10, <3>2
    <3>. QED
      BY <1>1, <1>2, <3>2, <3>3
  <2>. HIDE DEF T
  <2>3. Nat \subseteq T
    BY <2>1, <2>2, SetInduction
  <2>. QED
    BY <2>3 DEF T
<1>14. \A i \in 0 .. N : EndedUpTo[i] \in S
  BY <1>1, <1>13
<1>15. EndedUpTo \in [0 .. N -> S]
  <2>. HIDE DEF N, S
  <2>. QED
    BY <1>12, <1>14
<1>. QED
  BY <1>10, <1>11, <1>15

\* e names the lines that end in the first i + 1 bytes of w, in their order.
EndOf(w, j) == w[j] # NL /\ j + 1 \in 1 .. Len(w) /\ w[j + 1] = NL

Lists(e, w, i) ==
  /\ \A k \in 1 .. Len(e) : \E j \in 1 .. i : EndOf(w, j) /\ w[j] = e[k]
  /\ \A j \in 1 .. i : EndOf(w, j) => \E k \in 1 .. Len(e) : e[k] = w[j]
  /\ \A k, l \in 1 .. Len(e) : k < l => e[k] < e[l]

\* A line that ends later has a greater number.
LEMMA LaterEnd ==
  ASSUME NEW w \in Seq(Nat), Ordered(w), NEW i \in 1 .. Len(w), NEW j \in 1 .. Len(w),
         j < i, EndOf(w, j), w[i] # NL
  PROVE  w[j] < w[i]
<1>1. Len(w) \in Nat /\ w[i] \in Nat /\ w[j] \in Nat
  OBVIOUS
<1>2. w[j] <= w[i] /\ (w[j] = w[i] <=> \A k \in j + 1 .. i - 1 : w[k] # NL)
  BY DEF Ordered, EndOf
<1>3. w[j + 1] = NL /\ w[j] # NL
  BY DEF EndOf
<1>4. j + 1 # i
  BY <1>3
<1>5. j + 1 \in j + 1 .. i - 1
  BY <1>1, <1>4
<1>6. w[j] # w[i]
  BY <1>2, <1>3, <1>5
<1>. QED
  BY <1>1, <1>2, <1>6

\* The list of the first i bytes is that of one byte less, and the line that ends there.
LEMMA ListsNext ==
  ASSUME NEW w \in Seq(Nat), Ordered(w), NEW i \in 1 .. Len(w), NEW e \in Seq(Nat),
         Lists(e, w, i - 1)
  PROVE  Lists(IF EndOf(w, i) THEN Append(e, w[i]) ELSE e, w, i)
<1>1. /\ Len(w) \in Nat /\ Len(e) \in Nat /\ w[i] \in Nat
      /\ \A j \in 1 .. i - 1 : j \in 1 .. i /\ j \in 1 .. Len(w) /\ j < i
      /\ \A j \in 1 .. i : j \in 1 .. i - 1 \/ j = i
      /\ i \in 1 .. i
  OBVIOUS
<1>2. CASE ~EndOf(w, i)
  <2>1. \A k \in 1 .. Len(e) : \E j \in 1 .. i : EndOf(w, j) /\ w[j] = e[k]
    BY <1>1, Zenon DEF Lists
  <2>2. \A j \in 1 .. i : EndOf(w, j) => \E k \in 1 .. Len(e) : e[k] = w[j]
    BY <1>1, <1>2, Zenon DEF Lists
  <2>3. \A k, l \in 1 .. Len(e) : k < l => e[k] < e[l]
    BY Zenon DEF Lists
  <2>4. Lists(e, w, i)
    BY <2>1, <2>2, <2>3, Zenon DEF Lists
  <2>. QED
    BY <1>2, <2>4
<1>3. CASE EndOf(w, i)
  <2> DEFINE f == Append(e, w[i])
  <2>1. /\ Len(f) = Len(e) + 1 /\ f[Len(e) + 1] = w[i]
        /\ \A k \in 1 .. Len(e) : f[k] = e[k]
    BY <1>1
  <2>2. /\ \A k \in 1 .. Len(f) : k \in 1 .. Len(e) \/ k = Len(e) + 1
        /\ \A k \in 1 .. Len(e) : k \in 1 .. Len(f)
        /\ Len(e) + 1 \in 1 .. Len(f)
    BY <1>1, <2>1
  <2>. HIDE DEF f
  <2>3. ASSUME NEW k \in 1 .. Len(f) PROVE \E j \in 1 .. i : EndOf(w, j) /\ w[j] = f[k]
    <3>1. CASE k = Len(e) + 1
      BY <1>1, <1>3, <2>1, <3>1
    <3>2. CASE k \in 1 .. Len(e)
      <4>1. PICK j \in 1 .. i - 1 : EndOf(w, j) /\ w[j] = e[k]
        BY <3>2, Zenon DEF Lists
      <4>. QED
        BY <1>1, <2>1, <3>2, <4>1, Zenon
    <3>. QED
      BY <2>2, <3>1, <3>2
  <2>4. ASSUME NEW j \in 1 .. i, EndOf(w, j) PROVE \E k \in 1 .. Len(f) : f[k] = w[j]
    <3>1. CASE j = i
      BY <2>1, <2>2, <3>1, Zenon
    <3>2. CASE j \in 1 .. i - 1
      <4>1. PICK k \in 1 .. Len(e) : e[k] = w[j]
        BY <2>4, <3>2, Zenon DEF Lists
      <4>. QED
        BY <2>1, <2>2, <4>1, Zenon
    <3>. QED
      BY <1>1, <3>1, <3>2
  <2>5. ASSUME NEW k \in 1 .. Len(f), NEW l \in 1 .. Len(f), k < l PROVE f[k] < f[l]
    <3>1. k \in 1 .. Len(e)
      BY <1>1, <2>1, <2>5
    <3>2. CASE l \in 1 .. Len(e)
      BY <2>1, <2>5, <3>1, <3>2, Zenon DEF Lists
    <3>3. CASE l = Len(e) + 1
      <4>1. PICK j \in 1 .. i - 1 : EndOf(w, j) /\ w[j] = e[k]
        BY <3>1, Zenon DEF Lists
      <4>2. j \in 1 .. Len(w) /\ j < i
        BY <1>1, <4>1
      <4>3. w[i] # NL
        BY <1>3 DEF EndOf
      <4>4. w[j] < w[i]
        BY <4>1, <4>2, <4>3, LaterEnd
      <4>5. f[k] = w[j] /\ f[l] = w[i]
        BY <2>1, <3>1, <3>3, <4>1
      <4>. QED
        BY <4>4, <4>5
    <3>. QED
      BY <2>2, <3>2, <3>3
  <2>6. Lists(f, w, i)
    BY <2>3, <2>4, <2>5, Zenon DEF Lists
  <2>. QED
    BY <1>3, <2>6 DEF f
<1>. QED
  BY <1>2, <1>3

\* What is called Ended names the lines that end in the window, in their order.
LEMMA EndedLines ==
  ASSUME TailInv, toRead > 0
  PROVE  Ended \in Seq(Nat) /\ Lists(Ended, Window, Len(Window))
<1> DEFINE N == Len(Window)
           T == {i \in Nat : i <= N => Lists(EndedUpTo[i], Window, i)}
<1>1. /\ Window \in Seq(Nat) /\ N \in Nat /\ DOMAIN Window = 1 .. N
  BY WindowShows
<1>2. Ordered(Window)
  BY WindowOrdered
<1>3. /\ EndedUpTo \in [0 .. N -> Seq(Nat)]
      /\ EndedUpTo[0] = << >>
      /\ \A i \in 1 .. N :
           EndedUpTo[i] = IF EndsAt(i) THEN Append(EndedUpTo[i - 1], Window[i])
                          ELSE EndedUpTo[i - 1]
  BY EndedByBytes
<1>4. \A i \in 1 .. N : EndsAt(i) <=> EndOf(Window, i)
  BY <1>1 DEF EndsAt, EndOf, Newlines
<1>5. 0 \in T
  <2>1. Lists(<< >>, Window, 0)
    BY DEF Lists
  <2>. QED
    BY <1>3, <2>1
<1>6. ASSUME NEW n \in Nat, n \in T PROVE n + 1 \in T
  <2>1. SUFFICES ASSUME n + 1 <= N PROVE Lists(EndedUpTo[n + 1], Window, n + 1)
    OBVIOUS
  <2>2. n + 1 \in 1 .. N /\ (n + 1) - 1 = n /\ n <= N /\ n \in 0 .. N
    BY <1>1, <2>1
  <2>3. Lists(EndedUpTo[n], Window, (n + 1) - 1) /\ EndedUpTo[n] \in Seq(Nat)
    BY <1>3, <1>6, <2>2
  <2>4. EndedUpTo[n + 1] = IF EndOf(Window, n + 1) THEN Append(EndedUpTo[n], Window[n + 1])
                           ELSE EndedUpTo[n]
    <3>1. EndedUpTo[n + 1] = IF EndsAt(n + 1) THEN Append(EndedUpTo[(n + 1) - 1], Window[n + 1])
                             ELSE EndedUpTo[(n + 1) - 1]
      BY <1>3, <2>2, Zenon
    <3>. QED
      BY <1>4, <2>2, <3>1
  <2>5. Lists(IF EndOf(Window, n + 1) THEN Append(EndedUpTo[n], Window[n + 1])
              ELSE EndedUpTo[n], Window, n + 1)
    <3>. HIDE DEF N
    <3>. QED
      BY <1>1, <1>2, <2>2, <2>3, ListsNext DEF N
  <2>. QED
    BY <2>4, <2>5
<1>7. N \in T
  <2>. HIDE DEF T
  <2>. QED
    BY <1>1, <1>5, <1>6, SetInduction
<1>8. Ended = EndedUpTo[N] /\ N \in 0 .. N
  BY <1>1 DEF Ended
<1>. QED
  BY <1>1, <1>3, <1>7, <1>8

\* There are not more lines that end in the window than newlines in it.
LEMMA EndedCount ==
  ASSUME TailInv, toRead > 0
  PROVE  /\ IsFiniteSet(Newlines) /\ Cardinality(Newlines) \in Nat
         /\ Len(Ended) \in Nat /\ Len(Ended) <= Cardinality(Newlines)
<1>1. Len(Window) \in Nat /\ DOMAIN Window = 1 .. Len(Window)
  BY WindowShows
<1>2. Ended \in Seq(Nat) /\ Lists(Ended, Window, Len(Window)) /\ Len(Ended) \in Nat
  BY EndedLines
<1>3. IsFiniteSet(Newlines) /\ Cardinality(Newlines) \in Nat
  <2>1. IsFiniteSet(1 .. Len(Window))
    BY <1>1, FS_Interval
  <2>2. IsFiniteSet(Newlines)
    BY <1>1, <2>1, FS_Subset DEF Newlines
  <2>. QED
    BY <2>2, FS_CardinalityType
<1> DEFINE end(k) == CHOOSE j \in 1 .. Len(Window) : EndOf(Window, j) /\ Window[j] = Ended[k]
           f == [k \in 1 .. Len(Ended) |-> end(k) + 1]
<1>4. ASSUME NEW k \in 1 .. Len(Ended)
      PROVE  /\ end(k) \in 1 .. Len(Window) /\ EndOf(Window, end(k)) /\ Window[end(k)] = Ended[k]
             /\ f[k] \in Newlines
  <2>1. \E j \in 1 .. Len(Window) : EndOf(Window, j) /\ Window[j] = Ended[k]
    BY <1>2, Zenon DEF Lists
  <2>2. end(k) \in 1 .. Len(Window) /\ EndOf(Window, end(k)) /\ Window[end(k)] = Ended[k]
    BY <2>1, Zenon
  <2>. HIDE DEF end
  <2>3. f[k] = end(k) + 1
    OBVIOUS
  <2>4. end(k) + 1 \in Newlines
    BY <1>1, <2>2 DEF EndOf, Newlines
  <2>. QED
    BY <2>2, <2>3, <2>4
<1>5. ASSUME NEW k \in 1 .. Len(Ended), NEW l \in 1 .. Len(Ended), f[k] = f[l] PROVE k = l
  <2>1. end(k) = end(l)
    <3>. HIDE DEF end
    <3>. QED
      BY <1>1, <1>4, <1>5
  <2>2. Ended[k] = Ended[l]
    BY <1>4, <2>1
  <2>3. (k < l => Ended[k] < Ended[l]) /\ (l < k => Ended[l] < Ended[k])
    BY <1>2, Zenon DEF Lists
  <2>4. Ended[k] \in Nat /\ Ended[l] \in Nat
    BY <1>2
  <2>. QED
    BY <1>2, <2>2, <2>3, <2>4
<1>6. f \in Injection(1 .. Len(Ended), Newlines)
  <2>1. f \in [1 .. Len(Ended) -> Newlines]
    BY <1>4
  <2>. HIDE DEF f
  <2>. QED
    BY <1>5, <2>1, Fun_IsInj
<1>7. Cardinality(1 .. Len(Ended)) = Len(Ended)
  <2>1. 1 \in Int /\ Len(Ended) \in Int
    BY <1>2
  <2>2. Cardinality(1 .. Len(Ended)) = IF 1 > Len(Ended) THEN 0 ELSE Len(Ended) - 1 + 1
    BY <2>1, FS_Interval, Zenon
  <2>. QED
    BY <1>2, <2>2
<1>8. Cardinality(1 .. Len(Ended)) <= Cardinality(Newlines)
  <2>. HIDE DEF f
  <2>. QED
    BY <1>3, <1>6, FS_Injection
<1>. QED
  BY <1>2, <1>3, <1>7, <1>8

\* There is a last newline in the window, if there is one.
LEMMA LastNewline ==
  ASSUME TailInv, toRead > 0, Newlines # {}
  PROVE  /\ CompleteBytes \in Newlines /\ CompleteBytes \in 1 .. Len(Window)
         /\ \A i \in Newlines : i <= CompleteBytes
<1>1. Len(Window) \in Nat /\ DOMAIN Window = 1 .. Len(Window)
  BY WindowShows
<1>2. Newlines \in SUBSET Int /\ \A i \in Newlines : i <= Len(Window) /\ i \in 1 .. Len(Window)
  BY <1>1 DEF Newlines
<1>3. \E m \in Newlines : \A i \in Newlines : i <= m
  <2>1. Len(Window) \in Int /\ \A i \in Newlines : i <= Len(Window)
    BY <1>1, <1>2
  <2>. QED
    BY <1>2, <2>1, GreatestElement, Zenon
<1>4. CompleteBytes = CHOOSE m \in Newlines : \A i \in Newlines : m >= i
  BY DEF CompleteBytes, Max
<1>5. \A i, j \in Int : i <= j <=> j >= i
  OBVIOUS
<1>6. \E m \in Newlines : \A i \in Newlines : m >= i
  BY <1>2, <1>3, <1>5
<1>7. CompleteBytes \in Newlines /\ \A i \in Newlines : CompleteBytes >= i
  BY <1>4, <1>6
<1>. QED
  BY <1>2, <1>5, <1>7

\* The lines that are handed over are the first that end in the window, and no more
\* than asked for.
LEMMA KeptLines ==
  ASSUME TailInv, toRead > 0
  PROVE  /\ Ended \in Seq(Nat) /\ Len(Ended) \in Nat
         /\ Kept \in Seq(Nat) /\ Len(Kept) \in Nat
         /\ Len(Kept) = IF Len(Ended) <= MaxLinesPerRead THEN Len(Ended) ELSE MaxLinesPerRead
         /\ \A i \in 1 .. Len(Kept) : i \in 1 .. Len(Ended) /\ Kept[i] = Ended[i]
<1>1. Ended \in Seq(Nat) /\ Len(Ended) \in Nat
  BY EndedLines
<1> DEFINE n == Min({Len(Ended), MaxLinesPerRead})
<1>2. n = IF Len(Ended) <= MaxLinesPerRead THEN Len(Ended) ELSE MaxLinesPerRead
  BY <1>1, TailAssumption, MinOfTwo
<1>3. n \in Nat /\ n <= Len(Ended)
  BY <1>1, <1>2, TailAssumption
<1>4. Kept = SubSeq(Ended, 1, n)
  BY DEF Kept
<1>. HIDE DEF n
<1>5. \A i \in 1 .. n : Ended[i] \in Nat
  BY <1>1, <1>3
<1>6. Kept \in Seq(Nat) /\ Len(Kept) = n /\ \A i \in 1 .. n : Kept[i] = Ended[i]
  <2>1. /\ SubSeq(Ended, 1, n) \in Seq(Nat)
        /\ Len(SubSeq(Ended, 1, n)) = IF 1 <= n THEN n - 1 + 1 ELSE 0
        /\ \A i \in 1 .. n - 1 + 1 : SubSeq(Ended, 1, n)[i] = Ended[1 + i - 1]
    BY <1>3, <1>5, SubSeqProperties
  <2>. QED
    BY <1>3, <1>4, <2>1
<1>. QED
  BY <1>1, <1>2, <1>3, <1>6

\* The lines that are cut are counted.
LEMMA CutType ==
  ASSUME TailInv, toRead > 0
  PROVE  CutLines \in Nat
<1>1. Len(Kept) \in Nat /\ DOMAIN Kept = 1 .. Len(Kept)
  BY KeptLines
<1>2. IsFiniteSet(DOMAIN Kept)
  BY <1>1, FS_Interval
<1>3. IsFiniteSet({i \in DOMAIN Kept : BytesInWindow(Kept[i]) > MaxLineLength})
  BY <1>2, FS_Subset
<1>. QED
  BY <1>3, FS_CardinalityType DEF CutLines

\* What a read hands over and what it counts.
LEMMA HandedOver ==
  ASSUME TailInv, toRead > 0, Newlines # {}
  PROVE  /\ NotWhole \in Nat
         /\ lines \o [i \in DOMAIN Kept |-> Delivery(Kept[i])] \in Seq(Delivered)
<1>1. /\ Kept \in Seq(Nat) /\ Len(Kept) \in Nat /\ DOMAIN Kept = 1 .. Len(Kept)
      /\ Ended \in Seq(Nat) /\ Len(Ended) \in Nat
  BY KeptLines
<1>0. Cardinality(Newlines) \in Nat /\ Len(Ended) <= Cardinality(Newlines)
  BY EndedCount
<1>2. \A i \in 1 .. Len(Kept) : Delivery(Kept[i]) \in Delivered
  BY <1>1, DeliveryType
<1>3. [i \in DOMAIN Kept |-> Delivery(Kept[i])] \in Seq(Delivered)
  BY <1>1, <1>2
<1>4. CutLines \in Nat
  BY CutType
<1>5. Len(Ended) > MaxLinesPerRead => Cardinality(Newlines) - MaxLinesPerRead \in Nat
  BY <1>0, <1>1, TailAssumption
<1>6. lines \in Seq(Delivered)
  BY DEF TailInv, TailTyped
<1>. QED
  BY <1>3, <1>4, <1>5, <1>6 DEF NotWhole

\* Where the reader follows a file from once its offset has moved on.
LEMMA FollowedFrom ==
  ASSUME TailInv, NEW n \in Nat, FollowFromHere(n)
  PROVE  /\ truncatedLines' \in Nat
         /\ \/ since' = since /\ truncatedLines' = truncatedLines + n
               /\ (~Outdated \/ inode # offsets.inode)
            \/ /\ Outdated /\ inode = offsets.inode /\ truncatedLines' = 0
               /\ since'.replaced = replaced /\ since'.line = lastLine
               /\ since' \in [replaced : Nat, line : Nat]
<1>1. truncatedLines \in Nat /\ replaced \in Nat /\ lastLine \in Nat
  BY DEF TailInv, TailTyped
<1>. QED
  BY <1>1 DEF FollowFromHere

\* Every step keeps the file in order and the offset where it belongs.
LEMMA TailStep ==
  ASSUME TailInv, [Next]_vars
  PROVE  TailInv'
<1> USE DEF TailInv
<1>0. /\ inode \in Inode \cup {NoFile} /\ content \in Seq(Nat) /\ Len(content) \in Nat
      /\ lastLine \in Nat /\ replaced \in Nat /\ offsets \in [inode : Int, offset : Nat]
      /\ toRead \in Nat /\ lines \in Seq(Delivered) /\ truncatedLines \in Nat
      /\ since \in [replaced : Nat, line : Nat] /\ Inode \subseteq Nat \ {NoFile}
  BY TailAssumption DEF TailTyped, NoFile
<1>1. CASE WriteByte \/ EndLine
  <2>1. /\ FileInv' /\ content' \in Seq(Nat) /\ lastLine' \in Nat
        /\ UNCHANGED <<inode, replaced>>
        /\ Len(content') = Len(content) + 1
    BY <1>1, WriteKeepsFile
  <2>2. UNCHANGED readerVars
    BY <1>1 DEF WriteByte, EndLine
  <2>3. TailTyped'
    BY <1>0, <2>1, <2>2 DEF TailTyped, readerVars
  <2>4. Placed'
    BY <1>0, <2>1, <2>2 DEF Placed, Outdated, readerVars
  <2>. QED
    BY <2>1, <2>3, <2>4
<1>2. CASE Truncate \/ MoveAway
  <2>1. /\ replaced' = replaced + 1 /\ content' = << >> /\ inode' \in {inode, NoFile}
        /\ UNCHANGED <<lastLine, readerVars>>
    BY <1>2 DEF Truncate, MoveAway
  <2>2. Len(content') = 0 /\ content' \in Seq(Nat)
    BY <2>1
  <2>3. TailTyped'
    BY <1>0, <2>1, <2>2 DEF TailTyped, readerVars
  <2>4. FileInv'
    BY <2>1, <2>2 DEF FileInv, Ordered, AtLineStart
  <2>5. Placed'
    BY <1>0, <2>1, <2>2 DEF Placed, Outdated, readerVars
  <2>. QED
    BY <2>3, <2>4, <2>5
<1>3. CASE Create
  <2>1. /\ inode = NoFile /\ inode' \in Inode /\ UNCHANGED <<content, lastLine, replaced, readerVars>>
    BY <1>3 DEF Create
  <2>2. content = << >> /\ Len(content) = 0
    BY <2>1 DEF FileInv
  <2>3. TailTyped'
    BY <1>0, <2>1 DEF TailTyped, readerVars
  <2>4. FileInv'
    BY <2>1, <2>2 DEF FileInv, Ordered, AtLineStart
  <2>5. Placed'
    BY <1>0, <2>1, <2>2 DEF Placed, Outdated, readerVars
  <2>. QED
    BY <2>3, <2>4, <2>5
<1>4. ASSUME NEW offset \in Nat, offset <= Len(content), SetOffset(offset), UNCHANGED <<fileVars, lines>>,
             toRead' \in Nat, toRead' > 0 => inode # NoFile
      PROVE  TailInv'
  <2>1. /\ offsets' = [inode |-> inode, offset |-> offset]
        /\ truncatedLines' = 0
        /\ since' \in [replaced : {replaced}, line : Nat]
    BY <1>0, <1>4 DEF SetOffset
  <2>2. /\ offsets'.inode = inode /\ offsets'.offset = offset /\ since'.replaced = replaced
        /\ offsets' \in [inode : Int, offset : Nat] /\ since' \in [replaced : Nat, line : Nat]
    BY <1>0, <1>4, <2>1 DEF NoFile
  <2>3. TailTyped'
    BY <1>0, <1>4, <2>1, <2>2 DEF TailTyped, fileVars
  <2>4. FileInv'
    BY <1>4 DEF FileInv, Ordered, AtLineStart, fileVars
  <2>5. offsets' # Untracked
    BY <1>0, <2>2 DEF Untracked, NoFile
  <2>6. Placed'
    BY <1>0, <1>4, <2>2, <2>5 DEF Placed, Outdated, fileVars
  <2>. QED
    BY <2>3, <2>4, <2>6
<1>5. CASE StartAtEnd
  <2>1. /\ inode # NoFile /\ SetOffset(Len(content)) /\ UNCHANGED <<fileVars, toRead, lines>>
        /\ Len(content) <= Len(content)
    BY <1>0, <1>5 DEF StartAtEnd
  <2>. QED
    BY <1>0, <1>4, <2>1
<1>6. CASE SeekFails
  <2>1. /\ offsets = Untracked /\ SetOffset(0) /\ UNCHANGED <<fileVars, toRead, lines>>
        /\ 0 <= Len(content)
    BY <1>0, <1>6 DEF SeekFails
  <2>2. toRead = 0
    BY <2>1 DEF Placed
  <2>. QED
    BY <1>0, <1>4, <2>1, <2>2
<1>7. CASE StatFile
  <2>1. /\ inode # NoFile /\ offsets # Untracked /\ toRead = 0
        /\ IF Rotated \/ offsets.offset = 0 THEN SetOffset(0)
           ELSE UNCHANGED <<offsets, truncatedLines, since>>
        /\ toRead' = Bounded(Len(content) - offsets'.offset)
        /\ UNCHANGED <<fileVars, lines>>
    BY <1>7 DEF StatFile
  <2>2. MaxReadBytes \in Nat
    BY TailAssumption
  <2>3. ASSUME NEW available \in Nat PROVE Bounded(available) \in Nat
    BY <2>2, <2>3, MinOfTwo DEF Bounded
  <2>4. CASE Rotated \/ offsets.offset = 0
    <3>1. SetOffset(0) /\ offsets'.offset = 0
      BY <2>1, <2>4 DEF SetOffset
    <3>2. toRead' \in Nat
      BY <1>0, <2>1, <2>3, <3>1
    <3>. QED
      BY <1>0, <1>4, <2>1, <3>1, <3>2
  <2>5. CASE ~(Rotated \/ offsets.offset = 0)
    <3>1. UNCHANGED <<offsets, truncatedLines, since>>
      BY <2>1, <2>5
    <3>2. offsets.offset <= Len(content) /\ inode = offsets.inode
      BY <1>0, <2>5 DEF Rotated
    <3>3. toRead' \in Nat
      BY <1>0, <2>1, <2>3, <3>1, <3>2
    <3>4. TailTyped'
      BY <1>0, <2>1, <3>1, <3>3 DEF TailTyped, fileVars
    <3>5. FileInv'
      BY <2>1 DEF FileInv, Ordered, AtLineStart, fileVars
    <3>6. Placed'
      BY <1>0, <2>1, <2>5, <3>1, <3>2 DEF Placed, Outdated, fileVars
    <3>. QED
      BY <3>4, <3>5, <3>6
  <2>. QED
    BY <2>4, <2>5
<1>8. ASSUME UNCHANGED fileVars, toRead > 0, toRead' = 0,
             NEW passed \in 0 .. Len(Window),
             offsets' = [offsets EXCEPT !.offset = offsets.offset + passed],
             truncatedLines' \in Nat, lines' \in Seq(Delivered),
             \/ since' = since
             \/ /\ passed > 0 /\ inode = offsets.inode /\ since'.replaced = replaced
                /\ since' \in [replaced : Nat, line : Nat]
      PROVE  TailInv'
  <2>1. passed \in Nat /\ Len(Window) \in Nat /\ passed <= Len(Window)
    <3>1. Len(Window) \in Nat
      BY <1>8, WindowShows
    <3>. QED
      BY <3>1
  <2>2. /\ offsets'.inode = offsets.inode /\ offsets'.offset = offsets.offset + passed
        /\ offsets' \in [inode : Int, offset : Nat]
    <3>1. ASSUME NEW o \in [inode : Int, offset : Nat], NEW n \in Nat
          PROVE  /\ [o EXCEPT !.offset = o.offset + n].inode = o.inode
                 /\ [o EXCEPT !.offset = o.offset + n].offset = o.offset + n
                 /\ [o EXCEPT !.offset = o.offset + n] \in [inode : Int, offset : Nat]
      OBVIOUS
    <3>. QED
      BY <1>0, <1>8, <2>1, <3>1, Zenon
  <2>3. passed > 0 => offsets.offset + passed <= Len(content)
    <3>1. SUFFICES ASSUME passed > 0 PROVE offsets.offset + passed <= Len(content)
      OBVIOUS
    <3>2. \A i \in 1 .. Len(Window) : offsets.offset + i \in 1 .. Len(content)
      BY <1>8, WindowShows
    <3>3. passed \in 1 .. Len(Window)
      BY <2>1, <3>1
    <3>. QED
      BY <1>0, <2>1, <3>2, <3>3
  <2>4. offsets # Untracked
    BY <1>0, <1>8 DEF Placed
  <2>5. since' \in [replaced : Nat, line : Nat] /\ since'.replaced <= replaced
    BY <1>0, <1>8 DEF Placed
  <2>6. TailTyped'
    BY <1>0, <1>8, <2>2, <2>5 DEF TailTyped, fileVars
  <2>7. FileInv'
    BY <1>8 DEF FileInv, Ordered, AtLineStart, fileVars
  <2>8. Placed'
    <3>1. inode' = inode /\ replaced' = replaced /\ content' = content
      BY <1>8 DEF fileVars
    <3>2. ASSUME offsets' # Untracked, ~Outdated'
          PROVE  offsets'.offset <= Len(content) /\ inode = offsets.inode
      <4>1. since'.replaced = replaced
        BY <3>1, <3>2 DEF Outdated
      <4>2. CASE since' = since
        <5>1. offsets.offset <= Len(content) /\ inode = offsets.inode
          BY <1>8, <2>4, <4>1, <4>2 DEF Placed, Outdated
        <5>. QED
          BY <1>0, <2>1, <2>2, <2>3, <5>1
      <4>3. CASE passed > 0 /\ inode = offsets.inode
        BY <2>2, <2>3, <4>3
      <4>. QED
        BY <1>8, <4>2, <4>3
    <3>. QED
      BY <1>8, <2>2, <2>5, <3>1, <3>2 DEF Placed
  <2>. QED
    BY <2>6, <2>7, <2>8
<1>9. CASE ReadNothing
  <2>1. /\ UNCHANGED <<fileVars, since>> /\ toRead > 0 /\ toRead' = 0
        /\ UNCHANGED <<offsets, lines, truncatedLines>>
    BY <1>9 DEF ReadNothing
  <2>2. 0 \in 0 .. Len(Window)
    BY <2>1, WindowShows
  <2>3. offsets' = [offsets EXCEPT !.offset = offsets.offset + 0]
    BY <1>0, <2>1
  <2>. QED
    BY <1>0, <1>8, <2>1, <2>2, <2>3
<1>10. CASE SkipLongLine
  <2>1. /\ UNCHANGED fileVars /\ toRead > 0 /\ toRead' = 0
        /\ offsets' = [offsets EXCEPT !.offset = offsets.offset + Len(Window)]
        /\ FollowFromHere(1) /\ Len(Window) >= MaxReadBytes
        /\ UNCHANGED lines
    BY <1>10 DEF SkipLongLine
  <2>2. Len(Window) \in 0 .. Len(Window) /\ Len(Window) > 0
    BY <2>1, WindowShows, TailAssumption
  <2>3. lines' \in Seq(Delivered)
    BY <1>0, <2>1
  <2>4. /\ truncatedLines' \in Nat
        /\ \/ since' = since
           \/ /\ inode = offsets.inode /\ since'.replaced = replaced
              /\ since' \in [replaced : Nat, line : Nat]
    <3>1. 1 \in Nat
      OBVIOUS
    <3>. QED
      BY <2>1, <3>1, FollowedFrom, Zenon
  <2>. QED
    BY <1>8, <2>1, <2>2, <2>3, <2>4, Zenon
<1>11. CASE DeliverLines
  <2>1. /\ UNCHANGED fileVars /\ toRead > 0 /\ Newlines # {} /\ toRead' = 0
        /\ offsets' = [offsets EXCEPT !.offset = offsets.offset + CompleteBytes]
        /\ lines' = lines \o [i \in DOMAIN Kept |-> Delivery(Kept[i])]
        /\ FollowFromHere(NotWhole)
    BY <1>11 DEF DeliverLines
  <2>2. CompleteBytes \in 0 .. Len(Window) /\ CompleteBytes > 0
    <3>1. CompleteBytes \in 1 .. Len(Window) /\ Len(Window) \in Nat
      BY <2>1, LastNewline, WindowShows
    <3>. QED
      BY <3>1
  <2>3. NotWhole \in Nat /\ lines' \in Seq(Delivered)
    BY <2>1, HandedOver, Zenon
  <2>4. /\ truncatedLines' \in Nat
        /\ \/ since' = since
           \/ /\ inode = offsets.inode /\ since'.replaced = replaced
              /\ since' \in [replaced : Nat, line : Nat]
    BY <2>1, <2>3, FollowedFrom, Zenon
  <2>. QED
    BY <1>8, <2>1, <2>2, <2>3, <2>4, Zenon
<1>12. CASE RestartAgent
  <2>1. /\ offsets' = Untracked /\ toRead' = 0
        /\ UNCHANGED <<fileVars, lines, truncatedLines, since>>
    BY <1>12 DEF RestartAgent
  <2>2. TailTyped'
    BY <1>0, <2>1 DEF TailTyped, fileVars, Untracked
  <2>3. FileInv'
    BY <2>1 DEF FileInv, Ordered, AtLineStart, fileVars
  <2>4. Placed'
    BY <2>1 DEF Placed, Outdated, fileVars, Untracked
  <2>. QED
    BY <2>2, <2>3, <2>4
<1>13. CASE UNCHANGED vars
  BY <1>13 DEF TailTyped, FileInv, Ordered, AtLineStart, Placed, Outdated,
       vars, fileVars, readerVars
<1>. QED
  BY <1>1, <1>2, <1>3, <1>5, <1>6, <1>7, <1>9, <1>10, <1>11, <1>12, <1>13 DEF Next

\* The reader's offset belongs where it points in every behaviour.
LEMMA TailKept == Spec => []TailInv
<1>. QED
  BY TailInit, TailStep, PTL DEF Spec

-----------------------------------------------------------------------------
(* Nothing is handed over twice *)

\* Of two bytes with a newline between them the later belongs to a later line.
LEMMA NewlineBetween ==
  ASSUME NEW c \in Seq(Nat), Ordered(c), NEW p \in 1 .. Len(c), NEW m \in 1 .. Len(c),
         NEW q \in 1 .. Len(c), p < m, m < q, c[m] = NL, c[p] # NL, c[q] # NL
  PROVE  c[p] < c[q]
<1>1. Len(c) \in Nat /\ c[p] \in Nat /\ c[q] \in Nat /\ p < q /\ m \in p + 1 .. q - 1
  OBVIOUS
<1>2. c[p] <= c[q] /\ (c[p] = c[q] <=> \A k \in p + 1 .. q - 1 : c[k] # NL)
  BY <1>1 DEF Ordered
<1>. QED
  BY SMTT(30), <1>1, <1>2

\* A line that is handed over ends in the part of the content that the offset passes.
LEMMA KeptEnds ==
  ASSUME TailInv, toRead > 0, Newlines # {}, NEW k \in 1 .. Len(Kept)
  PROVE  \E p \in 1 .. Len(content) :
           /\ offsets.offset < p /\ p < offsets.offset + CompleteBytes
           /\ content[p] = Kept[k] /\ content[p] # NL
           /\ p + 1 \in 1 .. Len(content) /\ content[p + 1] = NL
<1>1. k \in 1 .. Len(Ended) /\ Kept[k] = Ended[k]
  BY KeptLines
<1>2. Lists(Ended, Window, Len(Window))
  BY EndedLines
<1>3. PICK j \in 1 .. Len(Window) : EndOf(Window, j) /\ Window[j] = Ended[k]
  BY <1>1, <1>2, Zenon DEF Lists
<1>4. /\ Len(Window) \in Nat /\ DOMAIN Window = 1 .. Len(Window)
      /\ \A i \in 1 .. Len(Window) :
           offsets.offset + i \in 1 .. Len(content) /\ Window[i] = content[offsets.offset + i]
  BY WindowShows
<1>5. /\ CompleteBytes \in 1 .. Len(Window) /\ \A i \in Newlines : i <= CompleteBytes
  BY LastNewline
<1>6. j + 1 \in 1 .. Len(Window) /\ Window[j + 1] = NL /\ Window[j] # NL
  BY <1>3 DEF EndOf
<1>7. j + 1 \in Newlines
  BY <1>4, <1>6 DEF Newlines
<1>8. j + 1 <= CompleteBytes
  BY <1>5, <1>7
<1>9. offsets.offset \in Nat /\ Len(content) \in Nat
  BY DEF TailInv, TailTyped
<1>10. /\ offsets.offset + j \in 1 .. Len(content) /\ offsets.offset < offsets.offset + j
       /\ offsets.offset + j < offsets.offset + CompleteBytes
       /\ content[offsets.offset + j] = Kept[k] /\ content[offsets.offset + j] # NL
       /\ (offsets.offset + j) + 1 \in 1 .. Len(content)
       /\ content[(offsets.offset + j) + 1] = NL
  <2>1. offsets.offset + (j + 1) = (offsets.offset + j) + 1
    <3>1. j \in Int /\ offsets.offset \in Int
      BY <1>4, <1>9
    <3>2. \A a, b \in Int : a + (b + 1) = (a + b) + 1
      OBVIOUS
    <3>. QED
      BY <3>1, <3>2, Zenon
  <2>2. /\ offsets.offset + j \in 1 .. Len(content) /\ Window[j] = content[offsets.offset + j]
        /\ offsets.offset + (j + 1) \in 1 .. Len(content)
        /\ Window[j + 1] = content[offsets.offset + (j + 1)]
    BY <1>4, <1>6
  <2>3. offsets.offset < offsets.offset + j /\ offsets.offset + j < offsets.offset + CompleteBytes
    BY <1>4, <1>5, <1>8, <1>9
  <2>. QED
    BY <1>1, <1>3, <1>6, <2>1, <2>2, <2>3
<1>. QED
  BY <1>10, Zenon

\* What DeliverLines appends to the lines.
LEMMA Appended ==
  ASSUME TailInv, DeliverLines
  PROVE  /\ toRead > 0 /\ Newlines # {}
         /\ Len(Kept) \in Nat /\ Len(lines) \in Nat
         /\ Len(lines') = Len(lines) + Len(Kept)
         /\ \A i \in 1 .. Len(lines) : lines'[i] = lines[i]
         /\ \A i \in 1 .. Len(Kept) :
              /\ lines'[Len(lines) + i] = Delivery(Kept[i])
              /\ lines'[Len(lines) + i].line = Kept[i]
         /\ \A i, j \in 1 .. Len(Kept) : i < j => Kept[i] < Kept[j]
<1>1. /\ toRead > 0 /\ Newlines # {}
      /\ lines' = lines \o [i \in DOMAIN Kept |-> Delivery(Kept[i])]
  BY DEF DeliverLines
<1>2. /\ Ended \in Seq(Nat) /\ Len(Ended) \in Nat
      /\ Kept \in Seq(Nat) /\ Len(Kept) \in Nat
      /\ Len(Kept) = IF Len(Ended) <= MaxLinesPerRead THEN Len(Ended) ELSE MaxLinesPerRead
      /\ \A i \in 1 .. Len(Kept) : i \in 1 .. Len(Ended) /\ Kept[i] = Ended[i]
  BY <1>1, KeptLines
<1>3. lines \in Seq(Delivered) /\ Len(lines) \in Nat
  BY DEF TailInv, TailTyped
<1>4. ASSUME NEW i \in 1 .. Len(Kept)
      PROVE  Delivery(Kept[i]).line = Kept[i] /\ Delivery(Kept[i]) \in Delivered
  <2>1. Kept[i] \in Nat
    BY <1>2
  <2>. QED
    BY <1>1, <2>1, DeliveryType, Zenon
<1> DEFINE new == [i \in DOMAIN Kept |-> Delivery(Kept[i])]
<1>5. /\ new \in Seq(Delivered) /\ Len(new) = Len(Kept)
      /\ \A i \in 1 .. Len(Kept) : new[i] = Delivery(Kept[i])
  <2>1. DOMAIN Kept = 1 .. Len(Kept)
    BY <1>2
  <2>2. new = [i \in 1 .. Len(Kept) |-> Delivery(Kept[i])]
    BY <2>1
  <2>3. new \in [1 .. Len(Kept) -> Delivered]
    BY <1>4, <2>2
  <2>4. new \in Seq(Delivered) /\ Len(new) = Len(Kept)
    <3>1. ASSUME NEW n \in Nat, NEW f \in [1 .. n -> Delivered]
          PROVE  f \in Seq(Delivered) /\ Len(f) = n
      OBVIOUS
    <3>. QED
      BY <1>2, <2>3, <3>1, Zenon
  <2>. QED
    BY <2>2, <2>4, Zenon
<1>. HIDE DEF new
<1>6. /\ Len(lines \o new) = Len(lines) + Len(new)
      /\ \A i \in 1 .. Len(lines) : (lines \o new)[i] = lines[i]
      /\ \A i \in 1 .. Len(new) : (lines \o new)[Len(lines) + i] = new[i]
  BY <1>3, <1>5
<1>7. lines' = lines \o new
  BY <1>1 DEF new
<1>8. \A i, j \in 1 .. Len(Kept) : i < j => Kept[i] < Kept[j]
  <2>1. Lists(Ended, Window, Len(Window))
    BY <1>1, EndedLines
  <2>. QED
    BY <1>2, <2>1, Zenon DEF Lists
<1>. QED
  BY <1>1, <1>2, <1>3, <1>4, <1>5, <1>6, <1>7, <1>8

\* The number of the next byte that is not a newline.
NextLine == IF AtLineStart THEN lastLine + 1 ELSE lastLine

\* What the reader has yet to read comes after all that it handed over of the file it
\* follows.
Ahead ==
  \A k \in 1 .. Len(lines), p \in 1 .. Len(content) :
    /\ content[p] # NL /\ ~lines[k].swapped
    /\ Outdated \/ offsets.offset < p
    => lines[k].line < content[p]

\* Nothing was handed over yet of a file that was put in place since statSync.
Fresh ==
  toRead > 0 /\ inode # offsets.inode =>
    \A k \in 1 .. Len(lines), p \in 1 .. Len(content) :
      content[p] # NL => lines[k].line < content[p]

\* No line is handed over before it has ended.
HandedBefore ==
  /\ ReplayedOnlyIfSwapped
  /\ \A k \in 1 .. Len(lines) : lines[k].line < NextLine
  /\ offsets # Untracked => Ahead /\ Fresh

LEMMA ReplayInit == Init => HandedBefore
<1>. SUFFICES ASSUME Init PROVE HandedBefore
  OBVIOUS
<1>1. lines = << >> /\ Len(lines) = 0 /\ DOMAIN lines = {}
  BY DEF Init
<1>2. 1 .. Len(lines) = {}
  BY <1>1
<1>. QED
  BY <1>1, <1>2 DEF HandedBefore, Ahead, Fresh, ReplayedOnlyIfSwapped

\* Every step of the writer, of the tool that rotates and of the reader keeps the order.
LEMMA ReplayStep ==
  ASSUME TailInv, HandedBefore, [Next]_vars
  PROVE  HandedBefore'
<1>0. /\ content \in Seq(Nat) /\ Len(content) \in Nat
      /\ lastLine \in Nat /\ offsets \in [inode : Int, offset : Nat]
      /\ lines \in Seq(Delivered) /\ Len(lines) \in Nat /\ DOMAIN lines = 1 .. Len(lines)
      /\ \A k \in 1 .. Len(lines) : lines[k].line \in Nat
      /\ \A p \in 1 .. Len(content) : content[p] \in Nat /\ content[p] <= lastLine
      /\ ~AtLineStart => content[Len(content)] = lastLine
  <2>1. /\ content \in Seq(Nat) /\ lastLine \in Nat /\ offsets \in [inode : Int, offset : Nat]
        /\ lines \in Seq(Delivered)
        /\ \A i \in 1 .. Len(content) : content[i] <= lastLine
        /\ ~AtLineStart => content[Len(content)] = lastLine
    BY DEF TailInv, TailTyped, FileInv
  <2>2. Len(lines) \in Nat /\ DOMAIN lines = 1 .. Len(lines)
        /\ \A k \in 1 .. Len(lines) : lines[k] \in Delivered
    BY <2>1
  <2>3. \A d \in Delivered : d.line \in Nat
    BY DEF Delivered
  <2>4. Len(content) \in Nat /\ \A p \in 1 .. Len(content) : content[p] \in Nat
    BY <2>1
  <2>. QED
    BY <2>1, <2>2, <2>3, <2>4, Zenon
<1>1. /\ NextLine \in Nat /\ lastLine <= NextLine /\ NextLine <= lastLine + 1
      /\ \A k \in 1 .. Len(lines) : lines[k].line < NextLine
  BY <1>0 DEF NextLine, HandedBefore
<1>2. CASE WriteByte \/ EndLine
  <2>1. /\ FileInv' /\ content' \in Seq(Nat) /\ lastLine' \in Nat
        /\ UNCHANGED <<inode, replaced>>
        /\ Len(content') = Len(content) + 1
        /\ \A i \in 1 .. Len(content) : content'[i] = content[i]
        /\ content'[Len(content')] # NL =>
              /\ content'[Len(content')] = IF AtLineStart THEN lastLine + 1 ELSE lastLine
              /\ lastLine' = content'[Len(content')]
        /\ content'[Len(content')] = NL => ~AtLineStart /\ lastLine' = lastLine
    BY <1>2, WriteKeepsFile DEF TailInv
  <2>2. UNCHANGED <<offsets, toRead, lines, truncatedLines, since>>
    BY <1>2 DEF WriteByte, EndLine, readerVars
  <2>3. NextLine <= NextLine' /\ NextLine' \in Nat
    <3>1. content' # << >> /\ (AtLineStart' <=> content'[Len(content')] = NL)
      BY <1>0, <2>1 DEF AtLineStart, Last
    <3>2. CASE content'[Len(content')] = NL
      <4>1. NextLine' = lastLine + 1
        BY <2>1, <3>1, <3>2 DEF NextLine
      <4>. QED
        BY <1>0, <1>1, <4>1
    <3>3. CASE content'[Len(content')] # NL
      <4>1. NextLine' = NextLine
        BY <2>1, <3>1, <3>3 DEF NextLine
      <4>. QED
        BY <1>1, <4>1
    <3>. QED
      BY <3>2, <3>3
  <2>4. ReplayedOnlyIfSwapped'
    BY <2>2 DEF HandedBefore, Ahead, Fresh, ReplayedOnlyIfSwapped
  <2>5. \A k \in 1 .. Len(lines') : lines'[k].line < NextLine'
    BY <1>0, <1>1, <2>2, <2>3
  <2>6. ASSUME offsets' # Untracked, NEW k \in 1 .. Len(lines'), NEW p \in 1 .. Len(content'),
               content'[p] # NL,
               \/ ~lines'[k].swapped /\ (Outdated' \/ offsets'.offset < p)
               \/ toRead' > 0 /\ inode' # offsets'.inode
        PROVE  lines'[k].line < content'[p]
    <3>1. CASE p \in 1 .. Len(content)
      <4>1. Outdated' <=> Outdated
        BY <2>1, <2>2 DEF Outdated
      <4>2. content'[p] = content[p] /\ k \in 1 .. Len(lines)
        BY <2>1, <2>2, <3>1
      <4>. QED
        BY <2>1, <2>2, <2>6, <3>1, <4>1, <4>2 DEF HandedBefore, Ahead, Fresh
    <3>2. CASE p = Len(content')
      <4>1. content'[p] = NextLine
        BY <2>1, <2>6, <3>2 DEF NextLine
      <4>. QED
        BY <1>1, <2>2, <4>1
    <3>. QED
      BY <1>0, <2>1, <3>1, <3>2
  <2>. QED
    BY <2>4, <2>5, <2>6 DEF HandedBefore, Ahead, Fresh
<1>3. CASE Truncate \/ MoveAway
  <2>1. content' = << >> /\ lastLine' = lastLine /\ lines' = lines
    BY <1>3 DEF Truncate, MoveAway, readerVars
  <2>2. NextLine' = lastLine + 1 /\ 1 .. Len(content') = {}
    BY <2>1 DEF NextLine, AtLineStart
  <2>3. \A k \in 1 .. Len(lines') : lines'[k].line < NextLine'
    BY <1>0, <1>1, <2>1, <2>2
  <2>. QED
    BY <2>1, <2>2, <2>3 DEF HandedBefore, Ahead, Fresh, ReplayedOnlyIfSwapped
<1>4. CASE Create
  <2>1. UNCHANGED <<content, lastLine, lines, offsets>> /\ 1 .. Len(content) = {}
    BY <1>4 DEF Create, readerVars, TailInv, FileInv
  <2>. QED
    BY <2>1 DEF HandedBefore, Ahead, Fresh, ReplayedOnlyIfSwapped, NextLine, AtLineStart
<1>5. ASSUME NEW offset \in Nat, SetOffset(offset), UNCHANGED <<fileVars, lines>>,
             \A k \in 1 .. Len(lines), p \in 1 .. Len(content) :
               content[p] # NL /\ offset < p /\ ~lines[k].swapped => lines[k].line < content[p]
      PROVE  HandedBefore'
  <2>1. /\ offsets'.offset = offset /\ since'.replaced = replaced /\ replaced' = replaced
        /\ content' = content /\ lastLine' = lastLine /\ lines' = lines
        /\ inode' = offsets'.inode
    BY <1>5 DEF SetOffset, fileVars
  <2>2. ~Outdated'
    BY <2>1 DEF Outdated
  <2>3. NextLine' = NextLine
    BY <2>1 DEF NextLine, AtLineStart
  <2>. QED
    BY <1>1, <1>5, <2>1, <2>2, <2>3 DEF HandedBefore, Ahead, Fresh, ReplayedOnlyIfSwapped
<1>6. CASE StartAtEnd
  <2>1. SetOffset(Len(content)) /\ UNCHANGED <<fileVars, lines>>
    BY <1>6 DEF StartAtEnd
  <2>2. \A p \in 1 .. Len(content) : ~(Len(content) < p)
    BY <1>0
  <2>. QED
    BY <1>0, <1>5, <2>1, <2>2
<1>7. CASE SeekFails
  <2>1. SetOffset(0) /\ UNCHANGED <<fileVars, lines>> /\ inode = NoFile
    BY <1>7 DEF SeekFails
  <2>2. 1 .. Len(content) = {}
    BY <2>1 DEF TailInv, FileInv
  <2>. QED
    BY <1>5, <2>1, <2>2
<1>8. CASE StatFile
  <2>1. /\ offsets # Untracked /\ UNCHANGED <<fileVars, lines>>
        /\ IF Rotated \/ offsets.offset = 0 THEN SetOffset(0)
           ELSE UNCHANGED <<offsets, truncatedLines, since>>
    BY <1>8 DEF StatFile
  <2>2. CASE Rotated \/ offsets.offset = 0
    <3>1. Outdated \/ offsets.offset = 0
      BY <1>0, <2>1, <2>2 DEF TailInv, Placed, Rotated
    <3>2. \A p \in 1 .. Len(content) : 0 < p
      BY <1>0
    <3>3. \A k \in 1 .. Len(lines), p \in 1 .. Len(content) :
            content[p] # NL /\ 0 < p /\ ~lines[k].swapped => lines[k].line < content[p]
      BY <2>1, <3>1, <3>2 DEF HandedBefore, Ahead
    <3>. QED
      BY <1>5, <2>1, <2>2, <3>3
  <2>3. CASE ~(Rotated \/ offsets.offset = 0)
    BY <2>1, <2>3 DEF Rotated, HandedBefore, Ahead, Fresh,
         ReplayedOnlyIfSwapped, NextLine, AtLineStart, Outdated, fileVars
  <2>. QED
    BY <2>2, <2>3
<1>9. CASE ReadNothing
  BY <1>9 DEF ReadNothing, HandedBefore, Ahead, Fresh, ReplayedOnlyIfSwapped,
       NextLine, AtLineStart, Outdated, fileVars
<1>10. CASE SkipLongLine
  <2>1. /\ UNCHANGED <<fileVars, lines>> /\ toRead > 0 /\ toRead' = 0
        /\ offsets' = [offsets EXCEPT !.offset = offsets.offset + Len(Window)]
        /\ FollowFromHere(1) /\ 1 \in Nat
    BY <1>10 DEF SkipLongLine
  <2>2. Len(Window) \in Nat
    BY <2>1, WindowShows
  <2>3. offsets'.offset = offsets.offset + Len(Window) /\ offsets # Untracked
    BY <1>0, <2>1 DEF TailInv, Placed
  <2>4. \A p \in 1 .. Len(content) : offsets'.offset < p => offsets.offset < p
    BY <1>0, <2>2, <2>3
  <2>5. NextLine' = NextLine /\ (Outdated' => Outdated)
    <3>1. since'.replaced = since.replaced \/ since'.replaced = replaced
      BY <2>1, FollowedFrom, Zenon
    <3>. QED
      BY <2>1, <2>3, <3>1 DEF NextLine, AtLineStart, Outdated, fileVars
  <2>6. Fresh'
    BY <2>1 DEF Fresh
  <2>7. Ahead'
    BY <2>1, <2>3, <2>4, <2>5 DEF HandedBefore, Ahead, fileVars
  <2>. QED
    BY <2>1, <2>3, <2>5, <2>6, <2>7 DEF HandedBefore, ReplayedOnlyIfSwapped, fileVars
<1>11. CASE DeliverLines
  <2>1. /\ UNCHANGED <<inode, content, lastLine, replaced>> /\ toRead' = 0
        /\ offsets' = [offsets EXCEPT !.offset = offsets.offset + CompleteBytes]
        /\ FollowFromHere(NotWhole)
    BY <1>11 DEF DeliverLines, fileVars
  <2>2. /\ toRead > 0 /\ Newlines # {}
        /\ Len(Kept) \in Nat /\ Len(lines) \in Nat
        /\ Len(lines') = Len(lines) + Len(Kept)
        /\ \A i \in 1 .. Len(lines) : lines'[i] = lines[i]
        /\ \A i \in 1 .. Len(Kept) :
             /\ lines'[Len(lines) + i] = Delivery(Kept[i])
             /\ lines'[Len(lines) + i].line = Kept[i]
        /\ \A i, j \in 1 .. Len(Kept) : i < j => Kept[i] < Kept[j]
    BY <1>11, Appended
  <2>3. ASSUME NEW i \in 1 .. Len(lines')
        PROVE  i \in 1 .. Len(lines) \/ \E k \in 1 .. Len(Kept) : i = Len(lines) + k
    <3>1. i \notin 1 .. Len(lines) => /\ i - Len(lines) \in 1 .. Len(Kept)
                                      /\ i = Len(lines) + (i - Len(lines))
      BY <2>2
    <3>. QED
      BY <3>1, Zenon
  <2>4. offsets'.offset = offsets.offset + CompleteBytes /\ offsets # Untracked
    BY <1>0, <2>1, <2>2 DEF TailInv, Placed
  <2>5. CompleteBytes \in Nat /\ Ordered(content) /\ CompleteBytes > 0
        /\ offsets.offset + CompleteBytes \in 1 .. Len(content)
        /\ content[offsets.offset + CompleteBytes] = NL
    <3>1. CompleteBytes \in Newlines /\ CompleteBytes \in 1 .. Len(Window)
      BY <2>2, LastNewline
    <3>2. Len(Window) \in Nat
      BY <2>2, WindowShows
    <3>3. offsets.offset + CompleteBytes \in 1 .. Len(content)
          /\ Window[CompleteBytes] = content[offsets.offset + CompleteBytes]
      BY <2>2, <3>1, WindowShows
    <3>. QED
      BY <3>1, <3>2, <3>3 DEF TailInv, FileInv, Newlines
  <2>6. /\ NextLine' = NextLine /\ (Outdated' => Outdated)
        /\ inode = offsets.inode => ~Outdated'
    <3>1. \/ since' = since /\ (~Outdated \/ inode # offsets.inode)
          \/ since'.replaced = replaced
      BY <2>1, <2>2, HandedOver, FollowedFrom, Zenon
    <3>. QED
      BY <2>1, <2>4, <3>1 DEF Outdated, NextLine, AtLineStart
  <2>7. ASSUME NEW k \in 1 .. Len(Kept)
        PROVE  /\ \A i \in 1 .. Len(lines) :
                    ~lines[i].swapped \/ inode # offsets.inode => lines[i].line < Kept[k]
               /\ Kept[k] < NextLine
               /\ \A q \in 1 .. Len(content) :
                    offsets.offset + CompleteBytes < q /\ content[q] # NL => Kept[k] < content[q]
    <3>1. PICK p \in 1 .. Len(content) :
            /\ offsets.offset < p /\ p < offsets.offset + CompleteBytes
            /\ content[p] = Kept[k] /\ content[p] # NL
            /\ p + 1 \in 1 .. Len(content) /\ content[p + 1] = NL
      BY <2>2, KeptEnds, Zenon
    <3>2. \A i \in 1 .. Len(lines) :
            ~lines[i].swapped \/ inode # offsets.inode => lines[i].line < Kept[k]
      BY <2>2, <2>4, <3>1 DEF HandedBefore, Ahead, Fresh
    <3>3. ASSUME NEW q \in 1 .. Len(content), p + 1 < q, content[q] # NL
          PROVE  Kept[k] < content[q]
      <4>1. p < p + 1
        OBVIOUS
      <4>. QED
        BY <1>0, <2>5, <3>1, <3>3, <4>1, NewlineBetween
    <3>4. Kept[k] < NextLine
      <4>1. CASE AtLineStart
        BY SMTT(30), <1>0, <3>1, <4>1 DEF NextLine
      <4>2. CASE ~AtLineStart
        <5>1. Len(content) > 0 /\ content[Len(content)] # NL /\ content[Len(content)] = lastLine
          BY <1>0, <4>2, LineStart
        <5>2. p + 1 < Len(content) /\ Len(content) \in 1 .. Len(content)
          BY SMTT(30), <1>0, <3>1, <5>1
        <5>. QED
          BY <3>3, <4>2, <5>1, <5>2 DEF NextLine
      <4>. QED
        BY <4>1, <4>2
    <3>5. \A q \in 1 .. Len(content) : offsets.offset + CompleteBytes < q => p + 1 < q
      BY <1>0, <2>5, <3>1
    <3>. QED
      BY <3>2, <3>3, <3>4, <3>5
  <2>12. \A k \in 1 .. Len(Kept) :
           Delivery(Kept[k]).swapped = (inode # offsets.inode)
    BY DEF Delivery
  <2>8. ASSUME NEW i \in 1 .. Len(lines'), NEW j \in 1 .. Len(lines'), i < j
        PROVE  \/ lines'[i].line < lines'[j].line
               \/ lines'[i].swapped /\ ~lines'[j].swapped
    <3>1. CASE i \in 1 .. Len(lines) /\ j \in 1 .. Len(lines)
      BY <1>0, <2>2, <2>8, <3>1 DEF HandedBefore, Ahead, Fresh, ReplayedOnlyIfSwapped
    <3>2. ASSUME i \in 1 .. Len(lines), NEW l \in 1 .. Len(Kept), j = Len(lines) + l
          PROVE  \/ lines'[i].line < lines'[j].line
                 \/ lines'[i].swapped /\ ~lines'[j].swapped
      <4>1. /\ lines'[i] = lines[i] /\ lines'[j].line = Kept[l]
            /\ lines'[j].swapped = (inode # offsets.inode)
        BY <2>2, <2>12, <3>2
      <4>. QED
        BY <2>7, <3>2, <4>1
    <3>3. ASSUME NEW k \in 1 .. Len(Kept), NEW l \in 1 .. Len(Kept), i = Len(lines) + k,
                 j = Len(lines) + l
          PROVE  lines'[i].line < lines'[j].line
      <4>1. k < l
        BY <2>2, <2>8, <3>3
      <4>2. lines'[i].line = Kept[k] /\ lines'[j].line = Kept[l]
        BY <2>2, <3>3
      <4>. QED
        BY <2>2, <4>1, <4>2
    <3>4. ASSUME NEW k \in 1 .. Len(Kept), i = Len(lines) + k, j \in 1 .. Len(lines)
          PROVE  FALSE
      BY <2>2, <2>8, <3>4
    <3>. QED
      BY <2>3, <3>1, <3>2, <3>3, <3>4
  <2>9. ReplayedOnlyIfSwapped'
    <3>1. DOMAIN lines' = 1 .. Len(lines')
      BY <1>11, TailStep DEF TailInv, TailTyped, Next
    <3>. QED
      BY <2>8, <3>1 DEF ReplayedOnlyIfSwapped
  <2>10. ASSUME NEW i \in 1 .. Len(lines') PROVE lines'[i].line < NextLine'
    BY <1>1, <2>2, <2>3, <2>6, <2>7
  <2>11. ASSUME NEW i \in 1 .. Len(lines'), NEW q \in 1 .. Len(content'), content'[q] # NL,
                ~lines'[i].swapped, Outdated' \/ offsets'.offset < q
         PROVE  lines'[i].line < content'[q]
    <3>1. content' = content /\ (Outdated \/ offsets.offset < q)
      BY <1>0, <2>1, <2>4, <2>5, <2>6, <2>11
    <3>2. CASE i \in 1 .. Len(lines)
      BY <2>2, <2>4, <2>11, <3>1, <3>2 DEF HandedBefore, Ahead
    <3>3. ASSUME NEW k \in 1 .. Len(Kept), i = Len(lines) + k
          PROVE  lines'[i].line < content'[q]
      <4>1. lines'[i] = Delivery(Kept[k]) /\ lines'[i].line = Kept[k]
        BY <2>2, <3>3
      <4>2. inode = offsets.inode
        BY <2>11, <2>12, <4>1
      <4>3. offsets.offset + CompleteBytes < q
        BY <2>4, <2>6, <2>11, <4>2
      <4>. QED
        BY <2>7, <2>11, <3>1, <4>1, <4>3
    <3>. QED
      BY <2>3, <3>2, <3>3
  <2>. QED
    BY <2>1, <2>9, <2>10, <2>11 DEF HandedBefore, Ahead, Fresh
<1>12. CASE RestartAgent
  BY <1>12 DEF RestartAgent, HandedBefore, Ahead, Fresh, ReplayedOnlyIfSwapped,
       NextLine, AtLineStart, fileVars
<1>13. CASE UNCHANGED vars
  BY <1>13 DEF HandedBefore, Ahead, Fresh, ReplayedOnlyIfSwapped, NextLine,
       AtLineStart, Outdated, vars, fileVars,
     readerVars
<1>. QED
  BY <1>2, <1>3, <1>4, <1>6, <1>7, <1>8, <1>9, <1>10, <1>11, <1>12, <1>13 DEF Next

\* read() hands every line over once and in the order of the file, through truncations,
\* rotations, reused inodes, files that outgrow an old offset, lines that are half
\* written and restarts, except for what it read of a file that was put in place between
\* its two looks, which is handed over once more.
THEOREM ReplaysAreOfSwappedFiles == Spec => []ReplayedOnlyIfSwapped
<1>1. TailInv /\ TailInv' /\ HandedBefore /\ [Next]_vars => HandedBefore'
  BY ReplayStep
<1>2. HandedBefore => ReplayedOnlyIfSwapped
  BY DEF HandedBefore
<1>. QED
  BY <1>1, <1>2, ReplayInit, TailKept, PTL DEF Spec

-----------------------------------------------------------------------------
(* Only long lines are cut *)

\* How many bytes of c belong to line n.
ByteCount(c, n) == Cardinality({i \in DOMAIN c : c[i] = n})

\* The reader began to follow the content at a line that is there.  The offset stands
\* within a line only if that does not fit a window, or was begun before the reader
\* followed the content.
SkippedWasLong ==
  /\ since.line <= lastLine
  /\ /\ offsets # Untracked /\ ~Outdated /\ offsets.offset > 0
     /\ content[offsets.offset] # NL /\ content[offsets.offset] > since.line
     => MaxReadBytes <= ByteCount(content, content[offsets.offset])

CutInv == OnlyLongLinesAreCut /\ SkippedWasLong

LEMMA CutInit == Init => CutInv
<1>. SUFFICES ASSUME Init PROVE CutInv
  OBVIOUS
<1>1. lines = << >> /\ DOMAIN lines = {} /\ since.line = 0 /\ lastLine = 0 /\ offsets = Untracked
  BY DEF Init
<1>. QED
  BY <1>1 DEF CutInv, OnlyLongLinesAreCut, SkippedWasLong

\* The bytes of a line are finitely many places of the content.
LEMMA BytesFinite ==
  ASSUME NEW c \in Seq(Nat), NEW n
  PROVE  /\ DOMAIN c = 1 .. Len(c)
         /\ IsFiniteSet({i \in 1 .. Len(c) : c[i] = n})
         /\ ByteCount(c, n) = Cardinality({i \in 1 .. Len(c) : c[i] = n})
         /\ ByteCount(c, n) \in Nat
<1>1. DOMAIN c = 1 .. Len(c) /\ 1 \in Int /\ Len(c) \in Int
  OBVIOUS
<1>2. IsFiniteSet(1 .. Len(c))
  BY <1>1, FS_Interval, Zenon
<1>3. IsFiniteSet({i \in 1 .. Len(c) : c[i] = n})
  BY <1>2, FS_Subset
<1>. QED
  BY <1>1, <1>3, FS_CardinalityType DEF ByteCount

\* A line only grows when something is written.
LEMMA LinesGrow ==
  ASSUME NEW c \in Seq(Nat), NEW d \in Seq(Nat), Len(c) <= Len(d),
         \A i \in 1 .. Len(c) : d[i] = c[i], NEW n
  PROVE  ByteCount(c, n) <= ByteCount(d, n)
<1> DEFINE A == {i \in 1 .. Len(c) : c[i] = n}
           B == {i \in 1 .. Len(d) : d[i] = n}
<1>1. ByteCount(c, n) = Cardinality(A) /\ ByteCount(d, n) = Cardinality(B) /\ IsFiniteSet(B)
  BY BytesFinite, Zenon
<1>2. A \subseteq B
  BY DEF A, B
<1>3. Cardinality(A) <= Cardinality(B)
  <2>. HIDE DEF A, B
  <2>. QED
    BY <1>1, <1>2, FS_Subset
<1>. QED
  BY <1>1, <1>3

\* A full window without a newline is a part of one line.
LEMMA SkippedSame ==
  ASSUME TailInv, toRead > 0, Newlines = {}, Len(Window) >= MaxReadBytes
  PROVE  /\ Len(Window) > 0
         /\ \A p \in offsets.offset + 1 .. offsets.offset + Len(Window) :
              content[p] = content[offsets.offset + Len(Window)]
<1> DEFINE o == offsets.offset
           N == Len(Window)
           n == content[o + N]
<1>1. /\ content \in Seq(Nat) /\ Ordered(content) /\ o \in Nat /\ Len(content) \in Nat
  BY DEF TailInv, TailTyped, FileInv
<1>2. /\ N \in Nat /\ DOMAIN Window = 1 .. N
      /\ \A j \in 1 .. N : o + j \in 1 .. Len(content) /\ Window[j] = content[o + j]
  BY WindowShows
<1>3. MaxReadBytes \in Nat \ {0} /\ MaxReadBytes <= N /\ N > 0 /\ N \in 1 .. N
  BY <1>2, TailAssumption
<1>4. \A j \in 1 .. N : content[o + j] # NL
  BY <1>2 DEF Newlines
<1>5. ASSUME NEW j \in 1 .. N PROVE content[o + j] = n
  <2>1. CASE j = N
    BY <2>1
  <2>2. CASE j # N
    <3>1. /\ o + j \in 1 .. Len(content) /\ o + N \in 1 .. Len(content) /\ o + j < o + N
          /\ content[o + j] # NL /\ content[o + N] # NL
      <4>1. /\ o + j \in 1 .. Len(content) /\ o + N \in 1 .. Len(content)
            /\ content[o + j] # NL /\ content[o + N] # NL
        BY <1>2, <1>3, <1>4
      <4>. HIDE DEF o, N
      <4>2. o + j < o + N
        BY <1>1, <1>2, <2>2
      <4>. QED
        BY <4>1, <4>2
    <3>2. ASSUME NEW k \in (o + j) + 1 .. (o + N) - 1 PROVE content[k] # NL
      <4>. HIDE DEF o, N
      <4>1. k - o \in 1 .. N /\ o + (k - o) = k
        BY <1>1, <1>2
      <4>. QED
        BY <1>4, <4>1
    <3>. QED
      BY <1>1, <3>1, <3>2 DEF Ordered
  <2>. QED
    BY <2>1, <2>2
<1>6. ASSUME NEW p \in o + 1 .. o + N PROVE content[p] = n
  <2>1. p - o \in 1 .. N /\ o + (p - o) = p
    <3>. HIDE DEF o, N
    <3>. QED
      BY <1>1, <1>2
  <2>. QED
    BY <1>5, <2>1
<1>. QED
  BY <1>3, <1>6

\* What is skipped is a part of one line, as long as a window.
LEMMA SkippedBytes ==
  ASSUME TailInv, toRead > 0, Newlines = {}, Len(Window) >= MaxReadBytes
  PROVE  MaxReadBytes <= ByteCount(content, content[offsets.offset + Len(Window)])
<1> DEFINE o == offsets.offset
           N == Len(Window)
           n == content[o + N]
           A == {i \in 1 .. Len(content) : content[i] = n}
           f == [j \in 1 .. N |-> o + j]
<1>1. /\ content \in Seq(Nat) /\ Ordered(content) /\ o \in Nat /\ Len(content) \in Nat
  BY DEF TailInv, TailTyped, FileInv
<1>2. /\ N \in Nat /\ DOMAIN Window = 1 .. N
      /\ \A j \in 1 .. N : o + j \in 1 .. Len(content) /\ Window[j] = content[o + j]
  BY WindowShows
<1>3. MaxReadBytes \in Nat \ {0} /\ MaxReadBytes <= N /\ N > 0 /\ N \in 1 .. N
  BY <1>2, TailAssumption
<1>4. \A p \in o + 1 .. o + N : content[p] = n
  BY SkippedSame
<1>5. ASSUME NEW j \in 1 .. N PROVE content[o + j] = n
  <2>1. o + j \in o + 1 .. o + N
    <3>. HIDE DEF o, N
    <3>. QED
      BY <1>1, <1>2
  <2>. QED
    BY <1>4, <2>1
<1>6. f \in Injection(1 .. N, A)
  <2>1. f \in [1 .. N -> A]
    BY <1>2, <1>5
  <2>2. ASSUME NEW a \in 1 .. N, NEW b \in 1 .. N, f[a] = f[b] PROVE a = b
    BY <1>1, <1>2, <2>2
  <2>. HIDE DEF f, A
  <2>. QED
    BY <2>1, <2>2, Fun_IsInj
<1>7. IsFiniteSet(A) /\ ByteCount(content, n) = Cardinality(A) /\ ByteCount(content, n) \in Nat
  <2>. HIDE DEF n
  <2>. QED
    BY <1>1, BytesFinite
<1>8. Cardinality(1 .. N) = N
  <2>1. 1 \in Int /\ N \in Int
    BY <1>2
  <2>2. Cardinality(1 .. N) = IF 1 > N THEN 0 ELSE N - 1 + 1
    BY <2>1, FS_Interval, Zenon
  <2>. QED
    BY <1>2, <2>2
<1>9. Cardinality(1 .. N) <= Cardinality(A)
  <2>. HIDE DEF f, A, N
  <2>. QED
    BY <1>6, <1>7, FS_Injection
<1>. QED
  BY <1>3, <1>7, <1>8, <1>9

\* Between two bytes of a line are only bytes of the line.
LEMMA SameLine ==
  ASSUME NEW c \in Seq(Nat), Ordered(c), NEW p \in 1 .. Len(c), NEW q \in 1 .. Len(c), q < p,
         c[q] = c[p], c[p] # NL, NEW o \in q .. p
  PROVE  o \in 1 .. Len(c) /\ c[o] = c[p]
<1>1. Len(c) \in Nat /\ o \in 1 .. Len(c) /\ c[o] \in Nat /\ c[p] \in Nat
  OBVIOUS
<1>2. CASE o = q \/ o = p
  BY <1>1, <1>2
<1>3. CASE o # q /\ o # p
  <2>1. q < o /\ o < p /\ o \in q + 1 .. p - 1
    BY <1>1, <1>3
  <2>2. c[o] # NL
    BY <2>1 DEF Ordered
  <2>3. c[q] <= c[o] /\ c[o] <= c[p]
    BY <1>1, <2>1, <2>2 DEF Ordered
  <2>. QED
    BY <1>1, <2>3
<1>. QED
  BY <1>2, <1>3

\* A line that is shorter than a window, and was begun after the reader followed the
\* content, is whole in the window in which it ends.
LEMMA WholeInWindow ==
  ASSUME TailInv, SkippedWasLong, toRead > 0, Newlines # {}, ~Outdated, NEW k \in 1 .. Len(Kept),
         Kept[k] > since.line, BytesOf(Kept[k]) < MaxReadBytes
  PROVE  BytesInWindow(Kept[k]) = BytesOf(Kept[k])
<1> DEFINE o == offsets.offset
           N == Len(Window)
           n == Kept[k]
           A == {i \in 1 .. Len(content) : content[i] = n}
           B == {i \in 1 .. N : Window[i] = n}
           f == [j \in B |-> o + j]
<1>1. /\ content \in Seq(Nat) /\ Ordered(content) /\ o \in Nat /\ Len(content) \in Nat
      /\ \A i \in 1 .. Len(content) : content[i] \in Nat
  BY DEF TailInv, TailTyped, FileInv
<1>2. /\ N \in Nat /\ DOMAIN Window = 1 .. N
      /\ \A j \in 1 .. N : o + j \in 1 .. Len(content) /\ Window[j] = content[o + j]
  BY WindowShows
<1>3. CompleteBytes \in 1 .. N
  BY LastNewline
<1>4. PICK p \in 1 .. Len(content) :
        /\ o < p /\ p < o + CompleteBytes
        /\ content[p] = n /\ content[p] # NL
        /\ p + 1 \in 1 .. Len(content) /\ content[p + 1] = NL
  BY KeptEnds, Zenon
<1>5. offsets # Untracked
  BY DEF TailInv, Placed
<1>6. ASSUME NEW q \in 1 .. Len(content), content[q] = n
      PROVE  q - o \in 1 .. N /\ o + (q - o) = q
  <2>. HIDE DEF o, N, n
  <2>1. q \in Nat /\ p \in Nat /\ N \in Nat /\ o \in Nat
    BY <1>1, <1>2
  <2>2. q <= p
    <3>1. SUFFICES ASSUME p < q PROVE FALSE
      BY <2>1
    <3>2. q # p + 1
      BY <1>4, <1>6
    <3>3. p < p + 1 /\ p + 1 < q
      BY <2>1, <3>1, <3>2
    <3>4. content[p] < content[q]
      BY <1>1, <1>4, <1>6, <3>3, NewlineBetween
    <3>5. content[p] = content[q] /\ content[p] \in Nat
      BY <1>1, <1>4, <1>6
    <3>. QED
      BY <3>4, <3>5
  <2>3. o < q
    <3>1. SUFFICES ASSUME q <= o PROVE FALSE
      BY <2>1
    <3>2. o \in q .. p /\ q < p /\ o > 0
      BY <1>4, <2>1, <3>1
    <3>3. content[o] = content[p] /\ content[q] = content[p]
      BY <1>1, <1>4, <1>6, <3>2, SameLine
    <3>4. MaxReadBytes <= ByteCount(content, n)
      <4>1. content[offsets.offset] = n /\ offsets.offset > 0
        BY <1>4, <3>2, <3>3 DEF o
      <4>. QED
        BY <1>4, <1>5, <4>1 DEF SkippedWasLong, n
    <3>5. /\ ByteCount(content, n) \in Nat /\ MaxReadBytes \in Nat
          /\ ByteCount(content, n) < MaxReadBytes
      BY <1>1, BytesFinite, TailAssumption DEF n, BytesOf, ByteCount
    <3>. QED
      BY <3>4, <3>5
  <2>4. CompleteBytes \in Nat /\ CompleteBytes <= N /\ p < o + CompleteBytes
    BY <1>2, <1>3, <1>4
  <2>. QED
    BY <2>1, <2>2, <2>3, <2>4
<1>7. f \in Bijection(B, A)
  <2>1. f \in [B -> A]
    BY <1>2
  <2>2. ASSUME NEW a \in B, NEW b \in B, f[a] = f[b] PROVE a = b
    BY SMTT(30), <1>1, <1>2, <2>2
  <2>3. ASSUME NEW q \in A PROVE \E j \in B : f[j] = q
    <3>1. q \in 1 .. Len(content) /\ content[q] = n
      OBVIOUS
    <3>2. q - o \in 1 .. N /\ o + (q - o) = q
      BY <1>6, <3>1
    <3>3. f[q - o] = q /\ q - o \in B
      BY <1>2, <3>1, <3>2
    <3>. QED
      BY <3>3, Zenon
  <2>. HIDE DEF f, A, B
  <2>. QED
    BY <2>1, <2>2, <2>3, Fun_IsBij
<1>8. IsFiniteSet(B)
  <2>1. IsFiniteSet(1 .. N)
    <3>1. 1 \in Int /\ N \in Int
      BY <1>2
    <3>. QED
      BY <3>1, FS_Interval, Zenon
  <2>. QED
    BY <2>1, FS_Subset
<1>9. Cardinality(A) = Cardinality(B)
  <2>1. ExistsBijection(B, A)
    BY <1>7 DEF ExistsBijection
  <2>. HIDE DEF A, B
  <2>. QED
    BY <1>8, <2>1, FS_Bijection
<1>10. BytesOf(n) = Cardinality(A) /\ BytesInWindow(n) = Cardinality(B)
  <2>1. ByteCount(content, n) = Cardinality(A)
    BY <1>1, BytesFinite, Zenon
  <2>. QED
    BY <1>2, <2>1 DEF BytesInWindow, BytesOf, ByteCount
<1>. QED
  BY <1>9, <1>10

\* Every step of the writer, of the tool that rotates and of the reader keeps that.
LEMMA CutStep ==
  ASSUME TailInv, TailInv', CutInv, [Next]_vars
  PROVE  CutInv'
<1>0. /\ content \in Seq(Nat) /\ Len(content) \in Nat
      /\ lastLine \in Nat /\ offsets \in [inode : Int, offset : Nat]
      /\ since \in [replaced : Nat, line : Nat] /\ replaced \in Nat
      /\ lines \in Seq(Delivered) /\ Len(lines) \in Nat /\ DOMAIN lines = 1 .. Len(lines)
      /\ \A p \in 1 .. Len(content) : content[p] \in Nat /\ content[p] <= lastLine
      /\ MaxReadBytes \in Nat
  <2>1. /\ content \in Seq(Nat) /\ lastLine \in Nat /\ offsets \in [inode : Int, offset : Nat]
        /\ since \in [replaced : Nat, line : Nat] /\ replaced \in Nat
        /\ lines \in Seq(Delivered)
        /\ \A i \in 1 .. Len(content) : content[i] <= lastLine
    BY DEF TailInv, TailTyped, FileInv
  <2>2. Len(lines) \in Nat /\ DOMAIN lines = 1 .. Len(lines)
    BY <2>1
  <2>3. Len(content) \in Nat /\ \A p \in 1 .. Len(content) : content[p] \in Nat
    BY <2>1
  <2>. QED
    BY <2>1, <2>2, <2>3, TailAssumption
<1>1. CASE WriteByte \/ EndLine
  <2>1. /\ content' \in Seq(Nat) /\ lastLine' \in Nat
        /\ UNCHANGED <<inode, replaced>>
        /\ Len(content') = Len(content) + 1
        /\ \A i \in 1 .. Len(content) : content'[i] = content[i]
        /\ content'[Len(content')] # NL =>
              /\ content'[Len(content')] = IF AtLineStart THEN lastLine + 1 ELSE lastLine
              /\ lastLine' = content'[Len(content')]
        /\ content'[Len(content')] = NL => ~AtLineStart /\ lastLine' = lastLine
    BY <1>1, WriteKeepsFile DEF TailInv
  <2>2. UNCHANGED <<offsets, toRead, lines, truncatedLines, since>>
    BY <1>1 DEF WriteByte, EndLine, readerVars
  <2>3. since'.line <= lastLine'
    BY <1>0, <2>1, <2>2 DEF CutInv, SkippedWasLong
  <2>4. ASSUME offsets # Untracked, ~Outdated', offsets.offset > 0,
               content'[offsets.offset] # NL, content'[offsets.offset] > since.line
        PROVE  MaxReadBytes <= ByteCount(content', content'[offsets.offset])
    <3>1. ~Outdated
      BY <2>1, <2>2, <2>4 DEF Outdated
    <3>2. offsets.offset \in 1 .. Len(content)
      BY <1>0, <2>4, <3>1 DEF TailInv, Placed
    <3>3. content'[offsets.offset] = content[offsets.offset]
      BY <2>1, <3>2
    <3>4. MaxReadBytes <= ByteCount(content, content[offsets.offset])
      BY <2>4, <3>1, <3>3 DEF CutInv, SkippedWasLong
    <3>5. Len(content) <= Len(content')
      BY <1>0, <2>1
    <3>6. \A n : /\ ByteCount(content, n) <= ByteCount(content', n)
                 /\ ByteCount(content, n) \in Nat /\ ByteCount(content', n) \in Nat
      BY <1>0, <2>1, <3>5, LinesGrow, BytesFinite
    <3>. QED
      BY <1>0, <3>3, <3>4, <3>6
  <2>5. OnlyLongLinesAreCut'
    BY <2>2 DEF CutInv, OnlyLongLinesAreCut
  <2>. QED
    BY <2>2, <2>3, <2>4, <2>5 DEF CutInv, SkippedWasLong
<1>2. CASE Truncate \/ MoveAway
  <2>1. /\ replaced' = replaced + 1 /\ lastLine' = lastLine
        /\ UNCHANGED <<offsets, toRead, lines, truncatedLines, since>>
    BY <1>2 DEF Truncate, MoveAway, readerVars
  <2>2. offsets' # Untracked => Outdated'
    BY <1>0, <2>1 DEF TailInv, Placed, Outdated
  <2>. QED
    BY <2>1, <2>2 DEF CutInv, OnlyLongLinesAreCut, SkippedWasLong
<1>3. CASE Create
  <2>1. UNCHANGED <<content, lastLine, replaced, offsets, toRead, lines, truncatedLines, since>>
    BY <1>3 DEF Create, readerVars
  <2>. QED
    BY <2>1 DEF CutInv, OnlyLongLinesAreCut, SkippedWasLong, Outdated
<1>4. ASSUME NEW offset \in Nat, SetOffset(offset), UNCHANGED <<fileVars, lines>>,
             offset \in {0, Len(content)}
      PROVE  CutInv'
  <2>1. /\ offsets'.offset = offset /\ since'.line = IF offset = 0 THEN 0 ELSE lastLine
        /\ content' = content /\ lastLine' = lastLine /\ lines' = lines
    BY <1>4 DEF SetOffset, fileVars
  <2>2. since'.line <= lastLine'
    BY <1>0, <2>1
  <2>3. offset > 0 => ~(content[offset] > lastLine)
    BY <1>0, <1>4
  <2>4. offset > 0 => ~(content'[offsets'.offset] > since'.line)
    BY <1>0, <2>1, <2>3
  <2>. QED
    BY <2>1, <2>2, <2>4 DEF CutInv, OnlyLongLinesAreCut, SkippedWasLong
<1>5. CASE StartAtEnd
  BY <1>0, <1>4, <1>5 DEF StartAtEnd
<1>6. CASE SeekFails
  BY <1>0, <1>4, <1>6 DEF SeekFails
<1>7. ASSUME UNCHANGED <<fileVars, lines, offsets, since>> PROVE CutInv'
  BY <1>7 DEF CutInv, OnlyLongLinesAreCut, SkippedWasLong, Outdated, fileVars
<1>8. CASE StatFile
  <2>1. CASE Rotated \/ offsets.offset = 0
    BY <1>4, <1>8, <2>1 DEF StatFile
  <2>2. CASE ~(Rotated \/ offsets.offset = 0)
    BY <1>7, <1>8, <2>2 DEF StatFile
  <2>. QED
    BY <2>1, <2>2
<1>9. CASE ReadNothing
  BY <1>7, <1>9 DEF ReadNothing
<1>10. CASE SkipLongLine
  <2>1. /\ UNCHANGED <<fileVars, lines>> /\ toRead > 0 /\ Newlines = {}
        /\ Len(Window) >= MaxReadBytes
        /\ offsets' = [offsets EXCEPT !.offset = offsets.offset + Len(Window)]
        /\ FollowFromHere(1) /\ 1 \in Nat
    BY <1>10 DEF SkipLongLine
  <2>2. offsets'.offset = offsets.offset + Len(Window)
    BY <1>0, <2>1
  <2>3. MaxReadBytes <= ByteCount(content, content[offsets.offset + Len(Window)])
    BY <2>1, SkippedBytes
  <2>4. since' = since \/ since'.line = lastLine
    BY <2>1, FollowedFrom, Zenon
  <2>5. content' = content /\ lastLine' = lastLine /\ lines' = lines /\ since'.line <= lastLine
    BY <1>0, <2>1, <2>4 DEF fileVars, CutInv, SkippedWasLong
  <2>6. MaxReadBytes <= ByteCount(content', content'[offsets'.offset])
    BY <2>2, <2>3, <2>5
  <2>. QED
    BY <2>5, <2>6 DEF CutInv, OnlyLongLinesAreCut, SkippedWasLong
<1>11. CASE DeliverLines
  <2>1. /\ UNCHANGED <<inode, content, lastLine, replaced>>
        /\ offsets' = [offsets EXCEPT !.offset = offsets.offset + CompleteBytes]
        /\ FollowFromHere(NotWhole)
    BY <1>11 DEF DeliverLines, fileVars
  <2>2. /\ toRead > 0 /\ Newlines # {}
        /\ Len(Kept) \in Nat /\ Len(lines) \in Nat
        /\ Len(lines') = Len(lines) + Len(Kept)
        /\ \A i \in 1 .. Len(lines) : lines'[i] = lines[i]
        /\ \A i \in 1 .. Len(Kept) :
             /\ lines'[Len(lines) + i] = Delivery(Kept[i])
             /\ lines'[Len(lines) + i].line = Kept[i]
        /\ \A i, j \in 1 .. Len(Kept) : i < j => Kept[i] < Kept[j]
    BY <1>11, Appended
  <2>3. content'[offsets'.offset] = NL
    <3>1. CompleteBytes \in Newlines /\ CompleteBytes \in 1 .. Len(Window)
      BY <2>2, LastNewline
    <3>2. Window[CompleteBytes] = content[offsets.offset + CompleteBytes]
      BY <2>2, <3>1, WindowShows
    <3>3. offsets'.offset = offsets.offset + CompleteBytes
      BY <1>0, <2>1
    <3>. QED
      BY <2>1, <3>1, <3>2, <3>3 DEF Newlines
  <2>4. ASSUME NEW k \in 1 .. Len(Kept), Delivery(Kept[k]).followed,
               Delivery(Kept[k]).of < MaxReadBytes
        PROVE  Delivery(Kept[k]).bytes = Min({Delivery(Kept[k]).of, MaxLineLength})
    <3>1. Kept[k] > since.line /\ ~Outdated /\ BytesOf(Kept[k]) < MaxReadBytes
      BY <2>4 DEF Delivery
    <3>2. BytesInWindow(Kept[k]) = BytesOf(Kept[k])
      BY <2>2, <3>1, WholeInWindow DEF CutInv
    <3>. QED
      BY <3>2 DEF Delivery
  <2>5. ASSUME NEW i \in 1 .. Len(lines'), lines'[i].followed, lines'[i].of < MaxReadBytes
        PROVE  lines'[i].bytes = Min({lines'[i].of, MaxLineLength})
    <3>1. CASE i \in 1 .. Len(lines)
      <4>1. lines'[i] = lines[i] /\ i \in DOMAIN lines
        BY <1>0, <2>2, <3>1
      <4>. QED
        BY <2>5, <4>1, Zenon DEF CutInv, OnlyLongLinesAreCut
    <3>2. CASE i \notin 1 .. Len(lines)
      <4>1. i - Len(lines) \in 1 .. Len(Kept) /\ i = Len(lines) + (i - Len(lines))
        BY <2>2, <3>2
      <4>2. lines'[i] = Delivery(Kept[i - Len(lines)])
        BY <2>2, <4>1
      <4>. QED
        BY <2>4, <2>5, <4>1, <4>2, Zenon
    <3>. QED
      BY <3>1, <3>2
  <2>6. OnlyLongLinesAreCut'
    <3>1. DOMAIN lines' = 1 .. Len(lines')
      BY DEF TailInv, TailTyped
    <3>. QED
      BY <2>5, <3>1, Zenon DEF OnlyLongLinesAreCut
  <2>7. since'.line <= lastLine'
    <3>1. since' = since \/ since'.line = lastLine
      BY <2>1, <2>2, HandedOver, FollowedFrom, Zenon
    <3>. QED
      BY <1>0, <2>1, <3>1 DEF CutInv, SkippedWasLong
  <2>. QED
    BY <2>1, <2>3, <2>6, <2>7 DEF CutInv, SkippedWasLong
<1>12. CASE RestartAgent
  BY <1>12 DEF RestartAgent, CutInv, OnlyLongLinesAreCut, SkippedWasLong, fileVars
<1>13. CASE UNCHANGED vars
  BY <1>7, <1>13 DEF vars, readerVars
<1>. QED
  BY <1>1, <1>2, <1>3, <1>5, <1>6, <1>8, <1>9, <1>10, <1>11, <1>12, <1>13 DEF Next

\* read() hands a line over whole, but for its first maxLineLength bytes, however it is
\* written and wherever the windows end: unless it does not fit a window, or the reader
\* began to follow the file in the middle of it.
THEOREM OnlyLongLinesCut == Spec => []OnlyLongLinesAreCut
<1>1. TailInv /\ TailInv' /\ CutInv /\ [Next]_vars => CutInv'
  BY CutStep
<1>2. CutInv => OnlyLongLinesAreCut
  BY DEF CutInv
<1>. QED
  BY <1>1, <1>2, CutInit, TailKept, PTL DEF Spec

-----------------------------------------------------------------------------
(* What is not handed over is counted *)

\* The lines after from with a byte among the first o of c that are not in ls.
Missed(c, o, from, ls) ==
  {n \in Nat \ {NL} :
     /\ n > from
     /\ \E p \in 1 .. o : p <= Len(c) /\ c[p] = n
     /\ \A i \in 1 .. Len(ls) : ls[i].line # n}

MissedNow == Missed(content, offsets.offset, since.line, lines)

LostInv == ~Outdated => Cardinality(MissedNow) <= truncatedLines

\* They are finitely many, if the lines of c are numbered up to last.
LEMMA MissedFinite ==
  ASSUME NEW c \in Seq(Nat), NEW last \in Nat, \A p \in 1 .. Len(c) : c[p] <= last,
         NEW o \in Nat, NEW from \in Nat, NEW ls
  PROVE  IsFiniteSet(Missed(c, o, from, ls)) /\ Cardinality(Missed(c, o, from, ls)) \in Nat
<1>1. Missed(c, o, from, ls) \subseteq 1 .. last
  <2>1. SUFFICES ASSUME NEW n \in Missed(c, o, from, ls) PROVE n \in 1 .. last
    OBVIOUS
  <2>2. n \in Nat /\ n # 0 /\ \E p \in 1 .. o : p <= Len(c) /\ c[p] = n
    BY Zenon DEF Missed, NL
  <2>3. PICK p \in 1 .. o : p <= Len(c) /\ c[p] = n
    BY <2>2
  <2>4. Len(c) \in Nat /\ p \in 1 .. Len(c)
    BY <2>3
  <2>5. n <= last
    BY <2>3, <2>4
  <2>. QED
    BY <2>2, <2>5
<1>2. IsFiniteSet(1 .. last)
  <2>1. 1 \in Int /\ last \in Int
    OBVIOUS
  <2>. QED
    BY <2>1, FS_Interval, Zenon
<1>3. IsFiniteSet(Missed(c, o, from, ls))
  BY <1>1, <1>2, FS_Subset
<1>. QED
  BY <1>3, FS_CardinalityType

\* What NothingLostSilently counts.
LEMMA MissedIs ==
  ASSUME TailInv, ~Outdated
  PROVE  {n \in ToSet(SubSeq(content, 1, offsets.offset)) \ {NL} : n > since.line}
           \ {lines[i].line : i \in DOMAIN lines} = MissedNow
<1> DEFINE o == offsets.offset
           s == SubSeq(content, 1, o)
<1>1. /\ content \in Seq(Nat) /\ Len(content) \in Nat /\ o \in Nat
      /\ DOMAIN lines = 1 .. Len(lines)
      /\ \A p \in 1 .. Len(content) : content[p] \in Nat
  BY DEF TailInv, TailTyped
<1>2. o <= Len(content)
  <2>1. CASE offsets = Untracked
    BY <1>1, <2>1 DEF Untracked
  <2>2. CASE offsets # Untracked
    BY <2>2 DEF TailInv, Placed
  <2>. QED
    BY <2>1, <2>2
<1>3. Len(s) = o /\ DOMAIN s = 1 .. o /\ \A p \in 1 .. o : s[p] = content[p]
  <2>. HIDE DEF o
  <2>1. \A i \in 1 .. o : content[i] \in Nat
    BY <1>1, <1>2
  <2>2. /\ s \in Seq(Nat)
        /\ Len(s) = IF 1 <= o THEN o - 1 + 1 ELSE 0
        /\ \A i \in 1 .. o - 1 + 1 : s[i] = content[1 + i - 1]
    BY <1>1, <2>1, SubSeqProperties
  <2>. HIDE DEF s
  <2>3. Len(s) = o
    BY <1>1, <2>2
  <2>4. \A p \in 1 .. o : s[p] = content[p]
    BY <1>1, <2>2
  <2>. QED
    BY <2>2, <2>3, <2>4
<1>. HIDE DEF s
<1>4. ToSet(s) = {s[p] : p \in DOMAIN s}
  BY DEF ToSet
<1>5. ASSUME NEW n
      PROVE  n \in ToSet(s) <=> n \in Nat /\ \E p \in 1 .. o : p <= Len(content) /\ content[p] = n
  <2>. HIDE DEF o
  <2>1. \A p \in 1 .. o : p <= Len(content) /\ content[p] \in Nat
    BY <1>1, <1>2
  <2>2. n \in ToSet(s) <=> \E p \in 1 .. o : content[p] = n
    BY <1>3, <1>4
  <2>. QED
    BY <2>1, <2>2
<1>6. ASSUME NEW n
      PROVE  n \in {lines[i].line : i \in DOMAIN lines} <=> \E i \in 1 .. Len(lines) : lines[i].line = n
  BY <1>1
<1>. QED
  BY <1>5, <1>6 DEF MissedNow, Missed, s

\* The bound on what was missed is what NothingLostSilently says.
LEMMA LostImplies ==
  ASSUME TailInv, LostInv
  PROVE  NothingLostSilently
<1>1. CASE Outdated
  BY <1>1 DEF NothingLostSilently
<1>2. CASE ~Outdated
  BY <1>2, MissedIs, Zenon DEF NothingLostSilently, LostInv
<1>. QED
  BY <1>1, <1>2

\* Nothing is missed of a content of which nothing was passed.
LEMMA NothingMissed ==
  ASSUME NEW c \in Seq(Nat), NEW o \in Nat, NEW from \in Nat, NEW ls,
         o = 0 \/ \A p \in 1 .. Len(c) : c[p] <= from
  PROVE  Cardinality(Missed(c, o, from, ls)) = 0
<1>1. Missed(c, o, from, ls) = {}
  <2>1. SUFFICES ASSUME NEW n \in Missed(c, o, from, ls) PROVE FALSE
    OBVIOUS
  <2>2. n \in Nat /\ n > from /\ \E p \in 1 .. o : p <= Len(c) /\ c[p] = n
    BY Zenon DEF Missed
  <2>3. PICK p \in 1 .. o : p <= Len(c) /\ c[p] = n
    BY <2>2
  <2>4. Len(c) \in Nat /\ p \in 1 .. Len(c) /\ o # 0
    BY <2>3
  <2>. QED
    BY <2>2, <2>3, <2>4
<1>. QED
  BY <1>1, FS_EmptySet

Named(e, n) == \E k \in 1 .. Len(e) : e[k] = n

\* A line that has a byte before a newline of the window ends in the window.
LEMMA EndsBefore ==
  ASSUME NEW w \in Seq(Nat), Ordered(w), NEW e, Lists(e, w, Len(w)),
         NEW j \in 1 .. Len(w), w[j] # NL, NEW m \in 1 .. Len(w), w[m] = NL, j < m
  PROVE  Named(e, w[j])
<1> DEFINE S == {i \in j .. m : w[i] = NL}
<1>0. Len(w) \in Nat /\ \A i \in 1 .. Len(w) : w[i] \in Nat
  OBVIOUS
<1>1. S \in SUBSET Int /\ m \in S /\ \A x \in S : j <= x
  BY <1>0
<1>2. PICK l \in S : \A x \in S : l <= x
  <2>1. j \in Int /\ S # {}
    BY SMTT(30), <1>0, <1>1
  <2>. HIDE DEF S
  <2>. QED
    BY <1>1, <2>1, LeastElement, Zenon
<1>3. /\ l \in j .. m /\ w[l] = NL /\ l # j
      /\ \A i \in j .. l - 1 : w[i] # NL
  <2>1. l \in j .. m /\ w[l] = NL /\ l # j
    BY <1>2
  <2>2. ASSUME NEW i \in j .. l - 1, w[i] = NL PROVE FALSE
    <3>1. i \in j .. m /\ ~(l <= i)
      BY <1>0, <2>1
    <3>. QED
      BY <1>2, <2>2, <3>1
  <2>. QED
    BY <2>1, <2>2
<1>4. /\ l - 1 \in 1 .. Len(w) /\ l - 1 \in j .. l - 1 /\ (l - 1) + 1 = l /\ l \in 1 .. Len(w)
  BY <1>0, <1>3
<1>5. EndOf(w, l - 1)
  BY <1>3, <1>4 DEF EndOf
<1>6. w[l - 1] = w[j]
  <2>1. CASE l - 1 = j
    BY <2>1
  <2>2. CASE l - 1 # j
    <3>1. j < l - 1 /\ \A k \in j + 1 .. (l - 1) - 1 : k \in j .. l - 1
      BY <1>0, <1>4, <2>2
    <3>2. w[l - 1] # NL
      BY <1>3, <1>4
    <3>3. w[j] = w[l - 1] <=> \A k \in j + 1 .. (l - 1) - 1 : w[k] # NL
      BY <1>4, <3>1, <3>2 DEF Ordered
    <3>. QED
      BY <1>3, <3>1, <3>3
  <2>. QED
    BY <2>1, <2>2
<1>7. \E k \in 1 .. Len(e) : e[k] = w[l - 1]
  BY <1>4, <1>5, Zenon DEF Lists
<1>. QED
  BY <1>6, <1>7 DEF Named

\* A sequence has no more values from its place a on than places.
LEMMA FewValues ==
  ASSUME NEW e, NEW a \in Nat, NEW b \in Nat, a <= b
  PROVE  /\ IsFiniteSet({e[k] : k \in a + 1 .. b})
         /\ Cardinality({e[k] : k \in a + 1 .. b}) \in Nat
         /\ Cardinality({e[k] : k \in a + 1 .. b}) <= b - a
<1> DEFINE T == {e[k] : k \in a + 1 .. b}
           f == [k \in a + 1 .. b |-> e[k]]
<1>1. f \in Surjection(a + 1 .. b, T)
  <2>1. f \in [a + 1 .. b -> T]
    OBVIOUS
  <2>2. \A t \in T : \E k \in a + 1 .. b : f[k] = t
    BY Zenon
  <2>. HIDE DEF f, T
  <2>. QED
    BY <2>1, <2>2, Fun_IsSurj
<1>2. IsFiniteSet(a + 1 .. b) /\ Cardinality(a + 1 .. b) = b - a
  <2>1. a + 1 \in Int /\ b \in Int
    OBVIOUS
  <2>2. /\ IsFiniteSet(a + 1 .. b)
        /\ Cardinality(a + 1 .. b) = IF a + 1 > b THEN 0 ELSE b - (a + 1) + 1
    BY <2>1, FS_Interval, Zenon
  <2>. QED
    BY <2>2
<1>3. IsFiniteSet(T) /\ Cardinality(T) <= Cardinality(a + 1 .. b)
  <2>. HIDE DEF f, T
  <2>. QED
    BY <1>1, <1>2, FS_Surjection
<1>. QED
  BY <1>2, <1>3, FS_CardinalityType

LEMMA LostInit == Init => LostInv
<1>. SUFFICES ASSUME Init PROVE LostInv
  OBVIOUS
<1>1. content = << >> /\ offsets = Untracked /\ since.line = 0 /\ truncatedLines = 0
  BY DEF Init
<1>2. content \in Seq(Nat) /\ offsets.offset = 0 /\ 0 \in Nat
  BY <1>1 DEF Untracked
<1>3. Cardinality(MissedNow) = 0
  BY ZenonT(60), <1>1, <1>2, NothingMissed DEF MissedNow
<1>. QED
  BY <1>1, <1>3 DEF LostInv

\* Of what a read passes, DeliverLines misses the lines beyond maxLinesPerRead.
LEMMA MissedByDelivery ==
  ASSUME TailInv, TailInv', DeliverLines, since' = since
  PROVE  MissedNow' \subseteq
           MissedNow \cup {Ended[k] : k \in Len(Kept) + 1 .. Len(Ended)}
<1>1. /\ UNCHANGED <<content, since>>
      /\ offsets' = [offsets EXCEPT !.offset = offsets.offset + CompleteBytes]
  BY DEF DeliverLines, fileVars
<1>2. /\ toRead > 0 /\ Newlines # {}
      /\ Len(Kept) \in Nat /\ Len(lines) \in Nat
      /\ Len(lines') = Len(lines) + Len(Kept)
      /\ \A i \in 1 .. Len(lines) : lines'[i] = lines[i]
      /\ \A i \in 1 .. Len(Kept) :
           /\ lines'[Len(lines) + i] = Delivery(Kept[i])
           /\ lines'[Len(lines) + i].line = Kept[i]
      /\ \A i, j \in 1 .. Len(Kept) : i < j => Kept[i] < Kept[j]
  BY Appended
<1> DEFINE o == offsets.offset
<1>3. o \in Nat /\ Len(content) \in Nat /\ offsets'.offset = o + CompleteBytes
  BY <1>1 DEF TailInv, TailTyped
<1>4. /\ Window \in Seq(Nat) /\ Len(Window) \in Nat /\ DOMAIN Window = 1 .. Len(Window)
      /\ \A i \in 1 .. Len(Window) : o + i \in 1 .. Len(content) /\ Window[i] = content[o + i]
      /\ Ordered(Window)
  BY <1>2, WindowShows, WindowOrdered
<1>5. /\ CompleteBytes \in 1 .. Len(Window) /\ Window[CompleteBytes] = NL
  BY <1>2, LastNewline DEF Newlines
<1>6. /\ Lists(Ended, Window, Len(Window))
      /\ \A i \in 1 .. Len(Kept) : Kept[i] = Ended[i]
      /\ Len(Ended) \in Nat
  BY <1>2, EndedLines, KeptLines
<1>. SUFFICES ASSUME NEW n \in MissedNow'
              PROVE  n \in MissedNow \/ \E k \in Len(Kept) + 1 .. Len(Ended) : n = Ended[k]
  OBVIOUS
<1>7. /\ n \in Nat \ {NL} /\ n > since.line
      /\ \E p \in 1 .. o + CompleteBytes : p <= Len(content) /\ content[p] = n
      /\ \A i \in 1 .. Len(lines') : lines'[i].line # n
  BY <1>1, <1>3, Zenon DEF MissedNow, Missed
<1>8. PICK p \in 1 .. o + CompleteBytes : p <= Len(content) /\ content[p] = n
  BY <1>7
<1>9. \A i \in 1 .. Len(lines) : lines[i].line # n
  <2>1. \A i \in 1 .. Len(lines) : i \in 1 .. Len(lines')
    BY <1>2
  <2>. QED
    BY <1>2, <1>7, <2>1
<1>10. CompleteBytes \in Nat /\ p \in Nat /\ CompleteBytes <= Len(Window)
  BY <1>3, <1>4, <1>5
<1>11. CASE p <= o
  <2>1. p \in 1 .. o
    BY <1>3, <1>10, <1>11
  <2>. QED
    BY <1>7, <1>8, <1>9, <2>1, Zenon DEF MissedNow, Missed, o
<1>12. CASE o < p
  <2>. HIDE DEF o
  <2>1. p - o \in 1 .. Len(Window) /\ o + (p - o) = p /\ p - o <= CompleteBytes
    BY <1>3, <1>4, <1>8, <1>10, <1>12
  <2>2. Window[p - o] = n
    BY <1>4, <1>8, <2>1
  <2>3. Window[p - o] # NL
    BY <1>7, <2>2
  <2>4. p - o # CompleteBytes
    BY <1>5, <2>3
  <2>5. p - o < CompleteBytes
    BY <1>3, <1>10, <2>1, <2>4
  <2>6. \E k \in 1 .. Len(Ended) : Ended[k] = Window[p - o]
    <3>1. ASSUME NEW j \in 1 .. Len(Window), Window[j] # NL, j < CompleteBytes
          PROVE  Named(Ended, Window[j])
      BY <1>4, <1>5, <1>6, <3>1, EndsBefore
    <3>. QED
      BY <2>1, <2>3, <2>5, <3>1, Zenon DEF Named
  <2>7. PICK k \in 1 .. Len(Ended) : Ended[k] = n
    BY <2>2, <2>6
  <2>8. k \notin 1 .. Len(Kept)
    <3>1. SUFFICES ASSUME k \in 1 .. Len(Kept) PROVE FALSE
      OBVIOUS
    <3>2. lines'[Len(lines) + k].line = n
      BY <1>2, <1>6, <2>7, <3>1
    <3>3. Len(lines) + k \in 1 .. Len(lines')
      BY <1>2, <3>1
    <3>. QED
      BY <1>7, <3>2, <3>3
  <2>9. k \in Len(Kept) + 1 .. Len(Ended)
    BY <1>2, <1>6, <2>8
  <2>. QED
    BY <2>7, <2>9, Zenon
<1>. QED
  BY <1>3, <1>10, <1>11, <1>12

\* Every step counts what it passes and does not hand over.
LEMMA LostStep ==
  ASSUME TailInv, TailInv', LostInv, [Next]_vars
  PROVE  LostInv'
<1>0. /\ content \in Seq(Nat) /\ Len(content) \in Nat /\ lastLine \in Nat
      /\ offsets \in [inode : Int, offset : Nat] /\ offsets.offset \in Nat
      /\ since \in [replaced : Nat, line : Nat] /\ since.line \in Nat /\ replaced \in Nat
      /\ truncatedLines \in Nat
      /\ \A p \in 1 .. Len(content) : content[p] <= lastLine
  <2>1. /\ content \in Seq(Nat) /\ lastLine \in Nat /\ offsets \in [inode : Int, offset : Nat]
        /\ since \in [replaced : Nat, line : Nat] /\ replaced \in Nat /\ truncatedLines \in Nat
        /\ \A p \in 1 .. Len(content) : content[p] <= lastLine
    BY DEF TailInv, TailTyped, FileInv
  <2>2. Len(content) \in Nat /\ offsets.offset \in Nat /\ since.line \in Nat
    BY <2>1
  <2>. QED
    BY <2>1, <2>2, Zenon
<1>1. CASE WriteByte \/ EndLine
  <2>1. /\ content' \in Seq(Nat) /\ UNCHANGED <<inode, replaced>>
        /\ Len(content') = Len(content) + 1
        /\ \A i \in 1 .. Len(content) : content'[i] = content[i]
    BY <1>1, WriteKeepsFile DEF TailInv
  <2>2. UNCHANGED <<offsets, toRead, lines, truncatedLines, since>>
    BY <1>1 DEF WriteByte, EndLine, readerVars
  <2>3. ASSUME ~Outdated' PROVE Cardinality(MissedNow') <= truncatedLines'
    <3>1. ~Outdated
      BY <2>1, <2>2, <2>3 DEF Outdated
    <3>2. offsets.offset <= Len(content)
      <4>1. CASE offsets = Untracked
        BY <1>0, <4>1 DEF Untracked
      <4>2. CASE offsets # Untracked
        BY <3>1, <4>2 DEF TailInv, Placed
      <4>. QED
        BY <4>1, <4>2
    <3>3. \A p \in 1 .. offsets.offset :
            p \in 1 .. Len(content) /\ p <= Len(content') /\ p <= Len(content)
      BY SMTT(30), <1>0, <2>1, <3>2
    <3>4. ASSUME NEW n
          PROVE  (\E p \in 1 .. offsets.offset : p <= Len(content') /\ content'[p] = n)
                   <=> \E p \in 1 .. offsets.offset : p <= Len(content) /\ content[p] = n
      BY <2>1, <3>3
    <3>5. MissedNow' = MissedNow
      BY <2>2, <3>4, Zenon DEF MissedNow, Missed
    <3>. QED
      BY <2>2, <3>1, <3>5 DEF LostInv
  <2>. QED
    BY <2>3 DEF LostInv
<1>2. CASE Truncate \/ MoveAway
  <2>1. /\ replaced' = replaced + 1 /\ content' = << >>
        /\ UNCHANGED <<offsets, toRead, lines, truncatedLines, since>>
    BY <1>2 DEF Truncate, MoveAway, readerVars
  <2>2. offsets' # Untracked => Outdated'
    BY <1>0, <2>1 DEF TailInv, Placed, Outdated
  <2>3. offsets = Untracked => Cardinality(MissedNow') = 0
    <3>1. SUFFICES ASSUME offsets = Untracked
                   PROVE  Cardinality(Missed(content', offsets.offset, since.line, lines)) = 0
      BY <2>1 DEF MissedNow
    <3>2. content' \in Seq(Nat) /\ offsets.offset = 0
      BY <2>1, <3>1 DEF Untracked
    <3>. QED
      BY <1>0, <3>2, NothingMissed
  <2>. QED
    BY <1>0, <2>1, <2>2, <2>3 DEF LostInv
<1>3. CASE Create
  BY <1>3 DEF Create, LostInv, MissedNow, Outdated, readerVars
<1>4. ASSUME NEW offset \in Nat, SetOffset(offset), UNCHANGED <<fileVars, lines>>,
             offset \in {0, Len(content)}
      PROVE  LostInv'
  <2>1. /\ offsets'.offset = offset /\ since'.line = IF offset = 0 THEN 0 ELSE lastLine
        /\ content' = content /\ truncatedLines' = 0 /\ lines' = lines
    BY <1>4 DEF SetOffset, fileVars
  <2>2. MissedNow' = Missed(content, offset, since'.line, lines)
    BY <2>1 DEF MissedNow
  <2>3. since'.line \in Nat /\ (offset = 0 \/ \A p \in 1 .. Len(content) : content[p] <= since'.line)
    BY <1>0, <2>1
  <2>4. Cardinality(MissedNow') = 0
    BY <1>0, <2>2, <2>3, NothingMissed
  <2>. QED
    BY <2>1, <2>4 DEF LostInv
<1>5. CASE StartAtEnd
  BY <1>0, <1>4, <1>5 DEF StartAtEnd
<1>6. CASE SeekFails
  BY <1>0, <1>4, <1>6 DEF SeekFails
<1>7. ASSUME UNCHANGED <<fileVars, lines, offsets, since, truncatedLines>> PROVE LostInv'
  BY <1>7 DEF LostInv, MissedNow, Outdated, fileVars
<1>8. CASE StatFile
  <2>1. CASE Rotated \/ offsets.offset = 0
    BY <1>4, <1>8, <2>1 DEF StatFile
  <2>2. CASE ~(Rotated \/ offsets.offset = 0)
    BY <1>7, <1>8, <2>2 DEF StatFile
  <2>. QED
    BY <2>1, <2>2
<1>9. CASE ReadNothing
  BY <1>7, <1>9 DEF ReadNothing
<1>10. IsFiniteSet(MissedNow) /\ Cardinality(MissedNow) \in Nat
  BY <1>0, MissedFinite DEF MissedNow
<1>15. ASSUME content' = content, since'.line = lastLine
       PROVE  LostInv'
  <2>1. MissedNow' = Missed(content, offsets'.offset, lastLine, lines')
    BY <1>15 DEF MissedNow
  <2>2. offsets'.offset \in Nat /\ truncatedLines' \in Nat
    BY DEF TailInv, TailTyped
  <2>3. Cardinality(MissedNow') = 0
    BY <1>0, <2>1, <2>2, NothingMissed
  <2>. QED
    BY <2>2, <2>3 DEF LostInv
<1>11. CASE SkipLongLine
  <2>10. /\ UNCHANGED <<content, lines, replaced>> /\ toRead > 0 /\ Newlines = {}
         /\ Len(Window) >= MaxReadBytes /\ FollowFromHere(1) /\ 1 \in Nat
         /\ offsets' = [offsets EXCEPT !.offset = offsets.offset + Len(Window)]
    BY <1>11 DEF SkipLongLine, fileVars
  <2>11. \/ since' = since /\ truncatedLines' = truncatedLines + 1
         \/ since'.line = lastLine
    BY <2>10, FollowedFrom, Zenon
  <2>12. SUFFICES ASSUME since' = since, truncatedLines' = truncatedLines + 1, ~Outdated'
                  PROVE  LostInv'
    BY <1>15, <2>10, <2>11 DEF LostInv
  <2>1. /\ UNCHANGED <<content, lines, since, replaced>> /\ toRead > 0 /\ Newlines = {}
        /\ Len(Window) >= MaxReadBytes /\ truncatedLines' = truncatedLines + 1
        /\ offsets' = [offsets EXCEPT !.offset = offsets.offset + Len(Window)]
    BY <2>10, <2>12
  <2> DEFINE o == offsets.offset
             N == Len(Window)
             n == content[o + N]
  <2>2. offsets'.offset = o + N /\ N \in Nat
    BY <1>0, <2>1, WindowShows
  <2>3. ~Outdated
    <3>0. MaxReadBytes > 0 /\ MaxReadBytes \in Nat /\ o \in Nat
      BY <1>0, TailAssumption
    <3>1. offsets' # Untracked
      <4>1. offsets'.offset > 0
        BY <2>1, <2>2, <3>0
      <4>. QED
        BY <4>1 DEF Untracked
    <3>. QED
      BY <2>1, <2>12, <3>1 DEF Outdated
  <2>4. \A p \in o + 1 .. o + N : content[p] = n
    BY <2>1, SkippedSame
  <2>5. MissedNow' \subseteq MissedNow \cup {n}
    <3>1. SUFFICES ASSUME NEW m \in MissedNow', m # n PROVE m \in MissedNow
      OBVIOUS
    <3>2. /\ m \in Nat \ {NL} /\ m > since.line
          /\ \E p \in 1 .. o + N : p <= Len(content) /\ content[p] = m
          /\ \A i \in 1 .. Len(lines) : lines[i].line # m
      BY <2>1, <2>2, Zenon DEF MissedNow, Missed
    <3>3. PICK p \in 1 .. o + N : p <= Len(content) /\ content[p] = m
      BY <3>2
    <3>4. p \in 1 .. o
      <4>1. p \notin o + 1 .. o + N
        BY <2>4, <3>1, <3>3
      <4>2. o \in Nat
        BY <1>0
      <4>. HIDE DEF o, N
      <4>. QED
        BY <2>2, <4>1, <4>2
    <3>. QED
      BY <3>2, <3>3, <3>4, Zenon DEF MissedNow, Missed
  <2>. HIDE DEF n, o, N
  <2>6. Cardinality(MissedNow \cup {n}) <= Cardinality(MissedNow) + 1
        /\ IsFiniteSet(MissedNow \cup {n})
    BY <1>10, FS_AddElement
  <2>7. Cardinality(MissedNow') <= Cardinality(MissedNow \cup {n})
    BY <2>5, <2>6, FS_Subset
  <2>8. Cardinality(MissedNow \cup {n}) \in Nat /\ Cardinality(MissedNow') \in Nat
    BY <2>5, <2>6, FS_Subset, FS_CardinalityType
  <2>. QED
    BY SMTT(30), <1>0, <1>10, <2>1, <2>3, <2>6, <2>7, <2>8 DEF LostInv
<1>12. CASE DeliverLines
  <2>10. /\ toRead > 0 /\ Newlines # {} /\ UNCHANGED <<content, replaced>>
         /\ offsets' = [offsets EXCEPT !.offset = offsets.offset + CompleteBytes]
         /\ FollowFromHere(NotWhole)
    BY <1>12 DEF DeliverLines, fileVars
  <2>11. \/ since' = since /\ truncatedLines' = truncatedLines + NotWhole
         \/ since'.line = lastLine
    BY <2>10, HandedOver, FollowedFrom, Zenon
  <2>12. SUFFICES ASSUME since' = since, truncatedLines' = truncatedLines + NotWhole, ~Outdated'
                  PROVE  LostInv'
    BY <1>15, <2>10, <2>11 DEF LostInv
  <2>1. toRead > 0 /\ Newlines # {} /\ ~Outdated /\ truncatedLines' = truncatedLines + NotWhole
    <3>1. CompleteBytes \in 1 .. Len(Window) /\ Len(Window) \in Nat
      BY <2>10, LastNewline, WindowShows
    <3>2. offsets'.offset > 0
      BY <1>0, <2>10, <3>1
    <3>3. offsets' # Untracked
      BY <3>2 DEF Untracked
    <3>. QED
      BY <2>10, <2>12, <3>3 DEF Outdated
  <2> DEFINE beyond == {Ended[k] : k \in Len(Kept) + 1 .. Len(Ended)}
  <2>2. MissedNow' \subseteq MissedNow \cup beyond
    BY <1>12, <2>12, MissedByDelivery
  <2>3. /\ Len(Ended) \in Nat /\ Len(Kept) \in Nat
        /\ Len(Kept) = IF Len(Ended) <= MaxLinesPerRead THEN Len(Ended) ELSE MaxLinesPerRead
        /\ Len(Ended) <= Cardinality(Newlines) /\ Cardinality(Newlines) \in Nat
        /\ MaxLinesPerRead \in Nat /\ CutLines \in Nat
    BY <2>1, KeptLines, EndedCount, CutType, TailAssumption
  <2>4. Len(Kept) <= Len(Ended)
    BY <2>3
  <2>5. /\ IsFiniteSet(beyond) /\ Cardinality(beyond) \in Nat
        /\ Cardinality(beyond) <= Len(Ended) - Len(Kept)
    BY <2>3, <2>4, FewValues
  <2>6. Cardinality(beyond) <= NotWhole /\ NotWhole \in Int
    <3>. HIDE DEF beyond
    <3>1. CASE Len(Ended) > MaxLinesPerRead
      <4>1. Len(Kept) = MaxLinesPerRead
        BY <2>3, <3>1
      <4>2. NotWhole = CutLines + (Cardinality(Newlines) - MaxLinesPerRead)
        BY <3>1 DEF NotWhole
      <4>. QED
        BY <2>3, <2>5, <4>1, <4>2
    <3>2. CASE ~(Len(Ended) > MaxLinesPerRead)
      <4>1. Len(Kept) = Len(Ended)
        BY <2>3, <3>2
      <4>2. NotWhole = CutLines + 0
        BY <3>2, Zenon DEF NotWhole
      <4>. QED
        BY <2>3, <2>5, <4>1, <4>2
    <3>. QED
      BY <3>1, <3>2
  <2>. HIDE DEF beyond
  <2>7. /\ IsFiniteSet(MissedNow \cup beyond)
        /\ Cardinality(MissedNow \cup beyond)
             = Cardinality(MissedNow) + Cardinality(beyond) - Cardinality(MissedNow \cap beyond)
    BY <1>10, <2>5, FS_Union
  <2>8. Cardinality(MissedNow \cap beyond) \in Nat
    BY <1>10, FS_Intersection, FS_CardinalityType
  <2>9. Cardinality(MissedNow') <= Cardinality(MissedNow \cup beyond)
        /\ Cardinality(MissedNow') \in Nat
    BY <2>2, <2>7, FS_Subset, FS_CardinalityType
  <2>. QED
    BY SMTT(30), <1>0, <1>10, <2>1, <2>5, <2>6, <2>7, <2>8, <2>9 DEF LostInv
<1>13. CASE RestartAgent
  <2>1. offsets' = Untracked /\ UNCHANGED <<content, lines, truncatedLines, since>>
    BY <1>13 DEF RestartAgent, fileVars
  <2>2. offsets'.offset = 0
    BY <2>1 DEF Untracked
  <2>3. MissedNow' = Missed(content, 0, since.line, lines)
    BY <2>1, <2>2 DEF MissedNow
  <2>4. Cardinality(MissedNow') = 0
    BY <1>0, <2>3, NothingMissed
  <2>. QED
    BY <1>0, <2>1, <2>4 DEF LostInv
<1>14. CASE UNCHANGED vars
  BY <1>7, <1>14 DEF vars, readerVars
<1>. QED
  BY <1>1, <1>2, <1>3, <1>5, <1>6, <1>8, <1>9, <1>11, <1>12, <1>13, <1>14 DEF Next

\* Every line that the reader passes while it follows a content is handed over or
\* counted as truncated, whatever the lengths of lines, windows and limits.
THEOREM NothingIsLostSilently == Spec => []NothingLostSilently
<1>1. TailInv /\ TailInv' /\ LostInv /\ [Next]_vars => LostInv'
  BY LostStep
<1>2. TailInv /\ LostInv => NothingLostSilently
  BY LostImplies
<1>. QED
  BY <1>1, <1>2, LostInit, TailKept, PTL DEF Spec
=============================================================================
