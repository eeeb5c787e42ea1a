------------------------------ MODULE LogTail ------------------------------
(***************************************************************************)
(* app/logTail.js: the reader that follows a log file on the host.  One    *)
(* file, the process that writes it and the tool that rotates it are the   *)
(* environment; one reader calls read() again and again.                   *)
(*                                                                         *)
(* read() is synchronous, so nothing else of the agent runs meanwhile, but *)
(* the writer does: read() looks at the file twice, with statSync and with *)
(* readSync, and is two steps here.                                        *)
(*                                                                         *)
(* A byte of the file is NL or the number of the line it belongs to.       *)
(***************************************************************************)
EXTENDS Integers, Sequences, SequencesExt, FiniteSetsExt

CONSTANTS
  MaxReadBytes,     \* maxReadBytes
  MaxLineLength,    \* maxLineLength
  MaxLinesPerRead,  \* maxLinesPerRead
  Inode,            \* inode numbers of the file system, which reuses them
  MaxLines,         \* bound: lines written in one behaviour
  MaxLineBytes,     \* bound: bytes of one line
  MaxReplaced       \* bound: truncations and rotations

ASSUME TailAssumption ==
  /\ {MaxReadBytes, MaxLineLength, MaxLinesPerRead} \subseteq Nat \ {0}
  /\ Inode \subseteq Nat \ {0} /\ Inode # {}
  /\ {MaxLines, MaxLineBytes, MaxReplaced} \subseteq Nat

NL == 0

NoFile == 0

VARIABLES
  inode,           \* the file now found at the path, or NoFile
  content,         \* its bytes
  lastLine,        \* history: number of the last line that was begun
  replaced,        \* history: how often the content was replaced
  offsets,         \* the reader's entry for the path
  toRead,          \* read() is between statSync and readSync: bytes asked for
  lines,           \* the lines handed to the caller so far
  truncatedLines,  \* the sum of truncatedLines since the offset was last set
  since            \* history: where and when the offset was last set

fileVars == <<inode, content, lastLine, replaced>>
readerVars == <<offsets, toRead, lines, truncatedLines, since>>
vars == <<fileVars, readerVars>>

Untracked == [inode |-> -1, offset |-> 0]

-----------------------------------------------------------------------------
(* The file *)

\* The reader's offset belongs to an earlier content of the file.
Outdated == offsets # Untracked /\ since.replaced # replaced

AtLineStart == content = << >> \/ Last(content) = NL

BytesOf(line) == Cardinality({i \in DOMAIN content : content[i] = line})

WriteByte ==
  /\ inode # NoFile
  /\ LET line == IF AtLineStart THEN lastLine + 1 ELSE Last(content)
     IN  /\ line <= MaxLines
         /\ BytesOf(line) < MaxLineBytes
         /\ content' = Append(content, line)
         /\ lastLine' = line
  /\ UNCHANGED <<inode, replaced, readerVars>>

EndLine ==
  /\ inode # NoFile
  /\ ~AtLineStart
  /\ content' = Append(content, NL)
  /\ UNCHANGED <<inode, lastLine, replaced, readerVars>>

\* copytruncate, or `> app.log`
Truncate ==
  /\ inode # NoFile
  /\ replaced < MaxReplaced
  /\ replaced' = replaced + 1
  /\ content' = << >>
  /\ UNCHANGED <<inode, lastLine, readerVars>>

\* The file is renamed, or deleted; then a new one is created, maybe with the
\* same inode.
MoveAway ==
  /\ inode # NoFile
  /\ replaced < MaxReplaced
  /\ replaced' = replaced + 1
  /\ inode' = NoFile
  /\ content' = << >>
  /\ UNCHANGED <<lastLine, readerVars>>

Create ==
  /\ inode = NoFile
  /\ inode' \in Inode
  /\ UNCHANGED <<content, lastLine, replaced, readerVars>>

-----------------------------------------------------------------------------
(* read() up to openSync *)

SetOffset(offset) ==
  /\ offsets' = [inode |-> inode, offset |-> offset]
  /\ truncatedLines' = 0
  /\ since' = [replaced |-> replaced, line |-> IF offset = 0 THEN 0 ELSE lastLine]

\* First sighting, in read() or in the seek() of log-agent.js.
StartAtEnd ==
  /\ inode # NoFile
  /\ offsets = Untracked
  /\ SetOffset(Len(content))
  /\ UNCHANGED <<fileVars, toRead, lines>>

\* seek() when the file was moved away since log-agent.js looked for it: what is
\* created there later is read from its beginning.
SeekFails ==
  /\ inode = NoFile
  /\ offsets = Untracked
  /\ SetOffset(0)
  /\ UNCHANGED <<fileVars, toRead, lines>>

\* Mutation: <= for <, which takes an idle file for a truncated one.
RotatedOrIdle == inode # offsets.inode \/ Len(content) <= offsets.offset

\* Inode and size are all the reader goes by.
Rotated == inode # offsets.inode \/ Len(content) < offsets.offset

Bounded(available) == Min({available, MaxReadBytes})

StatFile ==
  /\ inode # NoFile
  /\ offsets # Untracked
  /\ toRead = 0
  /\ IF Rotated \/ offsets.offset = 0
     THEN SetOffset(0)
     ELSE UNCHANGED <<offsets, truncatedLines, since>>
  /\ toRead' = Bounded(Len(content) - offsets'.offset)
  /\ UNCHANGED <<fileVars, lines>>

-----------------------------------------------------------------------------
(* read() from openSync on *)

\* What readSync returns; nothing if the file is gone.
Window ==
  SubSeq(content, offsets.offset + 1, Min({offsets.offset + toRead, Len(content)}))

Newlines == {i \in DOMAIN Window : Window[i] = NL}

\* The offset moves on in a content it was not made for, which has the inode of the
\* one before and has outgrown it: the reader follows it from here on.
FollowFromHere(truncated) ==
  IF Outdated /\ inode = offsets.inode
  THEN /\ since' = [replaced |-> replaced, line |-> lastLine]
       /\ truncatedLines' = 0
  ELSE /\ UNCHANGED since
       /\ truncatedLines' = truncatedLines + truncated

\* Nothing was read, or only the beginning of a line.
ReadNothing ==
  /\ toRead > 0
  /\ Newlines = {}
  /\ Len(Window) < MaxReadBytes
  /\ toRead' = 0
  /\ UNCHANGED <<fileVars, offsets, lines, truncatedLines, since>>

\* Mutation: a full window without a newline is left for the next read.
WaitForNewline ==
  /\ toRead > 0
  /\ Newlines = {}
  /\ Len(Window) >= MaxReadBytes
  /\ toRead' = 0
  /\ truncatedLines' = truncatedLines + 1
  /\ UNCHANGED <<fileVars, offsets, lines, since>>

SkipLongLine ==
  /\ toRead > 0
  /\ Newlines = {}
  /\ Len(Window) >= MaxReadBytes
  /\ toRead' = 0
  /\ offsets' = [offsets EXCEPT !.offset = @ + Len(Window)]
  /\ FollowFromHere(1)
  /\ UNCHANGED <<fileVars, lines>>

BytesInWindow(line) == Cardinality({i \in DOMAIN Window : Window[i] = line})

\* Mutation: the offset moves past the incomplete line at the end of the window.
WholeWindow == Len(Window)

CompleteBytes == Max(Newlines)

EndsAt(i) == Window[i] # NL /\ i + 1 \in Newlines

\* The lines that end in the first i + 1 bytes of the window.  A blank line is left
\* out: here that can only be the first, of which a full window without a newline took
\* the rest.
EndedUpTo[i \in 0 .. Len(Window)] ==
  IF i = 0 THEN << >>
  ELSE IF EndsAt(i) THEN Append(EndedUpTo[i - 1], Window[i])
  ELSE EndedUpTo[i - 1]

Ended == EndedUpTo[Len(Window)]

Kept == SubSeq(Ended, 1, Min({Len(Ended), MaxLinesPerRead}))

CutLines == Cardinality({i \in DOMAIN Kept : BytesInWindow(Kept[i]) > MaxLineLength})

\* Mutation: lines beyond maxLinesPerRead are dropped and not counted.
OnlyCut == CutLines

NotWhole ==
  CutLines + IF Len(Ended) > MaxLinesPerRead
             THEN Cardinality(Newlines) - MaxLinesPerRead
             ELSE 0

\* A line as it is handed over: its bytes, cut to maxLineLength.  The other fields
\* are history: its length in the file, whether the reader was following the file
\* when it was begun, and whether the file that statSync saw is not the one that was
\* read: path and inode are looked up anew by openSync, and never compared.
Delivery(line) ==
  [line |-> line, bytes |-> Min({BytesInWindow(line), MaxLineLength}),
   of |-> BytesOf(line), followed |-> line > since.line /\ ~Outdated,
   swapped |-> inode # offsets.inode]

DeliverLines ==
  /\ toRead > 0
  /\ Newlines # {}
  /\ toRead' = 0
  /\ offsets' = [offsets EXCEPT !.offset = @ + CompleteBytes]
  /\ lines' = lines \o [i \in DOMAIN Kept |-> Delivery(Kept[i])]
  /\ FollowFromHere(NotWhole)
  /\ UNCHANGED fileVars

\* The agent is restarted and has forgotten where it was.
RestartAgent ==
  /\ offsets # Untracked
  /\ offsets' = Untracked
  /\ toRead' = 0
  /\ UNCHANGED <<fileVars, lines, truncatedLines, since>>

Init ==
  /\ inode = CHOOSE i \in Inode : TRUE
  /\ content = << >>
  /\ lastLine = 0
  /\ replaced = 0
  /\ offsets = Untracked
  /\ toRead = 0
  /\ lines = << >>
  /\ truncatedLines = 0
  /\ since = [replaced |-> 0, line |-> 0]

Next ==
  \/ WriteByte
  \/ EndLine
  \/ Truncate
  \/ MoveAway
  \/ Create
  \/ StartAtEnd
  \/ SeekFails
  \/ StatFile
  \/ ReadNothing
  \/ SkipLongLine
  \/ DeliverLines
  \/ RestartAgent

Spec == Init /\ [][Next]_vars

\* The reader is called for ever: by a timer (slowlog.js), or by a change event
\* for as long as the file changes (log-agent.js).
Fairness ==
  /\ WF_vars(StartAtEnd)
  /\ WF_vars(StatFile)
  /\ WF_vars(ReadNothing \/ SkipLongLine \/ DeliverLines)

LiveSpec == Spec /\ Fairness

-----------------------------------------------------------------------------
(* Properties *)

\* read() hands over nothing twice and nothing out of order, through rotations,
\* truncations, reused inodes, partial writes and restarts, but for one thing: what it
\* read of a file that was put in place between its two looks comes again, once, when
\* the next statSync shows the other inode.
ReplayedOnlyIfSwapped ==
  \A i, j \in DOMAIN lines :
    i < j => \/ lines[i].line < lines[j].line
             \/ lines[i].swapped /\ ~lines[j].swapped

\* read() delivers a line whole, up to maxLineLength, however the writes and the reads
\* fall; except one that does not fit a window, or that was begun before the reader
\* followed this content.
OnlyLongLinesAreCut ==
  \A i \in DOMAIN lines :
    LET l == lines[i]
    IN  l.followed /\ l.of < MaxReadBytes => l.bytes = Min({l.of, MaxLineLength})

\* Every line the offset has passed since the reader began to follow this
\* content was handed over, or is counted in truncatedLines.
NothingLostSilently ==
  ~Outdated =>
    LET passed == {n \in ToSet(SubSeq(content, 1, offsets.offset)) \ {NL} : n > since.line}
    IN  Cardinality(passed \ {lines[i].line : i \in DOMAIN lines}) <= truncatedLines

\* Once the writer is done, repeated read()s come to the last complete line:
\* they are stuck on nothing, not on a line longer than the window either.
CatchesUp ==
  <>[](inode # NoFile /\ offsets # Untracked
         => NL \notin ToSet(SubSeq(content, offsets.offset + 1, Len(content))))
=============================================================================
