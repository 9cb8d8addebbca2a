------------------------------ MODULE FileTail ------------------------------
(***************************************************************************)
(* Reading a log file that a writer appends to, truncates, rotates or      *)
(* replaces: the rooted open, cat and tail, the check for truncation every *)
(* three seconds, the split into lines and the loop that reads again       *)
(* (internal/io/fs, executeReadLoop in readcommand.go).  Bytes are letters *)
(* of a small set, one of them the newline.                                *)
(***************************************************************************)
EXTENDS LineFilter, SequencesExt

CONSTANTS
    Letters, Newline,
    LineLimit,       \* maxLineLength
    Contexts,        \* the local contexts a command may ask for
    Modes,           \* subset of {"cat", "tail"}
    InitialContent,
    Scripts,         \* bound: what a writer may append, as byte sequences
    MaxInodes,       \* bound: rotations + 1
    MaxChunk,        \* bound: bytes of one read
    MaxOpens         \* bound: times the file is opened

Bytes == Letters \union {Newline}

ASSUME TailAssumption ==
    /\ LineLimit \in Nat \ {0} /\ Newline \notin Letters
    /\ Modes \subseteq {"cat", "tail"}
    /\ Contexts \subseteq [after : Nat, before : Nat, max : Nat]
    /\ InitialContent \in Seq(Bytes) /\ Scripts \subseteq Seq(Bytes)
    /\ MaxInodes \in Nat \ {0} /\ MaxChunk \in Nat

LinkTarget == 0      \* what a symbolic link at the path would lead to

VARIABLES
    content,         \* [0..MaxInodes -> Seq(byte)]
    entry,           \* the inode at the path
    linked,          \* the entry has become a symbolic link
    restored,        \* history: a link was taken away between the open and the second look
    script,          \* the bytes yet to be written
    ticker,          \* periodicTruncateCheck waits to send
    cancelled,
    mode, ltx,       \* of the command
    pc, fd, pos,
    data,            \* bytes read and not yet split
    partialLine,
    atEOF,           \* the scanner has seen the end of the file
    fp,              \* the filter
    lineCount,       \* of f.stats, which a second read keeps
    opens,
    taken,           \* history: bytes read since the last open
    lines,           \* history: lines handed to the filter since then, with
                     \* how much was read before each and up to its end
    sent             \* history: what the filter passed on since then

fileVars == <<content, entry, linked, restored, script>>
readVars == <<fd, pos, data, partialLine, atEOF, fp, lineCount, opens, taken, lines, sent>>
vars == <<fileVars, ticker, cancelled, mode, ltx, pc, readVars>>

Init ==
    /\ content = [i \in 0..MaxInodes |-> IF i \in {LinkTarget, 1} THEN InitialContent ELSE <<>>]
    /\ entry = 1 /\ linked = FALSE /\ restored = FALSE /\ script \in Scripts
    /\ ticker = "idle" /\ cancelled = FALSE
    /\ mode \in Modes /\ ltx \in Contexts
    /\ pc = "open" /\ fd = 1 /\ pos = 0 /\ data = <<>> /\ partialLine = <<>> /\ atEOF = FALSE
    /\ fp = NewFilter(ltx) /\ lineCount = 0 /\ opens = 0
    /\ taken = <<>> /\ lines = <<>> /\ sent = <<>>

------------------------------------------------------------------------------
(* The program that writes the log, and the file system.                     *)

WriterStep == UNCHANGED <<ticker, cancelled, mode, ltx, pc, readVars>>

Write ==
    /\ script # <<>> /\ ~linked
    /\ script' = Tail(script)
    /\ content' = [content EXCEPT ![entry] = Append(@, Head(script))]
    /\ UNCHANGED <<entry, linked, restored>> /\ WriterStep

Truncate ==
    /\ content[entry] # <<>> /\ ~linked
    /\ content' = [content EXCEPT ![entry] = <<>>]
    /\ UNCHANGED <<entry, linked, restored, script>> /\ WriterStep

\* The old file goes elsewhere and a new one takes its name.
Rotate ==
    /\ entry < MaxInodes /\ ~linked
    /\ entry' = entry + 1
    /\ UNCHANGED <<content, linked, restored, script>> /\ WriterStep

ReplaceByLink ==
    /\ ~linked
    /\ linked' = TRUE
    /\ UNCHANGED <<content, entry, restored, script>> /\ WriterStep

\* The file takes the place of the link again.
RestoreFile ==
    /\ linked
    /\ linked' = FALSE
    /\ restored' = (restored \/ (pc = "recheck" /\ fd = LinkTarget))
    /\ UNCHANGED <<content, entry, script>> /\ WriterStep

Cancel ==
    /\ ~cancelled
    /\ cancelled' = TRUE
    /\ UNCHANGED <<fileVars, ticker, mode, ltx, pc, readVars>>

Tick ==
    /\ ticker = "idle" /\ pc \notin {"open", "opening", "recheck", "retry", "done"}
    /\ ticker' = "ready"
    /\ UNCHANGED <<fileVars, cancelled, mode, ltx, pc, readVars>>

------------------------------------------------------------------------------
(* executeReadLoop: a cat is read once, a tail again after a pause.          *)

Goto(from, to) == pc = from /\ pc' = to
KeepEnv == UNCHANGED <<fileVars, cancelled, mode, ltx>>

Returned == IF mode = "tail" /\ ~cancelled THEN "retry" ELSE "done"

RetryPauseEnds ==
    /\ Goto("retry", IF cancelled THEN "done" ELSE "open")
    /\ cancelled \/ opens < MaxOpens
    /\ UNCHANGED <<ticker, readVars>> /\ KeepEnv

------------------------------------------------------------------------------
(* ValidatedReadTarget.Open: look at the entry, open it, look again.         *)

ValidateEntry ==
    /\ Goto("open", IF linked THEN Returned ELSE "opening")
    /\ opens' = opens + 1
    /\ restored' = FALSE
    /\ UNCHANGED <<content, entry, linked, script, cancelled, mode, ltx>>
    /\ UNCHANGED <<ticker, fd, pos, data, partialLine, atEOF, fp, lineCount, taken, lines, sent>>

OpenEntry ==
    /\ Goto("opening", "recheck")
    /\ fd' = IF linked THEN LinkTarget ELSE entry
    /\ UNCHANGED <<ticker, pos, data, partialLine, atEOF, fp, lineCount, opens, taken, lines, sent>>
    /\ KeepEnv

\* Mutant: the entry is not looked at again after it was opened.
OpenWithoutRecheck ==
    /\ Goto("recheck", "read")
    /\ pos' = IF mode = "tail" THEN Len(content[fd]) ELSE 0
    /\ data' = <<>> /\ partialLine' = <<>> /\ atEOF' = FALSE /\ fp' = NewFilter(ltx)
    /\ taken' = <<>> /\ lines' = <<>> /\ sent' = <<>>
    /\ ticker' = "idle"
    /\ UNCHANGED <<fd, lineCount, opens>> /\ KeepEnv

\* A tail starts at the end of the file; filter and buffers are new.
RevalidateEntry ==
    /\ Goto("recheck", IF linked THEN Returned ELSE "read")
    /\ pos' = IF mode = "tail" THEN Len(content[fd]) ELSE 0
    /\ data' = <<>> /\ partialLine' = <<>> /\ atEOF' = FALSE /\ fp' = NewFilter(ltx)
    /\ taken' = <<>> /\ lines' = <<>> /\ sent' = <<>>
    /\ ticker' = "idle"
    /\ UNCHANGED <<fd, lineCount, opens>> /\ KeepEnv

------------------------------------------------------------------------------
(* Lines.                                                                    *)

\* updatePosition, then the filter; an error of the output or the early stop of
\* the filter ends the read.
Deliver(line, next) ==
    LET num == lineCount + 1
        r == ProcessFiltered(fp, line, num)
    IN  /\ lineCount' = num
        /\ fp' = r.fp
        /\ lines' = Append(lines, [num |-> num, text |-> line,
                                    start |-> Len(taken) - Len(partialLine) - Len(data),
                                    end |-> Len(taken) - Len(data')])
        /\ sent' = sent \o r.sent
        /\ pc' \in {IF r.stop THEN Returned ELSE next} \union (IF r.sent = <<>> THEN {} ELSE {Returned})

NoLine(next) == UNCHANGED <<lineCount, fp, lines, sent>> /\ pc' = next

ReadBytes(next) ==
    /\ pc = "read" /\ pos < Len(content[fd])
    /\ \E n \in 1..MaxChunk :
        LET chunk == SubSeq(content[fd], pos + 1, pos + n)
        IN  /\ pos + n <= Len(content[fd])
            /\ pos' = pos + n
            /\ data' = data \o chunk
            /\ taken' = taken \o chunk
    /\ pc' = next
    /\ UNCHANGED <<ticker, fd, partialLine, atEOF, fp, lineCount, opens, lines, sent>>
    /\ KeepEnv

FirstNewline(s) == SelectInSeq(s, LAMBDA b : b = Newline)

------------------------------------------------------------------------------
(* tailWithProcessorOptimized.                                               *)

TailRead == mode = "tail" /\ ReadBytes("split")

AfterSplit == IF data' = <<>> THEN "check" ELSE "split"

SplitLine ==
    LET i == FirstNewline(data)
        line == partialLine \o SubSeq(data, 1, i - 1)
    IN  /\ pc = "split" /\ i > 0
        /\ data' = SubSeq(data, i + 1, Len(data))
        /\ partialLine' = <<>>
        /\ IF line = <<>> THEN NoLine(AfterSplit) ELSE Deliver(line, AfterSplit)
        /\ UNCHANGED <<ticker, fd, pos, atEOF, opens, taken>> /\ KeepEnv

\* Mutant: the rest of a chunk is taken for a line.
PartialIsLine ==
    /\ pc = "split" /\ FirstNewline(data) = 0
    /\ data' = <<>> /\ partialLine' = <<>>
    /\ Deliver(partialLine \o data, "check")
    /\ UNCHANGED <<ticker, fd, pos, atEOF, opens, taken>> /\ KeepEnv

\* The rest of a chunk: a line that grew too long is cut here.
KeepPartial ==
    LET line == partialLine \o data
    IN  /\ pc = "split" /\ FirstNewline(data) = 0
        /\ data' = <<>>
        /\ partialLine' = IF Len(line) >= LineLimit THEN <<>> ELSE line
        /\ IF Len(line) >= LineLimit THEN Deliver(line, "check") ELSE NoLine("check")
        /\ UNCHANGED <<ticker, fd, pos, atEOF, opens, taken>> /\ KeepEnv

\* The warning about a long line cannot be sent any more.
WarningCancelled ==
    /\ pc = "split" /\ FirstNewline(data) = 0 /\ Len(partialLine \o data) >= LineLimit
    /\ cancelled /\ pc' = "done"
    /\ UNCHANGED <<ticker, readVars>> /\ KeepEnv

TailEOF ==
    /\ mode = "tail" /\ pos >= Len(content[fd])
    /\ Goto("read", "eof")
    /\ UNCHANGED <<ticker, readVars>> /\ KeepEnv

\* truncated(fd): the entry cannot be opened, or it is shorter than what was read.
Truncated == linked \/ pos > Len(content[entry])

\* Mutant: the tick is taken and its check forgotten.
TailWaitUnchecked ==
    /\ pc = "eof"
    /\ \/ cancelled /\ pc' = "done" /\ UNCHANGED ticker
       \/ ticker = "ready" /\ ticker' = "idle" /\ pc' = "check"
       \/ ~cancelled /\ ticker = "idle" /\ pc' = "sleep" /\ UNCHANGED ticker
    /\ UNCHANGED readVars /\ KeepEnv

\* The select at the end of the file takes any case that is ready.
TailWait ==
    /\ pc = "eof"
    /\ \/ cancelled /\ pc' = "done" /\ UNCHANGED ticker
       \/ ticker = "ready" /\ ticker' = "idle" /\ pc' = IF Truncated THEN Returned ELSE "check"
       \/ ~cancelled /\ ticker = "idle" /\ pc' = "sleep" /\ UNCHANGED ticker
    /\ UNCHANGED readVars /\ KeepEnv

TailSleepEnds ==
    /\ Goto("sleep", IF cancelled THEN "done" ELSE "check")
    /\ UNCHANGED <<ticker, readVars>> /\ KeepEnv

TailCheck ==
    /\ pc = "check"
    /\ partialLine' = IF cancelled THEN <<>> ELSE partialLine
    /\ UNCHANGED data
    /\ IF cancelled /\ partialLine # <<>> THEN Deliver(partialLine, "done")
       ELSE NoLine(IF cancelled THEN "done" ELSE "read")
    /\ UNCHANGED <<ticker, fd, pos, atEOF, opens, taken>> /\ KeepEnv

------------------------------------------------------------------------------
(* readWithProcessorOptimized: a scanner over the same bytes.                *)

\* scanLinesWithMaxLength: how many bytes make the next token, none if 0.
TokenLength ==
    LET i == FirstNewline(data)
    IN  IF i > 0 THEN (IF i - 1 > LineLimit THEN LineLimit ELSE i)
        ELSE IF Len(data) > LineLimit \/ (Len(data) = LineLimit /\ ~atEOF) THEN LineLimit
        ELSE IF atEOF THEN Len(data) ELSE 0

CatRead == mode = "cat" /\ TokenLength = 0 /\ ~atEOF /\ ReadBytes("read")

CatEOF ==
    /\ mode = "cat" /\ pc = "read" /\ TokenLength = 0 /\ pos >= Len(content[fd])
    /\ atEOF' = TRUE
    /\ pc' = IF atEOF THEN "done" ELSE "read"
    /\ UNCHANGED <<ticker, fd, pos, data, partialLine, fp, lineCount, opens, taken, lines, sent>>
    /\ KeepEnv

CatToken ==
    /\ mode = "cat" /\ pc = "read" /\ TokenLength > 0 /\ ~cancelled
    /\ ticker = "idle" \/ ~Truncated
    /\ ticker' = "idle"
    /\ data' = SubSeq(data, TokenLength + 1, Len(data))
    /\ Deliver(SubSeq(data, 1, TokenLength), "read")
    /\ UNCHANGED <<fd, pos, partialLine, atEOF, opens, taken>> /\ KeepEnv

CatStops ==
    /\ mode = "cat" /\ pc = "read" /\ TokenLength > 0
    /\ cancelled \/ (ticker = "ready" /\ Truncated)
    /\ pc' = "done"
    /\ UNCHANGED <<ticker, readVars>> /\ KeepEnv

------------------------------------------------------------------------------
Reader ==
    \/ RetryPauseEnds \/ ValidateEntry \/ OpenEntry \/ RevalidateEntry
    \/ TailRead \/ SplitLine \/ KeepPartial \/ WarningCancelled
    \/ TailEOF \/ TailWait \/ TailSleepEnds \/ TailCheck
    \/ CatRead \/ CatEOF \/ CatToken \/ CatStops

Next ==
    \/ Write \/ Truncate \/ Rotate \/ ReplaceByLink \/ RestoreFile \/ Cancel \/ Tick
    \/ Reader

\* The reader and its timers run; nobody has to write or to cancel.
Spec == Init /\ [][Next]_vars /\ WF_vars(Reader) /\ WF_vars(Tick)

------------------------------------------------------------------------------
(* Properties.                                                               *)

TypeOK ==
    /\ content \in [0..MaxInodes -> Seq(Bytes)] /\ entry \in 1..MaxInodes
    /\ pc \in {"open", "opening", "recheck", "read", "split", "eof", "sleep", "check", "retry", "done"}
    /\ pos \in Nat /\ lineCount \in Nat
    /\ data \in Seq(Bytes) /\ partialLine \in Seq(Bytes)

Reading == pc \in {"read", "split", "eof", "sleep", "check"}

\* A text is what was read after the first start bytes.
At(text, start) == \A k \in DOMAIN text : text[k] = taken[start + k]

\* A line ends at a newline of the file, at the length limit or where the read
\* ends.
EndsProperly(l) ==
    \/ l.end > 0 /\ taken[l.end] = Newline
    \/ Len(l.text) >= LineLimit
    \/ l = Last(lines) /\ (cancelled \/ atEOF)

\* However the file comes in, in which chunks and with which pauses, the lines
\* are consecutive pieces of it that end properly, every byte but the newlines
\* is in a line or waits for the rest of its line, and what waits is the end of
\* what was read.
LinesIntact ==
    LET unsplit == Len(taken) - Len(data)
        waiting == unsplit - Len(partialLine)
        piece(l) == l.start + 1 .. l.start + Len(l.text)
    IN  Reading =>
            /\ \A i \in DOMAIN lines :
                  /\ At(lines[i].text, lines[i].start) /\ EndsProperly(lines[i])
                  /\ lines[i].start + Len(lines[i].text) <= lines[i].end
                  /\ lines[i].end <= IF i < Len(lines) THEN lines[i + 1].start ELSE waiting
            /\ At(partialLine, waiting) /\ At(data, unsplit)
            /\ \A k \in 1..waiting : taken[k] = Newline \/ \E i \in DOMAIN lines : k \in piece(lines[i])

\* The filter, which sees one line at a time, passes on exactly the lines that
\* the definition of grep's context selects from all of them, each once, in order
\* and under its own line number.
ContextExact ==
    LET shown == Shown(ltx, [i \in DOMAIN lines |-> lines[i].text])
    IN  /\ {sent[k] : k \in DOMAIN sent} = {[num |-> lines[i].num, text |-> lines[i].text] : i \in shown}
        /\ \A k \in 2..Len(sent) : sent[k - 1].num < sent[k].num

\* The second look at the entry finds a symbolic link that has taken its place
\* since the first: what it leads to is read only if the file was put back before
\* that look, which compares no inodes.
LinkNeverRead == Reading /\ fd = LinkTarget => restored

\* A tail does not go on waiting at the end of a file while a shorter one, or a
\* link, has taken its place: the check sees it and the file is opened again.
TruncationNoticed == []<>~(mode = "tail" /\ Reading /\ Truncated /\ ~cancelled)
=============================================================================
