----------------------------- MODULE LineFilter -----------------------------
(***************************************************************************)
(* The filter between a file reader and the output: the regular expression *)
(* and the local context of grep, that is lines before and after a match   *)
(* and a maximum number of matches (internal/io/fs/readfile_processor.go,  *)
(* internal/lcontext).  A filter value is the record filteringProcessor,   *)
(* one operator applies it to one line.                                    *)
(***************************************************************************)
EXTENDS Integers, Sequences, FiniteSets

CONSTANT Match(_)    \* the regular expression, on the text of a line

NewFilter(ltx) == [ltx |-> ltx, beforeBuf |-> <<>>, afterCount |-> 0, maxCount |-> 0, maxReached |-> FALSE]

Has(ltx) == ltx.after > 0 \/ ltx.before > 0 \/ ltx.max > 0

Outcome(fp, sent, stop) == [fp |-> fp, sent |-> sent, stop |-> stop]

\* A line that does not match: it follows a match closely enough, or it waits for
\* one, the oldest waiting line making room, or it is dropped.
ProcessUnmatched(fp, line, num) ==
    IF fp.ltx.after > 0 /\ fp.afterCount > 0
    THEN Outcome([fp EXCEPT !.afterCount = @ - 1], <<[num |-> num, text |-> line]>>, FALSE)
    ELSE LET room == IF Len(fp.beforeBuf) >= fp.ltx.before THEN Tail(fp.beforeBuf) ELSE fp.beforeBuf
         IN  Outcome(IF fp.ltx.before > 0 THEN [fp EXCEPT !.beforeBuf = Append(room, line)] ELSE fp,
                     <<>>, FALSE)

\* The waiting lines get their numbers by counting back from the match.
BeforeContext(fp, num) ==
    [i \in DOMAIN fp.beforeBuf |->
        [num |-> num - (Len(fp.beforeBuf) - (i - 1)), text |-> fp.beforeBuf[i]]]

\* Mutant: the lines before a match are kept for the next one.
ProcessMatchedKeepsBefore(fp, line, num) ==
    LET count == IF fp.ltx.max > 0 THEN fp.maxCount + 1 ELSE fp.maxCount
        full == fp.ltx.max > 0 /\ count >= fp.ltx.max
    IN  IF fp.maxReached THEN Outcome(fp, <<>>, TRUE)
        ELSE Outcome([fp EXCEPT !.maxCount = count, !.maxReached = full, !.afterCount = fp.ltx.after],
                     Append(BeforeContext(fp, num), [num |-> num, text |-> line]), full /\ fp.ltx.after = 0)

ProcessMatched(fp, line, num) ==
    LET sent == Append(BeforeContext(fp, num), [num |-> num, text |-> line])
        count == IF fp.ltx.max > 0 THEN fp.maxCount + 1 ELSE fp.maxCount
        full == fp.ltx.max > 0 /\ count >= fp.ltx.max
        matched == [fp EXCEPT !.beforeBuf = <<>>, !.maxCount = count]
    IN  IF fp.maxReached THEN Outcome(fp, <<>>, TRUE)
        ELSE IF full /\ fp.ltx.after = 0 THEN Outcome(matched, sent, TRUE)
        ELSE Outcome([matched EXCEPT !.maxReached = @ \/ full, !.afterCount = fp.ltx.after], sent, FALSE)

ProcessFiltered(fp, line, num) ==
    IF Match(line) THEN ProcessMatched(fp, line, num)
    ELSE IF Has(fp.ltx) THEN ProcessUnmatched(fp, line, num)
    ELSE Outcome(fp, <<>>, FALSE)

(* What grep promises, of all lines at once: a line is shown when it matches *)
(* or lies within the context of a match, and only the first max matches     *)
(* count.                                                                    *)
Shown(ltx, lines) ==
    LET matches == {i \in DOMAIN lines : Match(lines[i])}
        counted == {i \in matches : ltx.max = 0 \/ Cardinality({j \in matches : j <= i}) <= ltx.max}
    IN  {i \in DOMAIN lines : \E j \in counted : i >= j - ltx.before /\ i <= j + ltx.after
                                              /\ (i \in matches => i \in counted)}
=============================================================================
