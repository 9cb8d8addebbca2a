--------------------------- MODULE ClientMapReduce ---------------------------
(***************************************************************************)
(* The client side of a mapreduce query: per connection a goroutine that   *)
(* adds the partial results of one server to a local group set and merges  *)
(* it into the global one, the periodic reporter, the commit of a new      *)
(* query, the flush at shutdown, and the final result                      *)
(* (internal/clients/maprclient.go, internal/mapr/client,                  *)
(* internal/mapr/globalgroupset.go, handlers/maprhandler.go).  A group set *)
(* is the bag of the partial results it has taken in; how values combine   *)
(* is module AggregateSet.                                                 *)
(***************************************************************************)
EXTENDS Naturals, FiniteSets, Sequences, TLC

CONSTANTS
    Servers,
    Message,         \* partial results
    From,            \* [Message -> Servers]
    MaxGeneration,   \* bound: queries committed
    Files,           \* outfiles
    Modes            \* clients: [serverless, cumulative |-> BOOLEAN, outfile |->
                     \* [Generations -> Files \union {Terminal}]]

Generations == 0..MaxGeneration
Terminal == "terminal"
Nobody == "nobody"
Reporter == "reporter"
Main == "main"

ASSUME MapReduceAssumption ==
    /\ MaxGeneration \in Nat
    /\ From \in [Message -> Servers]
    /\ Servers \intersect {Nobody, Reporter, Main} = {}
    /\ Terminal \notin Files
    /\ Modes \subseteq [serverless : BOOLEAN, cumulative : BOOLEAN,
                       outfile : [Generations -> Files \union {Terminal}]]

VARIABLES
    mode,
    generation,      \* SessionState
    lastResult,
    global,          \* [Generations -> bag]: one GlobalGroupSet per query
    semaphore,       \* [Generations -> holder]
    toReceive,       \* messages on their way
    link,            \* a connection: open, closed by the server, or cancelled
    copy,            \* the goroutine that copies from the server
    snap,            \* the generation it saw
    local,           \* [Servers -> bag], Aggregate.group
    localGeneration,
    flush,           \* Shutdown of the handler, on a goroutine of its own
    flushSnap,       \* the generation it saw
    raced,           \* history: both goroutines were in Aggregate at once
    report,          \* pc of the reporter and of the final result
    reportGen,
    result,          \* what is being reported
    fd,              \* where the file that a report has open is now
    shared,          \* history: a report of another query had it open as well
    tmpfile, outfile,  \* [Files -> what they hold]
    shown,           \* history: bag of what interim results have swapped out
    receivedIn       \* history: the generation in which a message was added

aggVars == <<copy, snap, local, localGeneration, flush, flushSnap, raced>>
fileVars == <<fd, shared, tmpfile, outfile>>
reportVars == <<lastResult, report, reportGen, result, fileVars, shown>>
vars == <<mode, generation, global, semaphore, toReceive, link, aggVars, reportVars, receivedIn>>

NotReceived == MaxGeneration + 1
EmptyBag == [m \in Message |-> 0]
Plus(a, b) == [m \in Message |-> a[m] + b[m]]

\* A file is known by the reports that have written all their rows to it since
\* it was emptied; one that has been emptied or is half written has Blank.
NoFile == {}
Blank == <<>>
Rows(r) == <<r, reportGen[r]>>

Init ==
    /\ mode \in Modes
    /\ generation = 0 /\ lastResult = EmptyBag
    /\ global = [g \in Generations |-> EmptyBag]
    /\ semaphore = [g \in Generations |-> Nobody]
    /\ toReceive = Message
    /\ link = [s \in Servers |-> "open"]
    /\ copy = [s \in Servers |-> "idle"] /\ snap = [s \in Servers |-> 0]
    /\ local = [s \in Servers |-> EmptyBag] /\ localGeneration = [s \in Servers |-> 0]
    /\ flush = [s \in Servers |-> "no"] /\ flushSnap = [s \in Servers |-> 0]
    /\ raced = [s \in Servers |-> FALSE]
    /\ report = [r \in {Reporter, Main} |-> IF r = Reporter THEN "sleep" ELSE "wait"]
    /\ reportGen = [r \in {Reporter, Main} |-> 0]
    /\ result = [r \in {Reporter, Main} |-> EmptyBag]
    /\ fd = [r \in {Reporter, Main} |-> "none"] /\ shared = [r \in {Reporter, Main} |-> FALSE]
    /\ tmpfile = [f \in Files |-> NoFile] /\ outfile = tmpfile
    /\ shown = EmptyBag
    /\ receivedIn = [m \in Message |-> NotReceived]

------------------------------------------------------------------------------
(* The global group set and its semaphore of one slot.                       *)

Acquire(g, who) == semaphore[g] = Nobody /\ semaphore' = [semaphore EXCEPT ![g] = who]
Release(g) == semaphore' = [semaphore EXCEPT ![g] = Nobody]
Merge(g, group) == global' = [global EXCEPT ![g] = Plus(@, group)]

------------------------------------------------------------------------------
(* Aggregate: one message of a server.                                       *)

Ended(s) == link[s] # "open"

\* A connection that has ended may still have something in its buffers.  The
\* serverless connector has read them out before it shuts the handler down.
Receive(m) ==
    LET s == From[m]
        group == IF generation # localGeneration[s] THEN EmptyBag ELSE local[s]
    IN  /\ m \in toReceive /\ copy[s] = "idle"
        /\ mode.serverless => flush[s] = "no"
        /\ toReceive' = toReceive \ {m}
        /\ snap' = [snap EXCEPT ![s] = generation]
        /\ local' = [local EXCEPT ![s] = [group EXCEPT ![m] = @ + 1]]
        /\ localGeneration' = [localGeneration EXCEPT ![s] = generation]
        /\ receivedIn' = [receivedIn EXCEPT ![m] = generation]
        /\ copy' = [copy EXCEPT ![s] = "merge"]
        /\ raced' = [raced EXCEPT ![s] = @ \/ flush[s] \in {"wait", "emptying"}]
        /\ UNCHANGED <<mode, generation, global, semaphore, link, flush, flushSnap, reportVars>>

AggregateRest == UNCHANGED <<mode, generation, toReceive, link, snap, localGeneration, flush, flushSnap,
                             raced, reportVars, receivedIn>>

\* MergeNoblock: the semaphore is taken at once, or the group stays local.
MergeNoblock(s) ==
    /\ copy[s] = "merge"
    /\ \/ Acquire(snap[s], s) /\ copy' = [copy EXCEPT ![s] = "merging"]
       \/ semaphore[snap[s]] # Nobody /\ copy' = [copy EXCEPT ![s] = "idle"] /\ UNCHANGED semaphore
    /\ UNCHANGED <<global, local>> /\ AggregateRest

Merged(s) ==
    /\ copy[s] = "merging"
    /\ Merge(snap[s], local[s])
    /\ Release(snap[s])
    /\ copy' = [copy EXCEPT ![s] = "emptying"]
    /\ UNCHANGED local /\ AggregateRest

\* Mutant: the local group is not emptied after a merge.
EmptyMergedNever(s) ==
    /\ copy[s] = "emptying" /\ copy' = [copy EXCEPT ![s] = "idle"]
    /\ UNCHANGED <<local, global, semaphore>> /\ AggregateRest

\* InitSet of the local group, which nothing locks.
EmptyMerged(s) ==
    /\ copy[s] = "emptying" /\ copy' = [copy EXCEPT ![s] = "idle"]
    /\ local' = [local EXCEPT ![s] = EmptyBag]
    /\ UNCHANGED <<global, semaphore>> /\ AggregateRest

------------------------------------------------------------------------------
(* The end of a connection.                                                  *)

End(s, how) ==
    /\ link[s] = "open" /\ link' = [link EXCEPT ![s] = how]
    /\ UNCHANGED <<mode, generation, global, semaphore, toReceive, aggVars, reportVars, receivedIn>>

\* The server has sent everything and its close message has been handled.
ServerCloses(s) == copy[s] = "idle" /\ (\A m \in toReceive : From[m] # s) /\ End(s, "closed")

\* The client is cancelled or the connection lost.
Cancel(s) == End(s, "cancelled")

ShutdownRest == UNCHANGED <<mode, generation, semaphore, toReceive, link, copy, snap, reportVars, receivedIn>>

\* Mutant: the flush does not wait for the semaphore.
ShutdownDoesNotWait(s) ==
    /\ Ended(s) /\ flush[s] = "no" /\ (mode.serverless => copy[s] = "idle")
    /\ flush' = [flush EXCEPT ![s] = IF generation # localGeneration[s] \/ semaphore[generation] # Nobody
                                    THEN "done" ELSE "wait"]
    /\ localGeneration' = [localGeneration EXCEPT ![s] = generation]
    /\ flushSnap' = [flushSnap EXCEPT ![s] = generation]
    /\ raced' = [raced EXCEPT ![s] = copy[s] # "idle"]
    /\ UNCHANGED <<global, local>> /\ ShutdownRest

\* MaprHandler.Shutdown, once the context is done: a group of an older query is
\* dropped, any other waits for the semaphore.  Only the serverless connector
\* waits for the copying goroutine first.
Shutdown(s) ==
    /\ Ended(s) /\ flush[s] = "no" /\ (mode.serverless => copy[s] = "idle")
    /\ LET stale == generation # localGeneration[s]
       IN  /\ flush' = [flush EXCEPT ![s] = IF stale THEN "done" ELSE "wait"]
           /\ local' = [local EXCEPT ![s] = IF stale THEN EmptyBag ELSE @]
           /\ localGeneration' = [localGeneration EXCEPT ![s] = generation]
    /\ flushSnap' = [flushSnap EXCEPT ![s] = generation]
    /\ raced' = [raced EXCEPT ![s] = copy[s] # "idle"]
    /\ UNCHANGED global /\ ShutdownRest

Flush(s) ==
    /\ flush[s] = "wait" /\ semaphore[flushSnap[s]] = Nobody
    /\ Merge(flushSnap[s], local[s])
    /\ flush' = [flush EXCEPT ![s] = "emptying"]
    /\ UNCHANGED <<local, localGeneration, flushSnap, raced>> /\ ShutdownRest

EmptyFlushed(s) ==
    /\ flush[s] = "emptying"
    /\ local' = [local EXCEPT ![s] = EmptyBag]
    /\ flush' = [flush EXCEPT ![s] = "done"]
    /\ UNCHANGED <<global, localGeneration, flushSnap, raced>> /\ ShutdownRest

\* Start of a server connection returns when the context is done, that of the
\* serverless connector when the handler has been shut down too.
StartReturned(s) == Ended(s) /\ (mode.serverless => flush[s] = "done")

------------------------------------------------------------------------------
(* SessionState.                                                             *)

CommitQuery ==
    /\ generation < MaxGeneration /\ report[Main] = "wait"
    /\ generation' = generation + 1
    /\ lastResult' = EmptyBag
    /\ UNCHANGED <<mode, global, semaphore, toReceive, link, aggVars, report, reportGen,
                   result, fileVars, shown, receivedIn>>

------------------------------------------------------------------------------
(* reportResults, by the reporter and for the final result.                  *)

ReportStep(r, from, to) == report[r] = from /\ report' = [report EXCEPT ![r] = to]

\* The timer of the reporter, or all connections have returned.
StartReport(r) ==
    /\ \/ r = Reporter /\ ReportStep(r, "sleep", "acquire")
       \/ /\ r = Main /\ \A s \in Servers : StartReturned(s)
          /\ ReportStep(r, "wait", IF mode.cumulative THEN "acquire" ELSE "finished")
    /\ reportGen' = [reportGen EXCEPT ![r] = generation]
    /\ UNCHANGED <<mode, generation, global, semaphore, toReceive, link, aggVars, lastResult,
                   result, fileVars, shown, receivedIn>>

ReportRest == UNCHANGED <<mode, generation, toReceive, link, aggVars, receivedIn>>

FileOf(r) == mode.outfile[reportGen[r]]

\* Mutant: the semaphore is not held while the outfile is written.
GatherResultUnlocked(r) ==
    LET g == reportGen[r]
    IN  /\ ReportStep(r, "acquire", IF FileOf(r) # Terminal THEN "write" ELSE "commit")
        /\ semaphore[g] = Nobody /\ UNCHANGED <<semaphore, global, shown>>
        /\ result' = [result EXCEPT ![r] = global[g]]
        /\ UNCHANGED <<lastResult, reportGen, fileVars>> /\ ReportRest

\* Result or WriteResult takes the semaphore; SwapOut empties the set under it.
GatherResult(r) ==
    LET g == reportGen[r]
    IN  /\ ReportStep(r, "acquire", IF FileOf(r) # Terminal THEN "write"
                                    ELSE IF mode.cumulative THEN "render" ELSE "commit")
        /\ IF mode.cumulative THEN Acquire(g, r) /\ UNCHANGED <<global, shown>>
           ELSE /\ semaphore[g] = Nobody /\ UNCHANGED semaphore
                /\ global' = [global EXCEPT ![g] = EmptyBag]
                /\ shown' = Plus(shown, global[g])
        /\ result' = [result EXCEPT ![r] = global[g]]
        /\ UNCHANGED <<lastResult, reportGen, fileVars>> /\ ReportRest

\* The reporter sleeps again and forgets what it reported.
EndReport(r, from) ==
    /\ ReportStep(r, from, IF r = Reporter THEN "sleep" ELSE "finished")
    /\ result' = [result EXCEPT ![Reporter] = IF r = Reporter THEN EmptyBag ELSE @]
    /\ reportGen' = [reportGen EXCEPT ![Reporter] = IF r = Reporter THEN 0 ELSE @]

RenderResult(r) ==
    /\ ReportStep(r, "render", "commit")
    /\ Release(reportGen[r])
    /\ UNCHANGED <<global, lastResult, reportGen, result, fileVars, shown>> /\ ReportRest

\* The result of an older query is discarded.
CommitRenderedResult(r) ==
    /\ EndReport(r, "commit")
    /\ lastResult' = IF generation = reportGen[r] THEN result[r] ELSE lastResult
    /\ UNCHANGED <<global, semaphore, fileVars, shown>> /\ ReportRest

------------------------------------------------------------------------------
(* WriteResult.  The temporary file is named after the outfile: every query    *)
(* that names the outfile, under a semaphore of its own, writes the same one.  *)

\* The file closed and the semaphore released, with or without an error.
WriteReturns(r, from) ==
    /\ EndReport(r, from)
    /\ IF mode.cumulative THEN Release(reportGen[r]) ELSE UNCHANGED semaphore
    /\ shared' = [shared EXCEPT ![r] = FALSE]

WriteRest == UNCHANGED <<global, lastResult, shown>> /\ ReportRest

HasOpen(q, f) == fd[q] # "none" /\ FileOf(q) = f

\* The temporary file is opened and emptied, by whatever report wrote it before.
OpenTmpfile(r) ==
    LET f == FileOf(r)
        others == {q \in {Reporter, Main} \ {r} : HasOpen(q, f) /\ reportGen[q] # reportGen[r]}
    IN  /\ \/ /\ ReportStep(r, "write", "rows")
              /\ tmpfile' = [tmpfile EXCEPT ![f] = {Blank}]
              /\ fd' = [fd EXCEPT ![r] = "tmp"]
              /\ shared' = [q \in {Reporter, Main} |->
                                shared[q] \/ (others # {} /\ q \in others \union {r})]
              /\ UNCHANGED <<semaphore, reportGen, result>>
           \/ WriteReturns(r, "write") /\ UNCHANGED <<tmpfile, fd>>
        /\ UNCHANGED outfile /\ WriteRest

\* The rows go wherever the file that was opened is by now; an error may leave
\* some of them.
WriteRows(r) ==
    \E complete \in BOOLEAN :
        LET f == FileOf(r)
            Put(file) == (file \ {Blank}) \union {IF complete THEN Rows(r) ELSE Blank}
        IN  /\ IF complete THEN ReportStep(r, "rows", "rename") /\ UNCHANGED <<semaphore, reportGen, result, shared, fd>>
                           ELSE WriteReturns(r, "rows") /\ fd' = [fd EXCEPT ![r] = "none"]
            /\ tmpfile' = [tmpfile EXCEPT ![f] = IF fd[r] = "tmp" THEN Put(@) ELSE @]
            /\ outfile' = [outfile EXCEPT ![f] = IF fd[r] = "out" THEN Put(@) ELSE @]
            /\ WriteRest

\* Mutant: a rename that fails returns without releasing the semaphore.
RenameFailsLocked(r) ==
    LET f == FileOf(r)
    IN  /\ EndReport(r, "rename")
        /\ \/ /\ tmpfile[f] # NoFile
              /\ outfile' = [outfile EXCEPT ![f] = tmpfile[f]]
              /\ IF mode.cumulative THEN Release(reportGen[r]) ELSE UNCHANGED semaphore
           \/ UNCHANGED <<outfile, semaphore>>
        /\ tmpfile' = [tmpfile EXCEPT ![f] = NoFile]
        /\ fd' = [fd EXCEPT ![r] = "none"] /\ shared' = [shared EXCEPT ![r] = FALSE]
        /\ WriteRest

\* The name of the temporary file, whatever it names by now, becomes the
\* outfile's; a rename that fails removes it and leaves the old outfile.
RenameOutfile(r) ==
    \E renamed \in BOOLEAN :
        LET f == FileOf(r)
            Moved(where) == CASE where = "tmp" -> IF renamed THEN "out" ELSE "gone"
                              [] where = "out" -> IF renamed THEN "gone" ELSE "out"
                              [] OTHER -> where
        IN  /\ WriteReturns(r, "rename")
            /\ renamed => tmpfile[f] # NoFile
            /\ outfile' = IF renamed THEN [outfile EXCEPT ![f] = tmpfile[f]] ELSE outfile
            /\ tmpfile' = [tmpfile EXCEPT ![f] = NoFile]
            /\ fd' = [q \in {Reporter, Main} |-> IF q = r THEN "none"
                                               ELSE IF HasOpen(q, f) THEN Moved(fd[q]) ELSE fd[q]]
            /\ WriteRest

------------------------------------------------------------------------------
Reporting(r) ==
    \/ GatherResult(r) \/ RenderResult(r) \/ CommitRenderedResult(r)
    \/ OpenTmpfile(r) \/ WriteRows(r) \/ RenameOutfile(r)

Copying(s) == MergeNoblock(s) \/ Merged(s) \/ EmptyMerged(s)
Closing(s) == Shutdown(s) \/ Flush(s) \/ EmptyFlushed(s)

Next ==
    \/ \E m \in Message : Receive(m)
    \/ \E s \in Servers : Copying(s) \/ ServerCloses(s) \/ Cancel(s) \/ Closing(s)
    \/ CommitQuery
    \/ \E r \in {Reporter, Main} : StartReport(r) \/ Reporting(r)

\* The servers send what they have and close, a report that began ends, and the
\* semaphore, a channel, serves its waiters in turn.  Nothing has to be read from
\* a connection that has ended.
Fairness ==
    /\ \A m \in Message : WF_vars(~Ended(From[m]) /\ Receive(m))
    /\ \A s \in Servers : WF_vars(Copying(s)) /\ WF_vars(ServerCloses(s)) /\ SF_vars(Closing(s))
    /\ WF_vars(StartReport(Main))
    /\ \A r \in {Reporter, Main} : SF_vars(Reporting(r))

Spec == Init /\ [][Next]_vars /\ Fairness

------------------------------------------------------------------------------
(* Properties.                                                               *)

TypeOK ==
    /\ generation \in Generations /\ localGeneration \in [Servers -> Generations]
    /\ semaphore \in [Generations -> Servers \union {Nobody, Reporter, Main}]
    /\ global \in [Generations -> [Message -> Nat]] /\ local \in [Servers -> [Message -> Nat]]
    /\ copy \in [Servers -> {"idle", "merge", "merging", "emptying"}]
    /\ report \in [{Reporter, Main} -> {"sleep", "wait", "acquire", "render", "commit", "write", "rows",
                                        "rename", "finished"}]

\* What the local group holds and the global one does not.
Pending(s) == IF copy[s] = "emptying" \/ flush[s] = "emptying" THEN EmptyBag ELSE local[s]

\* A partial result that was received under the present query is in exactly one
\* place and once: still with its connection, in the global set or already swapped
\* out; and no query's global set ever holds what was received under another.
\* Except from a connection whose end met the copying goroutine within Aggregate.
CountedOnce ==
    \A m \in Message : ~raced[From[m]] =>
        /\ receivedIn[m] = generation =>
            Pending(From[m])[m] + global[generation][m] + shown[m] = 1
        /\ \A g \in Generations : global[g][m] > 0 => receivedIn[m] = g

\* "Flush merges any pending per-server aggregate state": whatever has been
\* merged is no longer pending, also when the connection is cancelled.
PendingMergedOnce ==
    \A m \in Message : receivedIn[m] = generation => global[generation][m] + shown[m] <= 1

\* The final result of a serverless client holds everything its connection
\* received under the last query, although merges were skipped while a report held
\* the semaphore, and however the connection ended.
Received == [m \in Message |-> IF receivedIn[m] = generation THEN 1 ELSE 0]
FinalResultComplete == mode.cumulative /\ report[Main] = "finished" => result[Main] = Received
ServerlessResultComplete == mode.serverless => FinalResultComplete

\* "During shutdown we need a blocking flush so the last local batch is not lost":
\* the same for every connector, when all servers have closed.
LastBatchNotLost == (\A s \in Servers : link[s] = "closed") => FinalResultComplete

\* The outfile is replaced by whole results only: never by a file that another
\* report has just emptied.  Except while reports of two queries with the same
\* outfile, whose semaphores are different, have its temporary file open.
OutfileWhole ==
    [][\A f \in Files : outfile'[f] # outfile[f] =>
        \E r \in {Reporter, Main} :
            /\ HasOpen(r, f)
            /\ shared[r] \/ outfile'[f] = {Rows(r)}]_vars

\* "Always rename .tmp to .csv after writing": what is renamed has been written,
\* also across a change of the query.
RenamedAfterWriting == \A f \in Files : Blank \notin outfile[f]

\* Every server's close leads to the end of the client: no report or merge waits
\* for the semaphore for ever.
ClientFinishes == <>(report[Main] = "finished" /\ \A s \in Servers : flush[s] = "done")
=============================================================================
