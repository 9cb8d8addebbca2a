------------------------ MODULE ClientMapReduceProofs ------------------------
(***************************************************************************)
(* Proofs about ClientMapReduce, for every set of servers and of partial   *)
(* results, every number of queries and every mode of the client.          *)
(***************************************************************************)
EXTENDS ClientMapReduce, TLAPS

-----------------------------------------------------------------------------
(* The parts of the inductive invariant. *)

Reporters == {Reporter, Main}
Bag == [Message -> Nat]

TypeInv ==
    /\ TypeOK
    /\ mode \in Modes
    /\ toReceive \subseteq Message
    /\ link \in [Servers -> {"open", "closed", "cancelled"}]
    /\ snap \in [Servers -> Generations] /\ flushSnap \in [Servers -> Generations]
    /\ flush \in [Servers -> {"no", "wait", "emptying", "done"}]
    /\ raced \in [Servers -> BOOLEAN]
    /\ reportGen \in [Reporters -> Generations]
    /\ result \in [Reporters -> Bag]
    /\ shown \in Bag
    /\ fd \in [Reporters -> {"none", "tmp", "out", "gone"}]
    /\ shared \in [Reporters -> BOOLEAN]
    /\ DOMAIN tmpfile = Files /\ DOMAIN outfile = Files
    /\ receivedIn \in [Message -> Generations \union {NotReceived}]

\* What has not been received is nowhere, and nothing comes from the future.
ReceivedInv ==
    \A m \in Message :
        /\ m \in toReceive => receivedIn[m] = NotReceived
        /\ receivedIn[m] = NotReceived =>
            /\ \A s \in Servers : local[s][m] = 0
            /\ \A g \in Generations : global[g][m] = 0
            /\ shown[m] = 0
        /\ receivedIn[m] # NotReceived => receivedIn[m] <= generation

\* A local group holds messages of its own server, received under the query the
\* group is for.
LocalInv ==
    \A s \in Servers : \A m \in Message :
        local[s][m] > 0 => From[m] = s /\ receivedIn[m] = localGeneration[s]

\* Unless the two goroutines of a connection met in Aggregate, only one of them is
\* there, and it merges into the query the local group is for.
ApartInv ==
    \A s \in Servers :
        /\ raced[s] => flush[s] # "no"
        /\ ~raced[s] => /\ flush[s] \in {"wait", "emptying"} => copy[s] = "idle"
                        /\ copy[s] \in {"merge", "merging"} => snap[s] = localGeneration[s]
                        /\ flush[s] = "wait" => flushSnap[s] = localGeneration[s]

\* A handler is shut down after its connection has ended; a serverless one when
\* its copying goroutine is through, so that nothing is left behind.
FlushInv ==
    \A s \in Servers :
        /\ flush[s] # "no" => Ended(s)
        /\ mode.serverless =>
            /\ ~raced[s]
            /\ flush[s] # "no" => copy[s] = "idle"
            /\ flush[s] = "done" => local[s] = EmptyBag

\* The result that is shown at the end.
MainInv ==
    report[Main] # "wait" =>
        /\ reportGen[Main] = generation
        /\ mode.serverless => \A s \in Servers : flush[s] = "done"
        /\ (mode.serverless /\ mode.cumulative /\ report[Main] # "acquire") => result[Main] = Received

\* Nothing is swapped out of a cumulative client's sets.
ShownInv == mode.cumulative => shown = EmptyBag

IInv ==
    /\ TypeInv /\ ReceivedInv /\ LocalInv /\ ApartInv /\ FlushInv /\ MainInv /\ ShownInv
    /\ CountedOnce

Writing == {"write", "rows", "rename"}

\* Who holds the semaphore of a query; the final report is made by one that
\* accumulates, so that two reports on one query never write at the same time.
HolderInv ==
    /\ \A s \in Servers : copy[s] = "merging" => semaphore[snap[s]] = s
    /\ \A r \in Reporters : mode.cumulative /\ report[r] \in Writing \union {"render"} =>
        semaphore[reportGen[r]] = r
    /\ \A r \in Reporters : report[r] = "render" => mode.cumulative
    /\ ~mode.cumulative => report[Main] \in {"wait", "finished"}

SharesFile(q, r) == fd[q] # "none" /\ FileOf(q) = FileOf(r)

\* A report that has the temporary file to itself finds in it what it has written.
TmpfileInv ==
    \A r \in Reporters :
        /\ report[r] \in Writing => FileOf(r) \in Files
        /\ fd[r] # "none" <=> report[r] \in {"rows", "rename"}
        /\ fd[r] # "none" /\ ~shared[r] =>
            /\ fd[r] = "tmp"
            /\ tmpfile[FileOf(r)] = IF report[r] = "rows" THEN {Blank} ELSE {Rows(r)}
        /\ \A q \in Reporters : q # r /\ fd[r] # "none" /\ SharesFile(q, r) => shared[r]

-----------------------------------------------------------------------------
(* Bags, and the steps by what they are. *)

LEMMA BagFacts ==
    /\ EmptyBag \in Bag /\ \A m \in Message : EmptyBag[m] = 0
    /\ \A a, b \in Bag : Plus(a, b) \in Bag
    /\ \A a, b \in Bag : \A m \in Message : Plus(a, b)[m] = a[m] + b[m]
  BY DEF Bag, EmptyBag, Plus

LEMMA GenerationFacts ==
    /\ MaxGeneration \in Nat /\ NotReceived = MaxGeneration + 1
    /\ NotReceived \notin Generations /\ 0 \in Generations
    /\ \A g \in Generations : g \in Nat /\ g <= MaxGeneration
  BY MapReduceAssumption DEF Generations, NotReceived

Reports(r) ==
    \/ StartReport(r) \/ GatherResult(r) \/ RenderResult(r) \/ CommitRenderedResult(r)
    \/ OpenTmpfile(r) \/ WriteRows(r) \/ RenameOutfile(r)

Ends(s) == \E how \in {"closed", "cancelled"} : End(s, how)

Connection(s) ==
    \/ MergeNoblock(s) \/ Merged(s) \/ EmptyMerged(s) \/ Ends(s)
    \/ Shutdown(s) \/ Flush(s) \/ EmptyFlushed(s)

\* What the steps of connections and of reports leave alone.
LEMMA ConnectionLeaves ==
    /\ \A m \in Message : Receive(m) => UNCHANGED <<mode, generation, reportVars>>
    /\ \A s \in Servers : Connection(s) =>
        UNCHANGED <<mode, generation, toReceive, shown, receivedIn, reportVars>>
  BY DEF Receive, Connection, MergeNoblock, Merged, EmptyMerged, Ends, End, Shutdown, Flush, EmptyFlushed,
         AggregateRest, ShutdownRest, reportVars

LEMMA ReportsLeave ==
    \A r \in Reporters : Reports(r) => UNCHANGED <<mode, generation, toReceive, link, aggVars, receivedIn>>
  BY DEF Reports, StartReport, GatherResult, RenderResult, CommitRenderedResult, OpenTmpfile,
         WriteRows, RenameOutfile, ReportRest, WriteRest

LEMMA NextSplit ==
    [Next]_vars =>
        \/ CommitQuery \/ UNCHANGED vars
        \/ \E m \in Message : Receive(m)
        \/ \E s \in Servers : Connection(s)
        \/ \E r \in Reporters : Reports(r)
<1>1. \A s \in Servers : Copying(s) \/ ServerCloses(s) \/ Cancel(s) \/ Closing(s) => Connection(s)
  BY DEF Connection, Copying, Closing, Ends, ServerCloses, Cancel
<1>2. \A r \in Reporters : StartReport(r) \/ Reporting(r) => Reports(r)
  BY DEF Reporting, Reports
<1> QED BY <1>1, <1>2 DEF Next, Reporters

\* Steps that leave all group sets as they are.
bagVars == <<generation, toReceive, localGeneration, local, global, shown, receivedIn>>

LEMMA QuietBags ==
    /\ \A s \in Servers : MergeNoblock(s) \/ Ends(s) => UNCHANGED bagVars
    /\ \A r \in Reporters :
        /\ (StartReport(r) \/ RenderResult(r) \/ CommitRenderedResult(r) \/ OpenTmpfile(r)
            \/ WriteRows(r) \/ RenameOutfile(r)) => UNCHANGED bagVars
        /\ GatherResult(r) /\ mode.cumulative => UNCHANGED bagVars
<1> USE DEF bagVars, aggVars, reportVars, ReportRest, WriteRest
<1>1. ASSUME NEW s \in Servers, MergeNoblock(s) \/ Ends(s) PROVE UNCHANGED bagVars
  BY <1>1 DEF MergeNoblock, Ends, End, AggregateRest
<1>2. ASSUME NEW r \in Reporters, StartReport(r) \/ RenderResult(r) PROVE UNCHANGED bagVars
  BY <1>2 DEF StartReport, RenderResult
<1>3. ASSUME NEW r \in Reporters, CommitRenderedResult(r) \/ OpenTmpfile(r) PROVE UNCHANGED bagVars
  BY <1>3 DEF CommitRenderedResult, OpenTmpfile
<1>4. ASSUME NEW r \in Reporters, WriteRows(r) \/ RenameOutfile(r) PROVE UNCHANGED bagVars
  BY <1>4 DEF WriteRows, RenameOutfile
<1>5. ASSUME NEW r \in Reporters, GatherResult(r) /\ mode.cumulative PROVE UNCHANGED bagVars
  BY <1>5 DEF GatherResult
<1> HIDE DEF bagVars, aggVars, reportVars, ReportRest, WriteRest
<1> QED BY <1>1, <1>2, <1>3, <1>4, <1>5

-----------------------------------------------------------------------------
(* Types. *)

LEMMA ConnectionTyping ==
    TypeInv /\ [Next]_vars =>
        /\ generation' \in Generations
        /\ mode' \in Modes /\ mode' = mode
        /\ toReceive' \subseteq Message
        /\ link' \in [Servers -> {"open", "closed", "cancelled"}]
        /\ snap' \in [Servers -> Generations] /\ localGeneration' \in [Servers -> Generations]
        /\ flushSnap' \in [Servers -> Generations]
        /\ flush' \in [Servers -> {"no", "wait", "emptying", "done"}]
        /\ copy' \in [Servers -> {"idle", "merge", "merging", "emptying"}]
        /\ raced' \in [Servers -> BOOLEAN]
        /\ receivedIn' \in [Message -> Generations \union {NotReceived}]
<1> DEFINE Goal ==
        /\ generation' \in Generations
        /\ mode' \in Modes /\ mode' = mode
        /\ toReceive' \subseteq Message
        /\ link' \in [Servers -> {"open", "closed", "cancelled"}]
        /\ snap' \in [Servers -> Generations] /\ localGeneration' \in [Servers -> Generations]
        /\ flushSnap' \in [Servers -> Generations]
        /\ flush' \in [Servers -> {"no", "wait", "emptying", "done"}]
        /\ copy' \in [Servers -> {"idle", "merge", "merging", "emptying"}]
        /\ raced' \in [Servers -> BOOLEAN]
        /\ receivedIn' \in [Message -> Generations \union {NotReceived}]
<1> SUFFICES ASSUME TypeInv, [Next]_vars PROVE Goal
  OBVIOUS
<1>0. /\ generation \in Generations
      /\ mode \in Modes
      /\ toReceive \subseteq Message
      /\ link \in [Servers -> {"open", "closed", "cancelled"}]
      /\ snap \in [Servers -> Generations] /\ localGeneration \in [Servers -> Generations]
      /\ flushSnap \in [Servers -> Generations]
      /\ flush \in [Servers -> {"no", "wait", "emptying", "done"}]
      /\ copy \in [Servers -> {"idle", "merge", "merging", "emptying"}]
      /\ raced \in [Servers -> BOOLEAN]
      /\ receivedIn \in [Message -> Generations \union {NotReceived}]
  BY DEF TypeInv, TypeOK
<1> USE DEF aggVars, reportVars, AggregateRest, ShutdownRest
<1>1. ASSUME NEW m \in Message, Receive(m) PROVE Goal
  <2>1. /\ UNCHANGED <<mode, generation, link, flush, flushSnap>> /\ toReceive' \subseteq toReceive
        /\ snap' = [snap EXCEPT ![From[m]] = generation]
        /\ localGeneration' = [localGeneration EXCEPT ![From[m]] = generation]
        /\ receivedIn' = [receivedIn EXCEPT ![m] = generation]
        /\ copy' = [copy EXCEPT ![From[m]] = "merge"]
        /\ raced' = [raced EXCEPT ![From[m]] = @ \/ flush[From[m]] \in {"wait", "emptying"}]
    BY <1>1 DEF Receive
  <2> QED BY <1>0, <2>1
<1>2. ASSUME NEW s \in Servers, MergeNoblock(s) \/ Merged(s) \/ EmptyMerged(s) PROVE Goal
  BY <1>0, <1>2 DEF MergeNoblock, Merged, EmptyMerged
<1>3. ASSUME NEW s \in Servers, Ends(s) \/ Flush(s) \/ EmptyFlushed(s) PROVE Goal
  BY <1>0, <1>3 DEF Ends, End, Flush, EmptyFlushed
<1>4. ASSUME NEW s \in Servers, Shutdown(s) PROVE Goal
  <2>1. /\ UNCHANGED <<mode, generation, toReceive, link, copy, snap, receivedIn>>
        /\ localGeneration' = [localGeneration EXCEPT ![s] = generation]
        /\ flushSnap' = [flushSnap EXCEPT ![s] = generation]
        /\ raced' = [raced EXCEPT ![s] = copy[s] # "idle"]
        /\ flush' = [flush EXCEPT ![s] = IF generation # localGeneration[s] THEN "done" ELSE "wait"]
    BY <1>4 DEF Shutdown
  <2> QED BY <1>0, <2>1
<1>5. CASE CommitQuery
  <2>1. generation' \in Generations
    BY <1>0, <1>5, GenerationFacts DEF CommitQuery, Generations
  <2> QED BY <1>0, <1>5, <2>1 DEF CommitQuery
<1>6. CASE UNCHANGED vars
  BY <1>0, <1>6 DEF vars
<1>7. ASSUME NEW r \in Reporters, Reports(r) PROVE Goal
  BY <1>0, <1>7, ReportsLeave
<1> HIDE DEF Goal
<1> QED BY <1>1, <1>2, <1>3, <1>4, <1>5, <1>6, <1>7, NextSplit DEF Connection

LEMMA SetTyping ==
    TypeInv /\ [Next]_vars =>
        /\ semaphore' \in [Generations -> Servers \union {Nobody, Reporter, Main}]
        /\ global' \in [Generations -> Bag] /\ local' \in [Servers -> Bag]
        /\ result' \in [Reporters -> Bag] /\ shown' \in Bag
<1> DEFINE Goal ==
        /\ semaphore' \in [Generations -> Servers \union {Nobody, Reporter, Main}]
        /\ global' \in [Generations -> Bag] /\ local' \in [Servers -> Bag]
        /\ result' \in [Reporters -> Bag] /\ shown' \in Bag
<1> SUFFICES ASSUME TypeInv, [Next]_vars PROVE Goal
  OBVIOUS
<1>0. /\ semaphore \in [Generations -> Servers \union {Nobody, Reporter, Main}]
      /\ global \in [Generations -> Bag] /\ local \in [Servers -> Bag]
      /\ result \in [Reporters -> Bag] /\ shown \in Bag
      /\ snap \in [Servers -> Generations] /\ flushSnap \in [Servers -> Generations]
      /\ reportGen \in [Reporters -> Generations]
  BY DEF TypeInv, TypeOK, Bag
<1> USE DEF aggVars, reportVars, ReportRest, WriteRest, AggregateRest, ShutdownRest
<1>1. ASSUME NEW m \in Message, Receive(m) PROVE Goal
  <2>1. From[m] \in Servers
    BY MapReduceAssumption
  <2> DEFINE b == IF generation # localGeneration[From[m]] THEN EmptyBag ELSE local[From[m]]
  <2>2. b \in Bag
    BY <1>0, <2>1, BagFacts
  <2>3. /\ UNCHANGED <<semaphore, global, result, shown>>
        /\ local' = [local EXCEPT ![From[m]] = [b EXCEPT ![m] = @ + 1]]
    BY <1>1 DEF Receive
  <2> HIDE DEF b
  <2>4. [b EXCEPT ![m] = @ + 1] \in Bag
    BY <2>2 DEF Bag
  <2> QED BY <1>0, <2>1, <2>3, <2>4
<1>2. ASSUME NEW s \in Servers, MergeNoblock(s) PROVE Goal
  BY <1>0, <1>2 DEF MergeNoblock, Acquire
<1>3. ASSUME NEW s \in Servers, Merged(s) \/ Flush(s) PROVE Goal
  <2>1. Plus(global[snap[s]], local[s]) \in Bag /\ Plus(global[flushSnap[s]], local[s]) \in Bag
    BY <1>0, BagFacts
  <2> QED BY <1>0, <1>3, <2>1 DEF Merged, Flush, Merge, Release
<1>4. ASSUME NEW s \in Servers, Ends(s) \/ EmptyMerged(s) \/ EmptyFlushed(s) \/ Shutdown(s) PROVE Goal
  BY <1>0, <1>4, BagFacts DEF Ends, End, EmptyMerged, EmptyFlushed, Shutdown
<1>5. CASE CommitQuery \/ UNCHANGED vars
  BY <1>0, <1>5 DEF CommitQuery, vars
<1>6. ASSUME NEW r \in Reporters, GatherResult(r) PROVE Goal
  <2>1. reportGen[r] \in Generations /\ Plus(shown, global[reportGen[r]]) \in Bag /\ EmptyBag \in Bag
    BY <1>0, BagFacts
  <2>2. r \in {Reporter, Main}
    BY DEF Reporters
  <2>3. semaphore' \in [Generations -> Servers \union {Nobody, Reporter, Main}]
    BY <1>0, <1>6, <2>1, <2>2 DEF GatherResult, Acquire
  <2>4. global' \in [Generations -> Bag] /\ shown' \in Bag
    BY <1>0, <1>6, <2>1 DEF GatherResult
  <2>5. local' = local /\ result' \in [Reporters -> Bag]
    BY <1>0, <1>6, <2>1 DEF GatherResult
  <2> QED BY <1>0, <2>3, <2>4, <2>5
<1>7. ASSUME NEW r \in Reporters, StartReport(r) \/ RenderResult(r) PROVE Goal
  BY <1>0, <1>7 DEF StartReport, RenderResult, Release
<1>8. ASSUME NEW r \in Reporters, CommitRenderedResult(r) PROVE Goal
  BY <1>0, <1>8, BagFacts DEF CommitRenderedResult, EndReport, Reporters
<1>9. ASSUME NEW r \in Reporters, OpenTmpfile(r) \/ WriteRows(r) \/ RenameOutfile(r) PROVE Goal
  <2>1. UNCHANGED <<global, local, shown>>
    BY <1>9 DEF OpenTmpfile, WriteRows, RenameOutfile
  <2>2. /\ semaphore' = semaphore \/ semaphore' = [semaphore EXCEPT ![reportGen[r]] = Nobody]
        /\ result' = result \/ result' = [result EXCEPT ![Reporter] = IF r = Reporter THEN EmptyBag ELSE @]
    BY <1>9 DEF OpenTmpfile, WriteRows, RenameOutfile, WriteReturns, EndReport, Release
  <2> QED BY <1>0, <2>1, <2>2, BagFacts DEF Reporters
<1> HIDE DEF Goal
<1> QED BY <1>1, <1>2, <1>3, <1>4, <1>5, <1>6, <1>7, <1>8, <1>9, NextSplit DEF Reports, Connection

LEMMA ReportTyping ==
    TypeInv /\ [Next]_vars =>
        /\ report' \in [Reporters -> {"sleep", "wait", "acquire", "render", "commit", "write",
                                      "rows", "rename", "finished"}]
        /\ reportGen' \in [Reporters -> Generations]
<1> DEFINE Goal ==
        /\ report' \in [Reporters -> {"sleep", "wait", "acquire", "render", "commit", "write",
                                      "rows", "rename", "finished"}]
        /\ reportGen' \in [Reporters -> Generations]
<1> SUFFICES ASSUME TypeInv, [Next]_vars PROVE Goal
  OBVIOUS
<1>0. /\ report \in [Reporters -> {"sleep", "wait", "acquire", "render", "commit", "write",
                                      "rows", "rename", "finished"}]
      /\ reportGen \in [Reporters -> Generations] /\ generation \in Generations
  BY DEF TypeInv, TypeOK, Reporters
<1> USE DEF reportVars, ReportStep
<1>1. CASE UNCHANGED <<report, reportGen>>
  BY <1>0, <1>1
<1>2. ASSUME NEW m \in Message, Receive(m) PROVE Goal
  BY <1>1, <1>2, ConnectionLeaves
<1>3. ASSUME NEW s \in Servers, Connection(s) PROVE Goal
  BY <1>1, <1>3, ConnectionLeaves
<1>4. CASE CommitQuery \/ UNCHANGED vars
  BY <1>1, <1>4 DEF CommitQuery, vars
<1>5. ASSUME NEW r \in Reporters, StartReport(r) PROVE Goal
  BY <1>0, <1>5 DEF StartReport
<1>6. ASSUME NEW r \in Reporters, GatherResult(r) \/ RenderResult(r) PROVE Goal
  BY <1>0, <1>6 DEF GatherResult, RenderResult
<1>7. ASSUME NEW r \in Reporters, NEW from, EndReport(r, from) PROVE Goal
  BY <1>0, <1>7, GenerationFacts DEF EndReport, Reporters
<1>8. ASSUME NEW r \in Reporters, CommitRenderedResult(r) \/ RenameOutfile(r) PROVE Goal
  BY <1>7, <1>8 DEF CommitRenderedResult, RenameOutfile, WriteReturns
<1>9. ASSUME NEW r \in Reporters, OpenTmpfile(r) \/ WriteRows(r) PROVE Goal
  <2>1. CASE EndReport(r, "write") \/ EndReport(r, "rows")
    BY <1>7, <2>1
  <2>2. CASE reportGen' = reportGen /\ \E to \in {"rows", "rename"} : report' = [report EXCEPT ![r] = to]
    BY <1>0, <2>2
  <2> QED BY <1>9, <2>1, <2>2 DEF OpenTmpfile, WriteRows, WriteReturns
<1> HIDE DEF Goal
<1> QED BY <1>2, <1>3, <1>4, <1>5, <1>6, <1>8, <1>9, NextSplit DEF Reports

LEMMA FileTyping ==
    TypeInv /\ [Next]_vars =>
        /\ fd' \in [Reporters -> {"none", "tmp", "out", "gone"}]
        /\ shared' \in [Reporters -> BOOLEAN]
        /\ DOMAIN tmpfile' = Files /\ DOMAIN outfile' = Files
<1> DEFINE Goal ==
        /\ fd' \in [Reporters -> {"none", "tmp", "out", "gone"}]
        /\ shared' \in [Reporters -> BOOLEAN]
        /\ DOMAIN tmpfile' = Files /\ DOMAIN outfile' = Files
<1> SUFFICES ASSUME TypeInv, [Next]_vars PROVE Goal
  OBVIOUS
<1>0. /\ fd \in [Reporters -> {"none", "tmp", "out", "gone"}]
      /\ shared \in [Reporters -> BOOLEAN]
      /\ DOMAIN tmpfile = Files /\ DOMAIN outfile = Files
      /\ Reporters = {Reporter, Main}
  BY DEF TypeInv, Reporters
<1>1. CASE UNCHANGED fileVars
  BY <1>0, <1>1 DEF fileVars
<1>2. ASSUME NEW m \in Message, Receive(m) PROVE Goal
  BY <1>1, <1>2, ConnectionLeaves DEF reportVars
<1>3. ASSUME NEW s \in Servers, Connection(s) PROVE Goal
  BY <1>1, <1>3, ConnectionLeaves DEF reportVars
<1>4. CASE CommitQuery \/ UNCHANGED vars
  BY <1>1, <1>4 DEF CommitQuery, vars, reportVars
<1>5. ASSUME NEW r \in Reporters,
             StartReport(r) \/ GatherResult(r) \/ RenderResult(r) \/ CommitRenderedResult(r)
      PROVE  Goal
  BY <1>1, <1>5 DEF StartReport, GatherResult, RenderResult, CommitRenderedResult
<1>6. ASSUME NEW r \in Reporters, OpenTmpfile(r) PROVE Goal
  <2>1. /\ tmpfile' = tmpfile \/ tmpfile' = [tmpfile EXCEPT ![FileOf(r)] = {Blank}]
        /\ outfile' = outfile /\ (fd' = fd \/ fd' = [fd EXCEPT ![r] = "tmp"])
    BY <1>6 DEF OpenTmpfile
  <2>2. shared' \in [Reporters -> BOOLEAN]
    BY <1>0, <1>6 DEF OpenTmpfile, WriteReturns
  <2> QED BY <1>0, <2>1, <2>2
<1>7. ASSUME NEW r \in Reporters, WriteRows(r) PROVE Goal
  <2>1. shared' \in [Reporters -> BOOLEAN] /\ (fd' = fd \/ fd' = [fd EXCEPT ![r] = "none"])
    BY <1>0, <1>7 DEF WriteRows, WriteReturns
  <2>2. DOMAIN tmpfile' = Files /\ DOMAIN outfile' = Files
    BY <1>0, <1>7 DEF WriteRows
  <2> QED BY <1>0, <2>1, <2>2
<1>8. ASSUME NEW r \in Reporters, RenameOutfile(r) PROVE Goal
  <2>1. PICK renamed \in BOOLEAN :
            /\ outfile' = IF renamed THEN [outfile EXCEPT ![FileOf(r)] = tmpfile[FileOf(r)]] ELSE outfile
            /\ tmpfile' = [tmpfile EXCEPT ![FileOf(r)] = NoFile]
            /\ fd' = [q \in {Reporter, Main} |->
                        IF q = r THEN "none"
                        ELSE IF HasOpen(q, FileOf(r))
                             THEN CASE fd[q] = "tmp" -> IF renamed THEN "out" ELSE "gone"
                                    [] fd[q] = "out" -> IF renamed THEN "gone" ELSE "out"
                                    [] OTHER -> fd[q]
                             ELSE fd[q]]
    BY <1>8 DEF RenameOutfile
  <2>2. shared' \in [Reporters -> BOOLEAN]
    BY <1>0, <1>8 DEF RenameOutfile, WriteReturns
  <2> QED BY <1>0, <2>1, <2>2
<1> HIDE DEF Goal
<1> QED BY <1>2, <1>3, <1>4, <1>5, <1>6, <1>7, <1>8, NextSplit DEF Reports

LEMMA TypeStep == TypeInv /\ [Next]_vars => TypeInv'
  BY ConnectionTyping, SetTyping, ReportTyping, FileTyping DEF TypeInv, TypeOK, Bag, Reporters

-----------------------------------------------------------------------------
(* What a step does to the group sets. *)

\* Aggregate: the message goes to the group of its server, which is emptied
\* first when it belongs to another query.
LEMMA ReceiveEffect ==
    ASSUME TypeInv, NEW m \in Message, Receive(m)
    PROVE  /\ From[m] \in Servers /\ m \in toReceive /\ copy[From[m]] = "idle"
           /\ mode.serverless => flush[From[m]] = "no"
           /\ toReceive' = toReceive \ {m}
           /\ \A k \in Message : receivedIn'[k] = IF k = m THEN generation ELSE receivedIn[k]
           /\ \A s \in Servers : s # From[m] =>
                /\ local'[s] = local[s] /\ localGeneration'[s] = localGeneration[s]
                /\ snap'[s] = snap[s] /\ copy'[s] = copy[s] /\ raced'[s] = raced[s]
           /\ localGeneration'[From[m]] = generation /\ snap'[From[m]] = generation
           /\ copy'[From[m]] = "merge"
           /\ raced'[From[m]] = (raced[From[m]] \/ flush[From[m]] \in {"wait", "emptying"})
           /\ \A k \in Message : local'[From[m]][k] =
                (IF generation # localGeneration[From[m]] THEN 0 ELSE local[From[m]][k])
                    + (IF k = m THEN 1 ELSE 0)
           /\ UNCHANGED <<mode, generation, global, shown, link, flush, flushSnap>>
<1>1. From[m] \in Servers
  BY MapReduceAssumption
<1>0. /\ local \in [Servers -> Bag] /\ localGeneration \in [Servers -> Generations]
      /\ snap \in [Servers -> Generations] /\ raced \in [Servers -> BOOLEAN]
      /\ copy \in [Servers -> {"idle", "merge", "merging", "emptying"}]
      /\ receivedIn \in [Message -> Generations \union {NotReceived}]
  BY DEF TypeInv, TypeOK, Bag
<1> DEFINE b == IF generation # localGeneration[From[m]] THEN EmptyBag ELSE local[From[m]]
<1>2. b \in Bag
  BY <1>0, <1>1, BagFacts
<1>3. \A k \in Message : b[k] = IF generation # localGeneration[From[m]] THEN 0 ELSE local[From[m]][k]
  BY BagFacts
<1>4. local' = [local EXCEPT ![From[m]] = [b EXCEPT ![m] = @ + 1]]
  BY <1>1 DEF Receive
<1>5. /\ localGeneration' = [localGeneration EXCEPT ![From[m]] = generation]
      /\ snap' = [snap EXCEPT ![From[m]] = generation]
      /\ copy' = [copy EXCEPT ![From[m]] = "merge"]
      /\ raced' = [raced EXCEPT ![From[m]] = @ \/ flush[From[m]] \in {"wait", "emptying"}]
      /\ receivedIn' = [receivedIn EXCEPT ![m] = generation]
      /\ m \in toReceive /\ copy[From[m]] = "idle" /\ toReceive' = toReceive \ {m}
      /\ mode.serverless => flush[From[m]] = "no"
      /\ UNCHANGED <<mode, generation, global, shown, link, flush, flushSnap>>
  BY DEF Receive, reportVars
<1> HIDE DEF b
<1>6. \A k \in Message : [b EXCEPT ![m] = @ + 1][k] = b[k] + (IF k = m THEN 1 ELSE 0)
  BY <1>2 DEF Bag
<1>7. \A k \in Message : local'[From[m]][k] = b[k] + (IF k = m THEN 1 ELSE 0)
  BY <1>0, <1>1, <1>4, <1>6
<1>8. \A k \in Message : local'[From[m]][k] =
                (IF generation # localGeneration[From[m]] THEN 0 ELSE local[From[m]][k])
                    + (IF k = m THEN 1 ELSE 0)
  BY <1>3, <1>7
<1>9. \A s \in Servers : s # From[m] =>
                /\ local'[s] = local[s] /\ localGeneration'[s] = localGeneration[s]
                /\ snap'[s] = snap[s] /\ copy'[s] = copy[s] /\ raced'[s] = raced[s]
  BY <1>0, <1>1, <1>4, <1>5
<1>10. /\ localGeneration'[From[m]] = generation /\ snap'[From[m]] = generation
       /\ copy'[From[m]] = "merge"
       /\ raced'[From[m]] = (raced[From[m]] \/ flush[From[m]] \in {"wait", "emptying"})
  BY <1>0, <1>1, <1>5
<1>11. \A k \in Message : receivedIn'[k] = IF k = m THEN generation ELSE receivedIn[k]
  BY <1>0, <1>5
<1> QED BY <1>1, <1>5, <1>8, <1>9, <1>10, <1>11

\* MergeNoblock's merge and Flush: the group of a server is added to the set of
\* the query that the goroutine has seen, and is emptied in another step.
Merges(s, g) ==
    /\ \/ /\ copy[s] = "merging" /\ g = snap[s]
          /\ copy' = [copy EXCEPT ![s] = "emptying"] /\ UNCHANGED flush
       \/ /\ flush[s] = "wait" /\ g = flushSnap[s]
          /\ flush' = [flush EXCEPT ![s] = "emptying"] /\ UNCHANGED copy
    /\ Merge(g, local[s])
    /\ UNCHANGED <<mode, generation, toReceive, localGeneration, local, shown, receivedIn, snap, flushSnap,
                   raced, link>>

LEMMA MergeEffect ==
    ASSUME TypeInv, NEW s \in Servers, Merged(s) \/ Flush(s)
    PROVE  \E g \in Generations : Merges(s, g)
<1>0. snap[s] \in Generations /\ flushSnap[s] \in Generations
  BY DEF TypeInv
<1>1. CASE Merged(s)
  <2>1. Merges(s, snap[s])
    BY <1>1 DEF Merged, Merges, AggregateRest, reportVars
  <2> QED BY <1>0, <2>1
<1>2. CASE Flush(s)
  <2>1. Merges(s, flushSnap[s])
    BY <1>2 DEF Flush, Merges, ShutdownRest, reportVars
  <2> QED BY <1>0, <2>1
<1> QED BY <1>1, <1>2

LEMMA MergesEffect ==
    ASSUME TypeInv, NEW s \in Servers, NEW g \in Generations, Merges(s, g)
    PROVE  /\ \A k \in Message : global'[g][k] = global[g][k] + local[s][k]
           /\ \A h \in Generations : h # g => global'[h] = global[h]
           /\ copy'[s] = "emptying" \/ flush'[s] = "emptying"
           /\ \A t \in Servers : t # s => copy'[t] = copy[t] /\ flush'[t] = flush[t]
<1>0. /\ global \in [Generations -> Bag] /\ DOMAIN copy = Servers /\ DOMAIN flush = Servers
  BY DEF TypeInv, TypeOK, Bag
<1>1. global' = [global EXCEPT ![g] = Plus(global[g], local[s])]
  BY DEF Merges, Merge
<1>2. \A k \in Message : Plus(global[g], local[s])[k] = global[g][k] + local[s][k]
  BY DEF Plus
<1>3. /\ copy'[s] = "emptying" \/ flush'[s] = "emptying"
      /\ \A t \in Servers : t # s => copy'[t] = copy[t] /\ flush'[t] = flush[t]
  BY <1>0 DEF Merges
<1> QED BY <1>0, <1>1, <1>2, <1>3

\* The InitSet after a merge or a flush.
Empties(s) ==
    /\ \/ copy[s] = "emptying" /\ copy' = [copy EXCEPT ![s] = "idle"] /\ UNCHANGED flush
       \/ flush[s] = "emptying" /\ flush' = [flush EXCEPT ![s] = "done"] /\ UNCHANGED copy
    /\ local' = [local EXCEPT ![s] = EmptyBag]
    /\ UNCHANGED <<mode, generation, toReceive, localGeneration, global, shown, receivedIn, snap, flushSnap,
                   raced, link>>

LEMMA EmptyEffect == \A s \in Servers : EmptyMerged(s) \/ EmptyFlushed(s) => Empties(s)
  BY DEF EmptyMerged, EmptyFlushed, Empties, AggregateRest, ShutdownRest, reportVars

\* Shutdown drops a group of an older query.
LEMMA ShutdownEffect ==
    ASSUME TypeInv, NEW s \in Servers, Shutdown(s)
    PROVE  /\ UNCHANGED <<mode, generation, toReceive, global, shown, receivedIn, link, copy, snap>>
           /\ Ended(s) /\ flush[s] = "no" /\ (mode.serverless => copy[s] = "idle")
           /\ localGeneration'[s] = generation /\ flushSnap'[s] = generation
           /\ raced'[s] = (copy[s] # "idle")
           /\ local'[s] = IF generation # localGeneration[s] THEN EmptyBag ELSE local[s]
           /\ flush'[s] = IF generation # localGeneration[s] THEN "done" ELSE "wait"
           /\ \A t \in Servers : t # s =>
                /\ local'[t] = local[t] /\ localGeneration'[t] = localGeneration[t]
                /\ flushSnap'[t] = flushSnap[t] /\ raced'[t] = raced[t] /\ flush'[t] = flush[t]
<1>0. /\ local \in [Servers -> Bag] /\ localGeneration \in [Servers -> Generations]
      /\ flushSnap \in [Servers -> Generations] /\ raced \in [Servers -> BOOLEAN]
      /\ flush \in [Servers -> {"no", "wait", "emptying", "done"}]
  BY DEF TypeInv, TypeOK, Bag
<1>1. /\ UNCHANGED <<mode, generation, toReceive, global, shown, receivedIn, link, copy, snap>>
      /\ Ended(s) /\ flush[s] = "no" /\ (mode.serverless => copy[s] = "idle")
      /\ flush' = [flush EXCEPT ![s] = IF generation # localGeneration[s] THEN "done" ELSE "wait"]
      /\ local' = [local EXCEPT ![s] = IF generation # localGeneration[s] THEN EmptyBag ELSE @]
      /\ localGeneration' = [localGeneration EXCEPT ![s] = generation]
      /\ flushSnap' = [flushSnap EXCEPT ![s] = generation]
      /\ raced' = [raced EXCEPT ![s] = copy[s] # "idle"]
  BY DEF Shutdown, ShutdownRest, reportVars
<1>2. /\ localGeneration'[s] = generation /\ flushSnap'[s] = generation
      /\ local'[s] = IF generation # localGeneration[s] THEN EmptyBag ELSE local[s]
      /\ flush'[s] = IF generation # localGeneration[s] THEN "done" ELSE "wait"
  BY <1>0, <1>1
<1>3. raced'[s] = (copy[s] # "idle")
  BY <1>0, <1>1
<1>4. \A t \in Servers : t # s =>
                /\ local'[t] = local[t] /\ localGeneration'[t] = localGeneration[t]
                /\ flushSnap'[t] = flushSnap[t] /\ raced'[t] = raced[t] /\ flush'[t] = flush[t]
  BY <1>0, <1>1
<1> QED BY <1>1, <1>2, <1>3, <1>4

\* SwapOut, by a client that does not accumulate.
LEMMA SwapEffect ==
    ASSUME TypeInv, NEW r \in Reporters, GatherResult(r), ~mode.cumulative
    PROVE  /\ UNCHANGED <<generation, toReceive, localGeneration, local, receivedIn>>
           /\ reportGen[r] \in Generations
           /\ global'[reportGen[r]] = EmptyBag
           /\ \A g \in Generations : g # reportGen[r] => global'[g] = global[g]
           /\ \A k \in Message : shown'[k] = shown[k] + global[reportGen[r]][k]
<1>0. global \in [Generations -> Bag] /\ reportGen \in [Reporters -> Generations] /\ shown \in Bag
  BY DEF TypeInv, TypeOK, Bag
<1>1. /\ UNCHANGED <<generation, toReceive, localGeneration, local, receivedIn>>
      /\ global' = [global EXCEPT ![reportGen[r]] = EmptyBag]
      /\ shown' = Plus(shown, global[reportGen[r]])
  BY DEF GatherResult, ReportRest, aggVars
<1>2. \A k \in Message : shown'[k] = shown[k] + global[reportGen[r]][k]
  BY <1>1 DEF Plus
<1> QED BY <1>0, <1>1, <1>2

-----------------------------------------------------------------------------
(* Every step preserves the accounting. *)

\* The group sets hold what was received, where it was received.
LEMMA ReceivedStep ==
    TypeInv /\ ReceivedInv /\ LocalInv /\ [Next]_vars => ReceivedInv' /\ LocalInv'
<1> SUFFICES ASSUME TypeInv, ReceivedInv, LocalInv, [Next]_vars PROVE ReceivedInv' /\ LocalInv'
  OBVIOUS
<1>0. /\ generation \in Generations /\ local \in [Servers -> Bag] /\ global \in [Generations -> Bag]
      /\ localGeneration \in [Servers -> Generations] /\ shown \in Bag
      /\ receivedIn \in [Message -> Generations \union {NotReceived}]
      /\ \A m \in Message : From[m] \in Servers
  BY MapReduceAssumption DEF TypeInv, TypeOK, Bag
<1>00. /\ \A s \in Servers, m \in Message : local[s][m] \in Nat
       /\ \A g \in Generations, m \in Message : global[g][m] \in Nat
       /\ \A m \in Message : shown[m] \in Nat
  BY <1>0 DEF Bag
<1>01. \A s \in Servers, m \in Message : local[s][m] > 0 => From[m] = s /\ receivedIn[m] = localGeneration[s]
  BY DEF LocalInv
<1>02. \A m \in Message :
        /\ m \in toReceive => receivedIn[m] = NotReceived
        /\ receivedIn[m] = NotReceived =>
            /\ \A s \in Servers : local[s][m] = 0
            /\ \A g \in Generations : global[g][m] = 0
            /\ shown[m] = 0
        /\ receivedIn[m] # NotReceived => receivedIn[m] <= generation
  BY DEF ReceivedInv
<1>1. CASE UNCHANGED bagVars
  BY <1>1 DEF bagVars, ReceivedInv, LocalInv
<1>2. ASSUME NEW m \in Message, Receive(m) PROVE ReceivedInv' /\ LocalInv'
  <2>1. receivedIn[m] = NotReceived /\ local[From[m]][m] = 0
    BY <1>0, <1>02, <1>2, ReceiveEffect
  <2>2. \A s \in Servers, k \in Message : local'[s][k] > 0 =>
            From[k] = s /\ receivedIn'[k] = localGeneration'[s]
    <3> SUFFICES ASSUME NEW s \in Servers, NEW k \in Message, local'[s][k] > 0
                 PROVE  From[k] = s /\ receivedIn'[k] = localGeneration'[s]
      OBVIOUS
    <3>1. CASE s # From[m]
      <4>1. local[s][k] > 0 /\ localGeneration'[s] = localGeneration[s]
        BY <1>2, <3>1, ReceiveEffect
      <4>2. From[k] = s /\ receivedIn[k] = localGeneration[s]
        BY <1>01, <4>1
      <4>3. k # m
        BY <3>1, <4>2
      <4> QED BY <1>2, <4>1, <4>2, <4>3, ReceiveEffect
    <3>2. CASE s = From[m] /\ k = m
      BY <1>2, <3>2, ReceiveEffect
    <3>3. CASE s = From[m] /\ k # m
      <4>1. /\ local'[s][k] = (IF generation # localGeneration[s] THEN 0 ELSE local[s][k]) + 0
            /\ localGeneration'[s] = generation /\ receivedIn'[k] = receivedIn[k]
        BY <1>2, <3>3, ReceiveEffect
      <4>2. generation = localGeneration[s] /\ local[s][k] > 0
        BY <1>00, <4>1
      <4> QED BY <1>01, <4>1, <4>2
    <3> QED BY <3>1, <3>2, <3>3
  <2>3. ReceivedInv'
    <3> SUFFICES ASSUME NEW k \in Message
                 PROVE  /\ k \in toReceive' => receivedIn'[k] = NotReceived
                        /\ receivedIn'[k] = NotReceived =>
                            /\ \A s \in Servers : local'[s][k] = 0
                            /\ \A g \in Generations : global'[g][k] = 0
                            /\ shown'[k] = 0
                        /\ receivedIn'[k] # NotReceived => receivedIn'[k] <= generation'
      BY DEF ReceivedInv
    <3>1. CASE k = m
      BY <1>0, <1>2, <3>1, ReceiveEffect, GenerationFacts
    <3>2. CASE k # m
      <4>1. /\ receivedIn'[k] = receivedIn[k] /\ generation' = generation /\ shown' = shown
            /\ global' = global /\ (k \in toReceive' => k \in toReceive)
        BY <1>2, <3>2, ReceiveEffect
      <4>2. ASSUME receivedIn[k] = NotReceived, NEW s \in Servers PROVE local'[s][k] = 0
        BY <1>02, <1>2, <3>2, <4>2, ReceiveEffect
      <4> QED BY <1>02, <4>1, <4>2
    <3> QED BY <3>1, <3>2
  <2> QED BY <2>2, <2>3 DEF LocalInv
<1>3. ASSUME NEW s \in Servers, Merged(s) \/ Flush(s) PROVE ReceivedInv' /\ LocalInv'
  <2>1. PICK g \in Generations : Merges(s, g)
    BY <1>3, MergeEffect
  <2>2. /\ UNCHANGED <<generation, toReceive, localGeneration, local, shown, receivedIn>>
    BY <2>1 DEF Merges
  <2>3. \A h \in Generations, k \in Message : receivedIn[k] = NotReceived => global'[h][k] = 0
    BY <1>02, <2>1, MergesEffect
  <2> QED BY <1>01, <1>02, <2>2, <2>3 DEF LocalInv, ReceivedInv
<1>4. ASSUME NEW s \in Servers, EmptyMerged(s) \/ EmptyFlushed(s) PROVE ReceivedInv' /\ LocalInv'
  <2>1. /\ UNCHANGED <<generation, toReceive, localGeneration, global, shown, receivedIn>>
        /\ local' = [local EXCEPT ![s] = EmptyBag]
    BY <1>4, EmptyEffect DEF Empties
  <2>2. \A t \in Servers, k \in Message : local'[t][k] = local[t][k] \/ local'[t][k] = 0
    BY <1>0, <2>1, BagFacts
  <2> QED BY <1>01, <1>02, <2>1, <2>2 DEF LocalInv, ReceivedInv
<1>5. ASSUME NEW s \in Servers, Shutdown(s) PROVE ReceivedInv' /\ LocalInv'
  <2>1. /\ UNCHANGED <<generation, toReceive, global, shown, receivedIn>>
        /\ localGeneration'[s] = generation
        /\ \A k \in Message : local'[s][k] = IF generation # localGeneration[s] THEN 0 ELSE local[s][k]
        /\ \A t \in Servers : t # s => local'[t] = local[t] /\ localGeneration'[t] = localGeneration[t]
    BY <1>5, ShutdownEffect, BagFacts
  <2>2. \A t \in Servers, k \in Message : local'[t][k] > 0 =>
            From[k] = t /\ receivedIn[k] = localGeneration'[t]
    BY <1>00, <1>01, <2>1
  <2>3. \A t \in Servers, k \in Message : local[t][k] = 0 => local'[t][k] = 0
    BY <2>1
  <2>4. ReceivedInv'
    BY <1>02, <2>1, <2>3 DEF ReceivedInv
  <2> QED BY <2>1, <2>2, <2>4 DEF LocalInv
<1>6. CASE CommitQuery
  <2>1. /\ UNCHANGED <<toReceive, localGeneration, local, global, shown, receivedIn>>
        /\ generation' = generation + 1 /\ generation < MaxGeneration
    BY <1>6 DEF CommitQuery, aggVars
  <2> QED BY <1>0, <1>01, <1>02, <2>1, GenerationFacts DEF ReceivedInv, LocalInv
<1>7. ASSUME NEW r \in Reporters, GatherResult(r), ~mode.cumulative PROVE ReceivedInv' /\ LocalInv'
  <2>1. /\ UNCHANGED <<generation, toReceive, localGeneration, local, receivedIn>>
        /\ reportGen[r] \in Generations
        /\ \A k \in Message : global'[reportGen[r]][k] = 0
        /\ \A g \in Generations : g # reportGen[r] => global'[g] = global[g]
        /\ \A k \in Message : shown'[k] = shown[k] + global[reportGen[r]][k]
    BY <1>7, SwapEffect, BagFacts
  <2>2. \A k \in Message : receivedIn[k] = NotReceived => shown'[k] = 0
    BY <1>02, <2>1
  <2> QED BY <1>01, <1>02, <2>1, <2>2 DEF ReceivedInv, LocalInv
<1>8. UNCHANGED vars => UNCHANGED bagVars
  BY DEF vars, bagVars, aggVars, reportVars
<1>9. ASSUME NEW r \in Reporters, Reports(r) PROVE ReceivedInv' /\ LocalInv'
  <2>1. CASE GatherResult(r)
    BY <1>1, <1>7, <2>1, QuietBags
  <2> QED BY <1>1, <1>9, <2>1, QuietBags DEF Reports
<1>10. ASSUME NEW s \in Servers, MergeNoblock(s) \/ Ends(s) PROVE ReceivedInv' /\ LocalInv'
  BY <1>1, <1>10, QuietBags
<1> QED BY <1>1, <1>2, <1>3, <1>4, <1>5, <1>6, <1>8, <1>9, <1>10, NextSplit DEF Connection

LEMMA ApartStep == TypeInv /\ ApartInv /\ [Next]_vars => ApartInv'
<1> SUFFICES ASSUME TypeInv, ApartInv, [Next]_vars PROVE ApartInv'
  OBVIOUS
<1>0. /\ \A m \in Message : From[m] \in Servers
      /\ DOMAIN copy = Servers /\ DOMAIN flush = Servers /\ raced \in [Servers -> BOOLEAN]
  BY MapReduceAssumption DEF TypeInv, TypeOK
<1>00. \A s \in Servers :
        /\ raced[s] => flush[s] # "no"
        /\ ~raced[s] => /\ flush[s] \in {"wait", "emptying"} => copy[s] = "idle"
                        /\ copy[s] \in {"merge", "merging"} => snap[s] = localGeneration[s]
                        /\ flush[s] = "wait" => flushSnap[s] = localGeneration[s]
  BY DEF ApartInv
<1>1. CASE UNCHANGED <<copy, snap, localGeneration, flush, flushSnap, raced>>
  BY <1>00, <1>1 DEF ApartInv
<1>2. ASSUME NEW m \in Message, Receive(m) PROVE ApartInv'
  <2>1. /\ UNCHANGED <<flush, flushSnap>>
        /\ \A s \in Servers : s # From[m] =>
            /\ localGeneration'[s] = localGeneration[s] /\ raced'[s] = raced[s]
            /\ snap'[s] = snap[s] /\ copy'[s] = copy[s]
        /\ localGeneration'[From[m]] = snap'[From[m]]
        /\ raced'[From[m]] = (raced[From[m]] \/ flush[From[m]] \in {"wait", "emptying"})
    BY <1>2, ReceiveEffect
  <2> QED BY <1>0, <1>00, <2>1 DEF ApartInv
<1>3. ASSUME NEW s \in Servers, MergeNoblock(s) PROVE ApartInv'
  <2>1. /\ UNCHANGED <<snap, localGeneration, flush, flushSnap, raced>> /\ copy[s] = "merge"
        /\ \A t \in Servers : t # s => copy'[t] = copy[t]
    BY <1>0, <1>3 DEF MergeNoblock, AggregateRest
  <2> QED BY <1>00, <2>1 DEF ApartInv
<1>4. ASSUME NEW s \in Servers, Merged(s) \/ Flush(s) \/ EmptyMerged(s) \/ EmptyFlushed(s) PROVE ApartInv'
  <2>1. UNCHANGED <<snap, localGeneration, flushSnap, raced>>
    BY <1>4 DEF Merged, Flush, EmptyMerged, EmptyFlushed, AggregateRest, ShutdownRest
  <2>2. \/ /\ flush' = flush /\ \A t \in Servers : t # s => copy'[t] = copy[t]
           /\ copy[s] \in {"merging", "emptying"} /\ copy'[s] \in {"emptying", "idle"}
        \/ /\ copy' = copy /\ \A t \in Servers : t # s => flush'[t] = flush[t]
           /\ flush[s] \in {"wait", "emptying"} /\ flush'[s] \in {"emptying", "done"}
    BY <1>0, <1>4 DEF Merged, Flush, EmptyMerged, EmptyFlushed, AggregateRest, ShutdownRest
  <2> QED BY <1>00, <2>1, <2>2 DEF ApartInv
<1>5. ASSUME NEW s \in Servers, Shutdown(s) PROVE ApartInv'
  <2>1. /\ UNCHANGED <<copy, snap>> /\ flush[s] = "no" /\ flush'[s] # "no"
        /\ localGeneration'[s] = flushSnap'[s] /\ raced'[s] = (copy[s] # "idle")
        /\ \A t \in Servers : t # s =>
            /\ localGeneration'[t] = localGeneration[t]
            /\ flushSnap'[t] = flushSnap[t] /\ raced'[t] = raced[t] /\ flush'[t] = flush[t]
    BY <1>5, ShutdownEffect
  <2> QED BY <1>00, <2>1 DEF ApartInv
<1>6. ASSUME NEW s \in Servers, Ends(s) PROVE ApartInv'
  BY <1>1, <1>6 DEF Ends, End, aggVars
<1>7. CASE CommitQuery \/ UNCHANGED vars
  BY <1>1, <1>7 DEF CommitQuery, vars, aggVars
<1>8. ASSUME NEW r \in Reporters, Reports(r) PROVE ApartInv'
  BY <1>1, <1>8, ReportsLeave DEF aggVars
<1> QED BY <1>2, <1>3, <1>4, <1>5, <1>6, <1>7, <1>8, NextSplit DEF Connection

Accounts == ReceivedInv /\ LocalInv /\ ApartInv /\ CountedOnce

LEMMA CountedStep == TypeInv /\ Accounts /\ [Next]_vars => CountedOnce'
<1> SUFFICES ASSUME TypeInv, Accounts, [Next]_vars PROVE CountedOnce'
  OBVIOUS
<1>0. /\ generation \in Generations /\ local \in [Servers -> Bag] /\ global \in [Generations -> Bag]
      /\ shown \in Bag /\ raced \in [Servers -> BOOLEAN]
      /\ DOMAIN copy = Servers /\ DOMAIN flush = Servers
      /\ \A m \in Message : From[m] \in Servers
  BY MapReduceAssumption DEF TypeInv, TypeOK, Bag
<1>00. /\ \A s \in Servers, m \in Message : local[s][m] \in Nat
       /\ \A g \in Generations, m \in Message : global[g][m] \in Nat
       /\ \A m \in Message : shown[m] \in Nat
       /\ \A m \in Message : EmptyBag[m] = 0
  BY <1>0, BagFacts DEF Bag
<1>01. \A s \in Servers, m \in Message : local[s][m] > 0 => From[m] = s /\ receivedIn[m] = localGeneration[s]
  BY DEF Accounts, LocalInv
<1>02. \A m \in Message :
        /\ m \in toReceive => receivedIn[m] = NotReceived
        /\ receivedIn[m] = NotReceived =>
            /\ \A s \in Servers : local[s][m] = 0
            /\ \A g \in Generations : global[g][m] = 0
            /\ shown[m] = 0
        /\ receivedIn[m] # NotReceived => receivedIn[m] <= generation
  BY DEF Accounts, ReceivedInv
<1>03. \A m \in Message : ~raced[From[m]] =>
        /\ receivedIn[m] = generation => Pending(From[m])[m] + global[generation][m] + shown[m] = 1
        /\ \A g \in Generations : global[g][m] > 0 => receivedIn[m] = g
  BY DEF Accounts, CountedOnce
<1>04. \A s \in Servers :
        /\ raced[s] => flush[s] # "no"
        /\ ~raced[s] => /\ flush[s] \in {"wait", "emptying"} => copy[s] = "idle"
                        /\ copy[s] \in {"merge", "merging"} => snap[s] = localGeneration[s]
                        /\ flush[s] = "wait" => flushSnap[s] = localGeneration[s]
  BY DEF Accounts, ApartInv
\* A step that leaves the sets as they are and empties or fills no group.
<1>1. ASSUME UNCHANGED <<generation, global, shown, receivedIn, raced>>,
             \A m \in Message : ~raced[From[m]] /\ receivedIn[m] = generation =>
                Pending(From[m])'[m] = Pending(From[m])[m]
      PROVE  CountedOnce'
  BY <1>03, <1>1 DEF CountedOnce
<1>2. CASE UNCHANGED <<generation, global, shown, receivedIn, raced, local, copy, flush>>
  BY <1>1, <1>2 DEF Pending
<1>3. ASSUME NEW m \in Message, Receive(m) PROVE CountedOnce'
  <2>1. /\ receivedIn[m] = NotReceived /\ local[From[m]][m] = 0 /\ shown[m] = 0
        /\ \A g \in Generations : global[g][m] = 0
    BY <1>0, <1>02, <1>3, ReceiveEffect
  <2>2. generation' = generation /\ global' = global /\ shown' = shown /\ flush' = flush
    BY <1>3, ReceiveEffect
  <2>3. ASSUME NEW k \in Message, ~raced'[From[k]]
        PROVE  ~raced[From[k]]
               /\ (From[k] = From[m] => flush[From[k]] \notin {"wait", "emptying"})
    BY <1>0, <1>3, <2>3, ReceiveEffect
  <2> SUFFICES ASSUME NEW k \in Message, ~raced'[From[k]]
               PROVE  /\ receivedIn'[k] = generation =>
                            Pending(From[k])'[k] + global[generation][k] + shown[k] = 1
                      /\ \A g \in Generations : global[g][k] > 0 => receivedIn'[k] = g
    BY <2>2 DEF CountedOnce
  <2>4. CASE From[k] # From[m]
    <3>1. /\ receivedIn'[k] = receivedIn[k] /\ local'[From[k]] = local[From[k]]
          /\ copy'[From[k]] = copy[From[k]]
      BY <1>0, <1>3, <2>4, ReceiveEffect
    <3> QED BY <1>03, <2>2, <2>3, <3>1 DEF Pending
  <2>5. CASE From[k] = From[m]
    <3>1. /\ Pending(From[k]) = local[From[k]]
          /\ Pending(From[k])' = local'[From[k]]
      BY <1>3, <2>2, <2>3, <2>5, ReceiveEffect DEF Pending
    <3>2. CASE k = m
      <4>1. local'[From[k]][k] = 1
        BY <1>00, <1>3, <2>1, <3>2, ReceiveEffect
      <4> QED BY <1>0, <2>1, <3>1, <3>2, <4>1
    <3>3. CASE k # m
      <4>1. receivedIn'[k] = receivedIn[k]
        BY <1>3, <3>3, ReceiveEffect
      <4>2. ASSUME receivedIn[k] = generation PROVE local'[From[k]][k] = local[From[k]][k]
        <5>1. CASE generation = localGeneration[From[m]]
          BY <1>0, <1>00, <1>3, <2>5, <3>3, <5>1, ReceiveEffect
        <5>2. CASE generation # localGeneration[From[m]]
          <6>1. local[From[k]][k] = 0
            BY <1>0, <1>00, <1>01, <2>5, <4>2, <5>2
          <6>2. local'[From[k]][k] = 0
            BY <1>3, <2>5, <3>3, <5>2, ReceiveEffect
          <6> QED BY <6>1, <6>2
        <5> QED BY <5>1, <5>2
      <4> QED BY <1>03, <2>3, <3>1, <4>1, <4>2
    <3> QED BY <3>2, <3>3
  <2> QED BY <2>4, <2>5
<1>4. ASSUME NEW s \in Servers, MergeNoblock(s) PROVE CountedOnce'
  <2>1. /\ UNCHANGED <<generation, global, shown, receivedIn, raced, local, flush>> /\ copy[s] = "merge"
        /\ copy'[s] # "emptying" /\ \A t \in Servers : t # s => copy'[t] = copy[t]
    BY <1>0, <1>4 DEF MergeNoblock, AggregateRest, reportVars
  <2>2. \A t \in Servers : Pending(t)' = Pending(t)
    BY <2>1 DEF Pending
  <2> QED BY <1>0, <1>1, <2>1, <2>2
<1>5. ASSUME NEW s \in Servers, Merged(s) \/ Flush(s) PROVE CountedOnce'
  <2>1. PICK g \in Generations : Merges(s, g)
    BY <1>5, MergeEffect
  <2>2. /\ UNCHANGED <<generation, receivedIn, raced, local, shown>>
        /\ \A k \in Message : global'[g][k] = global[g][k] + local[s][k]
        /\ \A h \in Generations : h # g => global'[h] = global[h]
        /\ \A t \in Servers : t # s => Pending(t)' = Pending(t)
        /\ Pending(s)' = EmptyBag
    BY <2>1, MergesEffect DEF Merges, Pending
  <2>3. ASSUME ~raced[s] PROVE g = localGeneration[s] /\ Pending(s) = local[s]
    BY <1>04, <2>1, <2>3 DEF Merges, Pending
  <2> SUFFICES ASSUME NEW k \in Message, ~raced[From[k]]
               PROVE  /\ receivedIn[k] = generation =>
                            Pending(From[k])'[k] + global'[generation][k] + shown[k] = 1
                      /\ \A h \in Generations : global'[h][k] > 0 => receivedIn[k] = h
    BY <2>2 DEF CountedOnce
  <2>4. CASE From[k] # s
    <3>1. local[s][k] = 0
      BY <1>00, <1>01, <2>4
    <3>2. \A h \in Generations : global'[h][k] = global[h][k]
      BY <1>00, <2>2, <3>1
    <3> QED BY <1>0, <1>03, <2>2, <2>4, <3>2
  <2>5. CASE From[k] = s
    <3>1. \A h \in Generations : global'[h][k] > 0 => receivedIn[k] = h
      BY <1>00, <1>01, <1>03, <2>2, <2>3, <2>5
    <3>2. ASSUME receivedIn[k] = generation PROVE Pending(s)'[k] + global'[generation][k] + shown[k] = 1
      <4>1. local[s][k] + global[generation][k] + shown[k] = 1
        BY <1>03, <2>3, <2>5, <3>2
      <4>2. CASE g = generation
        BY <1>0, <1>00, <2>2, <4>1, <4>2
      <4>3. CASE g # generation
        <5>1. local[s][k] = 0
          BY <1>00, <1>01, <2>3, <2>5, <3>2, <4>3
        <5> QED BY <1>0, <1>00, <2>2, <4>1, <4>3, <5>1
      <4> QED BY <4>2, <4>3
    <3> QED BY <2>5, <3>1, <3>2
  <2> QED BY <2>4, <2>5
<1>6. ASSUME NEW s \in Servers, EmptyMerged(s) \/ EmptyFlushed(s) PROVE CountedOnce'
  <2>1. /\ UNCHANGED <<generation, global, shown, receivedIn, raced>>
        /\ local' = [local EXCEPT ![s] = EmptyBag]
        /\ copy[s] = "emptying" \/ flush[s] = "emptying"
        /\ \A t \in Servers : t # s => copy'[t] = copy[t] /\ flush'[t] = flush[t]
    BY <1>0, <1>6, EmptyEffect DEF Empties
  <2>2. Pending(s) = EmptyBag /\ Pending(s)' = EmptyBag
    BY <1>0, <2>1 DEF Pending
  <2>3. \A t \in Servers : t # s => Pending(t)' = Pending(t)
    BY <1>0, <2>1 DEF Pending
  <2> QED BY <1>0, <1>1, <2>1, <2>2, <2>3
<1>7. ASSUME NEW s \in Servers, Shutdown(s) PROVE CountedOnce'
  <2>1. /\ UNCHANGED <<generation, global, shown, receivedIn, copy>>
        /\ flush[s] = "no" /\ flush'[s] # "emptying" /\ raced'[s] = (copy[s] # "idle")
        /\ \A k \in Message : local'[s][k] = IF generation # localGeneration[s] THEN 0 ELSE local[s][k]
        /\ \A t \in Servers : t # s => local'[t] = local[t] /\ raced'[t] = raced[t] /\ flush'[t] = flush[t]
    BY <1>7, ShutdownEffect, BagFacts
  <2>2. ASSUME NEW k \in Message, ~raced'[From[k]], receivedIn[k] = generation
        PROVE  Pending(From[k])'[k] = Pending(From[k])[k]
    <3>1. CASE From[k] = s
      <4>1. Pending(s)' = local'[s] /\ Pending(s) = local[s]
        BY <2>1, <2>2, <3>1 DEF Pending
      <4>2. local'[s][k] = local[s][k]
        BY <1>00, <1>01, <2>1, <2>2
      <4> QED BY <3>1, <4>1, <4>2
    <3>2. CASE From[k] # s
      BY <1>0, <2>1, <3>2 DEF Pending
    <3> QED BY <3>1, <3>2
  <2>3. \A t \in Servers : ~raced'[t] => ~raced[t]
    BY <1>04, <2>1
  <2> QED BY <1>0, <1>03, <2>1, <2>2, <2>3 DEF CountedOnce
<1>8. CASE CommitQuery
  <2>1. /\ UNCHANGED <<toReceive, local, global, shown, receivedIn, raced>>
        /\ generation' = generation + 1 /\ generation < MaxGeneration
    BY <1>8 DEF CommitQuery, aggVars
  <2>2. \A k \in Message : receivedIn[k] # generation + 1
    BY <1>0, <1>02, <2>1, GenerationFacts
  <2> QED BY <1>03, <2>1, <2>2 DEF CountedOnce
<1>9. ASSUME NEW r \in Reporters, GatherResult(r), ~mode.cumulative PROVE CountedOnce'
  <2>1. /\ UNCHANGED <<generation, local, receivedIn>> /\ UNCHANGED <<raced, copy, flush>>
        /\ reportGen[r] \in Generations
        /\ \A k \in Message : global'[reportGen[r]][k] = 0
        /\ \A g \in Generations : g # reportGen[r] => global'[g] = global[g]
        /\ \A k \in Message : shown'[k] = shown[k] + global[reportGen[r]][k]
    BY <1>9, SwapEffect, BagFacts DEF GatherResult, ReportRest, aggVars
  <2>2. \A s \in Servers : Pending(s)' = Pending(s)
    BY <2>1 DEF Pending
  <2> SUFFICES ASSUME NEW k \in Message, ~raced[From[k]]
               PROVE  /\ receivedIn[k] = generation =>
                            Pending(From[k])[k] + global'[generation][k] + shown'[k] = 1
                      /\ \A h \in Generations : global'[h][k] > 0 => receivedIn[k] = h
    BY <1>0, <2>1, <2>2 DEF CountedOnce
  <2>3. ASSUME receivedIn[k] = generation
        PROVE  Pending(From[k])[k] + global'[generation][k] + shown'[k] = 1
    <3>0. Pending(From[k])[k] + global[generation][k] + shown[k] = 1 /\ Pending(From[k])[k] \in Nat
      BY <1>0, <1>00, <1>03, <2>3 DEF Pending
    <3>1. CASE reportGen[r] = generation
      <4>1. global'[generation][k] = 0 /\ shown'[k] = shown[k] + global[generation][k]
        BY <2>1, <3>1
      <4> QED BY <1>0, <1>00, <3>0, <4>1
    <3>2. CASE reportGen[r] # generation
      <4>1. global[reportGen[r]][k] = 0
        BY <1>00, <1>03, <2>1, <2>3, <3>2
      <4> QED BY <1>0, <1>00, <2>1, <3>0, <3>2, <4>1
    <3> QED BY <3>1, <3>2
  <2>4. \A h \in Generations : global'[h][k] > 0 => receivedIn[k] = h
    BY <1>00, <1>03, <2>1
  <2> QED BY <2>3, <2>4
<1>10. ASSUME NEW s \in Servers, Ends(s) PROVE CountedOnce'
  BY <1>2, <1>10 DEF Ends, End, aggVars, reportVars
<1>11. CASE UNCHANGED vars
  BY <1>2, <1>11 DEF vars, aggVars, reportVars
<1>12. ASSUME NEW r \in Reporters, Reports(r) PROVE CountedOnce'
  <2>1. CASE GatherResult(r) /\ ~mode.cumulative
    BY <1>9, <2>1
  <2>2. CASE UNCHANGED bagVars
    BY <1>2, <1>12, <2>2, ReportsLeave DEF bagVars, aggVars
  <2> QED BY <1>12, <2>1, <2>2, QuietBags DEF Reports
<1> QED BY <1>3, <1>4, <1>5, <1>6, <1>7, <1>8, <1>10, <1>11, <1>12, NextSplit DEF Connection

LEMMA AccountsStep == TypeInv /\ Accounts /\ [Next]_vars => Accounts'
  BY ReceivedStep, ApartStep, CountedStep DEF Accounts

LEMMA FlushStep == TypeInv /\ FlushInv /\ [Next]_vars => FlushInv'
<1> SUFFICES ASSUME TypeInv, FlushInv, [Next]_vars PROVE FlushInv'
  OBVIOUS
<1>0. /\ DOMAIN link = Servers /\ DOMAIN copy = Servers /\ DOMAIN flush = Servers /\ DOMAIN local = Servers
      /\ raced \in [Servers -> BOOLEAN] /\ mode' = mode
  BY ConnectionTyping DEF TypeInv, TypeOK
<1>00. \A s \in Servers :
        /\ flush[s] # "no" => Ended(s)
        /\ mode.serverless =>
            /\ ~raced[s]
            /\ flush[s] # "no" => copy[s] = "idle"
            /\ flush[s] = "done" => local[s] = EmptyBag
  BY DEF FlushInv
<1>1. CASE UNCHANGED <<link, copy, flush, local, raced>>
  BY <1>0, <1>00, <1>1 DEF FlushInv, Ended
<1>2. ASSUME NEW m \in Message, Receive(m) PROVE FlushInv'
  <2>1. /\ UNCHANGED <<link, flush>> /\ (mode.serverless => flush[From[m]] = "no")
        /\ \A s \in Servers : s # From[m] =>
            local'[s] = local[s] /\ copy'[s] = copy[s] /\ raced'[s] = raced[s]
        /\ raced'[From[m]] = (raced[From[m]] \/ flush[From[m]] \in {"wait", "emptying"})
    BY <1>2, ReceiveEffect
  <2> QED BY <1>0, <1>00, <2>1 DEF FlushInv, Ended
<1>3. ASSUME NEW s \in Servers, MergeNoblock(s) \/ Merged(s) PROVE FlushInv'
  <2>1. /\ UNCHANGED <<link, flush, local, raced>> /\ copy[s] # "idle"
        /\ \A t \in Servers : t # s => copy'[t] = copy[t]
    BY <1>0, <1>3 DEF MergeNoblock, Merged, AggregateRest
  <2> QED BY <1>0, <1>00, <2>1 DEF FlushInv, Ended
<1>4. ASSUME NEW s \in Servers, Flush(s) PROVE FlushInv'
  <2>1. /\ UNCHANGED <<link, copy, local, raced>> /\ flush[s] # "no" /\ flush'[s] = "emptying"
        /\ \A t \in Servers : t # s => flush'[t] = flush[t]
    BY <1>0, <1>4 DEF Flush, ShutdownRest
  <2> QED BY <1>0, <1>00, <2>1 DEF FlushInv, Ended
<1>5. ASSUME NEW s \in Servers, EmptyMerged(s) \/ EmptyFlushed(s) PROVE FlushInv'
  <2>1. UNCHANGED <<link, raced>> /\ local'[s] = EmptyBag
    BY <1>0, <1>5, EmptyEffect DEF Empties
  <2>2. \A t \in Servers : t # s => flush'[t] = flush[t] /\ copy'[t] = copy[t] /\ local'[t] = local[t]
    BY <1>0, <1>5, EmptyEffect DEF Empties
  <2>3. (flush'[s] # "no" => flush[s] # "no") /\ (copy[s] = "idle" => copy'[s] = "idle")
    BY <1>0, <1>5, EmptyEffect DEF Empties
  <2> QED BY <1>0, <1>00, <2>1, <2>2, <2>3 DEF FlushInv, Ended
<1>6. ASSUME NEW s \in Servers, Ends(s) PROVE FlushInv'
  <2>1. /\ UNCHANGED <<copy, flush, local, raced>> /\ link'[s] # "open"
        /\ \A t \in Servers : t # s => link'[t] = link[t]
    BY <1>0, <1>6 DEF Ends, End, aggVars
  <2> QED BY <1>0, <1>00, <2>1 DEF FlushInv, Ended
<1>7. ASSUME NEW s \in Servers, Shutdown(s) PROVE FlushInv'
  <2>1. /\ UNCHANGED <<link, copy>> /\ Ended(s) /\ (mode.serverless => copy[s] = "idle")
        /\ raced'[s] = (copy[s] # "idle") /\ (flush'[s] = "done" => local'[s] = EmptyBag)
        /\ \A t \in Servers : t # s =>
            local'[t] = local[t] /\ flush'[t] = flush[t] /\ raced'[t] = raced[t]
    BY <1>7, ShutdownEffect
  <2> QED BY <1>0, <1>00, <2>1 DEF FlushInv, Ended
<1>8. CASE CommitQuery \/ UNCHANGED vars
  BY <1>1, <1>8 DEF CommitQuery, vars, aggVars
<1>9. ASSUME NEW r \in Reporters, Reports(r) PROVE FlushInv'
  <2>1. UNCHANGED <<link, copy, flush, raced>> /\ local' = local
    BY <1>9, ReportsLeave DEF aggVars
  <2> QED BY <1>1, <2>1
<1> QED BY <1>2, <1>3, <1>4, <1>5, <1>6, <1>7, <1>8, <1>9, NextSplit DEF Connection

LEMMA ShownStep == TypeInv /\ ShownInv /\ [Next]_vars => ShownInv'
<1> SUFFICES ASSUME TypeInv, ShownInv, [Next]_vars, mode.cumulative PROVE shown' = shown
  BY ConnectionTyping DEF ShownInv
<1>1. ASSUME NEW m \in Message, Receive(m) PROVE shown' = shown
  BY <1>1, ReceiveEffect
<1>2. ASSUME NEW s \in Servers, Connection(s) PROVE shown' = shown
  BY <1>2, ConnectionLeaves
<1>3. CASE CommitQuery \/ UNCHANGED vars
  BY <1>3 DEF CommitQuery, vars, reportVars
<1>4. ASSUME NEW r \in Reporters, Reports(r) PROVE shown' = shown
  <2>1. CASE GatherResult(r)
    BY <2>1, QuietBags DEF bagVars
  <2>2. UNCHANGED bagVars => shown' = shown
    BY DEF bagVars
  <2> QED BY <1>4, <2>1, <2>2, QuietBags DEF Reports
<1> QED BY <1>1, <1>2, <1>3, <1>4, NextSplit

\* What the final report goes through.
LEMMA MainMoves ==
    ASSUME TypeInv, [Next]_vars
    PROVE  /\ report'[Main] # report[Main] => Reports(Main)
           /\ reportGen'[Main] # reportGen[Main] => StartReport(Main)
           /\ result'[Main] # result[Main] => GatherResult(Main)
           /\ generation' # generation => report[Main] = "wait"
<1> DEFINE Goal ==
           /\ report'[Main] # report[Main] => Reports(Main)
           /\ reportGen'[Main] # reportGen[Main] => StartReport(Main)
           /\ result'[Main] # result[Main] => GatherResult(Main)
           /\ generation' # generation => report[Main] = "wait"
<1> SUFFICES Goal
  OBVIOUS
<1>0. /\ Main \in Reporters /\ Reporter \in Reporters /\ Main # Reporter
      /\ \A r \in Reporters : r = Main \/ r = Reporter
      /\ DOMAIN report = Reporters /\ DOMAIN reportGen = Reporters /\ DOMAIN result = Reporters
  BY DEF Reporters, Main, Reporter, TypeInv, TypeOK
<1> USE DEF reportVars, ReportStep
<1>1. ASSUME NEW m \in Message, Receive(m) PROVE Goal
  BY <1>1, ConnectionLeaves
<1>2. ASSUME NEW s \in Servers, Connection(s) PROVE Goal
  BY <1>2, ConnectionLeaves
<1>3. CASE CommitQuery \/ UNCHANGED vars
  BY <1>3 DEF CommitQuery, vars
<1>4. ASSUME NEW r \in Reporters, StartReport(r) PROVE Goal
  <2>1. generation' = generation /\ result' = result
    BY <1>4 DEF StartReport
  <2>2. r # Main => report'[Main] = report[Main] /\ reportGen'[Main] = reportGen[Main]
    BY <1>0, <1>4 DEF StartReport
  <2> QED BY <1>4, <2>1, <2>2 DEF Reports
<1>5. ASSUME NEW r \in Reporters, GatherResult(r) PROVE Goal
  <2>1. generation' = generation /\ reportGen' = reportGen
    BY <1>5 DEF GatherResult, ReportRest
  <2>2. r # Main => report'[Main] = report[Main] /\ result'[Main] = result[Main]
    BY <1>0, <1>5 DEF GatherResult
  <2> QED BY <1>5, <2>1, <2>2 DEF Reports
<1>6. ASSUME NEW r \in Reporters, RenderResult(r) PROVE Goal
  <2>1. generation' = generation /\ reportGen' = reportGen /\ result' = result
    BY <1>6 DEF RenderResult, ReportRest
  <2>2. r # Main => report'[Main] = report[Main]
    BY <1>0, <1>6 DEF RenderResult
  <2> QED BY <1>6, <2>1, <2>2 DEF Reports
<1>7. ASSUME NEW r \in Reporters, NEW from, EndReport(r, from)
      PROVE  /\ reportGen'[Main] = reportGen[Main] /\ result'[Main] = result[Main]
             /\ r # Main => report'[Main] = report[Main]
  BY <1>0, <1>7 DEF EndReport
<1>8. ASSUME NEW r \in Reporters, CommitRenderedResult(r) \/ RenameOutfile(r) PROVE Goal
  <2>1. generation' = generation
    BY <1>8, ReportsLeave DEF Reports
  <2> QED BY <1>7, <1>8, <2>1 DEF CommitRenderedResult, RenameOutfile, WriteReturns, Reports
<1>9. ASSUME NEW r \in Reporters, OpenTmpfile(r) \/ WriteRows(r) PROVE Goal
  <2>1. generation' = generation
    BY <1>9, ReportsLeave DEF Reports
  <2>2. CASE EndReport(r, "write") \/ EndReport(r, "rows")
    BY <1>7, <1>9, <2>1, <2>2 DEF Reports
  <2>3. CASE reportGen' = reportGen /\ result' = result /\ \E to \in {"rows", "rename"} : report' = [report EXCEPT ![r] = to]
    BY <1>0, <1>9, <2>1, <2>3 DEF Reports
  <2> QED BY <1>9, <2>2, <2>3 DEF OpenTmpfile, WriteRows, WriteReturns
<1> HIDE DEF Goal
<1> QED BY <1>1, <1>2, <1>3, <1>4, <1>5, <1>6, <1>8, <1>9, NextSplit DEF Reports

\* With every connection flushed, the set of the last query holds what was
\* received under it.
LEMMA GlobalComplete ==
    ASSUME TypeInv, Accounts, FlushInv, ShownInv, mode.serverless, mode.cumulative,
           \A s \in Servers : flush[s] = "done"
    PROVE  global[generation] = Received
<1>0. /\ global[generation] \in Bag /\ \A m \in Message : From[m] \in Servers
      /\ generation \in Generations
  BY MapReduceAssumption DEF TypeInv, TypeOK, Bag
<1>1. \A s \in Servers : ~raced[s] /\ Pending(s) = EmptyBag
  BY DEF FlushInv, Pending
<1>2. \A m \in Message : Pending(From[m])[m] = 0 /\ shown[m] = 0
  BY <1>0, <1>1, BagFacts DEF ShownInv
<1>3. \A m \in Message : global[generation][m] \in Nat
  BY <1>0 DEF Bag
<1>4. \A m \in Message : global[generation][m] = IF receivedIn[m] = generation THEN 1 ELSE 0
  BY <1>0, <1>1, <1>2, <1>3 DEF Accounts, CountedOnce
<1> QED BY <1>0, <1>4 DEF Bag, Received

LEMMA MainStep ==
    TypeInv /\ Accounts /\ FlushInv /\ ShownInv /\ MainInv /\ [Next]_vars => MainInv'
<1> SUFFICES ASSUME TypeInv, Accounts, FlushInv, ShownInv, MainInv, [Next]_vars,
                    report'[Main] # "wait"
             PROVE  /\ reportGen'[Main] = generation'
                    /\ mode.serverless => \A s \in Servers : flush'[s] = "done"
                    /\ (mode.serverless /\ mode.cumulative /\ report'[Main] # "acquire") =>
                            result'[Main] = Received'
  BY ConnectionTyping DEF MainInv
<1>0. /\ Main \in Reporters /\ DOMAIN report = Reporters /\ DOMAIN reportGen = Reporters
      /\ DOMAIN result = Reporters
      /\ flush \in [Servers -> {"no", "wait", "emptying", "done"}]
  BY DEF Reporters, TypeInv, TypeOK
<1>1. CASE StartReport(Main)
  <2>1. /\ report'[Main] = (IF mode.cumulative THEN "acquire" ELSE "finished")
        /\ reportGen'[Main] = generation /\ generation' = generation /\ flush' = flush
        /\ \A s \in Servers : mode.serverless => flush[s] = "done"
    BY <1>0, <1>1 DEF StartReport, ReportStep, StartReturned, aggVars, Main, Reporter
  <2> QED BY <2>1
<1>2. CASE ~StartReport(Main)
  <2>1. report[Main] # "wait"
    <3>1. CASE Reports(Main)
      BY <1>2, <3>1 DEF Reports, GatherResult, RenderResult, CommitRenderedResult, OpenTmpfile,
                        WriteRows, RenameOutfile, WriteReturns, EndReport, ReportStep
    <3> QED BY <3>1, MainMoves
  <2>2. generation' = generation /\ reportGen'[Main] = reportGen[Main]
    BY <1>2, <2>1, MainMoves
  <2>3. reportGen'[Main] = generation'
    BY <2>1, <2>2 DEF MainInv
  <2>4. ASSUME mode.serverless PROVE \A s \in Servers : flush[s] = "done"
    BY <2>1, <2>4 DEF MainInv
  <2>5. ASSUME mode.serverless, NEW m \in Message PROVE ~Receive(m)
    BY <2>4, <2>5, MapReduceAssumption DEF Receive
  <2>6. ASSUME mode.serverless, NEW s \in Servers
        PROVE  ~Flush(s) /\ ~Shutdown(s) /\ ~EmptyFlushed(s)
    BY <2>4, <2>6 DEF Flush, Shutdown, EmptyFlushed
  <2>7. ASSUME mode.serverless PROVE UNCHANGED <<flush, receivedIn>>
    <3>1. CASE CommitQuery \/ UNCHANGED vars
      BY <3>1 DEF CommitQuery, vars, aggVars
    <3>2. ASSUME NEW s \in Servers, MergeNoblock(s) \/ Merged(s) \/ EmptyMerged(s) \/ Ends(s)
          PROVE  UNCHANGED <<flush, receivedIn>>
      BY <3>2 DEF MergeNoblock, Merged, EmptyMerged, AggregateRest, Ends, End, aggVars
    <3>3. ASSUME NEW r \in Reporters, Reports(r) PROVE UNCHANGED <<flush, receivedIn>>
      BY <3>3, ReportsLeave DEF aggVars
    <3> QED BY <2>5, <2>6, <2>7, <3>1, <3>2, <3>3, NextSplit DEF Connection
  <2>8. ASSUME mode.serverless, mode.cumulative, report'[Main] # "acquire"
        PROVE  result'[Main] = Received'
    <3>1. Received' = Received
      BY <2>2, <2>7, <2>8 DEF Received
    <3>2. CASE GatherResult(Main)
      <4>1. result'[Main] = global[reportGen[Main]]
        BY <1>0, <3>2 DEF GatherResult
      <4>2. reportGen[Main] = generation
        BY <2>1 DEF MainInv
      <4> QED BY <2>4, <2>8, <3>1, <4>1, <4>2, GlobalComplete
    <3>3. CASE ~GatherResult(Main)
      <4>1. result'[Main] = result[Main]
        BY <3>3, MainMoves
      <4>2. report[Main] # "acquire"
        <5>1. CASE Reports(Main)
          BY <1>2, <3>3, <5>1 DEF Reports, RenderResult, CommitRenderedResult, OpenTmpfile,
                                  WriteRows, RenameOutfile, WriteReturns, EndReport, ReportStep
        <5> QED BY <2>8, <5>1, MainMoves
      <4> QED BY <2>1, <2>8, <3>1, <4>1, <4>2 DEF MainInv
    <3> QED BY <3>2, <3>3
  <2> QED BY <2>3, <2>4, <2>7, <2>8
<1> QED BY <1>1, <1>2

-----------------------------------------------------------------------------
(* The outfile. *)

LEMMA HolderStep == TypeInv /\ HolderInv /\ [Next]_vars => HolderInv'
<1> SUFFICES ASSUME TypeInv, HolderInv, [Next]_vars PROVE HolderInv'
  OBVIOUS
<1>0. /\ semaphore \in [Generations -> Servers \union {Nobody, Reporter, Main}]
      /\ copy \in [Servers -> {"idle", "merge", "merging", "emptying"}] /\ snap \in [Servers -> Generations]
      /\ DOMAIN report = Reporters /\ reportGen \in [Reporters -> Generations]
      /\ Reporters = {Reporter, Main} /\ Main # Reporter
      /\ Nobody \notin Reporters /\ Nobody \notin Servers
      /\ \A s \in Servers : s \notin Reporters
  BY MapReduceAssumption DEF TypeInv, TypeOK, Reporters, Reporter, Main, Nobody
<1>00. mode' = mode
  BY ConnectionTyping
<1>01. /\ \A s \in Servers : copy[s] = "merging" => semaphore[snap[s]] = s
       /\ \A r \in Reporters : mode.cumulative /\ report[r] \in Writing \union {"render"} =>
            semaphore[reportGen[r]] = r
       /\ \A r \in Reporters : report[r] = "render" => mode.cumulative
       /\ ~mode.cumulative => report[Main] \in {"wait", "finished"}
  BY DEF HolderInv
<1> USE DEF aggVars, reportVars, ReportRest, ReportStep, Writing
<1>1. CASE UNCHANGED <<semaphore, copy, snap, report, reportGen>>
  BY <1>00, <1>01, <1>1 DEF HolderInv
<1>2. ASSUME NEW m \in Message, Receive(m) PROVE HolderInv'
  <2>1. From[m] \in Servers
    BY MapReduceAssumption
  <2>2. \A s \in Servers : copy'[s] = "merging" => copy[s] = "merging" /\ snap'[s] = snap[s]
    BY <1>0, <1>2, <2>1, ReceiveEffect
  <2>3. UNCHANGED <<semaphore, report, reportGen>>
    BY <1>2 DEF Receive
  <2> QED BY <1>00, <1>01, <2>2, <2>3 DEF HolderInv
<1>3. ASSUME NEW s \in Servers, MergeNoblock(s) PROVE HolderInv'
  <2>0. UNCHANGED <<snap, report, reportGen>>
    BY <1>3 DEF MergeNoblock, AggregateRest
  <2>1. CASE Acquire(snap[s], s) /\ copy' = [copy EXCEPT ![s] = "merging"]
    <3>1. /\ semaphore'[snap[s]] = s /\ semaphore[snap[s]] = Nobody
          /\ \A g \in Generations : g # snap[s] => semaphore'[g] = semaphore[g]
      BY <1>0, <2>1 DEF Acquire
    <3>2. \A t \in Servers : t # s /\ copy[t] = "merging" => snap[t] # snap[s]
      BY <1>0, <1>01, <3>1
    <3>3. \A r \in Reporters : mode.cumulative /\ report[r] \in Writing \union {"render"} =>
            reportGen[r] # snap[s]
      BY <1>0, <1>01, <3>1
    <3> QED BY <1>0, <1>00, <1>01, <2>0, <2>1, <3>1, <3>2, <3>3 DEF HolderInv
  <2>2. CASE UNCHANGED semaphore /\ copy' = [copy EXCEPT ![s] = "idle"]
    BY <1>0, <1>00, <1>01, <2>0, <2>2 DEF HolderInv
  <2> QED BY <1>3, <2>1, <2>2 DEF MergeNoblock
<1>4. ASSUME NEW s \in Servers, Merged(s) PROVE HolderInv'
  <2>1. /\ UNCHANGED <<snap, report, reportGen>> /\ copy[s] = "merging"
        /\ copy' = [copy EXCEPT ![s] = "emptying"]
        /\ semaphore' = [semaphore EXCEPT ![snap[s]] = Nobody]
    BY <1>4 DEF Merged, Release, AggregateRest
  <2>2. \A g \in Generations : semaphore[g] # s => semaphore'[g] = semaphore[g]
    BY <1>0, <1>01, <2>1
  <2> QED BY <1>0, <1>00, <1>01, <2>1, <2>2 DEF HolderInv
<1>5. ASSUME NEW s \in Servers, EmptyMerged(s) PROVE HolderInv'
  <2>1. UNCHANGED <<semaphore, snap, report, reportGen>> /\ copy' = [copy EXCEPT ![s] = "idle"]
    BY <1>5 DEF EmptyMerged, AggregateRest
  <2> QED BY <1>0, <1>00, <1>01, <2>1 DEF HolderInv
<1>6. ASSUME NEW s \in Servers, Ends(s) \/ Shutdown(s) \/ Flush(s) \/ EmptyFlushed(s) PROVE HolderInv'
  BY <1>1, <1>6 DEF Ends, End, Shutdown, Flush, EmptyFlushed, ShutdownRest
<1>7. CASE CommitQuery \/ UNCHANGED vars
  BY <1>1, <1>7 DEF CommitQuery, vars
<1>8. ASSUME NEW r \in Reporters, StartReport(r) PROVE HolderInv'
  <2>1. /\ UNCHANGED <<semaphore, copy, snap>>
        /\ \A q \in Reporters : q # r => report'[q] = report[q] /\ reportGen'[q] = reportGen[q]
        /\ report'[r] \in {"acquire", "finished"}
        /\ r = Main /\ ~mode.cumulative => report'[r] = "finished"
    BY <1>0, <1>8 DEF StartReport
  <2> QED BY <1>0, <1>00, <1>01, <2>1 DEF HolderInv
<1>9. ASSUME NEW r \in Reporters, GatherResult(r) PROVE HolderInv'
  <2>1. /\ UNCHANGED <<copy, snap, reportGen>> /\ report[r] = "acquire"
        /\ \A q \in Reporters : q # r => report'[q] = report[q]
        /\ semaphore[reportGen[r]] = Nobody
        /\ report'[r] \in {"write", "render", "commit"}
        /\ report'[r] = "render" => mode.cumulative
    BY <1>0, <1>9 DEF GatherResult, Acquire
  <2>2. CASE mode.cumulative
    <3>1. /\ semaphore'[reportGen[r]] = r
          /\ \A g \in Generations : g # reportGen[r] => semaphore'[g] = semaphore[g]
      BY <1>0, <1>9, <2>2 DEF GatherResult, Acquire
    <3>2. /\ \A s \in Servers : copy[s] = "merging" => snap[s] # reportGen[r]
          /\ \A q \in Reporters : q # r /\ report[q] \in Writing \union {"render"} =>
                reportGen[q] # reportGen[r]
      BY <1>0, <1>01, <2>1, <2>2
    <3> QED BY <1>0, <1>00, <1>01, <2>1, <2>2, <3>1, <3>2 DEF HolderInv
  <2>3. CASE ~mode.cumulative
    <3>1. semaphore' = semaphore /\ r # Main
      BY <1>01, <1>9, <2>1, <2>3 DEF GatherResult
    <3> QED BY <1>0, <1>00, <1>01, <2>1, <2>3, <3>1 DEF HolderInv
  <2> QED BY <2>2, <2>3
<1>10. ASSUME NEW r \in Reporters, RenderResult(r) PROVE HolderInv'
  <2>1. /\ UNCHANGED <<copy, snap, reportGen>> /\ report[r] = "render" /\ report'[r] = "commit"
        /\ \A q \in Reporters : q # r => report'[q] = report[q]
        /\ semaphore' = [semaphore EXCEPT ![reportGen[r]] = Nobody]
    BY <1>0, <1>10 DEF RenderResult, Release
  <2>2. mode.cumulative /\ semaphore[reportGen[r]] = r
    BY <1>01, <2>1
  <2>3. \A g \in Generations : semaphore[g] # r => semaphore'[g] = semaphore[g]
    BY <1>0, <2>1, <2>2
  <2> QED BY <1>0, <1>00, <1>01, <2>1, <2>2, <2>3 DEF HolderInv
\* A report that ends: it holds the semaphore no longer, and every other one does.
<1>11. ASSUME NEW r \in Reporters, NEW from \in {"commit", "write", "rows", "rename"}, EndReport(r, from),
              UNCHANGED <<copy, snap>>,
              semaphore' = semaphore \/
                (from # "commit" /\ mode.cumulative
                    /\ semaphore' = [semaphore EXCEPT ![reportGen[r]] = Nobody])
       PROVE  HolderInv'
  <2>1. /\ report[r] = from
        /\ report'[r] \in {"sleep", "finished"} /\ (r = Main => report'[r] = "finished")
        /\ \A q \in Reporters : q # r => report'[q] = report[q] /\ reportGen'[q] = reportGen[q]
    BY <1>0, <1>11 DEF EndReport
  <2>2. CASE semaphore' = semaphore
    BY <1>0, <1>00, <1>01, <1>11, <2>1, <2>2 DEF HolderInv
  <2>3. CASE from # "commit" /\ mode.cumulative /\ semaphore' = [semaphore EXCEPT ![reportGen[r]] = Nobody]
    <3>1. \A g \in Generations : semaphore[g] # r => semaphore'[g] = semaphore[g]
      BY <1>0, <1>01, <1>11, <2>1, <2>3
    <3> QED BY <1>0, <1>00, <1>01, <1>11, <2>1, <2>3, <3>1 DEF HolderInv
  <2> QED BY <1>11, <2>2, <2>3
<1>12. ASSUME NEW r \in Reporters, CommitRenderedResult(r) \/ RenameOutfile(r) PROVE HolderInv'
  BY <1>11, <1>12 DEF CommitRenderedResult, RenameOutfile, WriteReturns, Release, WriteRest
<1>13. ASSUME NEW r \in Reporters, OpenTmpfile(r) \/ WriteRows(r) PROVE HolderInv'
  <2>1. UNCHANGED <<copy, snap>>
    BY <1>13 DEF OpenTmpfile, WriteRows, WriteRest
  <2>2. CASE /\ UNCHANGED <<semaphore, reportGen>>
             /\ report[r] \in {"write", "rows"} /\ report'[r] \in {"rows", "rename"}
             /\ \A q \in Reporters : q # r => report'[q] = report[q]
    BY <1>0, <1>00, <1>01, <2>1, <2>2 DEF HolderInv
  <2>3. CASE WriteReturns(r, "write") \/ WriteReturns(r, "rows")
    BY <1>11, <2>1, <2>3 DEF WriteReturns, Release
  <2> QED BY <1>0, <1>13, <2>2, <2>3 DEF OpenTmpfile, WriteRows
<1> QED BY <1>2, <1>3, <1>4, <1>5, <1>6, <1>7, <1>8, <1>9, <1>10, <1>12, <1>13, NextSplit
    DEF Reports, Connection

\* Two reports on one query never write at the same time.
LEMMA OneWriter ==
    ASSUME HolderInv, NEW r \in Reporters, NEW q \in Reporters,
           report[r] \in Writing, report[q] \in Writing, reportGen[r] = reportGen[q]
    PROVE  r = q
<1>1. CASE mode.cumulative
  BY <1>1 DEF HolderInv
<1>2. CASE ~mode.cumulative
  BY <1>2 DEF HolderInv, Reporters, Writing
<1> QED BY <1>1, <1>2

LEMMA TmpfileStep == TypeInv /\ HolderInv /\ TmpfileInv /\ [Next]_vars => TmpfileInv'
<1> SUFFICES ASSUME TypeInv, HolderInv, TmpfileInv, [Next]_vars PROVE TmpfileInv'
  OBVIOUS
<1>0. /\ DOMAIN report = Reporters /\ reportGen \in [Reporters -> Generations]
      /\ fd \in [Reporters -> {"none", "tmp", "out", "gone"}] /\ shared \in [Reporters -> BOOLEAN]
      /\ DOMAIN tmpfile = Files
      /\ Reporters = {Reporter, Main} /\ Main # Reporter
  BY DEF TypeInv, TypeOK, Reporters, Reporter, Main
<1>00. mode' = mode
  BY ConnectionTyping
<1>01. \A r \in Reporters :
        /\ report[r] \in Writing => FileOf(r) \in Files
        /\ fd[r] # "none" <=> report[r] \in {"rows", "rename"}
        /\ fd[r] # "none" /\ ~shared[r] =>
            /\ fd[r] = "tmp"
            /\ tmpfile[FileOf(r)] = IF report[r] = "rows" THEN {Blank} ELSE {Rows(r)}
        /\ \A q \in Reporters : q # r /\ fd[r] # "none" /\ SharesFile(q, r) => shared[r]
  BY DEF TmpfileInv
<1> USE DEF aggVars, reportVars, ReportRest, ReportStep
<1>1. CASE UNCHANGED <<report, reportGen, fileVars>>
  BY <1>00, <1>01, <1>1 DEF TmpfileInv, fileVars, FileOf, HasOpen, SharesFile, Rows
<1>2. ASSUME NEW m \in Message, Receive(m) PROVE TmpfileInv'
  BY <1>1, <1>2, ConnectionLeaves
<1>3. ASSUME NEW s \in Servers, Connection(s) PROVE TmpfileInv'
  BY <1>1, <1>3, ConnectionLeaves
<1>4. CASE CommitQuery \/ UNCHANGED vars
  BY <1>1, <1>4 DEF CommitQuery, vars
\* A report that has no file open and opens none.
<1>5. ASSUME NEW r \in Reporters, UNCHANGED fileVars, fd[r] = "none",
             report'[r] \notin {"rows", "rename"}, report'[r] \in Writing => FileOf(r)' \in Files,
             \A q \in Reporters : q # r => report'[q] = report[q] /\ reportGen'[q] = reportGen[q]
      PROVE  TmpfileInv'
  <2>1. \A q \in Reporters : q # r => FileOf(q)' = FileOf(q) /\ Rows(q)' = Rows(q)
    BY <1>00, <1>5 DEF FileOf, Rows
  <2>2. \A q \in Reporters, f \in Files : HasOpen(q, f)' <=> HasOpen(q, f)
    BY <1>5, <2>1 DEF fileVars, HasOpen, SharesFile
  <2>3. \A q \in Reporters : q # r /\ fd[q] # "none" => FileOf(q) \in Files
    BY <1>01 DEF Writing
  <2> QED BY <1>01, <1>5, <2>1, <2>2, <2>3 DEF TmpfileInv, fileVars, SharesFile
<1>6. ASSUME NEW r \in Reporters, StartReport(r) \/ RenderResult(r) PROVE TmpfileInv'
  <2>1. /\ UNCHANGED fileVars /\ report[r] \notin {"rows", "rename"} /\ report'[r] \notin Writing
        /\ \A q \in Reporters : q # r => report'[q] = report[q] /\ reportGen'[q] = reportGen[q]
    BY <1>0, <1>6 DEF StartReport, RenderResult, Writing
  <2> QED BY <1>01, <1>5, <2>1 DEF Writing
<1>7. ASSUME NEW r \in Reporters, GatherResult(r) PROVE TmpfileInv'
  <2>1. /\ UNCHANGED <<reportGen, fileVars>> /\ report[r] = "acquire"
        /\ report'[r] \in {"write", "render", "commit"}
        /\ report'[r] = "write" => FileOf(r) # Terminal
        /\ \A q \in Reporters : q # r => report'[q] = report[q]
    BY <1>0, <1>7 DEF GatherResult
  <2>2. mode.outfile \in [Generations -> Files \union {Terminal}]
    BY MapReduceAssumption DEF TypeInv
  <2>3. FileOf(r)' = FileOf(r) /\ (FileOf(r) # Terminal => FileOf(r) \in Files)
    BY <1>0, <1>00, <2>1, <2>2 DEF FileOf
  <2> QED BY <1>01, <1>5, <2>1, <2>3 DEF Writing
<1>8. ASSUME NEW r \in Reporters, CommitRenderedResult(r) PROVE TmpfileInv'
  <2>1. /\ UNCHANGED fileVars /\ report[r] = "commit" /\ report'[r] \in {"sleep", "finished"}
        /\ \A q \in Reporters : q # r => report'[q] = report[q] /\ reportGen'[q] = reportGen[q]
    BY <1>0, <1>8 DEF CommitRenderedResult, EndReport
  <2> QED BY <1>01, <1>5, <2>1 DEF Writing
\* A report that writes: whoever else has its file open shares it.
<1>9. ASSUME NEW r \in Reporters, report[r] \in Writing,
             \A q \in Reporters : q # r =>
                /\ report'[q] = report[q] /\ reportGen'[q] = reportGen[q]
                /\ fd[q] = "none" => fd'[q] = "none" /\ shared'[q] = shared[q]
                /\ fd[q] # "none" /\ FileOf(q) # FileOf(r) => fd'[q] = fd[q] /\ shared'[q] = shared[q]
                /\ fd[q] # "none" /\ FileOf(q) = FileOf(r) => fd'[q] # "none" /\ shared'[q],
             \A f \in Files : f # FileOf(r) => tmpfile'[f] = tmpfile[f],
             fd'[r] # "none" <=> report'[r] \in {"rows", "rename"},
             report'[r] \in Writing =>
                /\ reportGen'[r] = reportGen[r]
                /\ \A q \in Reporters : q # r /\ HasOpen(q, FileOf(r)) => shared'[r],
             fd'[r] # "none" /\ ~shared'[r] =>
                /\ fd'[r] = "tmp"
                /\ tmpfile'[FileOf(r)] = IF report'[r] = "rows" THEN {Blank} ELSE {Rows(r)}
      PROVE  TmpfileInv'
  <2>1. \A q \in Reporters : q # r => FileOf(q)' = FileOf(q) /\ Rows(q)' = Rows(q)
    BY <1>00, <1>9 DEF FileOf, Rows
  <2>2. report'[r] \in Writing => FileOf(r)' = FileOf(r) /\ Rows(r)' = Rows(r)
    BY <1>00, <1>9 DEF FileOf, Rows
  <2>3. ASSUME NEW q \in Reporters
        PROVE  /\ report'[q] \in Writing => FileOf(q)' \in Files
               /\ fd'[q] # "none" <=> report'[q] \in {"rows", "rename"}
    <3>1. CASE q = r
      BY <1>01, <1>9, <2>2, <3>1
    <3>2. CASE q # r
      BY <1>01, <1>9, <2>1, <3>2
    <3> QED BY <3>1, <3>2
  <2>4. ASSUME NEW q \in Reporters, fd'[q] # "none", ~shared'[q]
        PROVE  /\ fd'[q] = "tmp"
               /\ tmpfile'[FileOf(q)'] = IF report'[q] = "rows" THEN {Blank} ELSE {Rows(q)'}
    <3>1. CASE q = r
      BY <1>9, <2>2, <2>4, <3>1 DEF Writing
    <3>2. CASE q # r
      <4>1. /\ fd[q] # "none" /\ FileOf(q) # FileOf(r) /\ fd'[q] = fd[q] /\ shared'[q] = shared[q]
            /\ report'[q] = report[q]
        BY <1>9, <2>4, <3>2
      <4>2. FileOf(q) \in Files
        BY <1>01, <4>1 DEF Writing
      <4>3. tmpfile'[FileOf(q)] = tmpfile[FileOf(q)]
        BY <1>9, <4>1, <4>2
      <4> QED BY <1>01, <2>1, <2>4, <3>2, <4>1, <4>3
    <3> QED BY <3>1, <3>2
  <2>5. ASSUME NEW p \in Reporters, NEW q \in Reporters, q # p, fd'[p] # "none", SharesFile(q, p)'
        PROVE  shared'[p]
    <3>0. fd'[q] # "none" /\ FileOf(q)' = FileOf(p)'
      BY <2>5 DEF HasOpen, SharesFile
    <3>1. CASE p = r
      <4>1. report'[r] \in Writing /\ q # r
        BY <1>9, <2>5, <3>1 DEF Writing
      <4>2. FileOf(q) = FileOf(r) /\ fd[q] # "none"
        BY <1>9, <2>1, <2>2, <2>5, <3>0, <3>1, <4>1
      <4> QED BY <1>9, <3>1, <4>1, <4>2 DEF HasOpen, SharesFile
    <3>2. CASE q = r
      <4>1. report'[r] \in Writing /\ p # r
        BY <1>9, <2>5, <3>0, <3>2 DEF Writing
      <4>2. FileOf(p) = FileOf(r) /\ fd[p] # "none"
        BY <1>9, <2>1, <2>2, <2>5, <3>0, <3>2, <4>1
      <4> QED BY <1>9, <4>1, <4>2
    <3> QED BY <1>0, <2>5, <3>1, <3>2
  <2>6. \A p, q \in Reporters : q # p /\ fd'[p] # "none" /\ SharesFile(q, p)' => shared'[p]
    BY <2>5
  <2> QED BY <2>3, <2>4, <2>6 DEF TmpfileInv
<1>10. ASSUME NEW r \in Reporters, report[r] = "write", NEW q \in Reporters, q # r, HasOpen(q, FileOf(r))
       PROVE  reportGen[q] # reportGen[r]
  BY <1>01, <1>10, OneWriter DEF Writing, HasOpen, SharesFile
<1>11. ASSUME NEW r \in Reporters, OpenTmpfile(r) PROVE TmpfileInv'
  <2>1. report[r] = "write" /\ fd[r] = "none" /\ FileOf(r) \in Files
    BY <1>01, <1>11 DEF OpenTmpfile, WriteReturns, EndReport, Writing
  <2>2. CASE WriteReturns(r, "write") /\ UNCHANGED <<tmpfile, fd>>
    <3>1. /\ report'[r] \in {"sleep", "finished"} /\ UNCHANGED <<tmpfile, fd>>
          /\ \A q \in Reporters : q # r =>
                report'[q] = report[q] /\ reportGen'[q] = reportGen[q] /\ shared'[q] = shared[q]
      <4>1. /\ EndReport(r, "write") /\ shared' = [shared EXCEPT ![r] = FALSE] /\ UNCHANGED <<tmpfile, fd>>
        BY <2>2 DEF WriteReturns
      <4>2. /\ report'[r] \in {"sleep", "finished"}
            /\ \A q \in Reporters : q # r => report'[q] = report[q] /\ reportGen'[q] = reportGen[q]
        BY <1>0, <4>1 DEF EndReport
      <4>3. \A q \in Reporters : q # r => shared'[q] = shared[q]
        BY <1>0, <4>1
      <4> QED BY <4>1, <4>2, <4>3
    <3>3. \A q \in Reporters : q # r => FileOf(q)' = FileOf(q) /\ Rows(q)' = Rows(q)
      BY <1>00, <3>1 DEF FileOf, Rows
    <3>4. \A q \in Reporters : q # r /\ fd[q] # "none" => FileOf(q) \in Files
      BY <1>01 DEF Writing
    <3>5. \A p, q \in Reporters : q # p /\ fd'[p] # "none" /\ SharesFile(q, p)' => shared'[p]
      <4> SUFFICES ASSUME NEW p \in Reporters, NEW q \in Reporters, q # p, fd'[p] # "none",
                          SharesFile(q, p)'
                   PROVE  shared'[p]
        OBVIOUS
      <4>1. p # r /\ q # r
        BY <2>1, <3>1 DEF HasOpen, SharesFile
      <4>2. HasOpen(q, FileOf(p)) /\ fd[p] # "none"
        BY <3>1, <3>3, <4>1 DEF HasOpen, SharesFile
      <4> QED BY <1>01, <3>1, <4>1, <4>2 DEF HasOpen, SharesFile
    <3>6. \A q \in Reporters : fd'[q] # "none" <=> report'[q] \in {"rows", "rename"}
      BY <1>01, <2>1, <3>1
    <3>7. \A q \in Reporters : report'[q] \in Writing => FileOf(q)' \in Files
      BY <1>01, <3>1, <3>3 DEF Writing
    <3>8. \A q \in Reporters : fd'[q] # "none" /\ ~shared'[q] =>
            /\ fd'[q] = "tmp"
            /\ tmpfile'[FileOf(q)'] = IF report'[q] = "rows" THEN {Blank} ELSE {Rows(q)'}
      BY <1>01, <2>1, <3>1, <3>3
    <3> QED BY <3>5, <3>6, <3>7, <3>8 DEF TmpfileInv
  <2>3. CASE ~(WriteReturns(r, "write") /\ UNCHANGED <<tmpfile, fd>>)
    <3> DEFINE others == {q \in {Reporter, Main} \ {r} :
                            HasOpen(q, FileOf(r)) /\ reportGen[q] # reportGen[r]}
    <3>1. /\ report' = [report EXCEPT ![r] = "rows"] /\ reportGen' = reportGen
          /\ tmpfile' = [tmpfile EXCEPT ![FileOf(r)] = {Blank}]
          /\ fd' = [fd EXCEPT ![r] = "tmp"]
          /\ shared' = [q \in {Reporter, Main} |->
                                shared[q] \/ (others # {} /\ q \in others \union {r})]
      BY <1>11, <2>3 DEF OpenTmpfile
    <3>2. \A q \in Reporters : q \in others <=> q # r /\ HasOpen(q, FileOf(r))
      BY <1>0, <1>10, <2>1
    <3>3. r \notin others
      OBVIOUS
    <3> HIDE DEF others
    <3>4. \A q \in Reporters : q # r /\ HasOpen(q, FileOf(r)) => shared'[q] /\ shared'[r]
      <4> SUFFICES ASSUME NEW q \in Reporters, q # r, HasOpen(q, FileOf(r)) PROVE shared'[q] /\ shared'[r]
        OBVIOUS
      <4>1. others # {} /\ q \in others
        BY <3>2
      <4> QED BY <1>0, <3>1, <4>1
    <3>5. \A q \in Reporters : q # r /\ ~HasOpen(q, FileOf(r)) => shared'[q] = shared[q]
      <4> SUFFICES ASSUME NEW q \in Reporters, q # r, ~HasOpen(q, FileOf(r)) PROVE shared'[q] = shared[q]
        OBVIOUS
      <4>1. q \notin others \union {r}
        BY <3>2
      <4>2. shared'[q] = (shared[q] \/ (others # {} /\ q \in others \union {r}))
        BY <1>0, <3>1
      <4>3. shared[q] \in BOOLEAN
        BY <1>0
      <4> QED BY <4>1, <4>2, <4>3
    <3>6. \A q \in Reporters : q # r =>
            /\ report'[q] = report[q] /\ reportGen'[q] = reportGen[q] /\ fd'[q] = fd[q]
      BY <1>0, <3>1
    <3>7. fd'[r] = "tmp" /\ report'[r] = "rows" /\ tmpfile'[FileOf(r)] = {Blank} /\ reportGen'[r] = reportGen[r]
      BY <1>0, <2>1, <3>1
    <3>8. \A f \in Files : f # FileOf(r) => tmpfile'[f] = tmpfile[f]
      BY <1>0, <3>1
    <3> QED BY <1>9, <2>1, <3>4, <3>5, <3>6, <3>7, <3>8 DEF HasOpen, SharesFile, Writing
  <2> QED BY <2>2, <2>3
<1>12. ASSUME NEW r \in Reporters, report[r] \in {"rows", "rename"},
              NEW q \in Reporters, q # r, HasOpen(q, FileOf(r))
       PROVE  shared[q] /\ shared[r]
  <2>1. fd[r] # "none" /\ fd[q] # "none" /\ HasOpen(r, FileOf(q)) /\ r # q
    BY <1>01, <1>12 DEF HasOpen, SharesFile
  <2> QED BY <1>01, <1>12, <2>1 DEF HasOpen, SharesFile
<1>13. ASSUME NEW r \in Reporters, WriteRows(r) PROVE TmpfileInv'
  <2>1. report[r] = "rows" /\ fd[r] # "none" /\ FileOf(r) \in Files
    BY <1>01, <1>13 DEF WriteRows, WriteReturns, EndReport, Writing
  <2>2. PICK complete \in BOOLEAN :
            /\ IF complete
               THEN ReportStep(r, "rows", "rename") /\ UNCHANGED <<semaphore, reportGen, result, shared, fd>>
               ELSE WriteReturns(r, "rows") /\ fd' = [fd EXCEPT ![r] = "none"]
            /\ tmpfile' = [tmpfile EXCEPT ![FileOf(r)] =
                            IF fd[r] = "tmp"
                            THEN (@ \ {Blank}) \union {IF complete THEN Rows(r) ELSE Blank}
                            ELSE @]
    BY <1>13 DEF WriteRows
  <2>3. \A f \in Files : f # FileOf(r) => tmpfile'[f] = tmpfile[f]
    BY <1>0, <2>2
  <2>4. \A q \in Reporters : q # r =>
            /\ report'[q] = report[q] /\ reportGen'[q] = reportGen[q] /\ fd'[q] = fd[q]
            /\ shared'[q] = shared[q]
    BY <1>0, <2>2 DEF WriteReturns, EndReport
  <2>5. CASE complete
    <3>1. /\ report'[r] = "rename" /\ reportGen'[r] = reportGen[r] /\ fd'[r] = fd[r] /\ shared'[r] = shared[r]
      BY <1>0, <2>2, <2>5
    <3>2. ASSUME ~shared[r] PROVE fd[r] = "tmp" /\ tmpfile'[FileOf(r)] = {Rows(r)}
      <4>1. fd[r] = "tmp" /\ tmpfile[FileOf(r)] = {Blank}
        BY <1>01, <2>1, <3>2
      <4>2. tmpfile'[FileOf(r)] = ({Blank} \ {Blank}) \union {Rows(r)}
        BY <1>0, <2>1, <2>2, <2>5, <4>1
      <4> QED BY <4>1, <4>2
    <3> QED BY <1>9, <1>12, <2>1, <2>3, <2>4, <3>1, <3>2 DEF HasOpen, SharesFile, Writing
  <2>6. CASE ~complete
    <3>1. fd'[r] = "none" /\ report'[r] \in {"sleep", "finished"}
      BY <1>0, <2>2, <2>6 DEF WriteReturns, EndReport
    <3> QED BY <1>9, <1>12, <2>1, <2>3, <2>4, <3>1 DEF HasOpen, SharesFile, Writing
  <2> QED BY <2>5, <2>6
<1>14. ASSUME NEW r \in Reporters, RenameOutfile(r) PROVE TmpfileInv'
  <2>1. report[r] = "rename" /\ fd[r] # "none" /\ FileOf(r) \in Files
    BY <1>01, <1>14 DEF RenameOutfile, WriteReturns, EndReport, Writing
  <2>2. PICK renamed \in BOOLEAN :
            /\ WriteReturns(r, "rename")
            /\ tmpfile' = [tmpfile EXCEPT ![FileOf(r)] = NoFile]
            /\ fd' = [q \in {Reporter, Main} |->
                        IF q = r THEN "none"
                        ELSE IF HasOpen(q, FileOf(r))
                             THEN CASE fd[q] = "tmp" -> IF renamed THEN "out" ELSE "gone"
                                    [] fd[q] = "out" -> IF renamed THEN "gone" ELSE "out"
                                    [] OTHER -> fd[q]
                             ELSE fd[q]]
    BY <1>14 DEF RenameOutfile
  <2>3. \A f \in Files : f # FileOf(r) => tmpfile'[f] = tmpfile[f]
    BY <1>0, <2>2
  <2>4. \A q \in Reporters : q # r =>
            /\ report'[q] = report[q] /\ reportGen'[q] = reportGen[q] /\ shared'[q] = shared[q]
    BY <1>0, <2>2 DEF WriteReturns, EndReport
  <2>5. \A q \in Reporters : q # r /\ ~HasOpen(q, FileOf(r)) => fd'[q] = fd[q]
    BY <1>0, <2>2
  <2>6. \A q \in Reporters : q # r /\ HasOpen(q, FileOf(r)) => fd'[q] # "none"
    BY <1>0, <2>2 DEF HasOpen, SharesFile
  <2>7. fd'[r] = "none" /\ report'[r] \in {"sleep", "finished"}
    BY <1>0, <2>2 DEF WriteReturns, EndReport
  <2> QED BY <1>9, <1>12, <2>1, <2>3, <2>4, <2>5, <2>6, <2>7 DEF HasOpen, SharesFile, Writing
<1> QED BY <1>2, <1>3, <1>4, <1>6, <1>7, <1>8, <1>11, <1>13, <1>14, NextSplit DEF Reports

LEMMA OutfileStep ==
    ASSUME TypeInv, TmpfileInv, [Next]_vars, NEW f \in Files, outfile'[f] # outfile[f]
    PROVE  \E r \in {Reporter, Main} :
                /\ HasOpen(r, f)
                /\ shared[r] \/ outfile'[f] = {Rows(r)}
<1>0. DOMAIN outfile = Files
  BY DEF TypeInv
<1>1. \E r \in Reporters : WriteRows(r) \/ RenameOutfile(r)
  <2>1. ASSUME NEW m \in Message PROVE ~Receive(m)
    BY ConnectionLeaves DEF reportVars, fileVars
  <2>2. ASSUME NEW s \in Servers PROVE ~Connection(s)
    BY ConnectionLeaves DEF reportVars, fileVars
  <2>3. ~CommitQuery /\ ~UNCHANGED vars
    BY DEF CommitQuery, vars, reportVars, fileVars
  <2>4. ASSUME NEW r \in Reporters
        PROVE  ~(StartReport(r) \/ GatherResult(r) \/ RenderResult(r) \/ CommitRenderedResult(r)
                 \/ OpenTmpfile(r))
    BY DEF StartReport, GatherResult, RenderResult, CommitRenderedResult, OpenTmpfile, fileVars
  <2> QED BY <2>1, <2>2, <2>3, <2>4, NextSplit DEF Reports
<1>2. PICK r \in Reporters : WriteRows(r) \/ RenameOutfile(r)
  BY <1>1
<1>3. /\ fd[r] # "none" <=> report[r] \in {"rows", "rename"}
      /\ fd[r] # "none" /\ ~shared[r] =>
            /\ fd[r] = "tmp"
            /\ tmpfile[FileOf(r)] = IF report[r] = "rows" THEN {Blank} ELSE {Rows(r)}
  BY DEF TmpfileInv
<1>4. CASE WriteRows(r)
  <2>1. /\ report[r] = "rows"
        /\ f = FileOf(r) /\ fd[r] = "out"
    BY <1>0, <1>4 DEF WriteRows, WriteReturns, EndReport, ReportStep
  <2> QED BY <1>3, <2>1 DEF HasOpen, Reporters
<1>5. CASE RenameOutfile(r)
  <2>1. /\ report[r] = "rename" /\ f = FileOf(r) /\ outfile'[f] = tmpfile[f]
    BY <1>0, <1>5 DEF RenameOutfile, WriteReturns, EndReport, ReportStep
  <2> QED BY <1>3, <2>1 DEF HasOpen, Reporters
<1> QED BY <1>2, <1>4, <1>5

-----------------------------------------------------------------------------
(* The theorems. *)

LEMMA InitInv == Init => IInv /\ HolderInv /\ TmpfileInv
<1> SUFFICES ASSUME Init PROVE IInv /\ HolderInv /\ TmpfileInv
  OBVIOUS
<1>1. TypeInv
  <2>1. TypeOK
    BY GenerationFacts, BagFacts DEF Init, TypeOK, Bag, Reporter, Main
  <2>2. /\ mode \in Modes /\ toReceive \subseteq Message
        /\ link \in [Servers -> {"open", "closed", "cancelled"}]
        /\ snap \in [Servers -> Generations] /\ flushSnap \in [Servers -> Generations]
        /\ flush \in [Servers -> {"no", "wait", "emptying", "done"}]
        /\ raced \in [Servers -> BOOLEAN]
    BY GenerationFacts DEF Init
  <2>3. /\ reportGen \in [Reporters -> Generations] /\ result \in [Reporters -> Bag] /\ shown \in Bag
        /\ fd \in [Reporters -> {"none", "tmp", "out", "gone"}] /\ shared \in [Reporters -> BOOLEAN]
    BY GenerationFacts, BagFacts DEF Init, Reporters
  <2>4. /\ DOMAIN tmpfile = Files /\ DOMAIN outfile = Files
        /\ receivedIn \in [Message -> Generations \union {NotReceived}]
    BY DEF Init
  <2> QED BY <2>1, <2>2, <2>3, <2>4 DEF TypeInv
<1>2. /\ \A m \in Message : receivedIn[m] = NotReceived /\ shown[m] = 0
      /\ \A s \in Servers, m \in Message : local[s][m] = 0
      /\ \A g \in Generations, m \in Message : global[g][m] = 0
      /\ generation \in Generations
  BY BagFacts, GenerationFacts DEF Init
<1>3. ReceivedInv /\ CountedOnce
  BY <1>2, GenerationFacts DEF ReceivedInv, CountedOnce
<1>4. LocalInv /\ FlushInv /\ ApartInv
  BY <1>2 DEF Init, LocalInv, FlushInv, ApartInv
<1>5. MainInv /\ ShownInv
  BY DEF Init, MainInv, ShownInv, Main, Reporter
<1>6. HolderInv /\ TmpfileInv
  BY DEF Init, HolderInv, TmpfileInv, Reporters, Writing, Main, Reporter
<1> QED BY <1>1, <1>3, <1>4, <1>5, <1>6 DEF IInv

\* The inductive invariant of the accounting: a group holds only what its own
\* server sent under the query the group is for, one goroutine at a time merges
\* it unless both have met in Aggregate, and a serverless client's final result is
\* taken after its connection was flushed.
THEOREM Invariance == Spec => []IInv
<1>1. IInv /\ [Next]_vars => IInv'
  BY TypeStep, AccountsStep, FlushStep, ShownStep, MainStep DEF IInv, Accounts
<1> QED BY <1>1, InitInv, PTL DEF Spec

\* Merges that are skipped, flushes, swaps and the commit of a new query never
\* lose a partial result of the present query, count it twice, or let it into
\* the result of another one, also when connections are lost or cancelled, unless
\* the end of its connection meets the copying goroutine within Aggregate.
THEOREM CountedCorrect == Spec => []CountedOnce
<1>1. IInv => CountedOnce
  BY DEF IInv
<1> QED BY <1>1, Invariance, PTL

\* A serverless client shows a complete final result, however its connection
\* ended: its connector waits for the copying goroutine.
THEOREM ServerlessCorrect == Spec => []ServerlessResultComplete
<1>1. IInv => ServerlessResultComplete
  BY DEF IInv, MainInv, ServerlessResultComplete, FinalResultComplete
<1> QED BY <1>1, Invariance, PTL

\* The semaphore of a query serialises the writers of that query, so what is put
\* in the place of an outfile is a whole result: whatever the outfiles of the
\* queries, unless reports of two queries have the temporary file open at once.
THEOREM OutfileCorrect == Spec => OutfileWhole
<1> DEFINE FilesInv == TypeInv /\ HolderInv /\ TmpfileInv
<1>1. Init => FilesInv
  BY InitInv DEF IInv
<1>2. FilesInv /\ [Next]_vars => FilesInv'
  BY TypeStep, HolderStep, TmpfileStep
<1>3. FilesInv /\ [Next]_vars =>
        [\A f \in Files : outfile'[f] # outfile[f] =>
            \E r \in {Reporter, Main} :
                /\ HasOpen(r, f)
                /\ shared[r] \/ outfile'[f] = {Rows(r)}]_vars
  BY OutfileStep
<1> HIDE DEF FilesInv
<1> QED BY <1>1, <1>2, <1>3, PTL DEF Spec, OutfileWhole
=============================================================================
