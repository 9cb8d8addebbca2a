------------------------------ MODULE Aggregate ------------------------------
(***************************************************************************)
(* The server-side MapReduce aggregate of one map command                  *)
(* (internal/mapr/server/aggregate.go) with the goroutines around it:      *)
(*                                                                         *)
(*   "start"     the map command: Start, then close(maprMessages), then    *)
(*               the wait for the forwarder (serverhandler.go)             *)
(*   "loop"      serializationLoop, started by Start                       *)
(*   "session"   baseHandler.shutdown, once the last command is finished   *)
(*   "teardown"  baseHandler.Shutdown, when the connection ends            *)
(*                                                                         *)
(* plus one file processor per read file, the forwarder that drains the    *)
(* command's message channel into the session, and session updates.        *)
(*                                                                         *)
(* A line is an identity; a group set is the set of lines it has counted,  *)
(* so "counted once" and "lost" are visible whatever the query computes.   *)
(***************************************************************************)
EXTENDS Integers, Sequences, FiniteSets

CONSTANTS
    Processor,     \* files read for the query
    Line,          \* log lines that match the query
    Source,        \* Source[l]: the processor that reads line l
    Group,         \* values of the group-by key
    GroupKey,      \* GroupKey[l]: the group of line l
    BatchSize,     \* lines per batch
    ChannelSize,   \* capacity of the maprMessages channel
    MaxTicks,      \* bound: ticks of the serialize ticker
    Unmatched,     \* globs that match no file: the read command gives up
    Scenarios      \* the sessions that are considered, see Scenario

ASSUME AggregateAssumption ==
    /\ IsFiniteSet(Line)
    /\ Source \in [Line -> Processor]
    /\ GroupKey \in [Line -> Group]
    /\ BatchSize \in Nat \ {0}
    /\ ChannelSize \in Nat \ {0}
    /\ MaxTicks \in Nat
    /\ Unmatched \subseteq Processor
    /\ Scenarios \subseteq [lines : SUBSET Line, follow : BOOLEAN, disconnects : BOOLEAN,
                             reloads : BOOLEAN, timeouts : BOOLEAN]

Agent == {"start", "loop", "session", "teardown"}
None == "none"

VARIABLES
    done,           \* a.done is closed
    inputFinished,  \* a.inputFinished is closed
    ctxDone,        \* the context of the query's commands is cancelled
    handlerDone,    \* h.done is closed
    current,        \* the handler's aggregate pointer still points here
    connected,      \* the client reads what the session sends
    published,      \* Start has stored maprMessages in the aggregate
    pc,             \* pc[a]: where agent a is
    serializeMu,    \* the agent that holds serializeMu, or None
    queued,         \* a token is in the serialize channel
    ticks,          \* ticks so far
    ppc,            \* ppc[p]: where processor p is
    unread,         \* lines not yet offered to the aggregate
    adding,         \* adding[p]: the line p is about to append to the batch
    taken,          \* taken[p]: the batch p has taken and not yet counted
    batch,          \* a.batch
    groups,         \* lines counted in a.groupSets
    snapshot,       \* lines of the snapshot that is being sent
    messages,       \* the maprMessages channel: each message a set of lines
    closed,         \* maprMessages is closed
    forwarder,      \* where the forwarder is
    forwarding,     \* lines of the message in the forwarder's hands
    received,       \* lines of the messages handed to the session (h.maprMessages)
    dropped,        \* lines of messages given up after the handler was done
    scenario,       \* what this session reads and what may happen to it
    timedOut,       \* a final serialization was cut short
    panicked        \* a send hit the closed channel

lineVars == <<unread, adding, taken, batch, groups, snapshot, messages,
              forwarding, received, dropped>>
flagVars == <<done, inputFinished, ctxDone, handlerDone, current, connected,
              published, closed, timedOut, panicked>>
loopVars == <<queued, ticks, scenario>>
vars == <<lineVars, flagVars, loopVars, pc, serializeMu, ppc, forwarder>>

Follow == scenario.follow            \* the files are tailed, not read to their end
Disconnects == scenario.disconnects  \* the connection may end while the query runs
Reloads == scenario.reloads          \* a session update may replace the query
Timeouts == scenario.timeouts        \* a final serialization may take over 10 seconds
OneShot == ~Follow /\ ~Disconnects /\ ~Reloads

Init ==
    /\ done = FALSE /\ inputFinished = FALSE /\ ctxDone = FALSE
    /\ handlerDone = FALSE /\ current = TRUE /\ connected = TRUE
    /\ published = FALSE /\ closed = FALSE /\ timedOut = FALSE
    /\ panicked = FALSE
    /\ pc = [a \in Agent |-> "idle"]
    /\ serializeMu = None
    /\ queued = FALSE
    /\ ticks = 0
    /\ ppc = [p \in Processor |-> "new"]
    /\ scenario \in Scenarios
    /\ unread = scenario.lines
    /\ adding = [p \in Processor |-> {}]
    /\ taken = [p \in Processor |-> {}]
    /\ batch = {} /\ groups = {} /\ snapshot = {}
    /\ messages = << >>
    /\ forwarder = "receive"
    /\ forwarding = {} /\ received = {} /\ dropped = {}

TypeOK ==
    /\ {done, inputFinished, ctxDone, handlerDone, current, connected,
        published, closed, timedOut, panicked, queued} \subseteq BOOLEAN
    /\ pc \in [Agent -> {"idle", "select", "stopping", "joinLoop", "close",
                         "drain", "shutdown", "waitProcessors", "serialize",
                         "sending", "loop", "enqueue", "markDone", "finished"}]
    /\ serializeMu \in Agent \cup {None}
    /\ ticks \in 0 .. MaxTicks
    /\ ppc \in [Processor -> {"new", "open", "adding", "counting", "flushing",
                              "closed"}]
    /\ adding \in [Processor -> SUBSET Line]
    /\ taken \in [Processor -> SUBSET Line]
    /\ {unread, batch, groups, snapshot, forwarding, received, dropped}
          \subseteq SUBSET Line
    /\ messages \in Seq(SUBSET Line)
    /\ Len(messages) <= ChannelSize
    /\ forwarder \in {"receive", "send", "exit"}

Step(a, from, to) == pc[a] = from /\ pc' = [pc EXCEPT ![a] = to]

-----------------------------------------------------------------------------
(* AggregateProcessor: ProcessLine, Flush and Close. *)

OpenProcessor(p) ==
    /\ ppc[p] = "new"
    /\ p \notin Unmatched
    /\ current
    /\ ppc' = [ppc EXCEPT ![p] = "open"]
    /\ UNCHANGED <<lineVars, flagVars, loopVars, pc, serializeMu, forwarder>>

\* readFileIfPermissions refuses the file; it still counts as processed.
RefuseFile(p) ==
    /\ ppc[p] = "new"
    /\ p \notin Unmatched
    /\ ppc' = [ppc EXCEPT ![p] = "closed"]
    /\ UNCHANGED <<lineVars, flagVars, loopVars, pc, serializeMu, forwarder>>

\* The stopping() check of ProcessLineDirect passes ...
AcceptLine(p) ==
    /\ ppc[p] = "open"
    /\ ~done
    /\ \E l \in unread :
          /\ Source[l] = p
          /\ unread' = unread \ {l}
          /\ adding' = [adding EXCEPT ![p] = {l}]
    /\ ppc' = [ppc EXCEPT ![p] = "adding"]
    /\ UNCHANGED <<taken, batch, groups, snapshot, messages, forwarding,
                   received, dropped, flagVars, loopVars, pc, serializeMu,
                   forwarder>>

\* ... and the line joins the batch; a full batch is taken for counting.
AddToBatch(p) ==
    /\ ppc[p] = "adding"
    /\ adding' = [adding EXCEPT ![p] = {}]
    /\ LET full == Cardinality(batch \cup adding[p]) >= BatchSize
       IN  /\ batch' = IF full THEN {} ELSE batch \cup adding[p]
           /\ taken' = IF full THEN [taken EXCEPT ![p] = batch \cup adding[p]]
                               ELSE taken
           /\ ppc' = [ppc EXCEPT ![p] = IF full THEN "counting" ELSE "open"]
    /\ UNCHANGED <<unread, groups, snapshot, messages, forwarding, received,
                   dropped, flagVars, loopVars, pc, serializeMu, forwarder>>

\* processRawBatch: parse, where, set, aggregate.
CountBatch(p) ==
    /\ ppc[p] \in {"counting", "flushing"}
    /\ groups' = groups \cup taken[p]
    /\ taken' = [taken EXCEPT ![p] = {}]
    /\ ppc' = [ppc EXCEPT ![p] = IF @ = "counting" THEN "open" ELSE "closed"]
    /\ UNCHANGED <<unread, adding, batch, snapshot, messages, forwarding,
                   received, dropped, flagVars, loopVars, pc, serializeMu,
                   forwarder>>

\* The reader is through with its file: at its end, or, when it follows the
\* file, at the cancellation of its context.  Lines offered to a stopping
\* aggregate are recycled uncounted.  Flush takes the batch unless the
\* aggregate is stopping; Close then releases processorsWg.
FinishFile(p) ==
    /\ ppc[p] = "open"
    /\ Follow => ctxDone
    /\ done \/ ctxDone \/ \A l \in unread : Source[l] # p
    /\ IF done
       THEN /\ ppc' = [ppc EXCEPT ![p] = "closed"]
            /\ UNCHANGED <<batch, taken>>
       ELSE /\ ppc' = [ppc EXCEPT ![p] = "flushing"]
            /\ taken' = [taken EXCEPT ![p] = batch]
            /\ batch' = {}
    /\ UNCHANGED <<unread, adding, groups, snapshot, messages, forwarding,
                   received, dropped, flagVars, loopVars, pc, serializeMu,
                   forwarder>>

ProcessorNext(p) ==
    \/ OpenProcessor(p) \/ RefuseFile(p) \/ AcceptLine(p) \/ AddToBatch(p)
    \/ CountBatch(p) \/ FinishFile(p)

\* No registered processor is open: processorsWg is at zero.
ProcessorsClosed == \A p \in Processor : ppc[p] \in {"new", "closed"}

-----------------------------------------------------------------------------
(* Shutdown and doSerialize, run by any of three agents. *)

ShutdownAgent == {"start", "session", "teardown"}

\* Shutdown: done is closed and the ticker stopped first ...
BeginShutdown(a) ==
    /\ Step(a, "shutdown", "waitProcessors")
    /\ done' = TRUE
    /\ UNCHANGED <<inputFinished, ctxDone, handlerDone, current, connected,
                   published, closed, timedOut, panicked, lineVars, loopVars,
                   serializeMu, ppc, forwarder>>

\* ... then processorsWg.Wait() and processBatchAndWait().
AwaitProcessors(a) ==
    /\ ProcessorsClosed
    /\ Step(a, "waitProcessors", "serialize")
    /\ groups' = groups \cup batch
    /\ batch' = {}
    /\ UNCHANGED <<unread, adding, taken, snapshot, messages, forwarding,
                   received, dropped, flagVars, loopVars, serializeMu, ppc,
                   forwarder>>

\* Where doSerialize returns to.
AfterSerialize(a) ==
    CASE a = "start" -> "stopping"
      [] a = "loop" -> "loop"
      [] OTHER -> "markDone"

\* Mutant: the group sets are sent but not swapped out.
BeginSerializeKeepsGroups(a) ==
    /\ serializeMu = None
    /\ LET all == groups \cup batch
           send == published /\ all # {}
       IN  /\ Step(a, "serialize", IF send THEN "sending" ELSE AfterSerialize(a))
           /\ serializeMu' = IF send THEN a ELSE None
           /\ snapshot' = IF send THEN all ELSE {}
           /\ groups' = all
           /\ batch' = {}
    /\ UNCHANGED <<unread, adding, taken, messages, forwarding, received,
                   dropped, flagVars, loopVars, ppc, forwarder>>

\* doSerialize up to the snapshot: the batch is counted and the group sets
\* swapped out.  Nothing to send, or no channel yet: return.
BeginSerialize(a) ==
    /\ serializeMu = None
    /\ LET all == groups \cup batch
           send == published /\ all # {}
       IN  /\ Step(a, "serialize", IF send THEN "sending" ELSE AfterSerialize(a))
           /\ serializeMu' = IF send THEN a ELSE None
           /\ snapshot' = IF send THEN all ELSE {}
           /\ groups' = IF send THEN {} ELSE all
           /\ batch' = {}
    /\ UNCHANGED <<unread, adding, taken, messages, forwarding, received,
                   dropped, flagVars, loopVars, ppc, forwarder>>

\* One group goes to the channel.  A send on a closed channel panics.
SendGroup(a) ==
    /\ serializeMu = a /\ pc[a] = "sending"
    /\ closed \/ Len(messages) < ChannelSize
    /\ \E g \in {GroupKey[l] : l \in snapshot} :
          LET set == {l \in snapshot : GroupKey[l] = g}
          IN  /\ snapshot' = IF closed THEN snapshot ELSE snapshot \ set
              /\ messages' = IF closed THEN messages ELSE Append(messages, set)
    /\ panicked' = (panicked \/ closed)
    /\ UNCHANGED <<unread, adding, taken, batch, groups, forwarding, received,
                   dropped, done, inputFinished, ctxDone, handlerDone, current,
                   connected, published, closed, timedOut, loopVars, pc,
                   serializeMu, ppc, forwarder>>

\* The serialization's context is done: that of the commands for the loop,
\* ten seconds for Shutdown.  What was not sent is merged back.
InterruptSerialize(a) ==
    /\ serializeMu = a
    /\ snapshot # {}
    /\ IF a = "loop" THEN ctxDone ELSE Timeouts
    /\ Step(a, "sending", AfterSerialize(a))
    /\ serializeMu' = None
    /\ groups' = groups \cup snapshot
    /\ snapshot' = {}
    /\ timedOut' = (timedOut \/ a # "loop")
    /\ UNCHANGED <<unread, adding, taken, batch, messages, forwarding, received,
                   dropped, done, inputFinished, ctxDone, handlerDone, current,
                   connected, published, closed, panicked, loopVars, ppc,
                   forwarder>>

EndSerialize(a) ==
    /\ serializeMu = a
    /\ snapshot = {}
    /\ Step(a, "sending", AfterSerialize(a))
    /\ serializeMu' = None
    /\ UNCHANGED <<lineVars, flagVars, loopVars, ppc, forwarder>>

SerializeNext(a) ==
    BeginSerialize(a) \/ SendGroup(a) \/ EndSerialize(a)

-----------------------------------------------------------------------------
(* The map command: Start, and its end in handleMapCommand. *)

\* maprMessages and the ticker are published, serializationLoop is launched.
Start ==
    /\ pc["start"] = "idle"
    /\ pc' = [pc EXCEPT !["start"] = "select", !["loop"] = "loop"]
    /\ published' = TRUE
    /\ UNCHANGED <<done, inputFinished, ctxDone, handlerDone, current, connected,
                   closed, timedOut, panicked, lineVars, loopVars, serializeMu,
                   ppc, forwarder>>

StartInterrupted ==
    /\ ctxDone \/ done
    /\ Step("start", "select", "stopping")
    /\ UNCHANGED <<lineVars, flagVars, loopVars, serializeMu, ppc, forwarder>>

StartInputFinished ==
    /\ inputFinished
    /\ Step("start", "select", "shutdown")
    /\ UNCHANGED <<lineVars, flagVars, loopVars, serializeMu, ppc, forwarder>>

StopLoop ==
    /\ Step("start", "stopping", "joinLoop")
    /\ done' = TRUE
    /\ UNCHANGED <<inputFinished, ctxDone, handlerDone, current, connected,
                   published, closed, timedOut, panicked, lineVars, loopVars,
                   serializeMu, ppc, forwarder>>

\* <-loopDone
JoinLoop ==
    /\ pc["loop"] = "finished"
    /\ Step("start", "joinLoop", "close")
    /\ UNCHANGED <<lineVars, flagVars, loopVars, serializeMu, ppc, forwarder>>

\* closeMaprMessages: close, then wait for the forwarder.
CloseMessages ==
    /\ Step("start", "close", "drain")
    /\ closed' = TRUE
    /\ UNCHANGED <<done, inputFinished, ctxDone, handlerDone, current, connected,
                   published, timedOut, panicked, lineVars, loopVars,
                   serializeMu, ppc, forwarder>>

\* Mutant: the map command does not wait for the forwarder.
ForwarderNotDrained ==
    /\ Step("start", "drain", "finished")
    /\ UNCHANGED <<lineVars, flagVars, loopVars, serializeMu, ppc, forwarder>>

ForwarderDrained ==
    /\ forwarder = "exit"
    /\ Step("start", "drain", "finished")
    /\ UNCHANGED <<lineVars, flagVars, loopVars, serializeMu, ppc, forwarder>>

StartNext ==
    \/ Start \/ StartInterrupted \/ StartInputFinished \/ StopLoop
    \/ JoinLoop \/ CloseMessages \/ ForwarderDrained

-----------------------------------------------------------------------------
(* serializationLoop. *)

\* Mutant: the loop breaks out of its select only, and goes round again.
LoopExitBreaksSelect ==
    /\ ctxDone \/ done
    /\ Step("loop", "loop", "loop")
    /\ UNCHANGED <<lineVars, flagVars, loopVars, serializeMu, ppc, forwarder>>

LoopExit ==
    /\ ctxDone \/ done
    /\ Step("loop", "loop", "finished")
    /\ UNCHANGED <<lineVars, flagVars, loopVars, serializeMu, ppc, forwarder>>

\* ticker.C: the loop turns to Serialize, which queues a token for itself.
\* stopSerializeTicker ends the ticks.
Tick ==
    /\ ticks < MaxTicks
    /\ ~done
    /\ Step("loop", "loop", "enqueue")
    /\ ticks' = ticks + 1
    /\ UNCHANGED <<lineVars, flagVars, queued, scenario, serializeMu, ppc, forwarder>>

Enqueue ==
    /\ ~queued
    /\ Step("loop", "enqueue", "loop")
    /\ queued' = TRUE
    /\ UNCHANGED <<lineVars, flagVars, ticks, scenario, serializeMu, ppc, forwarder>>

\* The serialize channel is full: a minute passes, or the context is done.
EnqueueGivesUp ==
    /\ queued
    /\ Step("loop", "enqueue", "loop")
    /\ UNCHANGED <<lineVars, flagVars, loopVars, serializeMu, ppc, forwarder>>

Dequeue ==
    /\ queued
    /\ Step("loop", "loop", "serialize")
    /\ queued' = FALSE
    /\ UNCHANGED <<lineVars, flagVars, ticks, scenario, serializeMu, ppc, forwarder>>

LoopNext == LoopExit \/ Tick \/ Enqueue \/ EnqueueGivesUp \/ Dequeue

-----------------------------------------------------------------------------
(* The forwarder of newGeneratedMaprMessagesChannel. *)

ForwardReceive ==
    /\ forwarder = "receive"
    /\ messages # << >>
    /\ forwarding' = Head(messages)
    /\ messages' = Tail(messages)
    /\ forwarder' = "send"
    /\ UNCHANGED <<unread, adding, taken, batch, groups, snapshot, received,
                   dropped, flagVars, loopVars, pc, serializeMu, ppc>>

\* h.send: the session goroutine takes the message while the client reads ...
ForwardSend ==
    /\ forwarder = "send"
    /\ connected
    /\ received' = received \cup forwarding
    /\ forwarding' = {}
    /\ forwarder' = "receive"
    /\ UNCHANGED <<unread, adding, taken, batch, groups, snapshot, messages,
                   dropped, flagVars, loopVars, pc, serializeMu, ppc>>

\* ... or the handler is done.
ForwardAbandoned ==
    /\ forwarder = "send"
    /\ handlerDone
    /\ dropped' = dropped \cup forwarding
    /\ forwarding' = {}
    /\ forwarder' = "receive"
    /\ UNCHANGED <<unread, adding, taken, batch, groups, snapshot, messages,
                   received, flagVars, loopVars, pc, serializeMu, ppc>>

ForwarderExit ==
    /\ forwarder = "receive"
    /\ ctxDone \/ handlerDone \/ (closed /\ messages = << >>)
    /\ forwarder' = "exit"
    /\ UNCHANGED <<lineVars, flagVars, loopVars, pc, serializeMu, ppc>>

ForwarderNext ==
    ForwardReceive \/ ForwardSend \/ ForwardAbandoned \/ ForwarderExit

-----------------------------------------------------------------------------
(* The session around the aggregate. *)

\* maybeFinishAggregateInput: every file registered so far is processed, and
\* the pointer still points here after the grace period.
FinishInput ==
    /\ ~Follow
    /\ current
    /\ ~inputFinished
    /\ ProcessorsClosed
    /\ \E p \in Processor : ppc[p] = "closed"
    /\ inputFinished' = TRUE
    /\ UNCHANGED <<done, ctxDone, handlerDone, current, connected, published,
                   closed, timedOut, panicked, lineVars, loopVars, pc,
                   serializeMu, ppc, forwarder>>

\* sessionCommandState.update: the old context is cancelled ...
Reload ==
    /\ Reloads
    /\ current
    /\ ~ctxDone
    /\ ctxDone' = TRUE
    /\ UNCHANGED <<done, inputFinished, handlerDone, current, connected,
                   published, closed, timedOut, panicked, lineVars, loopVars, pc,
                   serializeMu, ppc, forwarder>>

\* ... then resetSessionAggregates calls Abort and forgets the aggregate.
Abort ==
    /\ Reloads
    /\ current /\ ctxDone /\ ~handlerDone
    /\ done' = TRUE
    /\ current' = FALSE
    /\ UNCHANGED <<inputFinished, ctxDone, handlerDone, connected, published,
                   closed, timedOut, panicked, lineVars, loopVars, pc,
                   serializeMu, ppc, forwarder>>

\* commandFinished of the last command: no command is active, no file pending.
\* An active session (Reloads) is kept alive instead.
SessionShutdown ==
    /\ ~Reloads
    /\ pc["start"] = "finished"
    /\ ProcessorsClosed
    /\ Step("session", "idle", "shutdown")
    /\ UNCHANGED <<lineVars, flagVars, loopVars, serializeMu, ppc, forwarder>>

\* The connection ends; handleShellRequest calls baseHandler.Shutdown.
Disconnect ==
    /\ Disconnects
    /\ Step("teardown", "idle", IF current THEN "shutdown" ELSE "markDone")
    /\ connected' = FALSE
    /\ UNCHANGED <<done, inputFinished, ctxDone, handlerDone, current, published,
                   closed, timedOut, panicked, lineVars, loopVars, serializeMu,
                   ppc, forwarder>>

\* Both shutdown and Shutdown end with h.done.Shutdown().
MarkHandlerDone(a) ==
    /\ Step(a, "markDone", "finished")
    /\ handlerDone' = TRUE
    /\ UNCHANGED <<done, inputFinished, ctxDone, current, connected, published,
                   closed, timedOut, panicked, lineVars, loopVars, serializeMu,
                   ppc, forwarder>>

\* The watcher of newCommandContext.
CancelContext ==
    /\ handlerDone
    /\ ~ctxDone
    /\ ctxDone' = TRUE
    /\ UNCHANGED <<done, inputFinished, handlerDone, current, connected,
                   published, closed, timedOut, panicked, lineVars, loopVars, pc,
                   serializeMu, ppc, forwarder>>

-----------------------------------------------------------------------------
ShutdownNext(a) ==
    BeginShutdown(a) \/ AwaitProcessors(a) \/ SerializeNext(a)

\* The process ends with a panic; otherwise the map command ends.
Terminated ==
    /\ panicked \/ pc["start"] = "finished"
    /\ UNCHANGED vars

Next ==
    \/ /\ ~panicked
       /\ \/ \E p \in Processor : ProcessorNext(p)
          \/ StartNext \/ LoopNext \/ ForwarderNext
          \/ \E a \in ShutdownAgent : ShutdownNext(a)
          \/ SerializeNext("loop")
          \/ \E a \in Agent : InterruptSerialize(a)
          \/ \E a \in {"session", "teardown"} : MarkHandlerDone(a)
          \/ FinishInput \/ CancelContext
          \/ Reload \/ Abort \/ SessionShutdown \/ Disconnect
    \/ Terminated

Spec == Init /\ [][Next]_vars

(***************************************************************************)
(* Fairness: every goroutine that can run does run, a connected client     *)
(* keeps reading, a select whose context is done is left, timeouts expire, *)
(* and the end of the last file is noticed.  Ticks, reloads and            *)
(* disconnections are up to the environment.                               *)
(***************************************************************************)
Fairness ==
    /\ \A p \in Processor : WF_vars(~panicked /\ ProcessorNext(p))
    /\ WF_vars(~panicked /\ StartNext)
    /\ WF_vars(~panicked /\ (LoopExit \/ Enqueue \/ EnqueueGivesUp \/ Dequeue))
    /\ WF_vars(~panicked /\ ForwarderNext)
    /\ \A a \in ShutdownAgent : WF_vars(~panicked /\ ShutdownNext(a))
    /\ WF_vars(~panicked /\ SerializeNext("loop"))
    /\ \A a \in Agent : WF_vars(~panicked /\ InterruptSerialize(a))
    /\ \A a \in {"session", "teardown"} : WF_vars(~panicked /\ MarkHandlerDone(a))
    /\ WF_vars(~panicked /\ FinishInput)
    /\ WF_vars(~panicked /\ CancelContext)
    /\ WF_vars(~panicked /\ Abort)
    /\ WF_vars(~panicked /\ SessionShutdown)

FairSpec == Spec /\ Fairness

-----------------------------------------------------------------------------
(* Properties. *)

\* Where line l is at the moment.
Places(l) ==
    {<<"adding", p>> : p \in {q \in Processor : l \in adding[q]}}
        \cup {<<"taken", p>> : p \in {q \in Processor : l \in taken[q]}}
        \cup {<<"message", i>> : i \in {j \in DOMAIN messages : l \in messages[j]}}
        \cup {x \in {<<"unread", unread>>, <<"batch", batch>>, <<"groups", groups>>,
                     <<"snapshot", snapshot>>, <<"forwarding", forwarding>>,
                     <<"received", received>>, <<"dropped", dropped>>} : l \in x[2]}

\* Every line is in exactly one place: whatever the order in which batches are
\* taken, snapshots swapped out, sends interrupted and unsent groups merged
\* back, no accepted line is lost and none is counted twice.
LineCountedOnce ==
    \A l \in scenario.lines : Cardinality(Places(l)) = 1

\* "so no serialization can send on maprMessages once the caller closes its
\* side of the channel right after Start returns" (comment in Start).
NoSendOnClosedChannel == ~panicked

\* A map command that returns while its client is connected has delivered every
\* line that was accepted by then, unless its final serialization timed out or
\* its context was cancelled.
FinalResultComplete ==
    pc["start"] = "finished" /\ connected /\ ~timedOut /\ ~ctxDone
        => scenario.lines \ unread \subseteq received

\* While the client is connected, no final serialization has timed out and the
\* context is live, no serialization meets the closed channel: the comment of
\* Start holds then, although Shutdown runs again when the session ends.
UndisturbedNoPanic ==
    connected /\ ~timedOut /\ ~ctxDone => ~panicked

\* The map command of a one-shot query returns, so the session can end:
\* FinishInput breaks the circular wait between the command and the shutdown
\* of the session.
MapCommandEnds == OneShot ~> (pc["start"] = "finished")

\* A session update ends the map command it replaces, whatever its agents were
\* waiting for (a panic of the process ends it too, see NoSendOnClosedChannel).
ReplacedQueryEnds == ~current ~> (pc["start"] = "finished" \/ panicked)
=============================================================================
