-------------------------- MODULE AggregateProofs --------------------------
(***************************************************************************)
(* Proofs about the server-side aggregate, in two parts.  The first is     *)
(* about Aggregate, for every set of files, lines and groups, every batch  *)
(* and channel size and every scenario: what its goroutines do with the    *)
(* lines.  The second is about MapReduceQuery, for every query, user, rule *)
(* list, log format and line: what a query may read and what it computes   *)
(* from the fields the parsers leave.                                      *)
(***************************************************************************)
EXTENDS Aggregate, MapReduceQuery, FiniteSetTheorems, FunctionTheorems, NaturalsInduction, WellFoundedInduction, TLAPS

-----------------------------------------------------------------------------
(* The parts of the inductive invariant. *)

TypeInv ==
    /\ TypeOK
    /\ scenario \in Scenarios

\* A processor has a line or a batch in its hands only in the states of
\* ProcessLine and Flush that say so.
ProcessorInv ==
    \A p \in Processor :
        /\ ppc[p] # "adding" => adding[p] = {}
        /\ ppc[p] \notin {"counting", "flushing"} => taken[p] = {}

\* serializeMu is held exactly while a snapshot is sent, the loop does not run
\* before Start has launched it, and the forwarder holds a message only while
\* it sends one.
SnapshotInv ==
    /\ \A a \in Agent : serializeMu = a <=> pc[a] = "sending"
    /\ serializeMu = None => snapshot = {}
    /\ pc["start"] = "idle" => pc["loop"] = "idle"
    /\ forwarder # "send" => forwarding = {}

Adding(l) == \E p \in Processor : l \in adding[p]
Taken(l) == \E p \in Processor : l \in taken[p]
Sent(l) == \E i \in DOMAIN messages : l \in messages[i]

One(b) == IF b THEN 1 ELSE 0

\* Every line is in exactly one kind of place ...
Tally(l) ==
    One(l \in unread) + One(Adding(l)) + One(Taken(l)) + One(l \in batch)
      + One(l \in groups) + One(l \in snapshot) + One(Sent(l))
      + One(l \in forwarding) + One(l \in received) + One(l \in dropped)

TallyInv == \A l \in scenario.lines : Tally(l) = 1

\* ... and in one place of that kind.
Apart(l) ==
    /\ \A p, q \in Processor : l \in adding[p] /\ l \in adding[q] => p = q
    /\ \A p, q \in Processor : l \in taken[p] /\ l \in taken[q] => p = q
    /\ \A i, j \in DOMAIN messages : l \in messages[i] /\ l \in messages[j] => i = j

ApartInv == \A l \in scenario.lines : Apart(l)

IInv == TypeInv /\ ProcessorInv /\ SnapshotInv /\ TallyInv /\ ApartInv

-----------------------------------------------------------------------------
(* What the end of an undisturbed query rests on. *)

Undisturbed == connected /\ ~timedOut /\ ~ctxDone

\* The states of the map command from the wait for the loop on.
Ending == {"stopping", "joinLoop", "close", "drain", "finished"}

\* The map command alone drives an undisturbed query to its end.
AgentInv ==
    /\ pc["start"] \in {"idle", "select", "shutdown", "waitProcessors", "serialize", "sending"}
                       \cup Ending
    /\ pc["start"] # "idle" => published
    /\ pc["teardown"] = "idle"
    /\ pc["start"] # "finished" => pc["session"] = "idle" /\ ~handlerDone
    /\ done <=> pc["start"] \notin {"idle", "select", "shutdown"}
    /\ closed <=> pc["start"] \in {"drain", "finished"}

\* Once Shutdown has awaited the processors nobody has an uncounted line, once
\* it has taken its snapshot nothing is left to take, and once the command
\* waits for the loop everything is in the channel or beyond it.
EmptiedInv ==
    /\ pc["start"] \in {"serialize", "sending"} \cup Ending =>
        /\ \A p \in Processor : ppc[p] \in {"new", "open", "closed"}
        /\ batch = {}
    /\ pc["start"] \in {"sending"} \cup Ending => groups = {}
    /\ pc["start"] \in Ending => snapshot = {}

\* The forwarder leaves only an empty, closed channel and gives up nothing, and
\* nobody has sent on the closed channel.
ForwardedInv ==
    /\ forwarder = "exit" => closed /\ messages = << >>
    /\ pc["start"] = "finished" => forwarder = "exit"
    /\ dropped = {}
    /\ ~panicked

EndInv == Undisturbed => AgentInv /\ EmptiedInv /\ ForwardedInv

-----------------------------------------------------------------------------
(* The steps by what they do to the lines. *)

Moves(p) == AcceptLine(p) \/ AddToBatch(p) \/ CountBatch(p) \/ FinishFile(p)

\* Who moves a line, and who moves none.
LEMMA NextSplit ==
    [Next]_vars =>
        \/ UNCHANGED <<lineVars, scenario>>
        \/ \E p \in Processor : Moves(p)
        \/ \E a \in Agent : AwaitProcessors(a) \/ BeginSerialize(a) \/ SendGroup(a)
                            \/ InterruptSerialize(a)
        \/ ForwardReceive \/ ForwardSend \/ ForwardAbandoned
<1> SUFFICES ASSUME [Next]_vars PROVE NextSplit!2
  OBVIOUS
<1> USE DEF loopVars
<1>0. ShutdownAgent \subseteq Agent /\ "loop" \in Agent
  BY DEF ShutdownAgent, Agent
<1>1. CASE UNCHANGED vars \/ Terminated
  BY <1>1 DEF vars, Terminated
<1>2. ASSUME NEW p \in Processor, ProcessorNext(p) PROVE NextSplit!2
  BY <1>2 DEF ProcessorNext, Moves, OpenProcessor, RefuseFile
<1>3. CASE StartNext
  BY <1>3 DEF StartNext, Start, StartInterrupted, StartInputFinished, StopLoop, JoinLoop,
     CloseMessages, ForwarderDrained
<1>4. CASE LoopNext
  BY <1>4 DEF LoopNext, LoopExit, Tick, Enqueue, EnqueueGivesUp, Dequeue
<1>5. CASE ForwarderNext
  BY <1>5 DEF ForwarderNext, ForwarderExit
<1>6. ASSUME NEW a \in Agent, ShutdownNext(a) \/ SerializeNext(a) PROVE NextSplit!2
  BY <1>6 DEF ShutdownNext, SerializeNext, BeginShutdown, EndSerialize
<1>7. ASSUME NEW a \in Agent, MarkHandlerDone(a) PROVE NextSplit!2
  BY <1>7 DEF MarkHandlerDone
<1>8. CASE FinishInput \/ CancelContext \/ Reload \/ Abort \/ SessionShutdown \/ Disconnect
  BY <1>8 DEF FinishInput, CancelContext, Reload, Abort, SessionShutdown, Disconnect
<1>9. {"session", "teardown"} \subseteq Agent
  BY DEF Agent
<1> QED BY <1>0, <1>1, <1>2, <1>3, <1>4, <1>5, <1>6, <1>7, <1>8, <1>9 DEF Next

-----------------------------------------------------------------------------
(* Types. *)

LinesTyped ==
    /\ unread \subseteq Line /\ batch \subseteq Line /\ groups \subseteq Line
    /\ snapshot \subseteq Line /\ forwarding \subseteq Line /\ received \subseteq Line
    /\ dropped \subseteq Line
    /\ adding \in [Processor -> SUBSET Line]
    /\ taken \in [Processor -> SUBSET Line]
    /\ messages \in Seq(SUBSET Line)

LEMMA TypeInvLines == TypeInv => LinesTyped /\ scenario \in Scenarios /\ scenario.lines \subseteq Line
  BY AggregateAssumption DEF TypeInv, TypeOK, LinesTyped

LEMMA LinesTyping == TypeInv /\ [Next]_vars =>
    LinesTyped' /\ scenario' = scenario /\ (Len(messages) <= ChannelSize)'
<1> SUFFICES ASSUME TypeInv, [Next]_vars PROVE LinesTyping!2
  OBVIOUS
<1>0. LinesTyped /\ Len(messages) <= ChannelSize /\ ChannelSize \in Nat
  BY TypeInvLines, AggregateAssumption DEF TypeInv, TypeOK
<1> USE <1>0 DEF LinesTyped, loopVars
<1>1. CASE UNCHANGED <<lineVars, scenario>>
  BY <1>1 DEF lineVars
<1>2. ASSUME NEW p \in Processor, Moves(p) PROVE LinesTyping!2
  <2>1. CASE AcceptLine(p)
    BY <2>1 DEF AcceptLine
  <2>2. CASE AddToBatch(p)
    BY <2>2 DEF AddToBatch
  <2>3. CASE CountBatch(p)
    BY <2>3 DEF CountBatch
  <2>4. CASE FinishFile(p)
    BY <2>4 DEF FinishFile
  <2> QED BY <1>2, <2>1, <2>2, <2>3, <2>4 DEF Moves
<1>3. ASSUME NEW a \in Agent, AwaitProcessors(a) \/ BeginSerialize(a) \/ InterruptSerialize(a)
      PROVE LinesTyping!2
  BY <1>3 DEF AwaitProcessors, BeginSerialize, InterruptSerialize
<1>4. ASSUME NEW a \in Agent, SendGroup(a) PROVE LinesTyping!2
  <2>1. PICK g \in {GroupKey[l] : l \in snapshot} :
            /\ snapshot' = IF closed THEN snapshot
                           ELSE snapshot \ {l \in snapshot : GroupKey[l] = g}
            /\ messages' = IF closed THEN messages
                           ELSE Append(messages, {l \in snapshot : GroupKey[l] = g})
    BY <1>4 DEF SendGroup
  <2>2. {l \in snapshot : GroupKey[l] = g} \in SUBSET Line
    OBVIOUS
  <2>3. messages' \in Seq(SUBSET Line) /\ (Len(messages) <= ChannelSize)'
    BY <1>4, <2>1, <2>2 DEF SendGroup
  <2> QED BY <1>4, <2>1, <2>2, <2>3 DEF SendGroup
<1>5. CASE ForwardReceive
  <2>1. /\ Head(messages) \in SUBSET Line /\ Tail(messages) \in Seq(SUBSET Line)
        /\ Len(Tail(messages)) <= ChannelSize
    BY <1>5 DEF ForwardReceive
  <2> QED BY <1>5, <2>1 DEF ForwardReceive
<1>6. CASE ForwardSend \/ ForwardAbandoned
  BY <1>6 DEF ForwardSend, ForwardAbandoned
<1> QED BY <1>1, <1>2, <1>3, <1>4, <1>5, <1>6, NextSplit

AgentStates == {"idle", "select", "stopping", "joinLoop", "close", "drain", "shutdown",
                "waitProcessors", "serialize", "sending", "loop", "enqueue", "markDone",
                "finished"}
ProcessorStates == {"new", "open", "adding", "counting", "flushing", "closed"}

\* The steps of the agents, with the place each comes from and goes to.
LEMMA AgentSteps ==
    [Next]_vars /\ pc \in [Agent -> AgentStates] =>
        /\ pc' \in [Agent -> AgentStates]
        /\ serializeMu \in Agent \cup {None} => serializeMu' \in Agent \cup {None}
        /\ ticks \in 0 .. MaxTicks => ticks' \in 0 .. MaxTicks
        /\ queued \in BOOLEAN => queued' \in BOOLEAN
<1> DEFINE Goal == AgentSteps!2
<1> SUFFICES ASSUME [Next]_vars, pc \in [Agent -> AgentStates] PROVE Goal
  OBVIOUS
<1> USE DEF loopVars, Step
<1>0. /\ "start" \in Agent /\ "loop" \in Agent /\ "session" \in Agent /\ "teardown" \in Agent
      /\ MaxTicks \in Nat
  BY AggregateAssumption DEF Agent
<1>1. CASE UNCHANGED <<pc, serializeMu, ticks, queued>>
  BY <1>1
<1>2. ASSUME NEW p \in Processor, ProcessorNext(p) PROVE Goal
  BY <1>1, <1>2 DEF ProcessorNext, OpenProcessor, RefuseFile, AcceptLine, AddToBatch, CountBatch,
     FinishFile
<1>3. CASE StartNext
  <2>1. {"select", "loop", "stopping", "shutdown", "joinLoop", "close", "drain", "finished"}
          \subseteq AgentStates
    BY DEF AgentStates
  <2>2. CASE Start
    BY <1>0, <2>1, <2>2 DEF Start
  <2>3. CASE StartInterrupted \/ StartInputFinished \/ StopLoop
    BY <1>0, <2>1, <2>3 DEF StartInterrupted, StartInputFinished, StopLoop
  <2>4. CASE JoinLoop \/ CloseMessages \/ ForwarderDrained
    BY <1>0, <2>1, <2>4 DEF JoinLoop, CloseMessages, ForwarderDrained
  <2> QED BY <1>3, <2>2, <2>3, <2>4 DEF StartNext
<1>4. CASE LoopNext
  <2>1. {"loop", "finished", "enqueue", "serialize"} \subseteq AgentStates
    BY DEF AgentStates
  <2>2. CASE LoopExit \/ EnqueueGivesUp
    BY <1>0, <2>1, <2>2 DEF LoopExit, EnqueueGivesUp
  <2>3. CASE Tick
    BY <1>0, <2>1, <2>3 DEF Tick
  <2>4. CASE Enqueue
    BY <1>0, <2>1, <2>4 DEF Enqueue
  <2>5. CASE Dequeue
    BY <1>0, <2>1, <2>5 DEF Dequeue
  <2> QED BY <1>4, <2>2, <2>3, <2>4, <2>5 DEF LoopNext
<1>5. CASE ForwarderNext
  BY <1>1, <1>5 DEF ForwarderNext, ForwardReceive, ForwardSend, ForwardAbandoned, ForwarderExit
<1>6. ASSUME NEW a \in Agent, BeginShutdown(a) \/ AwaitProcessors(a) \/ MarkHandlerDone(a)
      PROVE Goal
  BY <1>6 DEF BeginShutdown, AwaitProcessors, MarkHandlerDone, AgentStates
<1>7. ASSUME NEW a \in Agent, SerializeNext(a) \/ InterruptSerialize(a) PROVE Goal
  <2>1. AfterSerialize(a) \in AgentStates
    BY DEF AfterSerialize, AgentStates
  <2>2. "sending" \in AgentStates
    BY DEF AgentStates
  <2> QED BY <1>7, <2>1, <2>2 DEF SerializeNext, BeginSerialize, SendGroup, EndSerialize,
          InterruptSerialize
<1>8. CASE FinishInput \/ CancelContext \/ Reload \/ Abort \/ SessionShutdown \/ Disconnect
  BY <1>0, <1>8 DEF FinishInput, CancelContext, Reload, Abort, SessionShutdown, Disconnect,
     AgentStates
<1>9. CASE UNCHANGED vars \/ Terminated
  BY <1>1, <1>9 DEF vars, Terminated
<1>10. ShutdownAgent \subseteq Agent
  BY DEF ShutdownAgent, Agent
<1> HIDE DEF Goal
<1> QED BY <1>0, <1>2, <1>3, <1>4, <1>5, <1>6, <1>7, <1>8, <1>9, <1>10 DEF Next, ShutdownNext

LEMMA WorkerSteps ==
    [Next]_vars /\ ppc \in [Processor -> ProcessorStates] /\ forwarder \in {"receive", "send", "exit"} =>
        /\ ppc' \in [Processor -> ProcessorStates]
        /\ forwarder' \in {"receive", "send", "exit"}
<1> DEFINE Goal == WorkerSteps!2
<1> SUFFICES ASSUME [Next]_vars, ppc \in [Processor -> ProcessorStates],
                    forwarder \in {"receive", "send", "exit"}
             PROVE Goal
  OBVIOUS
<1>1. CASE UNCHANGED <<ppc, forwarder>>
  BY <1>1
<1>2. ASSUME NEW p \in Processor, ProcessorNext(p) PROVE Goal
  BY <1>2 DEF ProcessorNext, OpenProcessor, RefuseFile, AcceptLine, AddToBatch, CountBatch,
     FinishFile, ProcessorStates
<1>3. CASE StartNext
  BY <1>1, <1>3 DEF StartNext, Start, StartInterrupted, StartInputFinished, StopLoop, JoinLoop,
     CloseMessages, ForwarderDrained
<1>4. CASE LoopNext
  BY <1>1, <1>4 DEF LoopNext, LoopExit, Tick, Enqueue, EnqueueGivesUp, Dequeue
<1>5. CASE ForwarderNext
  BY <1>5 DEF ForwarderNext, ForwardReceive, ForwardSend, ForwardAbandoned, ForwarderExit
<1>6. ASSUME NEW a \in Agent,
             ShutdownNext(a) \/ SerializeNext(a) \/ InterruptSerialize(a) \/ MarkHandlerDone(a)
      PROVE Goal
  BY <1>1, <1>6 DEF ShutdownNext, SerializeNext, BeginShutdown, AwaitProcessors, MarkHandlerDone,
     BeginSerialize, SendGroup, EndSerialize, InterruptSerialize
<1>7. CASE FinishInput \/ CancelContext \/ Reload \/ Abort \/ SessionShutdown \/ Disconnect
  BY <1>1, <1>7 DEF FinishInput, CancelContext, Reload, Abort, SessionShutdown, Disconnect
<1>8. CASE UNCHANGED vars \/ Terminated
  BY <1>1, <1>8 DEF vars, Terminated
<1>9. ShutdownAgent \subseteq Agent /\ {"session", "teardown", "loop"} \subseteq Agent
  BY DEF ShutdownAgent, Agent
<1> HIDE DEF Goal
<1> QED BY <1>2, <1>3, <1>4, <1>5, <1>6, <1>7, <1>8, <1>9 DEF Next

BoolStep(x, y) == x \in BOOLEAN => y \in BOOLEAN

\* The flags are Boolean, and what disturbs a query stays.
LEMMA FlagSteps ==
    [Next]_vars =>
        /\ BoolStep(done, done')
        /\ BoolStep(inputFinished, inputFinished')
        /\ BoolStep(ctxDone, ctxDone')
        /\ BoolStep(handlerDone, handlerDone')
        /\ BoolStep(current, current')
        /\ BoolStep(connected, connected')
        /\ BoolStep(published, published')
        /\ BoolStep(closed, closed')
        /\ BoolStep(timedOut, timedOut')
        /\ BoolStep(panicked, panicked')
        /\ connected' => connected
        /\ timedOut => timedOut'
        /\ ctxDone => ctxDone'
<1> DEFINE Goal == FlagSteps!2
<1> SUFFICES ASSUME [Next]_vars PROVE Goal
  OBVIOUS
<1> USE DEF flagVars
<1>0. ASSUME /\ done' = done \/ done' = TRUE
             /\ inputFinished' = inputFinished \/ inputFinished' = TRUE
             /\ ctxDone' = ctxDone \/ ctxDone' = TRUE
             /\ handlerDone' = handlerDone \/ handlerDone' = TRUE
             /\ current' = current \/ current' = FALSE
             /\ connected' = connected \/ connected' = FALSE
             /\ published' = published \/ published' = TRUE
             /\ closed' = closed \/ closed' = TRUE
             /\ UNCHANGED <<timedOut, panicked>>
      PROVE Goal
  <2>1. BoolStep(done, done') /\ BoolStep(inputFinished, inputFinished')
    BY <1>0, Zenon DEF BoolStep
  <2>2. BoolStep(ctxDone, ctxDone') /\ BoolStep(handlerDone, handlerDone')
    BY <1>0, Zenon DEF BoolStep
  <2>3. BoolStep(current, current') /\ BoolStep(connected, connected')
    BY <1>0, Zenon DEF BoolStep
  <2>4. BoolStep(published, published') /\ BoolStep(closed, closed')
    BY <1>0, Zenon DEF BoolStep
  <2>5. (connected' => connected) /\ (ctxDone => ctxDone')
    <3>1. connected' = connected \/ connected' = FALSE
      BY <1>0
    <3>2. ctxDone' = ctxDone \/ ctxDone' = TRUE
      BY <1>0
    <3>3. connected' => connected
      BY <3>1, Zenon
    <3>4. ctxDone => ctxDone'
      BY <3>2, Zenon
    <3> QED BY <3>3, <3>4
  <2>6. BoolStep(timedOut, timedOut') /\ BoolStep(panicked, panicked') /\ (timedOut => timedOut')
    BY <1>0, Zenon DEF BoolStep
  <2> QED BY <2>1, <2>2, <2>3, <2>4, <2>5, <2>6
<1> HIDE DEF Goal
<1>1. CASE UNCHANGED flagVars
  BY <1>0, <1>1
<1>2. ASSUME NEW p \in Processor, ProcessorNext(p) PROVE Goal
  BY <1>1, <1>2 DEF ProcessorNext, OpenProcessor, RefuseFile, AcceptLine, AddToBatch, CountBatch,
     FinishFile
<1>3. CASE Start \/ StopLoop \/ CloseMessages
  BY <1>0, <1>3 DEF Start, StopLoop, CloseMessages
<1>4. CASE LoopNext \/ StartInterrupted \/ StartInputFinished \/ JoinLoop \/ ForwarderDrained
  BY <1>1, <1>4 DEF LoopNext, LoopExit, Tick, Enqueue, EnqueueGivesUp, Dequeue, StartInterrupted,
     StartInputFinished, JoinLoop, ForwarderDrained
<1>5. CASE ForwarderNext
  BY <1>1, <1>5 DEF ForwarderNext, ForwardReceive, ForwardSend, ForwardAbandoned, ForwarderExit
<1>6. ASSUME NEW a \in Agent, BeginShutdown(a) \/ MarkHandlerDone(a) PROVE Goal
  BY <1>0, <1>6 DEF BeginShutdown, MarkHandlerDone
<1>7. ASSUME NEW a \in Agent, AwaitProcessors(a) \/ BeginSerialize(a) \/ EndSerialize(a) PROVE Goal
  BY <1>1, <1>7 DEF AwaitProcessors, BeginSerialize, EndSerialize
<1>8. ASSUME NEW a \in Agent, SendGroup(a) PROVE Goal
  <2>1. /\ panicked' = (panicked \/ closed)
        /\ UNCHANGED <<done, inputFinished, ctxDone, handlerDone, current, connected, published,
                       closed, timedOut>>
    BY <1>8 DEF SendGroup
  <2> QED BY <2>1, Zenon DEF Goal, BoolStep
<1>9. ASSUME NEW a \in Agent, InterruptSerialize(a) PROVE Goal
  <2>1. /\ timedOut' = (timedOut \/ a # "loop")
        /\ UNCHANGED <<done, inputFinished, ctxDone, handlerDone, current, connected, published,
                       closed, panicked>>
    BY <1>9 DEF InterruptSerialize
  <2> QED BY <2>1, Zenon DEF Goal, BoolStep
<1>10. CASE FinishInput \/ CancelContext \/ Reload \/ Abort \/ SessionShutdown \/ Disconnect
  BY <1>0, <1>10 DEF FinishInput, CancelContext, Reload, Abort, SessionShutdown, Disconnect
<1>11. CASE UNCHANGED vars \/ Terminated
  BY <1>1, <1>11 DEF vars, Terminated
<1>12. ShutdownAgent \subseteq Agent /\ {"session", "teardown", "loop"} \subseteq Agent
  BY DEF ShutdownAgent, Agent
<1> QED BY <1>2, <1>3, <1>4, <1>5, <1>6, <1>7, <1>8, <1>9, <1>10, <1>11, <1>12
        DEF Next, StartNext, ShutdownNext, SerializeNext

LEMMA TypeStep == TypeInv /\ [Next]_vars => TypeInv'
<1> SUFFICES ASSUME TypeInv, [Next]_vars PROVE TypeInv'
  OBVIOUS
<1>1. /\ pc \in [Agent -> AgentStates] /\ ppc \in [Processor -> ProcessorStates]
      /\ forwarder \in {"receive", "send", "exit"} /\ serializeMu \in Agent \cup {None}
      /\ ticks \in 0 .. MaxTicks
      /\ scenario \in Scenarios
  BY DEF TypeInv, TypeOK, AgentStates, ProcessorStates
<1>2. /\ queued \in BOOLEAN /\ done \in BOOLEAN /\ inputFinished \in BOOLEAN
      /\ ctxDone \in BOOLEAN /\ handlerDone \in BOOLEAN /\ current \in BOOLEAN
      /\ connected \in BOOLEAN /\ published \in BOOLEAN /\ closed \in BOOLEAN
      /\ timedOut \in BOOLEAN /\ panicked \in BOOLEAN
  BY Zenon DEF TypeInv, TypeOK
<1>3. /\ pc' \in [Agent -> AgentStates] /\ ppc' \in [Processor -> ProcessorStates]
      /\ forwarder' \in {"receive", "send", "exit"} /\ serializeMu' \in Agent \cup {None}
      /\ ticks' \in 0 .. MaxTicks
  BY <1>1, AgentSteps, WorkerSteps
<1>4. {done, inputFinished, ctxDone, handlerDone, current, connected,
        published, closed, timedOut, panicked, queued}' \subseteq BOOLEAN
  BY <1>1, <1>2, AgentSteps, FlagSteps, Zenon DEF BoolStep
<1> QED BY <1>1, <1>3, <1>4, LinesTyping DEF TypeInv, TypeOK, LinesTyped, AgentStates, ProcessorStates

-----------------------------------------------------------------------------
(* Who holds what. *)

LEMMA ProcessorStep == TypeInv /\ ProcessorInv /\ [Next]_vars => ProcessorInv'
<1> SUFFICES ASSUME TypeInv, ProcessorInv, [Next]_vars PROVE ProcessorInv'
  OBVIOUS
<1>0. /\ ppc \in [Processor -> ProcessorStates]
      /\ adding \in [Processor -> SUBSET Line] /\ taken \in [Processor -> SUBSET Line]
  BY DEF TypeInv, TypeOK, ProcessorStates
<1> USE DEF ProcessorInv, lineVars
<1>1. CASE UNCHANGED <<ppc, adding, taken>>
  BY <1>1
<1>2. ASSUME NEW p \in Processor, ProcessorNext(p) PROVE ProcessorInv'
  <2>1. CASE OpenProcessor(p) \/ RefuseFile(p)
    BY <1>0, <2>1 DEF OpenProcessor, RefuseFile
  <2>2. CASE AcceptLine(p)
    BY <1>0, <2>2 DEF AcceptLine
  <2>3. CASE AddToBatch(p)
    BY <1>0, <2>3 DEF AddToBatch
  <2>4. CASE CountBatch(p)
    BY <1>0, <2>4 DEF CountBatch
  <2>5. CASE FinishFile(p)
    BY <1>0, <2>5 DEF FinishFile
  <2> QED BY <1>2, <2>1, <2>2, <2>3, <2>4, <2>5 DEF ProcessorNext
<1>3. CASE StartNext
  BY <1>1, <1>3 DEF StartNext, Start, StartInterrupted, StartInputFinished, StopLoop, JoinLoop,
     CloseMessages, ForwarderDrained
<1>4. CASE LoopNext
  BY <1>1, <1>4 DEF LoopNext, LoopExit, Tick, Enqueue, EnqueueGivesUp, Dequeue
<1>5. CASE ForwarderNext
  BY <1>1, <1>5 DEF ForwarderNext, ForwardReceive, ForwardSend, ForwardAbandoned, ForwarderExit
<1>6. ASSUME NEW a \in Agent,
             ShutdownNext(a) \/ SerializeNext(a) \/ InterruptSerialize(a) \/ MarkHandlerDone(a)
      PROVE ProcessorInv'
  BY <1>1, <1>6 DEF ShutdownNext, SerializeNext, BeginShutdown, AwaitProcessors, MarkHandlerDone,
     BeginSerialize, SendGroup, EndSerialize, InterruptSerialize
<1>7. CASE FinishInput \/ CancelContext \/ Reload \/ Abort \/ SessionShutdown \/ Disconnect
  BY <1>1, <1>7 DEF FinishInput, CancelContext, Reload, Abort, SessionShutdown, Disconnect
<1>8. CASE UNCHANGED vars \/ Terminated
  BY <1>1, <1>8 DEF vars, Terminated
<1>9. ShutdownAgent \subseteq Agent /\ {"session", "teardown", "loop"} \subseteq Agent
  BY DEF ShutdownAgent, Agent
<1> HIDE DEF ProcessorInv
<1> QED BY <1>2, <1>3, <1>4, <1>5, <1>6, <1>7, <1>8, <1>9 DEF Next

LEMMA SnapshotStep == TypeInv /\ SnapshotInv /\ [Next]_vars => SnapshotInv'
<1> SUFFICES ASSUME TypeInv, SnapshotInv, [Next]_vars PROVE SnapshotInv'
  OBVIOUS
<1>0. /\ pc \in [Agent -> AgentStates] /\ serializeMu \in Agent \cup {None}
      /\ None \notin Agent
      /\ "start" \in Agent /\ "loop" \in Agent /\ "session" \in Agent /\ "teardown" \in Agent
  BY DEF TypeInv, TypeOK, AgentStates, Agent, None
<1> USE DEF SnapshotInv, lineVars, Step
<1>1. CASE UNCHANGED <<pc, serializeMu, snapshot, forwarder, forwarding>>
  BY <1>1
<1>2. ASSUME NEW p \in Processor, ProcessorNext(p) PROVE SnapshotInv'
  BY <1>1, <1>2 DEF ProcessorNext, OpenProcessor, RefuseFile, AcceptLine, AddToBatch, CountBatch,
     FinishFile
<1>3. CASE StartNext
  <2>1. CASE Start
    BY <1>0, <2>1 DEF Start
  <2>2. CASE StartInterrupted \/ StartInputFinished \/ StopLoop
    BY <1>0, <2>2 DEF StartInterrupted, StartInputFinished, StopLoop
  <2>3. CASE JoinLoop \/ CloseMessages \/ ForwarderDrained
    BY <1>0, <2>3 DEF JoinLoop, CloseMessages, ForwarderDrained
  <2> QED BY <1>3, <2>1, <2>2, <2>3 DEF StartNext
<1>4. CASE LoopNext
  <2>1. CASE LoopExit \/ Tick
    BY <1>0, <2>1 DEF LoopExit, Tick
  <2>2. CASE Enqueue \/ EnqueueGivesUp \/ Dequeue
    BY <1>0, <2>2 DEF Enqueue, EnqueueGivesUp, Dequeue
  <2> QED BY <1>4, <2>1, <2>2 DEF LoopNext
<1>5. CASE ForwarderNext
  BY <1>5 DEF ForwarderNext, ForwardReceive, ForwardSend, ForwardAbandoned, ForwarderExit
<1>6. ASSUME NEW a \in Agent, BeginShutdown(a) \/ AwaitProcessors(a) \/ MarkHandlerDone(a)
      PROVE SnapshotInv'
  BY <1>0, <1>6 DEF BeginShutdown, AwaitProcessors, MarkHandlerDone
<1>7. ASSUME NEW a \in Agent, SerializeNext(a) \/ InterruptSerialize(a) PROVE SnapshotInv'
  <2>1. AfterSerialize(a) # "sending" /\ AfterSerialize(a) # "idle"
    BY DEF AfterSerialize
  <2>2. CASE BeginSerialize(a)
    BY <1>0, <2>1, <2>2 DEF BeginSerialize
  <2>3. CASE SendGroup(a)
    BY <1>0, <2>3 DEF SendGroup
  <2>4. CASE EndSerialize(a) \/ InterruptSerialize(a)
    BY <1>0, <2>1, <2>4 DEF EndSerialize, InterruptSerialize
  <2> QED BY <1>7, <2>2, <2>3, <2>4 DEF SerializeNext
<1>8. CASE FinishInput \/ CancelContext \/ Reload \/ Abort
  BY <1>1, <1>8 DEF FinishInput, CancelContext, Reload, Abort
<1>9. CASE SessionShutdown \/ Disconnect
  BY <1>0, <1>9 DEF SessionShutdown, Disconnect
<1>10. CASE UNCHANGED vars \/ Terminated
  BY <1>1, <1>10 DEF vars, Terminated
<1>11. ShutdownAgent \subseteq Agent
  BY DEF ShutdownAgent, Agent
<1> HIDE DEF SnapshotInv
<1> QED BY <1>0, <1>2, <1>3, <1>4, <1>5, <1>6, <1>7, <1>8, <1>9, <1>10, <1>11 DEF Next, ShutdownNext

-----------------------------------------------------------------------------
(* Every line is in one place.  First what each step does to a line. *)

Here(l) == Tally(l) = 1 /\ Apart(l)

LEMMA AcceptLineOnce ==
    ASSUME IInv, NEW p \in Processor, AcceptLine(p), NEW l \in scenario.lines PROVE Here(l)'
<1>0. LinesTyped /\ adding[p] = {} /\ Tally(l) = 1 /\ Apart(l)
  BY TypeInvLines DEF IInv, ProcessorInv, TallyInv, ApartInv, AcceptLine
<1>1. PICK n \in unread : unread' = unread \ {n} /\ adding' = [adding EXCEPT ![p] = {n}]
  BY DEF AcceptLine
<1>2. UNCHANGED <<taken, batch, groups, snapshot, messages, forwarding, received, dropped>>
  BY DEF AcceptLine
<1>3. \A q \in Processor : adding'[q] = IF q = p THEN {n} ELSE adding[q]
  BY <1>0, <1>1 DEF LinesTyped
<1>4. Adding(l)' <=> Adding(l) \/ l = n
  BY <1>0, <1>3 DEF Adding
<1>5. (Taken(l)' <=> Taken(l)) /\ (Sent(l)' <=> Sent(l))
  BY <1>2 DEF Taken, Sent
<1>6. Tally(l)' = 1 /\ ~(l = n /\ Adding(l))
  BY <1>0, <1>1, <1>2, <1>4, <1>5 DEF Tally, One
<1>7. Apart(l)'
  BY <1>0, <1>2, <1>3, <1>6 DEF Apart, Adding
<1> QED BY <1>6, <1>7 DEF Here

LEMMA AddToBatchOnce ==
    ASSUME IInv, NEW p \in Processor, AddToBatch(p), NEW l \in scenario.lines PROVE Here(l)'
<1>0. LinesTyped /\ taken[p] = {} /\ Tally(l) = 1 /\ Apart(l)
  BY TypeInvLines DEF IInv, ProcessorInv, TallyInv, ApartInv, AddToBatch
<1> DEFINE all == batch \cup adding[p]
           full == Cardinality(all) >= BatchSize
<1>1. /\ adding' = [adding EXCEPT ![p] = {}]
      /\ batch' = IF full THEN {} ELSE all
      /\ taken' = IF full THEN [taken EXCEPT ![p] = all] ELSE taken
  BY DEF AddToBatch
<1>2. UNCHANGED <<unread, groups, snapshot, messages, forwarding, received, dropped>>
  BY DEF AddToBatch
<1> HIDE DEF full
<1>3. /\ \A q \in Processor : adding'[q] = IF q = p THEN {} ELSE adding[q]
      /\ \A q \in Processor : taken'[q] = IF full /\ q = p THEN all ELSE taken[q]
  BY <1>0, <1>1 DEF LinesTyped
<1>4. Adding(l)' <=> Adding(l) /\ l \notin adding[p]
  BY <1>0, <1>3 DEF Adding, Apart
<1>5. Taken(l)' <=> Taken(l) \/ (full /\ l \in all)
  BY <1>0, <1>3 DEF Taken
<1>6. (Sent(l)' <=> Sent(l)) /\ (l \in adding[p] => Adding(l))
  BY <1>2 DEF Sent, Adding
<1>7. Tally(l)' = 1 /\ ~(l \in all /\ Taken(l))
  BY <1>0, <1>1, <1>2, <1>4, <1>5, <1>6 DEF Tally, One
<1>8. Apart(l)'
  BY <1>0, <1>2, <1>3, <1>7 DEF Apart, Taken
<1> QED BY <1>7, <1>8 DEF Here

LEMMA CountBatchOnce ==
    ASSUME IInv, NEW p \in Processor, CountBatch(p), NEW l \in scenario.lines PROVE Here(l)'
<1>0. LinesTyped /\ Tally(l) = 1 /\ Apart(l)
  BY TypeInvLines DEF IInv, TallyInv, ApartInv
<1>1. groups' = groups \cup taken[p] /\ taken' = [taken EXCEPT ![p] = {}]
  BY DEF CountBatch
<1>2. UNCHANGED <<unread, adding, batch, snapshot, messages, forwarding, received, dropped>>
  BY DEF CountBatch
<1>3. \A q \in Processor : taken'[q] = IF q = p THEN {} ELSE taken[q]
  BY <1>0, <1>1 DEF LinesTyped
<1>4. (Taken(l)' <=> Taken(l) /\ l \notin taken[p]) /\ (l \in taken[p] => Taken(l))
  BY <1>0, <1>3 DEF Taken, Apart
<1>5. (Sent(l)' <=> Sent(l)) /\ (Adding(l)' <=> Adding(l))
  BY <1>2 DEF Sent, Adding
<1>6. Tally(l)' = 1
  BY <1>0, <1>1, <1>2, <1>4, <1>5 DEF Tally, One
<1>7. Apart(l)'
  BY <1>0, <1>2, <1>3 DEF Apart
<1> QED BY <1>6, <1>7 DEF Here

LEMMA FinishFileOnce ==
    ASSUME IInv, NEW p \in Processor, FinishFile(p), NEW l \in scenario.lines PROVE Here(l)'
<1>0. LinesTyped /\ taken[p] = {} /\ Tally(l) = 1 /\ Apart(l)
  BY TypeInvLines DEF IInv, ProcessorInv, TallyInv, ApartInv, FinishFile
<1>1. UNCHANGED <<unread, adding, groups, snapshot, messages, forwarding, received, dropped>>
  BY DEF FinishFile
<1>2. (Sent(l)' <=> Sent(l)) /\ (Adding(l)' <=> Adding(l))
  BY <1>1 DEF Sent, Adding
<1>3. CASE done
  <2>1. UNCHANGED <<batch, taken>>
    BY <1>3 DEF FinishFile
  <2>2. Taken(l)' <=> Taken(l)
    BY <2>1 DEF Taken
  <2>3. Tally(l)' = 1
    BY <1>0, <1>1, <1>2, <2>1, <2>2 DEF Tally, One
  <2>4. Apart(l)'
    BY <1>0, <1>1, <2>1 DEF Apart
  <2> QED BY <2>3, <2>4 DEF Here
<1>4. CASE ~done
  <2>1. taken' = [taken EXCEPT ![p] = batch] /\ batch' = {}
    BY <1>4 DEF FinishFile
  <2>2. \A q \in Processor : taken'[q] = IF q = p THEN batch ELSE taken[q]
    BY <1>0, <2>1 DEF LinesTyped
  <2>3. Taken(l)' <=> Taken(l) \/ l \in batch
    BY <1>0, <2>2 DEF Taken
  <2>4. Tally(l)' = 1 /\ ~(l \in batch /\ Taken(l))
    BY <1>0, <1>1, <1>2, <2>1, <2>3 DEF Tally, One
  <2>5. Apart(l)'
    BY <1>0, <1>1, <2>2, <2>4 DEF Apart, Taken
  <2> QED BY <2>4, <2>5 DEF Here
<1> QED BY <1>3, <1>4

\* The agents move lines between the batch, the group sets and the snapshot.
LEMMA AgentOnce ==
    ASSUME IInv, NEW a \in Agent,
           AwaitProcessors(a) \/ BeginSerialize(a) \/ InterruptSerialize(a),
           NEW l \in scenario.lines
    PROVE  Here(l)'
<1>0. Tally(l) = 1 /\ Apart(l)
  BY DEF IInv, TallyInv, ApartInv
<1>1. UNCHANGED <<unread, adding, taken, messages, forwarding, received, dropped>>
  BY DEF AwaitProcessors, BeginSerialize, InterruptSerialize
<1>2. (Taken(l)' <=> Taken(l)) /\ (Adding(l)' <=> Adding(l)) /\ (Sent(l)' <=> Sent(l)) /\ Apart(l)'
  BY <1>0, <1>1 DEF Sent, Adding, Taken, Apart
<1>3. CASE AwaitProcessors(a)
  <2>1. groups' = groups \cup batch /\ batch' = {} /\ snapshot' = snapshot
    BY <1>3 DEF AwaitProcessors
  <2> QED BY <1>0, <1>1, <1>2, <2>1 DEF Here, Tally, One
<1>4. CASE BeginSerialize(a)
  <2>1. snapshot = {}
    BY <1>4 DEF BeginSerialize, IInv, SnapshotInv
  <2>2. /\ batch' = {}
        /\ \/ snapshot' = groups \cup batch /\ groups' = {}
           \/ snapshot' = {} /\ groups' = groups \cup batch
    BY <1>4 DEF BeginSerialize
  <2> QED BY <1>0, <1>1, <1>2, <2>1, <2>2 DEF Here, Tally, One
<1>5. CASE InterruptSerialize(a)
  <2>1. groups' = groups \cup snapshot /\ snapshot' = {} /\ batch' = batch
    BY <1>5 DEF InterruptSerialize
  <2> QED BY <1>0, <1>1, <1>2, <2>1 DEF Here, Tally, One
<1> QED BY <1>3, <1>4, <1>5

LEMMA SendGroupOnce ==
    ASSUME IInv, NEW a \in Agent, SendGroup(a), NEW l \in scenario.lines PROVE Here(l)'
<1>0. LinesTyped /\ Tally(l) = 1 /\ Apart(l)
  BY TypeInvLines DEF IInv, TallyInv, ApartInv
<1>1. UNCHANGED <<unread, adding, taken, batch, groups, forwarding, received, dropped>>
  BY DEF SendGroup
<1>2. (Taken(l)' <=> Taken(l)) /\ (Adding(l)' <=> Adding(l))
  BY <1>1 DEF Adding, Taken
<1>3. CASE closed
  <2>1. UNCHANGED <<snapshot, messages>>
    BY <1>3 DEF SendGroup
  <2>2. (Sent(l)' <=> Sent(l)) /\ Apart(l)'
    BY <1>0, <1>1, <2>1 DEF Sent, Apart
  <2> QED BY <1>0, <1>1, <1>2, <2>1, <2>2 DEF Here, Tally, One
<1>4. CASE ~closed
  <2>1. PICK set \in SUBSET snapshot : snapshot' = snapshot \ set /\ messages' = Append(messages, set)
    BY <1>4 DEF SendGroup
  <2>2. /\ DOMAIN messages = 1 .. Len(messages) /\ DOMAIN messages' = 1 .. Len(messages) + 1
        /\ Len(messages) \in Nat
        /\ \A i \in 1 .. Len(messages) + 1 :
              messages'[i] = IF i = Len(messages) + 1 THEN set ELSE messages[i]
    <3>1. messages \in Seq(SUBSET Line) /\ set \in SUBSET Line
      BY <1>0 DEF LinesTyped
    <3> QED BY <2>1, <3>1
  <2>3. Sent(l)' <=> Sent(l) \/ l \in set
    BY <2>2 DEF Sent
  <2>4. Tally(l)' = 1 /\ ~(l \in set /\ Sent(l))
    BY <1>0, <1>1, <1>2, <2>1, <2>3 DEF Tally, One
  <2>5. Apart(l)'
    BY <1>0, <1>1, <2>2, <2>4 DEF Apart, Sent
  <2> QED BY <2>4, <2>5 DEF Here
<1> QED BY <1>3, <1>4

LEMMA ForwardReceiveOnce ==
    ASSUME IInv, ForwardReceive, NEW l \in scenario.lines PROVE Here(l)'
<1>0. LinesTyped /\ Tally(l) = 1 /\ Apart(l) /\ forwarding = {}
  BY TypeInvLines DEF IInv, TallyInv, ApartInv, SnapshotInv, ForwardReceive
<1>1. UNCHANGED <<unread, adding, taken, batch, groups, snapshot, received, dropped>>
  BY DEF ForwardReceive
<1>2. (Taken(l)' <=> Taken(l)) /\ (Adding(l)' <=> Adding(l))
  BY <1>1 DEF Adding, Taken
<1>3. /\ Len(messages) \in Nat /\ Len(messages) > 0
      /\ DOMAIN messages = 1 .. Len(messages) /\ DOMAIN messages' = 1 .. Len(messages) - 1
      /\ forwarding' = messages[1]
      /\ \A i \in 1 .. Len(messages) - 1 : messages'[i] = messages[i + 1]
  BY <1>0 DEF ForwardReceive, LinesTyped
<1>4. Sent(l) <=> l \in messages[1] \/ Sent(l)'
  <2>1. ASSUME Sent(l) PROVE l \in messages[1] \/ Sent(l)'
    <3>1. PICK i \in 1 .. Len(messages) : l \in messages[i]
      BY <1>3, <2>1 DEF Sent
    <3>2. CASE i = 1
      BY <3>1, <3>2
    <3>3. CASE i # 1
      <4>1. i - 1 \in 1 .. Len(messages) - 1 /\ messages'[i - 1] = messages[i]
        BY <1>3, <3>3
      <4> QED BY <1>3, <3>1, <4>1 DEF Sent
    <3> QED BY <3>2, <3>3
  <2>2. ASSUME l \in messages[1] \/ Sent(l)' PROVE Sent(l)
    BY <1>3, <2>2 DEF Sent
  <2> QED BY <2>1, <2>2
<1>5. ~(l \in messages[1] /\ Sent(l)')
  <2>1. \A i \in 2 .. Len(messages) : ~(l \in messages[1] /\ l \in messages[i])
    BY <1>0, <1>3 DEF Apart
  <2> QED BY <1>3, <2>1 DEF Sent
<1>6. Tally(l)' = 1
  BY <1>0, <1>1, <1>2, <1>3, <1>4, <1>5 DEF Tally, One
<1>7. Apart(l)'
  <2>1. ASSUME NEW i \in 1 .. Len(messages) - 1, NEW j \in 1 .. Len(messages) - 1,
               l \in messages'[i], l \in messages'[j]
        PROVE i = j
    BY <1>0, <1>3, <2>1 DEF Apart
  <2> QED BY <1>0, <1>1, <1>3, <2>1 DEF Apart
<1> QED BY <1>6, <1>7 DEF Here

LEMMA ForwardOnce ==
    ASSUME IInv, ForwardSend \/ ForwardAbandoned, NEW l \in scenario.lines PROVE Here(l)'
<1>0. Tally(l) = 1 /\ Apart(l)
  BY DEF IInv, TallyInv, ApartInv
<1>1. /\ UNCHANGED <<unread, adding, taken, batch, groups, snapshot, messages>>
      /\ forwarding' = {}
      /\ \/ received' = received \cup forwarding /\ dropped' = dropped
         \/ dropped' = dropped \cup forwarding /\ received' = received
  BY DEF ForwardSend, ForwardAbandoned
<1>2. (Taken(l)' <=> Taken(l)) /\ (Adding(l)' <=> Adding(l)) /\ (Sent(l)' <=> Sent(l)) /\ Apart(l)'
  BY <1>0, <1>1 DEF Sent, Adding, Taken, Apart
<1> QED BY <1>0, <1>1, <1>2 DEF Here, Tally, One

LEMMA OnceStep == IInv /\ [Next]_vars => TallyInv' /\ ApartInv'
<1> SUFFICES ASSUME IInv, [Next]_vars, NEW l \in scenario.lines PROVE Here(l)'
  BY LinesTyping DEF IInv, TallyInv, ApartInv, Here
<1>1. CASE UNCHANGED <<lineVars, scenario>>
  <2>1. UNCHANGED <<unread, adding, taken, batch, groups, snapshot, messages, forwarding, received,
                    dropped>>
    BY <1>1 DEF lineVars
  <2>2. Tally(l)' = Tally(l) /\ (Apart(l) => Apart(l)')
    BY <2>1 DEF Tally, Adding, Taken, Sent, Apart
  <2> QED BY <2>2 DEF IInv, TallyInv, ApartInv, Here
<1> QED BY <1>1, NextSplit, AcceptLineOnce, AddToBatchOnce, CountBatchOnce, FinishFileOnce,
        AgentOnce, SendGroupOnce, ForwardReceiveOnce, ForwardOnce DEF Moves

LEMMA InitInv == Init => IInv
<1> SUFFICES ASSUME Init PROVE IInv
  OBVIOUS
<1>0. /\ scenario \in Scenarios /\ unread = scenario.lines /\ scenario.lines \subseteq Line
      /\ MaxTicks \in Nat /\ ChannelSize \in Nat
  BY AggregateAssumption DEF Init
<1>1. TypeInv
  <2>1. {done, inputFinished, ctxDone, handlerDone, current, connected,
        published, closed, timedOut, panicked, queued} \subseteq BOOLEAN
    BY Zenon DEF Init
  <2>2. /\ pc \in [Agent -> AgentStates] /\ ppc \in [Processor -> ProcessorStates]
        /\ serializeMu \in Agent \cup {None} /\ forwarder \in {"receive", "send", "exit"}
    BY DEF Init, AgentStates, ProcessorStates
  <2>3. LinesTyped /\ ticks \in 0 .. MaxTicks /\ Len(messages) <= ChannelSize
    BY <1>0 DEF Init, LinesTyped
  <2> QED BY <1>0, <2>1, <2>2, <2>3 DEF TypeInv, TypeOK, LinesTyped, AgentStates, ProcessorStates
<1>2. ProcessorInv /\ SnapshotInv
  BY DEF Init, ProcessorInv, SnapshotInv, None, Agent
<1>3. TallyInv /\ ApartInv
  <2> SUFFICES ASSUME NEW l \in scenario.lines PROVE Tally(l) = 1 /\ Apart(l)
    BY DEF TallyInv, ApartInv
  <2>1. ~Adding(l) /\ ~Taken(l) /\ ~Sent(l) /\ Apart(l)
    BY DEF Init, Adding, Taken, Sent, Apart
  <2>2. /\ l \in unread /\ l \notin batch /\ l \notin groups /\ l \notin snapshot
        /\ l \notin forwarding /\ l \notin received /\ l \notin dropped
    BY <1>0 DEF Init
  <2> QED BY <2>1, <2>2 DEF Tally, One
<1> QED BY <1>1, <1>2, <1>3 DEF IInv

\* The places of the aggregate's lines stay as the invariant says, whatever
\* processors, agents, forwarder and session do.
THEOREM Invariance == Spec => []IInv
<1>1. IInv /\ [Next]_vars => IInv'
  BY TypeStep, ProcessorStep, SnapshotStep, OnceStep DEF IInv
<1> QED BY InitInv, <1>1, PTL DEF Spec

\* One place of one kind is one place.
LEMMA OnePlace == ASSUME IInv, NEW l \in scenario.lines PROVE Cardinality(Places(l)) = 1
<1>0. Tally(l) = 1 /\ Apart(l) /\ LinesTyped
  BY TypeInvLines DEF IInv, TallyInv, ApartInv
<1> DEFINE A == {<<"adding", p>> : p \in {q \in Processor : l \in adding[q]}}
           T == {<<"taken", p>> : p \in {q \in Processor : l \in taken[q]}}
           M == {<<"message", i>> : i \in {j \in DOMAIN messages : l \in messages[j]}}
           S == {x \in {<<"unread", unread>>, <<"batch", batch>>, <<"groups", groups>>,
                        <<"snapshot", snapshot>>, <<"forwarding", forwarding>>,
                        <<"received", received>>, <<"dropped", dropped>>} : l \in x[2]}
<1>1. Places(l) = ((A \cup T) \cup M) \cup S
  BY DEF Places
<1>2. \E x : Places(l) = {x}
  <2>1. (~Adding(l) => A = {}) /\ (~Taken(l) => T = {}) /\ (~Sent(l) => M = {})
    BY DEF Adding, Taken, Sent
  <2>2. Adding(l) => \E x : A = {x}
    <3> SUFFICES ASSUME Adding(l) PROVE \E x : A = {x}
      OBVIOUS
    <3>1. PICK p \in Processor : l \in adding[p]
      BY DEF Adding
    <3>2. {q \in Processor : l \in adding[q]} = {p}
      BY <1>0, <3>1 DEF Apart
    <3>3. A = {<<"adding", p>>}
      BY <3>2
    <3> QED BY <3>3
  <2>3. Taken(l) => \E x : T = {x}
    <3> SUFFICES ASSUME Taken(l) PROVE \E x : T = {x}
      OBVIOUS
    <3>1. PICK p \in Processor : l \in taken[p]
      BY DEF Taken
    <3>2. {q \in Processor : l \in taken[q]} = {p}
      BY <1>0, <3>1 DEF Apart
    <3>3. T = {<<"taken", p>>}
      BY <3>2
    <3> QED BY <3>3
  <2>4. Sent(l) => \E x : M = {x}
    <3> SUFFICES ASSUME Sent(l) PROVE \E x : M = {x}
      OBVIOUS
    <3>1. PICK i \in DOMAIN messages : l \in messages[i]
      BY DEF Sent
    <3>2. {j \in DOMAIN messages : l \in messages[j]} = {i}
      BY <1>0, <3>1 DEF Apart
    <3>3. M = {<<"message", i>>}
      BY <3>2
    <3> QED BY <3>3
  <2> DEFINE InSets == \/ l \in unread \/ l \in batch \/ l \in groups \/ l \in snapshot
                       \/ l \in forwarding \/ l \in received \/ l \in dropped
  <2>5. ~InSets => S = {}
    OBVIOUS
  <2>6. InSets => \E x : S = {x}
    <3>1. CASE l \in unread
      <4>1. /\ l \notin batch /\ l \notin groups /\ l \notin snapshot /\ l \notin forwarding
            /\ l \notin received /\ l \notin dropped
        BY <1>0, <3>1 DEF Tally, One
      <4>2. S = {<<"unread", unread>>}
        BY <3>1, <4>1
      <4> QED BY <4>2
    <3>2. CASE l \in batch
      <4>1. /\ l \notin unread /\ l \notin groups /\ l \notin snapshot /\ l \notin forwarding
            /\ l \notin received /\ l \notin dropped
        BY <1>0, <3>2 DEF Tally, One
      <4>2. S = {<<"batch", batch>>}
        BY <3>2, <4>1
      <4> QED BY <4>2
    <3>3. CASE l \in groups
      <4>1. /\ l \notin unread /\ l \notin batch /\ l \notin snapshot /\ l \notin forwarding
            /\ l \notin received /\ l \notin dropped
        BY <1>0, <3>3 DEF Tally, One
      <4>2. S = {<<"groups", groups>>}
        BY <3>3, <4>1
      <4> QED BY <4>2
    <3>4. CASE l \in snapshot
      <4>1. /\ l \notin unread /\ l \notin batch /\ l \notin groups /\ l \notin forwarding
            /\ l \notin received /\ l \notin dropped
        BY <1>0, <3>4 DEF Tally, One
      <4>2. S = {<<"snapshot", snapshot>>}
        BY <3>4, <4>1
      <4> QED BY <4>2
    <3>5. CASE l \in forwarding
      <4>1. /\ l \notin unread /\ l \notin batch /\ l \notin groups /\ l \notin snapshot
            /\ l \notin received /\ l \notin dropped
        BY <1>0, <3>5 DEF Tally, One
      <4>2. S = {<<"forwarding", forwarding>>}
        BY <3>5, <4>1
      <4> QED BY <4>2
    <3>6. CASE l \in received
      <4>1. /\ l \notin unread /\ l \notin batch /\ l \notin groups /\ l \notin snapshot
            /\ l \notin forwarding /\ l \notin dropped
        BY <1>0, <3>6 DEF Tally, One
      <4>2. S = {<<"received", received>>}
        BY <3>6, <4>1
      <4> QED BY <4>2
    <3>7. CASE l \in dropped
      <4>1. /\ l \notin unread /\ l \notin batch /\ l \notin groups /\ l \notin snapshot
            /\ l \notin forwarding /\ l \notin received
        BY <1>0, <3>7 DEF Tally, One
      <4>2. S = {<<"dropped", dropped>>}
        BY <3>7, <4>1
      <4> QED BY <4>2
    <3> QED BY <3>1, <3>2, <3>3, <3>4, <3>5, <3>6, <3>7
  <2>7. \/ Adding(l) /\ ~Taken(l) /\ ~Sent(l) /\ ~InSets
        \/ ~Adding(l) /\ Taken(l) /\ ~Sent(l) /\ ~InSets
        \/ ~Adding(l) /\ ~Taken(l) /\ Sent(l) /\ ~InSets
        \/ ~Adding(l) /\ ~Taken(l) /\ ~Sent(l) /\ InSets
    BY <1>0 DEF Tally, One
  <2> HIDE DEF A, T, M, S, InSets
  <2> QED BY <1>1, <2>1, <2>2, <2>3, <2>4, <2>5, <2>6, <2>7
<1>3. PICK x : Places(l) = {x}
  BY <1>2
<1> QED BY <1>3, FS_Singleton

\* No accepted line is lost and none is counted twice: every line of the query
\* is in exactly one place, whatever the order of batches, snapshots,
\* interrupted sends and merges.
THEOREM CountedCorrect == Spec => []LineCountedOnce
<1>1. IInv => LineCountedOnce
  BY OnePlace DEF LineCountedOnce
<1> QED BY Invariance, <1>1, PTL

-----------------------------------------------------------------------------
(* The end of an undisturbed query. *)

LEMMA EndStep == IInv /\ EndInv /\ [Next]_vars => EndInv'
<1> DEFINE Goal == AgentInv' /\ EmptiedInv' /\ ForwardedInv'
<1> SUFFICES ASSUME IInv, EndInv, [Next]_vars, Undisturbed' PROVE Goal
  BY DEF EndInv
<1>0. /\ AgentInv /\ EmptiedInv /\ ForwardedInv
      /\ ~ctxDone /\ ~ctxDone' /\ connected' /\ ~timedOut'
  BY FlagSteps DEF EndInv, Undisturbed
<1>1. /\ pc \in [Agent -> AgentStates] /\ ppc \in [Processor -> ProcessorStates]
      /\ serializeMu \in Agent \cup {None} /\ None \notin Agent
      /\ messages \in Seq(SUBSET Line)
      /\ "start" \in Agent /\ "loop" \in Agent /\ "session" \in Agent /\ "teardown" \in Agent
  BY DEF IInv, TypeInv, TypeOK, AgentStates, ProcessorStates, Agent, None
<1>2. SnapshotInv /\ ProcessorInv
  BY DEF IInv
<1> USE <1>0, <1>1 DEF AgentInv, EmptiedInv, ForwardedInv, Ending, Step, lineVars, flagVars
<1>3. CASE UNCHANGED vars
  BY <1>3 DEF vars
<1>4. ASSUME NEW p \in Processor, ProcessorNext(p) PROVE Goal
  <2>0. CASE OpenProcessor(p)
    BY <2>0 DEF OpenProcessor
  <2>1. CASE RefuseFile(p)
    BY <2>1 DEF RefuseFile
  <2>2. CASE AcceptLine(p)
    BY <2>2 DEF AcceptLine
  <2>3. CASE AddToBatch(p)
    BY <2>3 DEF AddToBatch
  <2>4. CASE CountBatch(p)
    BY <2>4 DEF CountBatch
  <2>5. CASE FinishFile(p)
    BY <2>5 DEF FinishFile
  <2> QED BY <1>4, <2>0, <2>1, <2>2, <2>3, <2>4, <2>5 DEF ProcessorNext
<1>5. CASE StartNext
  <2>1. CASE Start
    BY <2>1 DEF Start
  <2>0. CASE StartInterrupted
    BY <2>0 DEF StartInterrupted
  <2>2. CASE StartInputFinished
    BY <2>2 DEF StartInputFinished
  <2>3. CASE StopLoop
    BY <2>3 DEF StopLoop
  <2>4. CASE JoinLoop
    BY <2>4 DEF JoinLoop
  <2>5. CASE CloseMessages
    BY <2>5 DEF CloseMessages
  <2>6. CASE ForwarderDrained
    BY <2>6 DEF ForwarderDrained
  <2> QED BY <1>5, <2>0, <2>1, <2>2, <2>3, <2>4, <2>5, <2>6 DEF StartNext
<1>6. CASE LoopNext
  <2>1. CASE LoopExit
    BY <2>1 DEF LoopExit
  <2>2. CASE Tick
    BY <2>2 DEF Tick
  <2>3. CASE Enqueue
    BY <2>3 DEF Enqueue
  <2>4. CASE EnqueueGivesUp
    BY <2>4 DEF EnqueueGivesUp
  <2>5. CASE Dequeue
    BY <2>5 DEF Dequeue
  <2> QED BY <1>6, <2>1, <2>2, <2>3, <2>4, <2>5 DEF LoopNext
<1>7. CASE ForwarderNext
  <2>1. CASE ForwardReceive
    BY <2>1 DEF ForwardReceive
  <2>2. CASE ForwardSend
    BY <2>2 DEF ForwardSend
  <2>3. CASE ForwardAbandoned
    BY <2>3 DEF ForwardAbandoned
  <2>4. CASE ForwarderExit
    BY <2>4 DEF ForwarderExit
  <2> QED BY <1>7, <2>1, <2>2, <2>3, <2>4 DEF ForwarderNext
<1>8. ASSUME NEW a \in ShutdownAgent, BeginShutdown(a) PROVE Goal
  BY <1>8 DEF BeginShutdown, ShutdownAgent
<1>9. ASSUME NEW a \in ShutdownAgent, AwaitProcessors(a) PROVE Goal
  BY <1>9 DEF AwaitProcessors, ShutdownAgent, ProcessorsClosed
<1>10. ASSUME NEW a \in Agent, BeginSerialize(a) PROVE Goal
  BY <1>2, <1>10 DEF BeginSerialize, AfterSerialize, Agent, SnapshotInv
<1>11. ASSUME NEW a \in Agent, SendGroup(a) PROVE Goal
  BY <1>2, <1>11 DEF SendGroup, SnapshotInv
<1>12. ASSUME NEW a \in Agent, EndSerialize(a) PROVE Goal
  BY <1>2, <1>12 DEF EndSerialize, AfterSerialize, SnapshotInv
<1>13. ASSUME NEW a \in Agent, InterruptSerialize(a) PROVE Goal
  BY <1>2, <1>13 DEF InterruptSerialize
<1>14. ASSUME NEW a \in {"session", "teardown"}, MarkHandlerDone(a) PROVE Goal
  BY <1>14 DEF MarkHandlerDone
<1>15. CASE FinishInput
  BY <1>15 DEF FinishInput
<1>18. CASE CancelContext \/ Reload \/ Abort
  BY <1>18 DEF CancelContext, Reload, Abort
<1>16. CASE SessionShutdown \/ Disconnect
  BY <1>16 DEF SessionShutdown, Disconnect
<1>17. ShutdownAgent \subseteq Agent
  BY DEF ShutdownAgent, Agent
<1> HIDE DEF Goal
<1> QED BY <1>3, <1>4, <1>5, <1>6, <1>7, <1>8, <1>9, <1>10, <1>11, <1>12, <1>13, <1>14, <1>15, <1>16,
        <1>17, <1>18 DEF Next, Terminated, ShutdownNext, SerializeNext

\* As long as nothing disturbs it, the map command drives its query to its end
\* step by step.
THEOREM EndInvariance == Spec => []EndInv
<1>1. Init => EndInv
  BY DEF Init, EndInv, AgentInv, EmptiedInv, ForwardedInv, Ending, Agent
<1> QED BY <1>1, EndStep, Invariance, PTL DEF Spec

\* A map command that returns to a connected client, with its context live and
\* its final serialization not timed out, has delivered every accepted line.
THEOREM FinalResultCorrect == Spec => []FinalResultComplete
<1>1. IInv /\ EndInv => FinalResultComplete
  <2> SUFFICES ASSUME IInv, EndInv, pc["start"] = "finished", Undisturbed,
                      NEW l \in scenario.lines, l \notin unread
               PROVE l \in received
    BY DEF FinalResultComplete, Undisturbed
  <2>1. EmptiedInv /\ ForwardedInv
    BY DEF EndInv
  <2>2. batch = {} /\ groups = {} /\ snapshot = {} /\ dropped = {} /\ messages = << >>
    BY <2>1 DEF EmptiedInv, ForwardedInv, Ending
  <2>3. forwarding = {}
    BY <2>1 DEF ForwardedInv, IInv, SnapshotInv
  <2>4. ~Adding(l) /\ ~Taken(l) /\ ~Sent(l)
    BY <2>1, <2>2 DEF EmptiedInv, Ending, IInv, ProcessorInv, Adding, Taken, Sent
  <2>5. Tally(l) = 1
    BY DEF IInv, TallyInv
  <2> QED BY <2>2, <2>3, <2>4, <2>5 DEF Tally, One
<1> QED BY Invariance, EndInvariance, <1>1, PTL

\* No serialization meets the closed channel of an undisturbed query.
THEOREM NoPanicCorrect == Spec => []UndisturbedNoPanic
<1>1. EndInv => UndisturbedNoPanic
  BY DEF EndInv, ForwardedInv, Undisturbed, UndisturbedNoPanic
<1> QED BY EndInvariance, <1>1, PTL

\* The variables of the aggregate keep their types.
THEOREM TypeCorrect == Spec => []TypeOK
<1>1. IInv => TypeOK
  BY DEF IInv, TypeInv
<1> QED BY Invariance, <1>1, PTL

-----------------------------------------------------------------------------
(* The second part: the values of a query.  First, induction over the first  *)
(* n numbers, for a set instead of a predicate.                              *)

\* A set of natural numbers that is not empty has a least one.
LEMMA LeastNumber ==
    ASSUME NEW T \in SUBSET Nat, T # {}
    PROVE  \E x \in T : \A y \in T : x <= y
<1> DEFINE R == {ss \in Nat \X Nat : ss[1] < ss[2]}
<1>1. IsWellFoundedOn(R, Nat)
  BY NatLessThanWellFounded, Zenon DEF OpToRel
<1>2. \A x, y \in Nat : <<x, y>> \in R <=> x < y
  OBVIOUS
<1> HIDE DEF R
<1>3. PICK x \in T : \A y \in T : ~(<<y, x>> \in R)
  BY <1>1, WFMin
<1>4. ASSUME NEW y \in T PROVE x <= y
  <2>1. x \in Nat /\ y \in Nat /\ ~(y < x)
    BY <1>2, <1>3
  <2> QED BY <2>1
<1> QED BY <1>4

\* A set that has 0 and, with a number below n, the next one has the first n
\* numbers: induction on a set, which also the recursive functions of the model allow.
LEMMA Induct ==
    ASSUME NEW n \in Nat, NEW S, 0 \in S, \A i \in 0 .. n : i + 1 \in 0 .. n /\ i \in S => i + 1 \in S
    PROVE  0 .. n \subseteq S
<1> DEFINE T == {i \in 0 .. n : i \notin S}
<1> SUFFICES ASSUME T # {} PROVE FALSE
  OBVIOUS
<1>1. PICK x \in T : \A y \in T : x <= y
  <2>1. T \in SUBSET Nat
    OBVIOUS
  <2> HIDE DEF T
  <2> QED BY <2>1, LeastNumber
<1>2. x \in 0 .. n /\ x # 0
  OBVIOUS
<1>3. x - 1 \in 0 .. n /\ x - 1 \in S /\ (x - 1) + 1 = x
  BY <1>1, <1>2
<1> QED BY <1>2, <1>3

-----------------------------------------------------------------------------
(* Permissions: what the scan over the rules has found after i of them. *)

Denied(rules, path, type, i) ==
    \E j \in 1 .. i : /\ rules[j].type = type
                      /\ rules[j].regex \in DOMAIN Matching => rules[j].deny /\ path \in Matching[rules[j].regex]

Allowed(rules, path, type, i) ==
    \E j \in 1 .. i : /\ rules[j].type = type /\ ~rules[j].deny
                      /\ rules[j].regex \in DOMAIN Matching /\ path \in Matching[rules[j].regex]

Found(rules, path, type, i) ==
    IF Denied(rules, path, type, i) THEN "denied"
    ELSE IF Allowed(rules, path, type, i) THEN "allowed" ELSE "none"

\* The scan judges one rule after the other.
LEMMA FoundNext ==
    ASSUME NEW rules \in Seq(Rule), NEW path, NEW type, NEW i \in 1 .. Len(rules)
    PROVE  Found(rules, path, type, i) = Judge(Found(rules, path, type, i - 1), rules[i], path, type)
<1>0. rules[i].deny \in BOOLEAN
  <2>1. rules[i] \in Rule
    OBVIOUS
  <2>2. \A r \in Rule : r.deny \in BOOLEAN
    BY DEF Rule
  <2> QED BY <2>1, <2>2, Zenon
<1>1. \A j : j \in 1 .. i <=> j \in 1 .. i - 1 \/ j = i
  OBVIOUS
<1> DEFINE D(j) == /\ rules[j].type = type
                   /\ rules[j].regex \in DOMAIN Matching => rules[j].deny /\ path \in Matching[rules[j].regex]
           A(j) == /\ rules[j].type = type /\ ~rules[j].deny
                   /\ rules[j].regex \in DOMAIN Matching /\ path \in Matching[rules[j].regex]
<1>2. Denied(rules, path, type, i) <=> Denied(rules, path, type, i - 1) \/ D(i)
  BY <1>1 DEF Denied
<1>3. Allowed(rules, path, type, i) <=> Allowed(rules, path, type, i - 1) \/ A(i)
  BY <1>1 DEF Allowed
<1> QED BY <1>0, <1>2, <1>3 DEF Found, Judge

\* What the scan finds is what the rules say together, whatever their order.
LEMMA ScanFinds ==
    ASSUME NEW rules \in Seq(Rule), NEW path, NEW type
    PROVE  IteratePaths(rules, path, type) <=> Found(rules, path, type, Len(rules)) = "allowed"
<1> DEFINE n == Len(rules)
           scan[i \in 0 .. n] == IF i = 0 THEN "none" ELSE Judge(scan[i - 1], rules[i], path, type)
           found == [i \in 0 .. n |-> Found(rules, path, type, i)]
<1>0. n \in Nat
  OBVIOUS
<1>1. found = [i \in 0 .. n |-> IF i = 0 THEN "none" ELSE Judge(found[i - 1], rules[i], path, type)]
  <2>1. Found(rules, path, type, 0) = "none"
    BY DEF Found, Denied, Allowed
  <2>2. ASSUME NEW i \in 0 .. n, i # 0
        PROVE  found[i] = Judge(found[i - 1], rules[i], path, type)
    <3>1. i \in 1 .. Len(rules) /\ i - 1 \in 0 .. n
      BY <1>0, <2>2
    <3> QED BY <3>1, FoundNext
  <2> HIDE DEF n
  <2> QED BY <2>1, <2>2
<1>2. scan = [i \in 0 .. n |-> IF i = 0 THEN "none" ELSE Judge(scan[i - 1], rules[i], path, type)]
  <2> HIDE DEF found, n
  <2> QED BY <1>1, Zenon
<1>3. scan[0] = "none" /\ \A i \in 1 .. n : scan[i] = Judge(scan[i - 1], rules[i], path, type)
  <2> HIDE DEF scan
  <2> QED BY <1>0, <1>2
<1>4. scan[n] = Found(rules, path, type, n)
  <2> HIDE DEF scan
  <2> DEFINE S == {i \in 0 .. n : scan[i] = Found(rules, path, type, i)}
  <2>1. 0 \in S
    BY <1>0, <1>3 DEF Found, Denied, Allowed
  <2>2. \A i \in 0 .. n : i + 1 \in 0 .. n /\ i \in S => i + 1 \in S
    <3> SUFFICES ASSUME NEW i \in 0 .. n, i + 1 \in 0 .. n, i \in S PROVE i + 1 \in S
      OBVIOUS
    <3>1. i + 1 \in 1 .. n /\ (i + 1) - 1 = i
      BY <1>0
    <3> QED BY <1>3, <3>1, FoundNext
  <2> HIDE DEF S
  <2>3. 0 .. n \subseteq S
    BY <1>0, <2>1, <2>2, Induct
  <2> QED BY <1>0, <2>3 DEF S
<1> QED BY <1>4, Zenon DEF IteratePaths

\* IteratePaths grants a path iff a rule allows it, none denies it and all compile.
LEMMA RulesGranted ==
    ASSUME NEW rules \in Seq(Rule), NEW path, NEW type
    PROVE  IteratePaths(rules, path, type) <=>
              LET applicable == {r \in Range(rules) : r.type = type}
                  matches(r) == path \in Matching[r.regex]
              IN  /\ \A r \in applicable : r.regex \in DOMAIN Matching /\ ~(r.deny /\ matches(r))
                  /\ \E r \in applicable : ~r.deny /\ matches(r)
<1> DEFINE n == Len(rules)
<1>1. Range(rules) = {rules[i] : i \in 1 .. n}
  BY DEF Range
<1>2. IteratePaths(rules, path, type) <=> Allowed(rules, path, type, n) /\ ~Denied(rules, path, type, n)
  BY ScanFinds DEF Found
<1>3. Denied(rules, path, type, n) <=>
        \E i \in 1 .. n : rules[i].type = type /\ ~(/\ rules[i].regex \in DOMAIN Matching
                                                    /\ ~(rules[i].deny /\ path \in Matching[rules[i].regex]))
  BY DEF Denied
<1>4. Allowed(rules, path, type, n) <=>
        \E i \in 1 .. n : rules[i].type = type /\ ~rules[i].deny /\ rules[i].regex \in DOMAIN Matching
                          /\ path \in Matching[rules[i].regex]
  BY DEF Allowed
<1> HIDE DEF n
<1> QED BY <1>1, <1>2, <1>3, <1>4

GrantInv == query # NotParsed =>
                granted = ValidateReadTarget(case.user, case.rules, case.path, case.type)

\* A user reads a file only if a rule of the right type allows its resolved path
\* and no rule of this type denies it or fails to compile.
THEOREM DenyWinsCorrect == QuerySpec => []DenyWins
<1> DEFINE Inv == case \in Cases /\ GrantInv
<1>1. QueryInit => Inv
  BY DEF QueryInit, GrantInv
<1>2. Inv /\ [QueryNext]_queryVars => Inv'
  <2> SUFFICES ASSUME Inv, [QueryNext]_queryVars PROVE Inv'
    OBVIOUS
  <2>1. CASE StartQuery
    BY <2>1 DEF StartQuery, GrantInv
  <2>2. CASE UNCHANGED <<case, query, granted>>
    BY <2>2 DEF GrantInv
  <2>3. ASSUME NEW f, NEW place \in 1 .. 2, ProcessLine(f, place) PROVE UNCHANGED <<case, query, granted>>
    BY <2>3 DEF ProcessLine
  <2>4. ASSUME NEW s, Serialize(s) \/ Receive(s) \/ Merge(s)
        PROVE  UNCHANGED <<case, query, granted>>
    BY <2>4 DEF Serialize, Receive, Merge
  <2>5. CASE UNCHANGED queryVars
    BY <2>2, <2>5 DEF queryVars
  <2> QED BY <2>1, <2>2, <2>3, <2>4, <2>5 DEF QueryNext
<1>3. Inv => DenyWins
  <2> SUFFICES ASSUME Inv, query # NotParsed PROVE DenyWins
    BY DEF DenyWins
  <2>1. case.rules \in Seq(Rule)
    BY CasesAssumption DEF CasesTyped
  <2>2. ASSUME NEW path
        PROVE  IteratePaths(case.rules, path, case.type) <=> RulesGrant(path)
    BY <2>1, RulesGranted DEF RulesGrant
  <2>3. granted = ValidateReadTarget(case.user, case.rules, case.path, case.type)
    BY DEF GrantInv
  <2>4. granted <=> \/ /\ case.path \in Journals
                       /\ case.user \in InternalUsers \/ RulesGrant(case.path)
                    \/ /\ case.path \in DOMAIN CleanPath \ Journals
                       /\ CleanPath[case.path] \in Regular
                       /\ \/ case.user \in InternalUsers
                          \/ /\ <<case.user, CleanPath[case.path]>> \in OsReadable
                             /\ RulesGrant(CleanPath[case.path])
    BY <2>2, <2>3 DEF ValidateReadTarget, HasFilePermission
  <2> QED BY <2>4 DEF DenyWins
<1> QED BY <1>1, <1>2, <1>3, PTL DEF QuerySpec

-----------------------------------------------------------------------------
(* The field plan. *)

\* Two maps agree on a set of names.
Agree(F, G, K) == \A n \in K : /\ n \in DOMAIN F <=> n \in DOMAIN G
                               /\ n \in DOMAIN F => F[n] = G[n]

\* An assignment keeps the agreement of two field maps and extends it to its name.
LEMMA AssignAgree ==
    ASSUME NEW F, NEW G, NEW K, NEW sc, Agree(F, G, K), sc.rString \in K
    PROVE  Agree(Assign(F, sc), Assign(G, sc), K \union {sc.lString})
<1>1. PICK v : /\ v = IF sc.rString \in DOMAIN F THEN F[sc.rString] ELSE sc.rString
               /\ v = IF sc.rString \in DOMAIN G THEN G[sc.rString] ELSE sc.rString
  BY DEF Agree
<1>2. PICK w : w = CallStack(sc.functionStack, v)
  OBVIOUS
<1>3. Assign(F, sc) = Put(F, sc.lString, w) /\ Assign(G, sc) = Put(G, sc.lString, w)
  BY <1>1, <1>2, Zenon DEF Assign
<1>4. PICK l : l = sc.lString
  OBVIOUS
<1> QED BY <1>3, <1>4 DEF Agree, Put

\* The set clause is the sequence of its assignments.
LEMMA SetUnfolds ==
    ASSUME NEW q, Len(q.Set) \in Nat, NEW F
    PROVE  \E a : /\ DOMAIN a = 0 .. Len(q.Set) /\ a[0] = F
                  /\ \A i \in 1 .. Len(q.Set) : a[i] = Assign(a[i - 1], q.Set[i])
                  /\ SetClause(q, F) = a[Len(q.Set)]
<1> DEFINE n == Len(q.Set)
           Body(f, i) == IF i = 0 THEN F ELSE Assign(f[i - 1], q.Set[i])
           after[i \in 0 .. n] == IF i = 0 THEN F ELSE Assign(after[i - 1], q.Set[i])
           Run(f, m) == f = [i \in 0 .. m |-> Body(f, i)]
           S == {m \in 0 .. n : \E f : Run(f, m)}
<1>0. n \in Nat
  OBVIOUS
<1>1. 0 \in S
  <2> DEFINE f == [i \in 0 .. 0 |-> F]
  <2>1. Run(f, 0)
    OBVIOUS
  <2>2. 0 \in 0 .. n
    BY <1>0
  <2> HIDE DEF Run, f
  <2> QED BY <2>1, <2>2
<1>2. ASSUME NEW m \in 0 .. n, m + 1 \in 0 .. n, m \in S PROVE m + 1 \in S
  <2>1. PICK f : Run(f, m)
    BY <1>2
  <2> DEFINE g == [i \in 0 .. m + 1 |-> IF i = m + 1 THEN Body(f, m + 1) ELSE f[i]]
  <2>2. ASSUME NEW i \in 0 .. m + 1 PROVE g[i] = Body(g, i)
    <3>1. CASE i = m + 1
      <4>1. m \in 0 .. m + 1 /\ m # m + 1 /\ (m + 1) - 1 = m /\ m + 1 # 0
        BY <1>0
      <4>2. g[m] = f[m] /\ g[m + 1] = Assign(f[m], q.Set[m + 1])
        BY <4>1
      <4> HIDE DEF g
      <4> QED BY <3>1, <4>1, <4>2
    <3>2. CASE i \in 0 .. m
      <4>1. i # m + 1 /\ f[i] = Body(f, i)
        <5>1. i # m + 1
          BY <1>0, <3>2
        <5> QED BY <2>1, <3>2, <5>1
      <4>2. i = 0 \/ (i - 1 \in 0 .. m + 1 /\ i - 1 # m + 1)
        BY <1>0, <3>2
      <4>3. g[i] = f[i] /\ (i # 0 => g[i - 1] = f[i - 1])
        BY <4>1, <4>2
      <4> HIDE DEF g
      <4> QED BY <4>1, <4>3
    <3> QED BY <1>0, <3>1, <3>2
  <2>3. Run(g, m + 1)
    <3>1. g = [i \in 0 .. m + 1 |-> g[i]]
      OBVIOUS
    <3> HIDE DEF g, Body
    <3> QED BY <2>2, <3>1
  <2> HIDE DEF Run, g
  <2> QED BY <1>2, <2>3
<1>3. n \in S
  <2> HIDE DEF S
  <2>1. 0 .. n \subseteq S
    BY <1>0, <1>1, <1>2, Induct
  <2> QED BY <1>0, <2>1
<1>4. PICK f : f = [i \in 0 .. n |-> IF i = 0 THEN F ELSE Assign(f[i - 1], q.Set[i])]
  BY <1>3
<1>5. after = [i \in 0 .. n |-> IF i = 0 THEN F ELSE Assign(after[i - 1], q.Set[i])]
  <2> HIDE DEF n, S
  <2> QED BY <1>4, Zenon
<1>6. SetClause(q, F) = after[n]
  BY Zenon DEF SetClause
<1> HIDE DEF after
<1>7. /\ DOMAIN after = 0 .. n /\ after[0] = F
      /\ \A i \in 1 .. n : after[i] = Assign(after[i - 1], q.Set[i])
  <2> HIDE DEF n
  <2> QED BY <1>0, <1>5
<1> QED BY <1>6, <1>7

\* Names that the set clause has produced before its i-th condition, and those
\* on which the fields may differ before it.
Known(q, i) ==
    ParserFieldPlan(q).Fields \union Literals(q) \union ProducedBefore(q, i)

\* What an assignment reads is in the plan, a literal or assigned before.
LEMMA ReadIsKnown ==
    ASSUME NEW q, q.Set \in Seq(SetConditions), NEW i \in 1 .. Len(q.Set)
    PROVE  q.Set[i].rString \in Known(q, i)
<1>1. i \in DOMAIN q.Set
  OBVIOUS
<1>2. CASE q.Set[i].rType = "Float" \/ q.Set[i].rString = ""
  <2>1. q.Set[i] \in Range(q.Set)
    BY <1>1 DEF Range
  <2> QED BY <1>2, <2>1 DEF Known, Literals
<1>3. CASE q.Set[i].rType # "Float" /\ q.Set[i].rString # "" /\ q.Set[i].rString \notin ProducedBefore(q, i)
  BY <1>1, <1>3 DEF Known, ParserFieldPlan
<1> QED BY <1>2, <1>3 DEF Known

\* The set clause keeps the agreement on the names the plan has.
LEMMA SetAgrees ==
    ASSUME NEW q, q.Set \in Seq(SetConditions), NEW F, NEW G, Agree(F, G, Known(q, 1))
    PROVE  Agree(SetClause(q, F), SetClause(q, G), Known(q, Len(q.Set) + 1))
<1> DEFINE n == Len(q.Set)
<1>0. n \in Nat
  OBVIOUS
<1>1. PICK a : /\ DOMAIN a = 0 .. n /\ a[0] = F
               /\ \A i \in 1 .. n : a[i] = Assign(a[i - 1], q.Set[i])
               /\ SetClause(q, F) = a[n]
  BY <1>0, SetUnfolds, Zenon
<1>2. PICK b : /\ DOMAIN b = 0 .. n /\ b[0] = G
               /\ \A i \in 1 .. n : b[i] = Assign(b[i - 1], q.Set[i])
               /\ SetClause(q, G) = b[n]
  BY <1>0, SetUnfolds, Zenon
<1> DEFINE S == {i \in 0 .. n : Agree(a[i], b[i], Known(q, i + 1))}
<1>3. 0 \in S
  BY <1>0, <1>1, <1>2
<1>4. ASSUME NEW i \in 0 .. n, i + 1 \in 0 .. n, i \in S PROVE i + 1 \in S
  <2>0. i + 1 \in 1 .. n /\ (i + 1) - 1 = i
    BY <1>0, <1>4
  <2>1. a[i + 1] = Assign(a[i], q.Set[i + 1]) /\ b[i + 1] = Assign(b[i], q.Set[i + 1])
    BY <1>1, <1>2, <2>0
  <2>2. q.Set[i + 1].rString \in Known(q, i + 1)
    BY <2>0, ReadIsKnown
  <2>3. Agree(a[i + 1], b[i + 1], Known(q, i + 1) \union {q.Set[i + 1].lString})
    BY <1>4, <2>1, <2>2, AssignAgree
  <2>4. Known(q, (i + 1) + 1) = Known(q, i + 1) \union {q.Set[i + 1].lString}
    <3>1. \A j : j \in 1 .. ((i + 1) + 1) - 1 <=> j \in 1 .. (i + 1) - 1 \/ j = i + 1
      BY <2>0
    <3>2. ProducedBefore(q, (i + 1) + 1) = ProducedBefore(q, i + 1) \union {q.Set[i + 1].lString}
      BY <3>1 DEF ProducedBefore
    <3> QED BY <3>2 DEF Known
  <2> QED BY <1>4, <2>3, <2>4
<1> HIDE DEF S
<1>5. 0 .. n \subseteq S
  BY <1>0, <1>3, <1>4, Induct
<1>6. Agree(a[n], b[n], Known(q, n + 1))
  BY <1>0, <1>5 DEF S
<1> QED BY <1>1, <1>2, <1>6

\* A condition of the where clause on the values of its operands.
Holds(op, l, r) ==
    IF op \in Range(FloatOperationOf)
    THEN IsFloat(l) /\ IsFloat(r) /\ FloatClause(op, Floats[l], Floats[r])
    ELSE StringClause(op, l, r)

\* The where clause decides on names the plan has.
LEMMA WhereAgrees ==
    ASSUME NEW q, NEW F, NEW G, Agree(F, G, Known(q, 1))
    PROVE  WhereClause(q, F) <=> WhereClause(q, G)
<1>1. ASSUME NEW i \in DOMAIN q.Where, NEW o, o = q.Where[i].l \/ o = q.Where[i].r
      PROVE  /\ Resolves(F, o) <=> Resolves(G, o)
             /\ Resolves(F, o) => Value(F, o) = Value(G, o)
  <2>1. q.Where[i] \in Range(q.Where)
    BY DEF Range
  <2>2. o.type = "Field" => o.str \in WhereFields(q)
    BY <1>1, <2>1 DEF WhereFields
  <2>3. o.type = "Field" => o.str \in Known(q, 1)
    BY <2>2 DEF Known, ParserFieldPlan, Literals
  <2> QED BY <2>3 DEF Agree, Resolves, Value
<1>2. ASSUME NEW i \in DOMAIN q.Where
      PROVE  /\ Resolves(F, q.Where[i].l) <=> Resolves(G, q.Where[i].l)
             /\ Resolves(F, q.Where[i].r) <=> Resolves(G, q.Where[i].r)
             /\ Resolves(F, q.Where[i].l) => Value(F, q.Where[i].l) = Value(G, q.Where[i].l)
             /\ Resolves(F, q.Where[i].r) => Value(F, q.Where[i].r) = Value(G, q.Where[i].r)
  BY <1>1
<1>3. ASSUME NEW H
      PROVE  WhereClause(q, H) <=>
                \A i \in DOMAIN q.Where :
                    /\ Resolves(H, q.Where[i].l) /\ Resolves(H, q.Where[i].r)
                    /\ Holds(q.Where[i].Operation, Value(H, q.Where[i].l), Value(H, q.Where[i].r))
  BY Zenon DEF WhereClause, Holds
<1> QED BY <1>2, <1>3

\* The group key and the aggregates depend on names the plan has.
LEMMA LineAgrees ==
    ASSUME NEW q, NEW F, NEW G, NEW S, Agree(F, G, Known(q, Len(q.Set) + 1))
    PROVE  AggregateLine(q, S, F) = AggregateLine(q, S, G)
<1> DEFINE K == Known(q, Len(q.Set) + 1)
<1>1. ASSUME NEW i \in DOMAIN q.GroupBy PROVE q.GroupBy[i] \in K
  <2>1. q.GroupBy[i] \in Range(q.GroupBy)
    BY DEF Range
  <2> QED BY <2>1 DEF Known, ParserFieldPlan, Literals
<1>2. ASSUME NEW i \in DOMAIN q.Select PROVE q.Select[i].Field \in K
  <2>1. q.Select[i] \in Range(q.Select)
    BY DEF Range
  <2> QED BY <2>1 DEF Known, ParserFieldPlan, Literals
<1> HIDE DEF K
<1>3. \A n \in K : (n \in DOMAIN F <=> n \in DOMAIN G) /\ (n \in DOMAIN F => F[n] = G[n])
  BY DEF Agree, K
<1>4. BuildGroupKey(q.GroupBy, F) = BuildGroupKey(q.GroupBy, G)
  <2>1. ASSUME NEW i \in DOMAIN q.GroupBy
        PROVE (IF q.GroupBy[i] \in DOMAIN F THEN F[q.GroupBy[i]] ELSE "")
                = (IF q.GroupBy[i] \in DOMAIN G THEN G[q.GroupBy[i]] ELSE "")
    BY <1>1, <1>3
  <2> QED BY <2>1 DEF BuildGroupKey
<1>5. ASSUME NEW set PROVE AggregateFields(q, set, F, 1, FALSE) = AggregateFields(q, set, G, 1, FALSE)
  <2> DEFINE Present(H) == [i \in Aggregated(q, H, FALSE) |-> H[Name(q.Select[i], FALSE)]]
  <2>1. Aggregated(q, F, FALSE) = Aggregated(q, G, FALSE)
    BY <1>2, <1>3 DEF Aggregated, Name
  <2>2. \A i \in Aggregated(q, F, FALSE) : F[Name(q.Select[i], FALSE)] = G[Name(q.Select[i], FALSE)]
    BY <1>2, <1>3 DEF Aggregated, Name
  <2>3. Present(F) = Present(G)
    BY <2>1, <2>2
  <2>4. ASSUME NEW H
        PROVE  AggregateFields(q, set, H, 1, FALSE) = AggregateValues(q, set, Present(H), 1, FALSE)
    BY Zenon DEF AggregateFields
  <2> HIDE DEF Present
  <2> QED BY <2>3, <2>4
<1>6. (\E i \in DOMAIN q.Select : q.Select[i].Field \in DOMAIN F)
        <=> (\E i \in DOMAIN q.Select : q.Select[i].Field \in DOMAIN G)
  BY <1>2, <1>3
<1> QED BY <1>4, <1>5, <1>6 DEF AggregateLine

\* So does what one line adds to the sets.
LEMMA ParsedAgrees ==
    ASSUME NEW q, q.Set \in Seq(SetConditions), NEW p, NEW r, NEW S,
           p.outcome = r.outcome, Agree(p.fields, r.fields, Known(q, 1))
    PROVE  ProcessParsed(q, S, p) = ProcessParsed(q, S, r)
<1>1. WhereClause(q, p.fields) <=> WhereClause(q, r.fields)
  BY WhereAgrees
<1>2. Agree(SetClause(q, p.fields), SetClause(q, r.fields), Known(q, Len(q.Set) + 1))
  BY SetAgrees
<1>3. AggregateLine(q, S, SetClause(q, p.fields))
        = AggregateLine(q, S, SetClause(q, r.fields))
  BY <1>2, LineAgrees
<1> QED BY <1>1, <1>3 DEF ProcessParsed

\* What the parsers materialise agrees with all the fields of the line.
LEMMA PlannedAgrees ==
    ASSUME NEW format, NEW line, NEW header
    PROVE  LET planned == MakeFields(format, ParserFieldPlan(query), line, header)
               full == WithoutLiterals(MakeFields(format, AllFields, line, header))
           IN  planned.outcome = full.outcome /\ Agree(planned.fields, full.fields, Known(query, 1))
<1> DEFINE raw == Parse(format, line, header)
           plan == ParserFieldPlan(query)
           planned == MakeFields(format, plan, line, header)
           all == MakeFields(format, AllFields, line, header)
           full == WithoutLiterals(all)
<1>1. plan.AllFields = FALSE
  BY DEF ParserFieldPlan
<1>2. /\ planned.outcome = raw.outcome
      /\ planned.fields = [f \in {g \in DOMAIN raw.fields : g \in plan.Fields} |-> raw.fields[f]]
  <2> HIDE DEF plan, raw
  <2>1. planned = [outcome |-> raw.outcome, fields |-> Wanted(plan, raw.fields)]
    BY Zenon DEF MakeFields, raw
  <2> HIDE DEF planned
  <2> QED BY <1>1, <2>1 DEF Wanted, Needs
<1>3. all.outcome = raw.outcome /\ all.fields = [f \in DOMAIN raw.fields |-> raw.fields[f]]
  <2> HIDE DEF raw
  <2>1. all = [outcome |-> raw.outcome, fields |-> Wanted(AllFields, raw.fields)]
    BY Zenon DEF MakeFields, raw
  <2> HIDE DEF all
  <2> QED BY <2>1 DEF Wanted, Needs, AllFields
<1>4. /\ full.outcome = all.outcome
      /\ full.fields = [n \in DOMAIN all.fields \ (Literals(query) \ plan.Fields) |-> all.fields[n]]
  <2> HIDE DEF all
  <2> QED BY DEF WithoutLiterals
<1>5. Known(query, 1) = plan.Fields \union Literals(query)
  BY DEF Known, ProducedBefore
<1> HIDE DEF plan, raw, all
<1>6. planned.outcome = full.outcome
  BY <1>2, <1>3, <1>4
<1>7. PICK X, P, L : X = raw.fields /\ P = plan.Fields /\ L = Literals(query)
  OBVIOUS
<1> HIDE DEF planned, full
<1>8. /\ DOMAIN planned.fields = DOMAIN X \intersect P
      /\ \A n \in DOMAIN X \intersect P : planned.fields[n] = X[n]
  BY <1>2, <1>7
<1>9. /\ DOMAIN full.fields = DOMAIN X \ (L \ P)
      /\ \A n \in DOMAIN X \ (L \ P) : full.fields[n] = X[n]
  BY <1>3, <1>4, <1>7
<1>10. Agree(planned.fields, full.fields, Known(query, 1))
  BY <1>5, <1>7, <1>8, <1>9 DEF Agree
<1> QED BY <1>6, <1>10 DEF planned, full, plan, all

QueryInv ==
    /\ case \in Cases
    /\ query = NotParsed \/ query = NewQuery(case.parts)
    /\ PlanSufficient

\* The query is the one of the case, and every step keeps its sets what they
\* would be without a field plan.
THEOREM QueryInvariance == QuerySpec => []QueryInv
<1>1. QueryInit => QueryInv
  BY DEF QueryInit, QueryInv, PlanSufficient
<1>2. QueryInv /\ [QueryNext]_queryVars => QueryInv'
  <2> SUFFICES ASSUME QueryInv, [QueryNext]_queryVars PROVE QueryInv'
    OBVIOUS
  <2>0. sets = fullSets
    BY DEF QueryInv, PlanSufficient
  <2>1. CASE UNCHANGED <<case, query>> /\ sets' = fullSets'
    BY <2>1 DEF QueryInv, PlanSufficient
  <2>2. CASE StartQuery
    BY <2>0, <2>2 DEF StartQuery, QueryInv, PlanSufficient
  <2>3. ASSUME NEW f \in Sources, NEW place \in 1 .. 2, ProcessLine(f, place)
        PROVE  UNCHANGED <<case, query>> /\ sets' = fullSets'
    <3>1. query.ok /\ UNCHANGED <<case, query>>
      BY <2>3 DEF ProcessLine
    <3>2. query.Set \in Seq(SetConditions)
      BY <3>1, CasesAssumption DEF QueryInv, NotParsed, CasesTyped
    <3> DEFINE line == files[f][place]
               planned == MakeFields(Format, ParserFieldPlan(query), line, headers[f])
               full == WithoutLiterals(
                           MakeFields(Format, AllFields, line, headers[f]))
               s == ServerOf[f]
    <3>3. planned.outcome = full.outcome /\ Agree(planned.fields, full.fields, Known(query, 1))
      BY PlannedAgrees, Zenon
    <3>4. /\ sets' = [sets EXCEPT ![s] = ProcessParsed(query, @, planned)]
          /\ fullSets' = [fullSets EXCEPT ![s] = ProcessParsed(query, @, full)]
      BY <2>3, Zenon DEF ProcessLine
    <3> HIDE DEF planned, full, s
    <3>5. ProcessParsed(query, sets[s], planned) = ProcessParsed(query, sets[s], full)
      BY <3>2, <3>3, ParsedAgrees
    <3> QED BY <2>0, <3>1, <3>4, <3>5
  <2>4. ASSUME NEW s \in Servers, Serialize(s) \/ Receive(s) \/ Merge(s)
        PROVE  UNCHANGED <<case, query>> /\ sets' = fullSets'
    BY <2>0, <2>4 DEF Serialize, Receive, Merge
  <2>5. CASE UNCHANGED queryVars
    BY <2>0, <2>1, <2>5 DEF queryVars
  <2> QED BY <2>1, <2>2, <2>3, <2>4, <2>5 DEF QueryNext
<1> QED BY <1>1, <1>2, PTL DEF QuerySpec

\* The aggregate sets are those of parsers that leave no field out.
THEOREM PlanCorrect == QuerySpec => []PlanSufficient
<1>1. QueryInv => PlanSufficient
  BY DEF QueryInv
<1> QED BY <1>1, QueryInvariance, PTL

-----------------------------------------------------------------------------
(* The groups of the result.  A set that has no value goes over the wire as *)
(* a message the client refuses, so only sets with a value count.           *)

\* An aggregate set, and whether it has a value.
IsSet(set) == DOMAIN set = {"Samples", "FValues", "SValues"}
Valued(set) == DOMAIN set.FValues # {} \/ DOMAIN set.SValues # {}

\* An aggregated value stays in the set.
LEMMA AggregateGrows ==
    ASSUME NEW set, IsSet(set), NEW key, NEW op, NEW value, NEW client
    PROVE  LET r == Aggregate(set, key, op, value, client)
           IN  IsSet(r) /\ Valued(r)
<1> DEFINE Good(r) == IsSet(r) /\ Valued(r)
<1>0. ASSUME NEW F, NEW k, NEW v PROVE DOMAIN Put(F, k, v) # {}
  BY DEF Put
<1>1. ASSUME NEW s, IsSet(s), NEW v PROVE Good(SetFloat(s, key, v))
  <2> PICK F : F = Put(s.FValues, key, v)
    OBVIOUS
  <2>1. SetFloat(s, key, v) = [s EXCEPT !.FValues = F]
    BY DEF SetFloat
  <2>2. DOMAIN F # {}
    BY <1>0
  <2> QED BY <1>1, <2>1, <2>2 DEF IsSet, Valued
<1>2. ASSUME NEW s, IsSet(s), NEW v PROVE Good(SetString(s, key, v))
  <2> PICK F : F = Put(s.SValues, key, v)
    OBVIOUS
  <2>1. SetString(s, key, v) = [s EXCEPT !.SValues = F]
    BY DEF SetString
  <2>2. DOMAIN F # {}
    BY <1>0
  <2> QED BY <1>2, <2>1, <2>2 DEF IsSet, Valued
<1>3. ASSUME NEW v PROVE Good(AddFloat(set, key, op, v))
  <2> PICK w : AddFloat(set, key, op, v) = SetFloat(set, key, w)
    BY Zenon DEF AddFloat
  <2> HIDE DEF Good
  <2> QED BY <1>1
<1>4. Good(SetFloat(SetString(set, key, value), key, LengthOf[value]))
  <2> PICK s : s = SetString(set, key, value)
    OBVIOUS
  <2>1. IsSet(s)
    BY <1>2
  <2> HIDE DEF Good
  <2> QED BY <1>1, <2>1
<1> HIDE DEF Good
<1>5. Good(Aggregate(set, key, op, value, client))
  BY <1>2, <1>3, <1>4, Zenon DEF Aggregate
<1> QED BY <1>5 DEF Good

\* SetToSeq lists a finite set.
LEMMA Listed ==
    ASSUME NEW S, IsFiniteSet(S)
    PROVE  SetToSeq(S) \in Seq(S) /\ S = {SetToSeq(S)[i] : i \in 1 .. Len(SetToSeq(S))}
<1>1. Cardinality(S) = Cardinality(S)
  BY Zenon DEF Cardinality, Cardinality
<1> DEFINE n == Cardinality(S)
<1>2. n \in Nat /\ ExistsBijection(1 .. n, S) /\ IsFiniteSet(1 .. n) /\ Cardinality(1 .. n) = n
  BY FS_CardinalityType, FS_Interval
<1>3. PICK f \in [1 .. n -> S] : IsInjective(f)
  BY <1>2, Fun_ExistsBij DEF Bijection, Injection, IsInjective, IsInjective
<1> DEFINE w == SetToSeq(S)
<1>4. w \in [1 .. n -> S] /\ IsInjective(w)
  BY <1>1, <1>3, Zenon DEF SetToSeq
<1>5. w \in Injection(1 .. n, S)
  BY <1>4 DEF Injection, IsInjective, IsInjective
<1>6. w \in Surjection(1 .. n, S)
  <2> HIDE DEF n, w
  <2> QED BY <1>2, <1>5, FS_Injection DEF n
<1> HIDE DEF w, n
<1>7. w \in Seq(S) /\ Len(w) = n
  BY <1>2, <1>4
<1>8. \A x \in S : \E i \in 1 .. n : w[i] = x
  BY <1>6 DEF Surjection
<1>9. \A i \in 1 .. n : w[i] \in S
  BY <1>4
<1> QED BY <1>7, <1>8, <1>9 DEF w

\* What a select clause does, as the sequence of its aggregations.
Unfolds(q, set, values, samples, client) ==
    \E a : /\ DOMAIN a = 0 .. Len(q.Select) /\ a[0] = set
           /\ \A i \in 1 .. Len(q.Select) :
                 a[i] = IF i \in DOMAIN values
                        THEN Aggregate(a[i - 1], q.Select[i].FieldStorage, q.Select[i].Operation,
                                              values[i], client)
                        ELSE a[i - 1]
           /\ AggregateValues(q, set, values, samples, client) =
                 [a[Len(q.Select)] EXCEPT !.Samples = IF DOMAIN values # {} THEN @ + samples ELSE @]

\* AggregateValues is that sequence.
LEMMA SelectUnfolds ==
    ASSUME NEW q, Len(q.Select) \in Nat, NEW set, NEW values, NEW samples, NEW client
    PROVE  Unfolds(q, set, values, samples, client)
<1> DEFINE n == Len(q.Select)
           Added(x, i) == IF i \in DOMAIN values
                         THEN Aggregate(x, q.Select[i].FieldStorage, q.Select[i].Operation, values[i], client)
                         ELSE x
           Body(f, i) == IF i = 0 THEN set ELSE Added(f[i - 1], i)
           after[i \in 0 .. n] ==
               IF i = 0 THEN set
               ELSE IF i \in DOMAIN values
               THEN Aggregate(after[i - 1], q.Select[i].FieldStorage, q.Select[i].Operation, values[i], client)
               ELSE after[i - 1]
           Run(f, m) == f = [i \in 0 .. m |-> Body(f, i)]
           S == {m \in 0 .. n : \E f : Run(f, m)}
<1>0. n \in Nat
  OBVIOUS
<1>1. 0 \in S
  <2> DEFINE f == [i \in 0 .. 0 |-> set]
  <2>1. Run(f, 0)
    OBVIOUS
  <2>2. 0 \in 0 .. n
    BY <1>0
  <2> HIDE DEF Run, f
  <2> QED BY <2>1, <2>2
<1>2. ASSUME NEW m \in 0 .. n, m + 1 \in 0 .. n, m \in S PROVE m + 1 \in S
  <2>1. PICK f : Run(f, m)
    BY <1>2
  <2> DEFINE g == [i \in 0 .. m + 1 |-> IF i = m + 1 THEN Body(f, m + 1) ELSE f[i]]
  <2> HIDE DEF Added
  <2>2. ASSUME NEW i \in 0 .. m + 1 PROVE g[i] = Body(g, i)
    <3>1. CASE i = m + 1
      <4>1. m \in 0 .. m + 1 /\ m # m + 1 /\ (m + 1) - 1 = m /\ m + 1 # 0
        BY <1>0
      <4>2. g[m] = f[m] /\ g[m + 1] = Added(f[m], m + 1)
        BY <4>1
      <4> HIDE DEF g
      <4> QED BY <3>1, <4>1, <4>2
    <3>2. CASE i \in 0 .. m
      <4>1. i # m + 1 /\ f[i] = Body(f, i)
        <5>1. i # m + 1
          BY <1>0, <3>2
        <5> QED BY <2>1, <3>2, <5>1
      <4>2. i = 0 \/ (i - 1 \in 0 .. m + 1 /\ i - 1 # m + 1)
        BY <1>0, <3>2
      <4>3. g[i] = f[i] /\ (i # 0 => g[i - 1] = f[i - 1])
        BY <4>1, <4>2
      <4> HIDE DEF g
      <4> QED BY <4>1, <4>3
    <3> QED BY <1>0, <3>1, <3>2
  <2>3. Run(g, m + 1)
    <3>1. g = [i \in 0 .. m + 1 |-> g[i]]
      OBVIOUS
    <3> HIDE DEF g, Body
    <3> QED BY <2>2, <3>1
  <2> HIDE DEF Run, g
  <2> QED BY <1>2, <2>3
<1>3. n \in S
  <2> HIDE DEF S
  <2>1. 0 .. n \subseteq S
    BY <1>0, <1>1, <1>2, Induct
  <2> QED BY <1>0, <2>1
<1>4. PICK f : f = [i \in 0 .. n |->
                        IF i = 0 THEN set
                        ELSE IF i \in DOMAIN values
                        THEN Aggregate(f[i - 1], q.Select[i].FieldStorage, q.Select[i].Operation, values[i], client)
                        ELSE f[i - 1]]
  BY <1>3, Zenon
<1>5. after = [i \in 0 .. n |->
                  IF i = 0 THEN set
                  ELSE IF i \in DOMAIN values
                  THEN Aggregate(after[i - 1], q.Select[i].FieldStorage, q.Select[i].Operation, values[i], client)
                  ELSE after[i - 1]]
  <2> HIDE DEF n, S
  <2> QED BY <1>4, Zenon
<1>6. AggregateValues(q, set, values, samples, client) =
          [after[n] EXCEPT !.Samples = IF DOMAIN values # {} THEN @ + samples ELSE @]
  BY Zenon DEF AggregateValues
<1> HIDE DEF after
<1>7. /\ DOMAIN after = 0 .. n /\ after[0] = set
      /\ \A i \in 1 .. n : after[i] = Added(after[i - 1], i)
  <2> HIDE DEF n
  <2> QED BY <1>0, <1>5
<1> QED BY <1>6, <1>7 DEF Unfolds

\* A set has a value iff it had one or gets one.
LEMMA ValuesGrow ==
    ASSUME NEW q, q.Select \in Seq(SelectConditions), NEW set, IsSet(set), NEW values,
           DOMAIN values \subseteq DOMAIN q.Select, NEW samples, NEW client
    PROVE  LET r == AggregateValues(q, set, values, samples, client)
           IN  IsSet(r) /\ (Valued(r) <=> Valued(set) \/ DOMAIN values # {})
<1> DEFINE n == Len(q.Select)
           r == AggregateValues(q, set, values, samples, client)
<1>0. n \in Nat /\ DOMAIN q.Select = 1 .. n
  OBVIOUS
<1>1. PICK a : /\ DOMAIN a = 0 .. n /\ a[0] = set
               /\ \A i \in 1 .. n :
                     a[i] = IF i \in DOMAIN values
                            THEN Aggregate(a[i - 1], q.Select[i].FieldStorage, q.Select[i].Operation,
                                                  values[i], client)
                            ELSE a[i - 1]
               /\ r = [a[n] EXCEPT !.Samples = IF DOMAIN values # {} THEN @ + samples ELSE @]
  <2>1. Unfolds(q, set, values, samples, client)
    BY <1>0, SelectUnfolds
  <2> QED BY <2>1, Zenon DEF Unfolds
<1> HIDE DEF r
<1> DEFINE Grown(i) == /\ IsSet(a[i])
                       /\ Valued(a[i]) <=> Valued(set) \/ \E j \in 1 .. i : j \in DOMAIN values
           S == {i \in 0 .. n : Grown(i)}
<1>2. 0 \in S
  BY <1>0, <1>1
<1>3. ASSUME NEW i \in 0 .. n, i + 1 \in 0 .. n, i \in S PROVE i + 1 \in S
  <2>0. i + 1 \in 1 .. n /\ (i + 1) - 1 = i /\ \A j : j \in 1 .. i + 1 <=> j \in 1 .. i \/ j = i + 1
    BY <1>0, <1>3
  <2>1. CASE i + 1 \in DOMAIN values
    <3>1. a[i + 1] = Aggregate(a[i], q.Select[i + 1].FieldStorage, q.Select[i + 1].Operation,
                                      values[i + 1], client)
      BY <1>1, <2>0, <2>1
    <3>2. IsSet(a[i + 1]) /\ Valued(a[i + 1])
      BY <1>3, <3>1, AggregateGrows
    <3> QED BY <1>3, <2>0, <2>1, <3>2
  <2>2. CASE i + 1 \notin DOMAIN values
    <3>1. a[i + 1] = a[i]
      BY <1>1, <2>0, <2>2
    <3> QED BY <1>3, <2>0, <2>2, <3>1
  <2> QED BY <2>1, <2>2
<1> HIDE DEF S
<1>4. n \in S
  <2>1. 0 .. n \subseteq S
    BY <1>0, <1>2, <1>3, Induct
  <2> QED BY <1>0, <2>1
<1>5. Grown(n)
  BY <1>4 DEF S
<1>6. IsSet(r) /\ (Valued(r) <=> Valued(a[n]))
  <2>1. PICK v : r = [a[n] EXCEPT !.Samples = v]
    BY <1>1
  <2> QED BY <1>5, <2>1 DEF IsSet, Valued
<1>7. (\E j \in 1 .. n : j \in DOMAIN values) <=> DOMAIN values # {}
  BY <1>0
<1> QED BY <1>5, <1>6, <1>7 DEF r

\* Aggregate sets by group, and the groups with a value.
Typed(S) == IsFiniteSet(DOMAIN S) /\ \A k \in DOMAIN S : IsSet(S[k])
Live(S) == {k \in DOMAIN S : Valued(S[k])}

\* A new set has no value, and no sets is no group.
LEMMA Fresh ==
    /\ IsSet(NewAggregateSet) /\ ~Valued(NewAggregateSet)
    /\ DOMAIN NoSets = {} /\ Typed(NoSets) /\ Live(NoSets) = {}
<1>1. DOMAIN <<>> = {}
  OBVIOUS
<1>2. IsFiniteSet({})
  BY FS_EmptySet
<1> QED BY <1>1, <1>2 DEF IsSet, Valued, Typed, Live, NewAggregateSet, NoSets

\* Putting a set that keeps its value back among the others.
LEMMA PutSet ==
    ASSUME NEW S, Typed(S), NEW k, NEW r, IsSet(r)
    PROVE  /\ Typed(Put(S, k, r))
           /\ DOMAIN Put(S, k, r) = DOMAIN S \union {k}
           /\ (k \in Live(S) => Valued(r)) =>
                Live(Put(S, k, r)) = Live(S) \union (IF Valued(r) THEN {k} ELSE {})
<1>1. IsFiniteSet(DOMAIN S \union {k})
  BY FS_AddElement DEF Typed
<1> QED BY <1>1 DEF Typed, Live, Put

\* The group that a line asks for.
KeyOf(q, F) == BuildGroupKey(q.GroupBy, F)
Gained(q, F) == IF Aggregated(q, F, FALSE) # {} THEN {KeyOf(q, F)} ELSE {}

\* A line adds its group iff it has a value that can be aggregated.
LEMMA LineGroups ==
    ASSUME NEW q, q.Select \in Seq(SelectConditions), NEW S, Typed(S), NEW F
    PROVE  LET T == AggregateLine(q, S, F)
           IN  Typed(T) /\ Live(T) = Live(S) \union Gained(q, F)
<1> DEFINE k == KeyOf(q, F)
           set == GetSet(S, k)
           r == AggregateFields(q, set, F, 1, FALSE)
<1>1. IsSet(set) /\ (Valued(set) <=> k \in Live(S))
  <2> HIDE DEF k
  <2> QED BY Fresh DEF GetSet, Typed, Live
<1>2. IsSet(r) /\ (Valued(r) <=> Valued(set) \/ Aggregated(q, F, FALSE) # {})
  <2> DEFINE values == [i \in Aggregated(q, F, FALSE) |-> F[Name(q.Select[i], FALSE)]]
  <2>1. r = AggregateValues(q, set, values, 1, FALSE)
    BY Zenon DEF AggregateFields
  <2>2. DOMAIN values = Aggregated(q, F, FALSE)
    OBVIOUS
  <2>3. Aggregated(q, F, FALSE) \subseteq DOMAIN q.Select
    BY DEF Aggregated
  <2> HIDE DEF values, set, r
  <2> QED BY <1>1, <2>1, <2>2, <2>3, ValuesGrow
<1>3. AggregateLine(q, S, F) = IF \E i \in DOMAIN q.Select : q.Select[i].Field \in DOMAIN F
                                      THEN Put(S, k, r) ELSE S
  BY Zenon DEF AggregateLine, KeyOf
<1>4. Aggregated(q, F, FALSE) # {} => \E i \in DOMAIN q.Select : q.Select[i].Field \in DOMAIN F
  BY DEF Aggregated, Name
<1> HIDE DEF k, r, set
<1>5. /\ Typed(Put(S, k, r))
      /\ Live(Put(S, k, r)) = Live(S) \union (IF Valued(r) THEN {k} ELSE {})
  BY <1>1, <1>2, PutSet
<1>6. Gained(q, F) = IF Aggregated(q, F, FALSE) # {} THEN {k} ELSE {}
  BY DEF Gained, k
<1> QED BY <1>1, <1>2, <1>3, <1>4, <1>5, <1>6

\* Groups of the messages that have a value.
Arriving(w) == {w[i].groupKey : i \in {j \in 1 .. Len(w) : DOMAIN w[j].fields # {}}}
Listing(w) == \E X : w \in Seq(X)

\* The sequences of the model, whatever their elements.
LEMMA ListingFacts ==
    ASSUME NEW w, Listing(w)
    PROVE  /\ Len(w) \in Nat /\ DOMAIN w = 1 .. Len(w)
           /\ \A e : Listing(Append(w, e)) /\ Len(Append(w, e)) = Len(w) + 1
                    /\ \A i \in 1 .. Len(w) + 1 : Append(w, e)[i] = IF i = Len(w) + 1 THEN e ELSE w[i]
           /\ w # <<>> => Listing(Tail(w)) /\ Head(w) = w[1] /\ Len(w) >= 1 /\ Len(Tail(w)) = Len(w) - 1
                    /\ \A i \in 1 .. Len(w) - 1 : Tail(w)[i] = w[i + 1]
           /\ \A v : Listing(v) => /\ Listing(w \o v) /\ Len(w \o v) = Len(w) + Len(v)
                                  /\ \A i \in 1 .. Len(w) + Len(v) :
                                        (w \o v)[i] = IF i <= Len(w) THEN w[i] ELSE v[i - Len(w)]
<1>1. PICK X : w \in Seq(X)
  BY DEF Listing
<1>2. Len(w) \in Nat /\ DOMAIN w = 1 .. Len(w)
  BY <1>1
<1>3. ASSUME NEW e PROVE Listing(Append(w, e)) /\ Len(Append(w, e)) = Len(w) + 1
                    /\ \A i \in 1 .. Len(w) + 1 : Append(w, e)[i] = IF i = Len(w) + 1 THEN e ELSE w[i]
  <2>1. w \in Seq(X \union {e})
    BY <1>1
  <2>2. Append(w, e) \in Seq(X \union {e})
    BY <2>1
  <2> QED BY <1>2, <2>1, <2>2 DEF Listing
<1>4. w # <<>> => Listing(Tail(w)) /\ Head(w) = w[1] /\ Len(w) >= 1 /\ Len(Tail(w)) = Len(w) - 1
                    /\ \A i \in 1 .. Len(w) - 1 : Tail(w)[i] = w[i + 1]
  BY <1>1 DEF Listing
<1>5. ASSUME NEW v, Listing(v)
      PROVE  /\ Listing(w \o v) /\ Len(w \o v) = Len(w) + Len(v)
             /\ \A i \in 1 .. Len(w) + Len(v) : (w \o v)[i] = IF i <= Len(w) THEN w[i] ELSE v[i - Len(w)]
  <2>1. PICK Y : v \in Seq(Y)
    BY <1>5 DEF Listing
  <2>2. w \in Seq(X \union Y) /\ v \in Seq(X \union Y)
    BY <1>1, <2>1
  <2>3. w \o v \in Seq(X \union Y) /\ Len(w \o v) = Len(w) + Len(v)
    BY <2>2
  <2> QED BY <2>2, <2>3 DEF Listing
<1> QED BY <1>2, <1>3, <1>4, <1>5

\* Messages are appended, and taken one at a time.
LEMMA ArrivingFacts ==
    ASSUME NEW w, Listing(w)
    PROVE  /\ \A v : Listing(v) => Arriving(w \o v) = Arriving(w) \union Arriving(v)
           /\ w # <<>> => Arriving(w) = Arriving(Tail(w)) \union
                                IF DOMAIN Head(w).fields # {} THEN {Head(w).groupKey} ELSE {}
<1>0. Len(w) \in Nat
  BY ListingFacts
<1>1. ASSUME NEW v, Listing(v) PROVE Arriving(w \o v) = Arriving(w) \union Arriving(v)
  <2>0. Len(v) \in Nat
    BY <1>1, ListingFacts
  <2>1. /\ Len(w \o v) = Len(w) + Len(v)
        /\ \A i \in 1 .. Len(w) : i \in 1 .. Len(w) + Len(v) /\ (w \o v)[i] = w[i]
        /\ \A i \in 1 .. Len(v) : i + Len(w) \in 1 .. Len(w) + Len(v) /\ (w \o v)[i + Len(w)] = v[i]
    BY <1>0, <1>1, <2>0, ListingFacts
  <2>2. \A i \in 1 .. Len(w) + Len(v) : i \in 1 .. Len(w) \/ \E j \in 1 .. Len(v) : i = j + Len(w)
    <3> SUFFICES ASSUME NEW i \in 1 .. Len(w) + Len(v), i \notin 1 .. Len(w)
                 PROVE \E j \in 1 .. Len(v) : i = j + Len(w)
      OBVIOUS
    <3>1. i - Len(w) \in 1 .. Len(v) /\ i = (i - Len(w)) + Len(w)
      BY <1>0, <2>0
    <3> QED BY <3>1
  <2>3. ASSUME NEW key \in Arriving(w \o v) PROVE key \in Arriving(w) \union Arriving(v)
    <3>1. PICK i \in 1 .. Len(w \o v) : DOMAIN (w \o v)[i].fields # {} /\ (w \o v)[i].groupKey = key
      BY <2>3 DEF Arriving
    <3>2. CASE i \in 1 .. Len(w)
      BY <2>1, <3>1, <3>2 DEF Arriving
    <3>3. ASSUME NEW j \in 1 .. Len(v), i = j + Len(w) PROVE key \in Arriving(v)
      <4>1. (w \o v)[i] = v[j]
        BY <2>1, <3>3
      <4> QED BY <3>1, <4>1 DEF Arriving
    <3> QED BY <2>1, <2>2, <3>1, <3>2, <3>3
  <2>4. ASSUME NEW key \in Arriving(w) \union Arriving(v) PROVE key \in Arriving(w \o v)
    <3>1. CASE key \in Arriving(w)
      <4>1. PICK i \in 1 .. Len(w) : DOMAIN w[i].fields # {} /\ w[i].groupKey = key
        BY <3>1 DEF Arriving
      <4> QED BY <2>1, <4>1 DEF Arriving
    <3>2. CASE key \in Arriving(v)
      <4>1. PICK i \in 1 .. Len(v) : DOMAIN v[i].fields # {} /\ v[i].groupKey = key
        BY <3>2 DEF Arriving
      <4> QED BY <2>1, <4>1 DEF Arriving
    <3> QED BY <2>4, <3>1, <3>2
  <2> QED BY <2>3, <2>4
<1>2. ASSUME w # <<>>
      PROVE  Arriving(w) = Arriving(Tail(w)) \union
                                IF DOMAIN Head(w).fields # {} THEN {Head(w).groupKey} ELSE {}
  <2>1. /\ Head(w) = w[1] /\ 1 \in 1 .. Len(w) /\ Len(Tail(w)) = Len(w) - 1
        /\ \A i \in 1 .. Len(w) - 1 : i + 1 \in 1 .. Len(w) /\ Tail(w)[i] = w[i + 1]
    BY <1>0, <1>2, ListingFacts
  <2>2. \A i \in 1 .. Len(w) : i = 1 \/ \E j \in 1 .. Len(w) - 1 : i = j + 1
    <3> SUFFICES ASSUME NEW i \in 1 .. Len(w), i # 1 PROVE \E j \in 1 .. Len(w) - 1 : i = j + 1
      OBVIOUS
    <3>1. i - 1 \in 1 .. Len(w) - 1 /\ i = (i - 1) + 1
      BY <1>0
    <3> QED BY <3>1
  <2>3. \A key : key \in Arriving(w) <=>
                  \/ DOMAIN w[1].fields # {} /\ key = w[1].groupKey
                  \/ \E j \in 1 .. Len(w) - 1 : DOMAIN w[j + 1].fields # {} /\ key = w[j + 1].groupKey
    BY <2>1, <2>2 DEF Arriving
  <2>4. \A key : key \in Arriving(Tail(w)) <=>
                  \E j \in 1 .. Len(w) - 1 : DOMAIN w[j + 1].fields # {} /\ key = w[j + 1].groupKey
    BY <2>1 DEF Arriving
  <2> QED BY <2>1, <2>3, <2>4
<1> QED BY <1>1, <1>2

\* Serialized, the sets with a value become messages with a value.
LEMMA MessageGroups ==
    ASSUME NEW S, Typed(S)
    PROVE  LET w == SetToSeq(Messages(S)) IN Listing(w) /\ Arriving(w) = Live(S)
<1> DEFINE M == Messages(S)
           w == SetToSeq(M)
           f == [k \in DOMAIN S |-> Message(k, S[k])]
<1>1. M = {Message(k, S[k]) : k \in DOMAIN S}
  BY DEF Messages
<1>2. IsFiniteSet(M)
  <2>1. f \in Surjection(DOMAIN S, M)
    BY <1>1 DEF Surjection
  <2> HIDE DEF f, M
  <2> QED BY <2>1, FS_Surjection DEF Typed
<1> HIDE DEF M
<1>3. w \in Seq(M) /\ M = {w[i] : i \in 1 .. Len(w)}
  BY <1>2, Listed
<1> HIDE DEF w
<1>4. ASSUME NEW k, NEW set
      PROVE  /\ Message(k, set).groupKey = k
             /\ DOMAIN Message(k, set).fields # {} <=> Valued(set)
  BY DEF Message, Valued
<1>5. Arriving(w) = {m.groupKey : m \in {x \in M : DOMAIN x.fields # {}}}
  BY <1>3 DEF Arriving
<1>6. Arriving(w) = Live(S)
  BY <1>1, <1>4, <1>5 DEF Live
<1> QED BY <1>3, <1>6 DEF Listing, w, M

\* Groups that a server, its connection or the client's local set holds, and
\* those that its lines have asked for.
Held(s) == Live(sets[s]) \union Arriving(wire[s]) \union DOMAIN local[s]
Asked(s) == UNION {Gained(query, evaluated[s][i]) : i \in 1 .. Len(evaluated[s])}

GroupInv ==
    /\ DOMAIN sets = Servers /\ DOMAIN wire = Servers /\ DOMAIN local = Servers /\ DOMAIN evaluated = Servers
    /\ \A s \in Servers : Typed(sets[s]) /\ Listing(wire[s]) /\ Listing(evaluated[s])
    /\ query = NotParsed => \A s \in Servers : Len(evaluated[s]) = 0
    /\ \A key : (\E s \in Servers : key \in Asked(s)) <=> key \in DOMAIN global \/ \E s \in Servers : key \in Held(s)

\* The groups the result must have, by server.
LEMMA AskedGroups ==
    ASSUME GroupInv
    PROVE  \A key : key \in Groups <=> \E s \in Servers : key \in Asked(s)
<1>1. ASSUME NEW s \in Servers PROVE DOMAIN evaluated[s] = 1 .. Len(evaluated[s])
  BY ListingFacts DEF GroupInv
<1>2. ASSUME NEW key
      PROVE  key \in Groups <=>
                \E s \in Servers : \E i \in 1 .. Len(evaluated[s]) :
                    /\ Aggregated(query, evaluated[s][i], FALSE) # {}
                    /\ key = KeyOf(query, evaluated[s][i])
  <2> DEFINE lines == UNION {Range(evaluated[s]) : s \in Servers}
  <2>1. \A l : l \in lines <=> \E s \in Servers : \E i \in 1 .. Len(evaluated[s]) : l = evaluated[s][i]
    BY <1>1 DEF Range
  <2> HIDE DEF lines
  <2>2. Groups = {KeyOf(query, l) : l \in {x \in lines : Aggregated(query, x, FALSE) # {}}}
    BY Zenon DEF Groups, KeyOf, lines
  <2> DEFINE Keyed(l) == Aggregated(query, l, FALSE) # {} /\ key = KeyOf(query, l)
  <2>3. key \in Groups <=> \E l \in lines : Keyed(l)
    BY <2>2, Zenon
  <2> HIDE DEF Keyed
  <2>4. key \in Groups <=> \E s \in Servers : \E i \in 1 .. Len(evaluated[s]) : Keyed(evaluated[s][i])
    BY <2>1, <2>3
  <2> QED BY <2>4 DEF Keyed
<1>3. ASSUME NEW key, NEW s
      PROVE  key \in Asked(s) <=>
                \E i \in 1 .. Len(evaluated[s]) :
                    /\ Aggregated(query, evaluated[s][i], FALSE) # {}
                    /\ key = KeyOf(query, evaluated[s][i])
  BY DEF Asked, Gained
<1> QED BY <1>2, <1>3

\* Nothing is held and nothing asked for.
LEMMA GroupInit == QueryInit => GroupInv
<1> SUFFICES ASSUME QueryInit PROVE GroupInv
  OBVIOUS
<1>1. /\ sets = [s \in Servers |-> NoSets] /\ wire = [s \in Servers |-> <<>>]
      /\ local = [s \in Servers |-> NoSets] /\ global = NoSets
      /\ evaluated = [s \in Servers |-> <<>>]
  BY DEF QueryInit
<1>2. Listing(<<>>) /\ Len(<<>>) = 0
  <2>1. <<>> \in Seq({})
    OBVIOUS
  <2> QED BY <2>1 DEF Listing
<1>3. Arriving(<<>>) = {}
  BY <1>2 DEF Arriving
<1>4. \A s \in Servers : Asked(s) = {} /\ Held(s) = {}
  BY <1>1, <1>2, <1>3, Fresh DEF Asked, Held
<1> QED BY <1>1, <1>2, <1>4, Fresh DEF GroupInv

\* One server's sets, messages or local set change, and nothing else does.
Moved(s) ==
    /\ UNCHANGED <<query, evaluated>>
    /\ DOMAIN sets' = Servers /\ DOMAIN wire' = Servers /\ DOMAIN local' = Servers
    /\ Typed(sets'[s]) /\ Listing(wire'[s])
    /\ \A t \in Servers \ {s} : sets'[t] = sets[t] /\ wire'[t] = wire[t] /\ local'[t] = local[t]
    /\ DOMAIN global' \union Held(s)' = DOMAIN global \union Held(s)

\* Then it is enough that the groups held there or merged are the same.
LEMMA MovedKeeps ==
    ASSUME GroupInv, NEW s \in Servers, Moved(s)
    PROVE  GroupInv'
<1> USE DEF Moved
<1>1. \A t \in Servers : Asked(t)' = Asked(t)
  BY DEF Asked
<1>2. \A t \in Servers \ {s} : Held(t)' = Held(t)
  BY DEF Held
<1>3. \A key : (key \in DOMAIN global' \/ \E t \in Servers : key \in Held(t)')
                <=> (key \in DOMAIN global \/ \E t \in Servers : key \in Held(t))
  <2>1. \A key : key \in DOMAIN global' \/ key \in Held(s)' <=> key \in DOMAIN global \/ key \in Held(s)
    OBVIOUS
  <2> QED BY <1>2, <2>1
<1>4. \A t \in Servers : Typed(sets'[t]) /\ Listing(wire'[t]) /\ Listing(evaluated'[t])
  BY DEF GroupInv
<1>5. \A key : (\E t \in Servers : key \in Asked(t)') <=> (\E t \in Servers : key \in Asked(t))
  BY <1>1
<1>6. query' = NotParsed => \A t \in Servers : Len(evaluated'[t]) = 0
  BY DEF GroupInv
<1>7. DOMAIN evaluated' = Servers
  BY DEF GroupInv
<1>8. \A key : (\E t \in Servers : key \in Asked(t)') <=> key \in DOMAIN global' \/ \E t \in Servers : key \in Held(t)'
  BY <1>3, <1>5 DEF GroupInv
<1>9. GroupInv'
  BY <1>4, <1>6, <1>7, <1>8 DEF GroupInv
<1> QED BY <1>9

\* The same for what the parser made of a line.
LEMMA ParsedGroups ==
    ASSUME NEW q, q.Select \in Seq(SelectConditions), NEW S, Typed(S), NEW p
    PROVE  LET T == ProcessParsed(q, S, p)
           IN  /\ Typed(T)
               /\ Live(T) = Live(S) \union IF p.outcome = "fields" /\ WhereClause(q, p.fields)
                                          THEN Gained(q, SetClause(q, p.fields)) ELSE {}
<1> DEFINE F == SetClause(q, p.fields)
<1>1. ProcessParsed(q, S, p) = IF p.outcome = "fields" /\ WhereClause(q, p.fields)
                                      THEN AggregateLine(q, S, F) ELSE S
  BY Zenon DEF ProcessParsed
<1> HIDE DEF F
<1>2. Typed(AggregateLine(q, S, F)) /\ Live(AggregateLine(q, S, F)) = Live(S) \union Gained(q, F)
  BY LineGroups
<1> QED BY <1>1, <1>2 DEF F

\* A line that counts asks for its group and brings it into the sets.
LEMMA LineKeepsGroups ==
    ASSUME QueryInv, QueryInv', GroupInv, NEW f \in Sources, NEW place \in 1 .. 2, ProcessLine(f, place)
    PROVE  GroupInv'
<1> DEFINE line == files[f][place]
           full == WithoutLiterals(MakeFields(Format, AllFields, line, headers[f]))
           counts == full.outcome = "fields" /\ WhereClause(query, full.fields)
           F == SetClause(query, full.fields)
           s == ServerOf[f]
<1>1. query.ok /\ UNCHANGED <<query, wire, local, global>>
  BY DEF ProcessLine
<1>2. query # NotParsed /\ query.Select \in Seq(SelectConditions)
  BY <1>1, CasesAssumption DEF QueryInv, NotParsed, CasesTyped
<1>3. /\ fullSets' = [fullSets EXCEPT ![s] = ProcessParsed(query, @, full)]
      /\ evaluated' = IF counts THEN [evaluated EXCEPT ![s] = Append(@, F)] ELSE evaluated
  BY Zenon DEF ProcessLine
<1> HIDE DEF full, F, s
<1>4. sets = fullSets /\ sets' = fullSets'
  BY DEF QueryInv, PlanSufficient
<1>5. CASE s \notin Servers
  <2>1. /\ DOMAIN sets' = Servers /\ DOMAIN evaluated' = Servers
        /\ \A t \in Servers : sets'[t] = sets[t] /\ evaluated'[t] = evaluated[t]
    BY <1>3, <1>4, <1>5 DEF GroupInv
  <2>2. \A t \in Servers : Held(t)' = Held(t) /\ Asked(t)' = Asked(t)
    BY <1>1, <2>1 DEF Held, Asked
  <2>3. /\ DOMAIN wire' = Servers /\ DOMAIN local' = Servers
        /\ \A t \in Servers : Typed(sets'[t]) /\ Listing(wire'[t]) /\ Listing(evaluated'[t])
    BY <1>1, <2>1 DEF GroupInv
  <2>4. \A key : (\E t \in Servers : key \in Asked(t)')
                  <=> key \in DOMAIN global' \/ \E t \in Servers : key \in Held(t)'
    BY <1>1, <2>2 DEF GroupInv
  <2>5. query' # NotParsed
    BY <1>1, <1>2
  <2> QED BY <2>1, <2>3, <2>4, <2>5 DEF GroupInv
<1>6. CASE s \in Servers
  <2> DEFINE gain == IF counts THEN Gained(query, F) ELSE {}
  <2>1. Typed(sets'[s]) /\ Live(sets'[s]) = Live(sets[s]) \union gain
    <3>1. sets'[s] = ProcessParsed(query, sets[s], full)
      BY <1>3, <1>4, <1>6 DEF GroupInv
    <3>2. Typed(sets[s])
      BY <1>6 DEF GroupInv
    <3> QED BY <1>2, <3>1, <3>2, ParsedGroups DEF F
  <2>2. Listing(evaluated'[s]) /\ Asked(s)' = Asked(s) \union gain
    <3>1. CASE ~counts
      BY <1>1, <1>3, <1>6, <3>1 DEF GroupInv, Asked
    <3>2. CASE counts
      <4>1. evaluated'[s] = Append(evaluated[s], F) /\ Listing(evaluated[s])
        BY <1>3, <1>6, <3>2 DEF GroupInv
      <4>2. PICK n \in Nat : n = Len(evaluated[s])
        BY <4>1, ListingFacts
      <4>3. /\ Len(evaluated'[s]) = n + 1 /\ Listing(evaluated'[s])
            /\ \A i \in 1 .. n + 1 : evaluated'[s][i] = IF i = n + 1 THEN F ELSE evaluated[s][i]
        BY <4>1, <4>2, ListingFacts
      <4>4. \A i : i \in 1 .. n + 1 <=> i \in 1 .. n \/ i = n + 1
        BY <4>2
      <4>5. \A i \in 1 .. n : i # n + 1
        BY <4>2
      <4>6. Asked(s)' = UNION {Gained(query, evaluated'[s][i]) : i \in 1 .. n + 1}
        BY <1>1, <4>3 DEF Asked
      <4>7. Asked(s) = UNION {Gained(query, evaluated[s][i]) : i \in 1 .. n}
        BY <4>2 DEF Asked
      <4> QED BY <3>2, <4>3, <4>4, <4>5, <4>6, <4>7
    <3> QED BY <3>1, <3>2
  <2>3. \A t \in Servers \ {s} : sets'[t] = sets[t] /\ evaluated'[t] = evaluated[t]
    BY <1>3, <1>4 DEF GroupInv
  <2>4. \A t \in Servers \ {s} : Held(t)' = Held(t) /\ Asked(t)' = Asked(t)
    BY <1>1, <2>3 DEF Held, Asked
  <2>5. Held(s)' = Held(s) \union gain
    BY <1>1, <2>1 DEF Held
  <2>6. /\ DOMAIN sets' = Servers /\ DOMAIN wire' = Servers /\ DOMAIN local' = Servers
        /\ DOMAIN evaluated' = Servers
    BY <1>1, <1>3, <1>4 DEF GroupInv
  <2>7. \A t \in Servers : Typed(sets'[t]) /\ Listing(wire'[t]) /\ Listing(evaluated'[t])
    BY <1>1, <2>1, <2>2, <2>3 DEF GroupInv
  <2> HIDE DEF gain
  <2>8. \A key : (\E t \in Servers : key \in Asked(t)') <=> key \in gain \/ \E t \in Servers : key \in Asked(t)
    BY <1>6, <2>2, <2>4
  <2>9. \A key : (\E t \in Servers : key \in Held(t)') <=> key \in gain \/ \E t \in Servers : key \in Held(t)
    BY <1>6, <2>4, <2>5
  <2>10. \A key : (\E t \in Servers : key \in Asked(t)')
                        <=> key \in DOMAIN global' \/ \E t \in Servers : key \in Held(t)'
    BY <1>1, <2>8, <2>9 DEF GroupInv
  <2> QED BY <1>1, <1>2, <2>6, <2>7, <2>10 DEF GroupInv
<1> QED BY <1>5, <1>6

\* Serializing, receiving and merging hand the groups on.
LEMMA MovesKeepGroups ==
    ASSUME GroupInv, NEW s \in Servers, Serialize(s) \/ Receive(s) \/ Merge(s)
    PROVE  GroupInv'
<1>0. /\ DOMAIN sets = Servers /\ DOMAIN wire = Servers /\ DOMAIN local = Servers
      /\ \A t \in Servers : Typed(sets[t]) /\ Listing(wire[t])
  BY DEF GroupInv
<1>1. CASE Serialize(s)
  <2> DEFINE w == SetToSeq(Messages(sets[s]))
  <2>1. Listing(w) /\ Arriving(w) = Live(sets[s])
    BY <1>0, MessageGroups
  <2>2. /\ wire' = [wire EXCEPT ![s] = @ \o w] /\ sets' = [sets EXCEPT ![s] = NoSets]
        /\ UNCHANGED <<query, evaluated, local, global>>
    BY <1>1 DEF Serialize
  <2> HIDE DEF w
  <2>3. Listing(wire[s] \o w) /\ Arriving(wire[s] \o w) = Arriving(wire[s]) \union Arriving(w)
    BY <1>0, <2>1, ListingFacts, ArrivingFacts
  <2>4. wire'[s] = wire[s] \o w /\ sets'[s] = NoSets
    BY <1>0, <2>2
  <2>5. Held(s)' = Held(s)
    BY <2>1, <2>2, <2>3, <2>4, Fresh DEF Held
  <2>6. Moved(s)
    BY <1>0, <2>2, <2>3, <2>4, <2>5, Fresh DEF Moved
  <2> QED BY <2>6, MovedKeeps
<1>2. CASE Receive(s)
  <2> DEFINE m == Head(wire[s])
  <2>1. /\ wire[s] # <<>> /\ wire' = [wire EXCEPT ![s] = Tail(@)]
        /\ local' = [local EXCEPT ![s] = AggregateMessage(query, @, m)]
        /\ UNCHANGED <<query, evaluated, sets, global>>
    BY <1>2 DEF Receive
  <2>2. AggregateMessage(query, local[s], m) =
            IF DOMAIN m.fields = {} THEN local[s]
            ELSE Put(local[s], m.groupKey,
                     AggregateFields(query, GetSet(local[s], m.groupKey), m.fields, m.samples, TRUE))
    BY Zenon DEF AggregateMessage
  <2>3. ASSUME NEW S, NEW k, NEW r PROVE DOMAIN Put(S, k, r) = DOMAIN S \union {k}
    BY DEF Put
  <2>4. DOMAIN AggregateMessage(query, local[s], m) =
            DOMAIN local[s] \union IF DOMAIN m.fields # {} THEN {m.groupKey} ELSE {}
    <3> HIDE DEF m
    <3>1. PICK r : AggregateMessage(query, local[s], m) =
                       IF DOMAIN m.fields = {} THEN local[s] ELSE Put(local[s], m.groupKey, r)
      BY <2>2, Zenon
    <3>2. CASE DOMAIN m.fields = {}
      BY <3>1, <3>2
    <3>3. CASE DOMAIN m.fields # {}
      <4>1. AggregateMessage(query, local[s], m) = Put(local[s], m.groupKey, r)
        BY <3>1, <3>3
      <4>2. DOMAIN AggregateMessage(query, local[s], m) = DOMAIN local[s] \union {m.groupKey}
        BY <2>3, <4>1, Zenon
      <4> QED BY <3>3, <4>2
    <3> QED BY <3>2, <3>3
  <2>5. /\ Listing(Tail(wire[s]))
        /\ Arriving(wire[s]) = Arriving(Tail(wire[s])) \union IF DOMAIN m.fields # {} THEN {m.groupKey} ELSE {}
    BY <1>0, <2>1, ListingFacts, ArrivingFacts
  <2> HIDE DEF m
  <2>6. wire'[s] = Tail(wire[s]) /\ local'[s] = AggregateMessage(query, local[s], m)
    BY <1>0, <2>1
  <2>7. Held(s)' = Held(s)
    BY <2>1, <2>4, <2>5, <2>6 DEF Held
  <2>8. Moved(s)
    BY <1>0, <2>1, <2>5, <2>6, <2>7 DEF Moved
  <2> QED BY <2>8, MovedKeeps
<1>3. CASE Merge(s)
  <2>1. /\ global' = MergeSets(query, global, local[s]) /\ local' = [local EXCEPT ![s] = NoSets]
        /\ UNCHANGED <<query, evaluated, sets, wire>>
    BY <1>3 DEF Merge
  <2>2. DOMAIN global' = DOMAIN global \union DOMAIN local[s]
    BY <2>1 DEF MergeSets
  <2>3. local'[s] = NoSets
    BY <1>0, <2>1
  <2>4. DOMAIN global' \union Held(s)' = DOMAIN global \union Held(s)
    BY <2>1, <2>2, <2>3, Fresh DEF Held
  <2>5. Moved(s)
    BY <1>0, <2>1, <2>4 DEF Moved
  <2> QED BY <2>5, MovedKeeps
<1> QED BY <1>1, <1>2, <1>3

\* The groups of the result are those of the lines that have a value, whatever
\* the order of lines, partial results, messages and merges.
THEOREM GroupsCorrect == QuerySpec => []GroupsExact
<1>1. QueryInv /\ QueryInv' /\ GroupInv /\ [QueryNext]_queryVars => GroupInv'
  <2> SUFFICES ASSUME QueryInv, QueryInv', GroupInv, [QueryNext]_queryVars PROVE GroupInv'
    OBVIOUS
  <2>1. CASE StartQuery
    <3>1. query = NotParsed /\ UNCHANGED <<sets, wire, local, global, evaluated>>
      BY <2>1 DEF StartQuery
    <3>2. \A s \in Servers : Len(evaluated[s]) = 0
      BY <3>1 DEF GroupInv
    <3>3. \A s \in Servers : Held(s)' = Held(s) /\ Asked(s) = {} /\ Asked(s)' = {}
      BY <3>1, <3>2 DEF Held, Asked
    <3>4. /\ DOMAIN sets' = Servers /\ DOMAIN wire' = Servers /\ DOMAIN local' = Servers /\ DOMAIN evaluated' = Servers
          /\ \A s \in Servers : Typed(sets'[s]) /\ Listing(wire'[s]) /\ Listing(evaluated'[s])
      BY <3>1 DEF GroupInv
    <3>5. \A s \in Servers : Len(evaluated'[s]) = 0
      BY <3>1, <3>2
    <3>6. \A key : key \notin DOMAIN global' /\ \A s \in Servers : key \notin Held(s)'
      BY <3>1, <3>3 DEF GroupInv
    <3>7. \A key : ~(\E s \in Servers : key \in Asked(s)')
      BY <3>3
    <3> QED BY <3>4, <3>5, <3>6, <3>7 DEF GroupInv
  <2>2. ASSUME NEW f \in Sources, NEW place \in 1 .. 2, ProcessLine(f, place) PROVE GroupInv'
    BY <2>2, LineKeepsGroups
  <2>3. ASSUME NEW s \in Servers, Serialize(s) \/ Receive(s) \/ Merge(s) PROVE GroupInv'
    BY <2>3, MovesKeepGroups
  <2>4. CASE UNCHANGED queryVars
    <3>1. UNCHANGED <<query, sets, wire, local, global, evaluated>>
      BY <2>4 DEF queryVars
    <3>2. \A s : Held(s)' = Held(s) /\ Asked(s)' = Asked(s)
      BY <3>1 DEF Held, Asked
    <3> QED BY <3>1, <3>2 DEF GroupInv
  <2> QED BY <2>1, <2>2, <2>3, <2>4 DEF QueryNext
<1>2. GroupInv => GroupsExact
  <2> SUFFICES ASSUME GroupInv, Finished PROVE DOMAIN global = Groups
    BY DEF GroupsExact
  <2>1. \A s \in Servers : sets[s] = NoSets /\ wire[s] = <<>> /\ local[s] = NoSets
    BY DEF Finished
  <2>2. Arriving(<<>>) = {}
    BY DEF Arriving
  <2>3. \A s \in Servers : Held(s) = {}
    BY <2>1, <2>2, Fresh DEF Held
  <2>4. \A key : key \in Groups <=> key \in DOMAIN global
    BY <2>3, AskedGroups DEF GroupInv
  <2> QED BY <2>4
<1>3. QuerySpec => []QueryInv
  BY QueryInvariance
<1> QED BY GroupInit, <1>1, <1>2, <1>3, PTL DEF QuerySpec
=============================================================================
