---------------------------- MODULE ServerSession ----------------------------
(***************************************************************************)
(* One SSH session between a client handler and a server handler: the      *)
(* client sends its commands as frames, the goroutine that runs the        *)
(* server's Write dispatches them one by one, commands run concurrently,   *)
(* the last one to finish shuts the session down with a syn/ack handshake  *)
(* that goes through the same goroutines                                   *)
(* (internal/server/handlers/basehandler.go, serverhandler.go,             *)
(* shutdown_coordinator.go, healthhandler.go, mapcommand.go and            *)
(* internal/clients/handlers/basehandler.go).  What a read command does    *)
(* with its files is module ReadCommand; here it sends one line.           *)
(***************************************************************************)
EXTENDS Naturals, Sequences, FiniteSets

CONSTANTS
    Streams,       \* what a client may send: [handler, transport, cancel, kinds]
    MaxCommands,   \* bound: commands of a stream
    ChannelSize    \* capacity of serverMessages, lines and maprMessages

\* What the server makes of a frame, besides the ack of the shutdown handshake.
Kinds == {"read", "map", "badmap", "authkey", "health", "unknown", "garbled", "oversize"}

\* A health client sends one command, and its handler knows no reads or queries.
ASSUME StreamAssumption ==
    /\ MaxCommands \in Nat /\ ChannelSize \in Nat \ {0}
    /\ \A s \in Streams :
        /\ s.handler \in {"server", "health"} /\ s.transport \in {"ssh", "serverless"}
        /\ s.kinds \in Seq(Kinds) /\ Len(s.kinds) <= MaxCommands
        /\ s.handler = "health" => Len(s.kinds) = 1 /\ s.kinds[1] \notin {"read", "map"}

VARIABLES
    stream,        \* the stream of this behaviour
    sent,          \* client: commands handed to the transport
    wire,          \* frames on their way to the server
    clientAck,     \* the client's answer to .syn: "no", "offered", "sent"
    clientDone,    \* the client handler is shut down
    ctxDone,       \* the connector's context is cancelled
    returned,      \* the connector's Start has returned
    delivered,     \* what the client has received
    writer,        \* the server's Write goroutine: 0, or the command it runs
    pc,            \* what each command does
    activeCommands, pendingFiles,
    seenActive,    \* the count a finishing command has loaded
    serverMessages, lines, maprMessages,
    syns,          \* goroutines that want to send .syn close connection
    aggregate,     \* "none", "open", "finished"
    ackCloseReceived, done,
    early,         \* history: a command finished before the last frame arrived
    hasty,         \* history: some flush gave up at its deadline
    unmatched      \* history: the reads whose glob matched no file

clientVars == <<sent, clientAck, clientDone, ctxDone, returned>>
channels == <<serverMessages, lines, maprMessages>>
counters == <<activeCommands, pendingFiles, seenActive>>
history == <<early, hasty, unmatched>>
vars == <<stream, clientVars, wire, delivered, writer, pc, counters, channels,
          syns, aggregate, ackCloseReceived, done, history>>

Ack == MaxCommands + 1
Syn == <<"syn", 0>>
Commands == 1..Len(stream.kinds)
Procs == 1..Ack
Kind(i) == IF i = Ack THEN "ack" ELSE stream.kinds[i]

\* Commands that the Write goroutine runs itself, to the end of commandFinished.
Synchronous(i) ==
    stream.handler = "health" \/ Kind(i) \in {"ack", "authkey", "badmap", "unknown", "garbled"}

\* shouldShutdownOnCommandCompletion
ShutdownOnCompletion(i) == Kind(i) # "authkey"

Init ==
    /\ stream \in Streams
    /\ sent = 0 /\ clientAck = "no" /\ clientDone = FALSE
    /\ ctxDone = FALSE /\ returned = FALSE
    /\ wire = <<>> /\ delivered = {}
    /\ writer = 0
    /\ pc = [i \in Procs |-> "none"]
    /\ activeCommands = 0 /\ pendingFiles = 0
    /\ seenActive = [i \in Procs |-> 0]
    \* NewServerHandler announces the capabilities.
    /\ serverMessages = IF stream.handler = "health" THEN <<>> ELSE <<<<"capabilities", 0>>>>
    /\ lines = <<>> /\ maprMessages = <<>>
    /\ syns = 0
    /\ aggregate = "none"
    /\ ackCloseReceived = FALSE /\ done = FALSE
    /\ early = FALSE
    /\ hasty = FALSE
    /\ unmatched = {}

Step(i, from, to) == pc[i] = from /\ pc' = [pc EXCEPT ![i] = to]

\* A command that the Write goroutine ran is over: the goroutine goes on.
Over(i, from) ==
    /\ Step(i, from, "over")
    /\ writer' = IF writer = i THEN 0 ELSE writer

\* send: into the channel while there is room.  Once the session is done nothing
\* sent counts as delivered any more: Read may return EOF at any time.
Send(queue, message) ==
    IF done THEN UNCHANGED queue
    ELSE Len(queue) < ChannelSize /\ queue' = Append(queue, message)

------------------------------------------------------------------------------
(* The client handler.                                                       *)

SendMessage ==
    /\ sent < Len(stream.kinds) /\ ~clientDone
    /\ sent' = sent + 1
    /\ wire' = Append(wire, sent + 1)
    /\ UNCHANGED <<stream, clientAck, clientDone, ctxDone, returned, delivered, writer, pc,
                   counters, channels, syns, aggregate, ackCloseReceived, done, history>>

\* The reading goroutine takes the ack, or the sender gives up after 5 s; either
\* way the client handler shuts down.
AnswerSyn ==
    /\ clientAck = "offered"
    /\ \/ clientAck' = "sent" /\ wire' = Append(wire, Ack)
       \/ clientAck' = "no" /\ UNCHANGED wire
    /\ clientDone' = TRUE
    /\ UNCHANGED <<stream, sent, ctxDone, returned, delivered, writer, pc, counters, channels,
                   syns, aggregate, ackCloseReceived, done, history>>

\* A deadline (--timeout, --shutdownAfter) or a signal.
UserCancels ==
    /\ stream.cancel /\ ~ctxDone
    /\ ctxDone' = TRUE
    /\ UNCHANGED <<stream, sent, clientAck, clientDone, returned, wire, delivered, writer, pc,
                   counters, channels, syns, aggregate, ackCloseReceived, done, history>>

Ended == clientDone \/ ctxDone \/ done

\* Over SSH each end of the connection takes the other one down, and Start
\* returns with its context.
ConnectionCloses ==
    /\ stream.transport = "ssh"
    /\ Ended /\ ~(clientDone /\ ctxDone /\ done)
    /\ clientDone' = TRUE /\ ctxDone' = TRUE /\ done' = TRUE /\ returned' = TRUE
    /\ UNCHANGED <<stream, sent, clientAck, wire, delivered, writer, pc, counters,
                   channels, syns, aggregate, ackCloseReceived, history>>

\* Without a server process the monitor goroutine terminates the in-process
\* server handler (6 s after the client is done, if the server is not) and
\* cancels the context; the client handler is not told.
MonitorEnds ==
    /\ stream.transport = "serverless"
    /\ Ended /\ ~(ctxDone /\ done)
    /\ ctxDone' = TRUE /\ done' = TRUE
    /\ UNCHANGED <<stream, sent, clientAck, clientDone, returned, wire, delivered, writer, pc,
                   counters, channels, syns, aggregate, ackCloseReceived, history>>

\* The serverless Start first waits for its four copying goroutines, one of which
\* reads from the client handler until that is done.
ServerlessReturns ==
    /\ stream.transport = "serverless" /\ ~returned
    /\ ctxDone /\ done /\ clientDone
    /\ returned' = TRUE
    /\ UNCHANGED <<stream, sent, clientAck, clientDone, ctxDone, wire, delivered, writer, pc,
                   counters, channels, syns, aggregate, ackCloseReceived, done, history>>

------------------------------------------------------------------------------
(* Read on the server, Write on the client: one message is taken from any of *)
(* the channels and handled by the client.                                   *)

Receive(message) ==
    /\ delivered' = delivered \union {message}
    /\ clientAck' = IF message = Syn /\ clientAck = "no" /\ ~clientDone THEN "offered" ELSE clientAck
    /\ UNCHANGED <<stream, sent, clientDone, ctxDone, returned, wire, writer, pc, counters, syns,
                   aggregate, ackCloseReceived, done, history>>

Read ==
    /\ clientAck # "offered" /\ ~done
    /\ \/ /\ serverMessages # <<>>
          /\ Receive(Head(serverMessages))
          /\ serverMessages' = Tail(serverMessages)
          /\ UNCHANGED <<lines, maprMessages>>
       \/ /\ lines # <<>>
          /\ Receive(Head(lines))
          /\ lines' = Tail(lines)
          /\ UNCHANGED <<serverMessages, maprMessages>>
       \/ /\ maprMessages # <<>>
          /\ Receive(Head(maprMessages))
          /\ maprMessages' = Tail(maprMessages)
          /\ UNCHANGED <<serverMessages, lines>>

------------------------------------------------------------------------------
(* Write on the server: one frame at a time.                                 *)

\* handleCommand, dispatchCommand, handleUserCommand: where a command starts.
Entry(i) ==
    CASE Kind(i) = "read" -> "start"
      [] Kind(i) = "map" -> "mapping"
      [] Kind(i) = "ack" -> IF stream.handler = "health" THEN "shutdown" ELSE "finish"
      [] OTHER -> "reply"

Counted(i) == stream.handler # "health" /\ Kind(i) # "garbled"

HandleCommand ==
    LET i == Head(wire)
    IN  /\ writer = 0 /\ wire # <<>> /\ ~done
        /\ wire' = Tail(wire)
        /\ Kind(i) # "oversize"
        /\ pc' = [pc EXCEPT ![i] = Entry(i)]
        /\ activeCommands' = IF Counted(i) THEN activeCommands + 1 ELSE activeCommands
        /\ writer' = IF Synchronous(i) THEN i ELSE 0
        /\ aggregate' = IF Kind(i) = "map" THEN "open" ELSE aggregate
        /\ ackCloseReceived' = (ackCloseReceived \/ i = Ack)
        /\ UNCHANGED <<stream, clientVars, delivered, pendingFiles, seenActive, channels, syns,
                       done, history>>

\* A frame longer than maxCommandFrameSize ends the session.
FrameTooLong ==
    /\ writer = 0 /\ wire # <<>> /\ ~done
    /\ Kind(Head(wire)) = "oversize"
    /\ wire' = Tail(wire)
    /\ pc' = [pc EXCEPT ![Head(wire)] = "over"]
    /\ done' = TRUE
    /\ UNCHANGED <<stream, clientVars, delivered, writer, counters, channels, syns, aggregate,
                   ackCloseReceived, history>>

\* The answer of a synchronous command; a frame that cannot be decoded gets one
\* too, but is no command.
Reply(i) ==
    /\ pc[i] = "reply"
    /\ Send(serverMessages, <<"reply", i>>)
    /\ IF Kind(i) = "garbled"
       THEN Over(i, "reply")
       ELSE /\ Step(i, "reply", IF stream.handler = "health" THEN "shutdown" ELSE "finish")
            /\ UNCHANGED writer
    /\ UNCHANGED <<stream, clientVars, wire, delivered, counters, lines, maprMessages, syns,
                   aggregate, ackCloseReceived, done, history>>

------------------------------------------------------------------------------
(* Commands.                                                                 *)

StartRead(i) ==
    /\ Step(i, "start", "reading")
    /\ pendingFiles' = pendingFiles + 1
    /\ UNCHANGED <<stream, clientVars, wire, delivered, writer, activeCommands, seenActive,
                   channels, syns, aggregate, ackCloseReceived, done, history>>

\* readGlob retries and gives up: the client is warned, and since no file is
\* processed nobody looks at an aggregate.
GivesUp(i) ==
    /\ Step(i, "start", "finish")
    /\ Send(serverMessages, <<"warning", i>>)
    /\ unmatched' = unmatched \union {i}
    /\ UNCHANGED <<stream, clientVars, wire, delivered, writer, counters, lines, maprMessages,
                   syns, aggregate, ackCloseReceived, done, early, hasty>>

\* The file's line goes to the aggregate when there is one, else to the client.
ReadFile(i) ==
    /\ Step(i, "reading", "read")
    /\ IF aggregate = "none" THEN Send(lines, <<"line", i>>) ELSE UNCHANGED lines
    /\ UNCHANGED <<stream, clientVars, wire, delivered, writer, counters, serverMessages,
                   maprMessages, syns, aggregate, ackCloseReceived, done, history>>

\* onFileProcessed: the last pending file gives the aggregate its grace period.
\* The command itself is still active, so this never shuts the session down.
FileProcessed(i) ==
    /\ Step(i, "read", IF pendingFiles = 1 /\ aggregate # "none" THEN "grace" ELSE "finish")
    /\ pendingFiles' = pendingFiles - 1
    /\ UNCHANGED <<stream, clientVars, wire, delivered, writer, activeCommands, seenActive,
                   channels, syns, aggregate, ackCloseReceived, done, history>>


MaybeFinishAggregateInput(i) ==
    /\ Step(i, "grace", "finish")
    /\ aggregate' = IF pendingFiles = 0 THEN "finished" ELSE aggregate
    /\ UNCHANGED <<stream, clientVars, wire, delivered, writer, counters, channels, syns,
                   ackCloseReceived, done, history>>

\* The map command returns when its input is finished or the session is over.
MapCommandReturns(i) ==
    /\ Step(i, "mapping", "finish")
    /\ aggregate = "finished" \/ done
    /\ Send(maprMessages, <<"result", i>>)
    /\ UNCHANGED <<stream, clientVars, wire, delivered, writer, counters, serverMessages, lines,
                   syns, aggregate, ackCloseReceived, done, history>>

------------------------------------------------------------------------------
(* commandFinished: the counter is decremented, loaded and judged in three   *)
(* separate steps.                                                           *)

DecrementActiveCommands(i) ==
    /\ Step(i, "finish", "decremented")
    /\ activeCommands' = activeCommands - 1
    /\ early' = (early \/ (ShutdownOnCompletion(i) /\ \E j \in Commands : pc[j] = "none"))
    /\ UNCHANGED <<stream, clientVars, wire, delivered, writer, pendingFiles, seenActive,
                   channels, syns, aggregate, ackCloseReceived, done, hasty, unmatched>>

LoadActiveCommands(i) ==
    /\ Step(i, "decremented", "loaded")
    /\ seenActive' = [seenActive EXCEPT ![i] = activeCommands]
    /\ UNCHANGED <<stream, clientVars, wire, delivered, writer, activeCommands, pendingFiles,
                   channels, syns, aggregate, ackCloseReceived, done, history>>

\* Mutant: only the files decide.
LastCommandIgnoresActive(i) == ShutdownOnCompletion(i) /\ pendingFiles = 0

LastCommand(i) == ShutdownOnCompletion(i) /\ seenActive[i] = 0 /\ pendingFiles = 0

CommandFinished(i) ==
    /\ pc[i] = "loaded"
    /\ IF LastCommand(i)
       THEN Step(i, "loaded", "shutdown") /\ UNCHANGED writer
       ELSE Over(i, "loaded")
    /\ seenActive' = [seenActive EXCEPT ![i] = 0]
    /\ UNCHANGED <<stream, clientVars, wire, delivered, activeCommands, pendingFiles, channels,
                   syns, aggregate, ackCloseReceived, done, history>>

------------------------------------------------------------------------------
(* shutdown.                                                                 *)

\* The aggregate is finished before anything is flushed.
Shutdown(i) ==
    /\ Step(i, "shutdown", "flush")
    /\ aggregate' = IF aggregate = "open" THEN "finished" ELSE aggregate
    /\ UNCHANGED <<stream, clientVars, wire, delivered, writer, counters, channels, syns,
                   ackCloseReceived, done, history>>

\* Mutant: the results of queries are forgotten.
UnsentIgnoresResults == Len(lines) + Len(serverMessages)

Unsent == Len(lines) + Len(serverMessages) + Len(maprMessages)

\* flush: until nothing is unsent, or its deadline.
Flush(i) ==
    /\ Step(i, "flush", "await")
    /\ hasty' = (hasty \/ Unsent # 0)
    /\ syns' = syns + 1
    /\ UNCHANGED <<stream, clientVars, wire, delivered, writer, counters, channels, aggregate,
                   ackCloseReceived, done, early, unmatched>>

SendSyn ==
    /\ syns > 0
    /\ Send(serverMessages, Syn)
    /\ syns' = syns - 1
    /\ UNCHANGED <<stream, clientVars, wire, delivered, writer, pc, counters, lines,
                   maprMessages, aggregate, ackCloseReceived, done, history>>

\* The ack, 5 s without one, or the end of the connection.
CloseSession(i) ==
    /\ Over(i, "await")
    /\ done' = TRUE
    /\ UNCHANGED <<stream, clientVars, wire, delivered, counters, channels, syns, aggregate,
                   ackCloseReceived, history>>

------------------------------------------------------------------------------
CommandStep(i) ==
    \/ Reply(i)
    \/ StartRead(i) \/ GivesUp(i) \/ ReadFile(i) \/ FileProcessed(i) \/ MaybeFinishAggregateInput(i)
    \/ MapCommandReturns(i)
    \/ DecrementActiveCommands(i) \/ LoadActiveCommands(i) \/ CommandFinished(i)
    \/ Shutdown(i) \/ Flush(i) \/ CloseSession(i)

Next ==
    \/ SendMessage \/ AnswerSyn \/ UserCancels
    \/ ConnectionCloses \/ MonitorEnds \/ ServerlessReturns
    \/ Read
    \/ HandleCommand \/ FrameTooLong
    \/ SendSyn
    \/ \E i \in Procs : CommandStep(i)

\* Every goroutine that can run does, and timers expire.
Fairness ==
    /\ WF_vars(SendMessage) /\ WF_vars(AnswerSyn)
    /\ WF_vars(ConnectionCloses \/ MonitorEnds) /\ WF_vars(ServerlessReturns)
    /\ WF_vars(Read) /\ WF_vars(HandleCommand \/ FrameTooLong) /\ WF_vars(SendSyn)
    /\ \A i \in Procs : WF_vars(CommandStep(i))

Spec == Init /\ [][Next]_vars /\ Fairness

------------------------------------------------------------------------------
(* Properties.                                                               *)

TypeOK ==
    /\ stream \in Streams
    /\ sent \in 0..MaxCommands
    /\ wire \in Seq(Procs)
    /\ writer \in Procs \union {0}
    /\ pc \in [Procs -> {"none", "reply", "start", "reading", "read", "grace", "mapping",
                         "finish", "decremented", "loaded", "shutdown", "flush", "await", "over"}]
    /\ activeCommands \in 0..Ack /\ pendingFiles \in 0..MaxCommands
    /\ aggregate \in {"none", "open", "finished"}
    /\ unmatched \subseteq Commands

Unfinished(i) == pc[i] \in {"reply", "start", "reading", "read", "grace", "mapping", "finish"}

\* When all commands have reached the server before the first of them finishes,
\* no shutdown cuts off a command, however the decrements, the loads and the
\* pending count of several commands interleave.  A frame that cannot be decoded
\* is no command: nobody waits for the goroutine that answers it.
NoCommandCutOff ==
    (~early /\ \E i \in Commands : pc[i] \in {"shutdown", "flush", "await"}) =>
        \A j \in Commands : Kind(j) # "garbled" => ~Unfinished(j)

\* If in addition no flush runs into its deadline, the client acknowledges the
\* close only after it has received everything: the lines of the files there
\* are, the warning where there are none, the result of the query and the
\* answers, unless an oversized frame has ended the session.
OutputBeforeClose ==
    (clientAck # "no" /\ ~hasty /\ ~early /\ ~done) =>
        \A i \in Commands :
            /\ Kind(i) = "map" => <<"result", i>> \in delivered
            /\ Kind(i) = "unknown" => <<"reply", i>> \in delivered
            /\ i \in unmatched => <<"warning", i>> \in delivered
            /\ (Kind(i) = "read" /\ aggregate = "none" /\ i \notin unmatched) =>
                   <<"line", i>> \in delivered

\* Commands that can end a session.  AUTHKEY cannot, and it counts as active, so
\* a client sends another command after it.
Ends(i) == Kind(i) \notin {"garbled", "authkey"}
KeysFirst == \A i \in Commands : Kind(i) = "authkey" => \E j \in Commands : i < j /\ Ends(j)

\* No shutdown is lost: when every command is over the session is done, however
\* the commands that finish at the same time see each other in the counters.
LastCommandCloses ==
    (KeysFirst /\ (\E i \in Commands : Ends(i)) /\ \A i \in Commands : pc[i] = "over") => done

\* A map command is told that its input has ended by the files of the reads that
\* follow it: one that no file follows is never told.
NeverTold(i) ==
    Kind(i) = "map" /\ \A j \in Commands : (i < j /\ Kind(j) = "read") => j \in unmatched


\* What maybeFinishAggregateInput is documented to terminate: a query whose
\* one-shot reads have all drained, whatever their globs matched.
QueryTerminates ==
    (\E i \in Commands : Kind(i) = "map" /\ \E j \in Commands : i < j /\ Kind(j) = "read") ~> done
=============================================================================
