------------------------- MODULE ServerSessionProofs -------------------------
(***************************************************************************)
(* Proofs about ServerSession, for every set of streams, every number of   *)
(* commands in a stream and every channel size.                            *)
(***************************************************************************)
EXTENDS ServerSession, FiniteSetTheorems, TLAPS

-----------------------------------------------------------------------------
(* The parts of the inductive invariant. *)

Places == {"none", "reply", "start", "reading", "read", "grace", "mapping",
           "finish", "decremented", "loaded", "shutdown", "flush", "await", "over"}

\* What each channel can hold.
Messages == {<<"capabilities", 0>>, Syn} \union ({"reply", "warning"} \X Procs)
Lines == {"line"} \X Procs
Results == {"result"} \X Procs

InQueue(queue, message) == \E k \in 1 .. Len(queue) : queue[k] = message

TypeInv ==
    /\ stream \in Streams
    /\ sent \in Nat
    /\ wire \in Seq(Procs)
    /\ clientAck \in {"no", "offered", "sent"}
    /\ writer \in Procs \union {0}
    /\ pc \in [Procs -> Places]
    /\ activeCommands \in Int /\ pendingFiles \in Int
    /\ seenActive \in [Procs -> Int]
    /\ serverMessages \in Seq(Messages) /\ lines \in Seq(Lines) /\ maprMessages \in Seq(Results)
    /\ syns \in Nat
    /\ aggregate \in {"none", "open", "finished"}
    /\ clientDone \in BOOLEAN /\ done \in BOOLEAN /\ early \in BOOLEAN /\ hasty \in BOOLEAN

\* Frames on the wire are commands in flight, each once, and the ack at most once:
\* a frame that is there has no goroutine yet.
WireInv ==
    /\ sent <= Len(stream.kinds)
    /\ \A k \in 1 .. Len(wire) :
        /\ pc[wire[k]] = "none"
        /\ wire[k] \in 1 .. sent \/ (wire[k] = Ack /\ clientAck = "sent")
    /\ \A k, l \in 1 .. Len(wire) : wire[k] = wire[l] => k = l
    /\ \A j \in Procs : pc[j] # "none" => j \in 1 .. sent \/ (j = Ack /\ clientAck = "sent")

\* Where a command of a kind can be.
KindInv ==
    \A j \in Procs :
        /\ pc[j] = "mapping" => Kind(j) = "map"
        /\ pc[j] \in {"start", "reading", "read", "grace"} => Kind(j) = "read"
        /\ pc[j] = "reply" => Kind(j) \notin {"map", "read", "ack"}
        /\ (pc[j] # "none" /\ Kind(j) = "garbled") => pc[j] \in {"reply", "over"}
        /\ stream.handler = "health" => pc[j] \notin {"finish", "decremented", "loaded"}

Active == {j \in Procs : Unfinished(j) /\ Counted(j)}
Pending == {j \in Procs : pc[j] \in {"reading", "read"}}

\* The two counters count the commands that they are meant to count.
CountInv == activeCommands = Cardinality(Active) /\ pendingFiles = Cardinality(Pending)

Closing(i) == pc[i] \in {"shutdown", "flush", "await"}

\* Unless a command finished early, one that may end the session finished after
\* the last frame had arrived.
EarlyInv ==
    \A i \in Commands :
        (~early /\ (Closing(i) \/ (ShutdownOnCompletion(i) /\ pc[i] \in {"decremented", "loaded"}))) =>
            \A j \in Commands : pc[j] # "none"

NoneUnfinished == \A j \in Commands : Kind(j) # "garbled" => ~Unfinished(j)

\* A command that has loaded a zero saw every other command finished.
LoadInv ==
    \A i \in Commands :
        (~early /\ ShutdownOnCompletion(i) /\ pc[i] = "loaded" /\ seenActive[i] = 0) => NoneUnfinished

\* What a command past its output has produced is on its way or has arrived.
ProducedInv ==
    ~done => \A i \in Commands :
        /\ (Kind(i) = "map" /\ pc[i] \notin {"none", "mapping"}) =>
                <<"result", i>> \in delivered \/ InQueue(maprMessages, <<"result", i>>)
        /\ (Kind(i) = "unknown" /\ pc[i] \notin {"none", "reply"}) =>
                <<"reply", i>> \in delivered \/ InQueue(serverMessages, <<"reply", i>>)
        /\ i \in unmatched =>
                <<"warning", i>> \in delivered \/ InQueue(serverMessages, <<"warning", i>>)
        /\ (/\ Kind(i) = "read" /\ aggregate = "none" /\ i \notin unmatched
            /\ pc[i] \notin {"none", "start", "reading"}) =>
                <<"line", i>> \in delivered \/ InQueue(lines, <<"line", i>>)

AllDelivered ==
    \A i \in Commands :
        /\ Kind(i) = "map" => <<"result", i>> \in delivered
        /\ Kind(i) = "unknown" => <<"reply", i>> \in delivered
        /\ i \in unmatched => <<"warning", i>> \in delivered
        /\ (Kind(i) = "read" /\ aggregate = "none" /\ i \notin unmatched) =>
               <<"line", i>> \in delivered

\* Only reads give up.
UnmatchedInv == unmatched \subseteq Commands

\* The close is on its way: wanted, in the channel, or answered.
SynOnItsWay == syns > 0 \/ InQueue(serverMessages, Syn) \/ clientAck # "no"

AllOver == NoneUnfinished /\ \A j \in Commands : pc[j] # "none"

\* A close is on its way only after everything else has arrived, and then no read
\* is left that could still give up.
SynInv == (SynOnItsWay /\ ~hasty /\ ~early /\ ~done) => AllDelivered /\ AllOver

IInv ==
    /\ TypeInv /\ WireInv /\ KindInv /\ CountInv
    /\ EarlyInv /\ LoadInv /\ NoCommandCutOff
    /\ UnmatchedInv /\ ProducedInv /\ SynInv

-----------------------------------------------------------------------------
(* Facts about the constants and the queues. *)

LEMMA StreamFacts ==
    ASSUME TypeInv
    PROVE  /\ MaxCommands \in Nat /\ ChannelSize \in Nat \ {0}
           /\ Ack = MaxCommands + 1
           /\ stream.kinds \in Seq(Kinds) /\ Len(stream.kinds) \in 0 .. MaxCommands
           /\ Commands \subseteq Procs /\ Ack \in Procs /\ Ack \notin Commands
           /\ \A i \in Commands : Kind(i) = stream.kinds[i] /\ Kind(i) \in Kinds
           /\ Kind(Ack) = "ack"
           /\ stream.handler = "health" =>
                Commands = {1} /\ Kind(1) \notin {"read", "map"}
<1>1. /\ MaxCommands \in Nat /\ ChannelSize \in Nat \ {0}
      /\ stream.kinds \in Seq(Kinds) /\ Len(stream.kinds) <= MaxCommands
      /\ stream.handler = "health" => Len(stream.kinds) = 1 /\ stream.kinds[1] \notin {"read", "map"}
  BY StreamAssumption DEF TypeInv
<1>2. Len(stream.kinds) \in 0 .. MaxCommands /\ Ack = MaxCommands + 1
  BY <1>1 DEF Ack
<1>3. Commands \subseteq Procs /\ Ack \in Procs /\ Ack \notin Commands
  BY <1>1, <1>2 DEF Commands, Procs
<1>4. \A i \in Commands : Kind(i) = stream.kinds[i] /\ Kind(i) \in Kinds
  BY <1>1, <1>3 DEF Commands, Kind
<1>5. stream.handler = "health" => Commands = {1}
  <2>1. 1 .. 1 = {1}
    OBVIOUS
  <2> QED BY <1>1, <2>1 DEF Commands
<1> QED BY <1>1, <1>2, <1>3, <1>4, <1>5 DEF Kind

LEMMA QueueAppend ==
    ASSUME NEW S, NEW q \in Seq(S), NEW e \in S
    PROVE  /\ Append(q, e) \in Seq(S)
           /\ InQueue(Append(q, e), e)
           /\ \A m : InQueue(q, m) => InQueue(Append(q, e), m)
           /\ \A m : InQueue(Append(q, e), m) => m = e \/ InQueue(q, m)
<1>1. /\ Append(q, e) \in Seq(S) /\ Len(Append(q, e)) = Len(q) + 1
      /\ Append(q, e)[Len(q) + 1] = e
      /\ \A k \in 1 .. Len(q) : Append(q, e)[k] = q[k]
      /\ Len(q) \in Nat
  OBVIOUS
<1> QED BY <1>1 DEF InQueue

LEMMA QueueTail ==
    ASSUME NEW S, NEW q \in Seq(S), q # <<>>
    PROVE  /\ Tail(q) \in Seq(S) /\ Head(q) \in S
           /\ InQueue(q, Head(q))
           /\ \A m : InQueue(q, m) => m = Head(q) \/ InQueue(Tail(q), m)
           /\ \A m : InQueue(Tail(q), m) => InQueue(q, m)
<1>1. /\ Tail(q) \in Seq(S) /\ Head(q) \in S /\ Head(q) = q[1]
      /\ Len(q) \in Nat /\ Len(q) >= 1 /\ Len(Tail(q)) = Len(q) - 1
      /\ \A k \in 1 .. Len(q) - 1 : Tail(q)[k] = q[k + 1]
  OBVIOUS
<1>2. InQueue(q, Head(q))
  BY <1>1 DEF InQueue
<1>3. ASSUME NEW m, InQueue(q, m), m # Head(q) PROVE InQueue(Tail(q), m)
  <2>1. PICK k \in 1 .. Len(q) : q[k] = m
    BY <1>3 DEF InQueue
  <2>2. k # 1 /\ k - 1 \in 1 .. Len(q) - 1
    BY <2>1, <1>3, <1>1
  <2>3. Tail(q)[k - 1] = m
    BY <2>1, <2>2, <1>1
  <2> QED BY <2>2, <2>3, <1>1 DEF InQueue
<1>4. ASSUME NEW m, InQueue(Tail(q), m) PROVE InQueue(q, m)
  <2>1. PICK k \in 1 .. Len(q) - 1 : Tail(q)[k] = m
    BY <1>4, <1>1 DEF InQueue
  <2>2. k + 1 \in 1 .. Len(q) /\ q[k + 1] = m
    BY <2>1, <1>1
  <2> QED BY <2>2 DEF InQueue
<1> QED BY <1>1, <1>2, <1>3, <1>4

LEMMA FinitePlaces ==
    ASSUME TypeInv
    PROVE  /\ IsFiniteSet(Procs) /\ Cardinality(Procs) = Ack
           /\ IsFiniteSet(Active) /\ IsFiniteSet(Pending)
<1>1. Ack \in Nat /\ Ack >= 1
  BY StreamFacts
<1>2. IsFiniteSet(Procs) /\ Cardinality(Procs) = Ack
  BY <1>1, FS_Interval DEF Procs
<1> QED BY <1>2, FS_Subset DEF Active, Pending

-----------------------------------------------------------------------------
(* What a step does. *)

\* Steps of the client and the transport: no command moves.
Transport ==
    \/ SendMessage \/ AnswerSyn \/ UserCancels
    \/ ConnectionCloses \/ MonitorEnds \/ ServerlessReturns
    \/ Read \/ SendSyn \/ UNCHANGED vars

LEMMA TransportEffect ==
    Transport => UNCHANGED <<stream, writer, pc, counters, aggregate, history>>
<1> USE DEF vars, clientVars, counters, channels, history
<1>1. SendMessage \/ AnswerSyn \/ UserCancels \/ UNCHANGED vars
      => UNCHANGED <<stream, writer, pc, counters, aggregate, history>>
  BY DEF SendMessage, AnswerSyn, UserCancels
<1>2. ConnectionCloses \/ MonitorEnds \/ ServerlessReturns \/ SendSyn
      => UNCHANGED <<stream, writer, pc, counters, aggregate, history>>
  BY DEF ConnectionCloses, MonitorEnds, ServerlessReturns, SendSyn
<1>3. Read => UNCHANGED <<stream, writer, pc, counters, aggregate, history>>
  BY DEF Read, Receive
<1> QED BY <1>1, <1>2, <1>3 DEF Transport

\* A command's own step moves that command, and nothing of the client.
LEMMA CommandEffect ==
    ASSUME TypeInv, NEW i \in Procs, CommandStep(i)
    PROVE  /\ UNCHANGED <<stream, clientVars, wire, delivered>>
           /\ pc[i] # "none"
           /\ \E to \in Places \ {"none", "reply", "start", "mapping"} : pc' = [pc EXCEPT ![i] = to]
<1> DEFINE Goal == /\ UNCHANGED <<stream, clientVars, wire, delivered>>
                   /\ pc[i] # "none"
                   /\ \E to \in Places \ {"none", "reply", "start", "mapping"} :
                        pc' = [pc EXCEPT ![i] = to]
<1> USE DEF Step, Over, Places
<1>1. CASE Reply(i)
  BY <1>1 DEF Reply
<1>2. CASE StartRead(i) \/ GivesUp(i) \/ ReadFile(i)
  BY <1>2 DEF StartRead, GivesUp, ReadFile
<1>3. CASE FileProcessed(i)
  BY <1>3 DEF FileProcessed
<1>4. CASE MaybeFinishAggregateInput(i) \/ MapCommandReturns(i)
  BY <1>4 DEF MaybeFinishAggregateInput, MapCommandReturns
<1>5. CASE DecrementActiveCommands(i) \/ LoadActiveCommands(i)
  BY <1>5 DEF DecrementActiveCommands, LoadActiveCommands
<1>6. CASE CommandFinished(i)
  BY <1>6 DEF CommandFinished
<1>7. CASE Shutdown(i) \/ Flush(i) \/ CloseSession(i)
  BY <1>7 DEF Shutdown, Flush, CloseSession
<1> HIDE DEF Goal
<1> QED BY <1>1, <1>2, <1>3, <1>4, <1>5, <1>6, <1>7 DEF CommandStep, Goal

LEMMA NextSplit ==
    [Next]_vars => Transport \/ HandleCommand \/ FrameTooLong \/ \E i \in Procs : CommandStep(i)
  BY DEF Next, Transport

\* Only a read that gives up is added to the reads that matched nothing.
LEMMA UnmatchedMoves ==
    [Next]_vars =>
        \/ unmatched' = unmatched
        \/ \E i \in Procs : GivesUp(i) /\ pc[i] = "start" /\ unmatched' = unmatched \union {i}
<1> DEFINE Goal == \/ unmatched' = unmatched
                   \/ \E i \in Procs : /\ GivesUp(i) /\ pc[i] = "start"
                                       /\ unmatched' = unmatched \union {i}
<1> SUFFICES ASSUME [Next]_vars PROVE Goal
  OBVIOUS
<1> USE DEF history
<1>1. CASE Transport
  BY <1>1, TransportEffect
<1>2. CASE HandleCommand \/ FrameTooLong
  BY <1>2 DEF HandleCommand, FrameTooLong
<1>3. ASSUME NEW i \in Procs, CommandStep(i) PROVE Goal
  <2>1. CASE GivesUp(i)
    BY <2>1 DEF GivesUp, Step
  <2>2. CASE Reply(i) \/ StartRead(i) \/ ReadFile(i) \/ FileProcessed(i)
    BY <2>2 DEF Reply, StartRead, ReadFile, FileProcessed
  <2>3. CASE MaybeFinishAggregateInput(i) \/ MapCommandReturns(i)
    BY <2>3 DEF MaybeFinishAggregateInput, MapCommandReturns
  <2>4. CASE DecrementActiveCommands(i) \/ LoadActiveCommands(i) \/ CommandFinished(i)
    BY <2>4 DEF DecrementActiveCommands, LoadActiveCommands, CommandFinished
  <2>5. CASE Shutdown(i) \/ Flush(i) \/ CloseSession(i)
    BY <2>5 DEF Shutdown, Flush, CloseSession
  <2> HIDE DEF Goal
  <2> QED BY <1>3, <2>1, <2>2, <2>3, <2>4, <2>5 DEF CommandStep
<1> HIDE DEF Goal
<1> QED BY <1>1, <1>2, <1>3, NextSplit

\* Streams do not change, histories are never forgotten, a session that is done
\* stays done, an aggregate stays, and what has arrived has arrived.
LEMMA Monotone ==
    TypeInv /\ [Next]_vars =>
        /\ stream' = stream
        /\ early => early'
        /\ hasty => hasty'
        /\ done => done'
        /\ aggregate' = "none" => aggregate = "none"
        /\ delivered \subseteq delivered'
<1> DEFINE Goal == /\ stream' = stream
                   /\ early => early'
                   /\ hasty => hasty'
                   /\ done => done'
                   /\ aggregate' = "none" => aggregate = "none"
                   /\ delivered \subseteq delivered'
<1> SUFFICES ASSUME TypeInv, [Next]_vars PROVE Goal
  OBVIOUS
<1> USE DEF vars, clientVars, counters, channels, history, Over, Step
<1>1. CASE SendMessage \/ AnswerSyn \/ UserCancels \/ SendSyn \/ UNCHANGED vars
  BY <1>1 DEF SendMessage, AnswerSyn, UserCancels, SendSyn
<1>2. CASE ConnectionCloses \/ MonitorEnds \/ ServerlessReturns
  BY <1>2 DEF ConnectionCloses, MonitorEnds, ServerlessReturns
<1>3. CASE Read
  BY <1>3 DEF Read, Receive
<1>4. CASE HandleCommand \/ FrameTooLong
  BY <1>4 DEF HandleCommand, FrameTooLong
<1>5. ASSUME NEW i \in Procs, CommandStep(i) PROVE Goal
  <2>1. CASE Reply(i) \/ StartRead(i) \/ GivesUp(i) \/ ReadFile(i) \/ FileProcessed(i)
    BY <2>1 DEF Reply, StartRead, GivesUp, ReadFile, FileProcessed
  <2>2. CASE MaybeFinishAggregateInput(i) \/ MapCommandReturns(i)
    BY <2>2 DEF MaybeFinishAggregateInput, MapCommandReturns
  <2>3. CASE LoadActiveCommands(i) \/ CommandFinished(i)
    BY <2>3 DEF LoadActiveCommands, CommandFinished
  <2>4. CASE DecrementActiveCommands(i)
    <3>1. early => early'
      BY <2>4, Zenon DEF DecrementActiveCommands
    <3> QED BY <2>4, <3>1 DEF DecrementActiveCommands
  <2>5. CASE Shutdown(i) \/ CloseSession(i)
    BY <2>5 DEF Shutdown, CloseSession
  <2>6. CASE Flush(i)
    <3>1. hasty => hasty'
      BY <2>6, Zenon DEF Flush
    <3> QED BY <2>6, <3>1 DEF Flush
  <2> HIDE DEF Goal
  <2> QED BY <1>5, <2>1, <2>2, <2>3, <2>4, <2>5, <2>6 DEF CommandStep
<1> HIDE DEF Goal
<1> QED BY <1>1, <1>2, <1>3, <1>4, <1>5, NextSplit DEF Transport

-----------------------------------------------------------------------------
(* Every step preserves every part of the invariant. *)

\* The frame that Write takes is a command or the ack, and has not been seen.
LEMMA HeadOfWire ==
    ASSUME TypeInv, WireInv, wire # <<>>
    PROVE  /\ Head(wire) \in Procs /\ pc[Head(wire)] = "none"
           /\ Head(wire) \in Commands \/ (Head(wire) = Ack /\ clientAck = "sent")
           /\ Head(wire) \in 1 .. sent \/ (Head(wire) = Ack /\ clientAck = "sent")
<1>1. /\ wire \in Seq(Procs) /\ Len(wire) \in Nat /\ Len(wire) >= 1 /\ Head(wire) = wire[1]
      /\ Head(wire) \in Procs /\ 1 \in 1 .. Len(wire)
  BY DEF TypeInv
<1>2. /\ pc[wire[1]] = "none" /\ sent <= Len(stream.kinds)
      /\ wire[1] \in 1 .. sent \/ (wire[1] = Ack /\ clientAck = "sent")
  BY <1>1 DEF WireInv
<1>3. 1 .. sent \subseteq Commands
  BY <1>2, StreamFacts DEF Commands, TypeInv
<1> QED BY <1>1, <1>2, <1>3

\* Where a frame starts.
LEMMA EntryPlace ==
    ASSUME NEW i
    PROVE  /\ Entry(i) \in {"start", "mapping", "shutdown", "finish", "reply"}
           /\ Entry(i) = "start" <=> Kind(i) = "read"
           /\ Entry(i) = "mapping" <=> Kind(i) = "map"
           /\ Entry(i) = "reply" <=> Kind(i) \notin {"read", "map", "ack"}
           /\ Entry(i) = "finish" <=> Kind(i) = "ack" /\ stream.handler # "health"
           /\ Entry(i) = "shutdown" <=> Kind(i) = "ack" /\ stream.handler = "health"
  BY DEF Entry

LEMMA PcStep ==
    TypeInv /\ WireInv /\ [Next]_vars => pc' \in [Procs -> Places]
<1> SUFFICES ASSUME TypeInv, WireInv, [Next]_vars PROVE pc' \in [Procs -> Places]
  OBVIOUS
<1>0. pc \in [Procs -> Places]
  BY DEF TypeInv
<1>1. CASE Transport
  BY <1>0, <1>1, TransportEffect
<1>2. CASE HandleCommand
  <2>1. Entry(Head(wire)) \in Places /\ Head(wire) \in Procs
    BY <1>2, EntryPlace, HeadOfWire DEF Places, HandleCommand
  <2> QED BY <1>0, <1>2, <2>1 DEF HandleCommand
<1>3. CASE FrameTooLong
  BY <1>0, <1>3 DEF Places, FrameTooLong
<1>4. ASSUME NEW i \in Procs, CommandStep(i) PROVE pc' \in [Procs -> Places]
  BY <1>0, <1>4, CommandEffect
<1> QED BY <1>1, <1>2, <1>3, <1>4, NextSplit

LEMMA ChannelStep ==
    TypeInv /\ WireInv /\ [Next]_vars =>
        serverMessages' \in Seq(Messages) /\ lines' \in Seq(Lines) /\ maprMessages' \in Seq(Results)
<1> DEFINE Goal == serverMessages' \in Seq(Messages) /\ lines' \in Seq(Lines)
                   /\ maprMessages' \in Seq(Results)
<1> SUFFICES ASSUME TypeInv, WireInv, [Next]_vars PROVE Goal
  OBVIOUS
<1>0. serverMessages \in Seq(Messages) /\ lines \in Seq(Lines) /\ maprMessages \in Seq(Results)
  BY DEF TypeInv
<1> USE DEF vars, clientVars, counters, channels, history, Send
<1>1. CASE SendMessage \/ AnswerSyn \/ UserCancels \/ UNCHANGED vars
  BY <1>0, <1>1 DEF SendMessage, AnswerSyn, UserCancels
<1>2. CASE ConnectionCloses \/ MonitorEnds \/ ServerlessReturns \/ HandleCommand \/ FrameTooLong
  BY <1>0, <1>2 DEF ConnectionCloses, MonitorEnds, ServerlessReturns, HandleCommand, FrameTooLong
<1>3. CASE Read
  <2>1. /\ serverMessages # <<>> => Tail(serverMessages) \in Seq(Messages)
        /\ lines # <<>> => Tail(lines) \in Seq(Lines)
        /\ maprMessages # <<>> => Tail(maprMessages) \in Seq(Results)
    BY <1>0, QueueTail
  <2> QED BY <1>0, <1>3, <2>1 DEF Read
<1>4. CASE SendSyn
  <2>1. Append(serverMessages, Syn) \in Seq(Messages)
    BY <1>0, QueueAppend DEF Messages
  <2> QED BY <1>0, <1>4, <2>1 DEF SendSyn
<1>5. ASSUME NEW i \in Procs, CommandStep(i) PROVE Goal
  <2>0. /\ Append(serverMessages, <<"reply", i>>) \in Seq(Messages)
        /\ Append(serverMessages, <<"warning", i>>) \in Seq(Messages)
        /\ Append(lines, <<"line", i>>) \in Seq(Lines)
        /\ Append(maprMessages, <<"result", i>>) \in Seq(Results)
    BY <1>0, QueueAppend DEF Messages, Lines, Results
  <2>1. CASE Reply(i) \/ GivesUp(i) \/ ReadFile(i) \/ MapCommandReturns(i)
    BY <1>0, <2>0, <2>1 DEF Reply, GivesUp, ReadFile, MapCommandReturns
  <2>2. CASE StartRead(i) \/ FileProcessed(i) \/ MaybeFinishAggregateInput(i) \/ CloseSession(i)
    BY <1>0, <2>2 DEF StartRead, FileProcessed, MaybeFinishAggregateInput, CloseSession
  <2>3. CASE DecrementActiveCommands(i) \/ LoadActiveCommands(i) \/ CommandFinished(i)
    BY <1>0, <2>3 DEF DecrementActiveCommands, LoadActiveCommands, CommandFinished
  <2>4. CASE Shutdown(i) \/ Flush(i)
    BY <1>0, <2>4 DEF Shutdown, Flush
  <2> HIDE DEF Goal
  <2> QED BY <1>5, <2>1, <2>2, <2>3, <2>4 DEF CommandStep
<1> HIDE DEF Goal
<1> QED BY <1>1, <1>2, <1>3, <1>4, <1>5, NextSplit DEF Transport

LEMMA ClientStep ==
    TypeInv /\ WireInv /\ [Next]_vars =>
        /\ sent' \in Nat /\ sent' <= Len(stream'.kinds)
        /\ clientAck' \in {"no", "offered", "sent"}
        /\ clientDone' \in BOOLEAN
        /\ done' \in BOOLEAN
        /\ syns' \in Nat
<1> DEFINE Goal == /\ sent' \in Nat /\ sent' <= Len(stream'.kinds)
                   /\ clientAck' \in {"no", "offered", "sent"}
                   /\ clientDone' \in BOOLEAN
                   /\ done' \in BOOLEAN
                   /\ syns' \in Nat
<1> SUFFICES ASSUME TypeInv, WireInv, [Next]_vars PROVE Goal
  OBVIOUS
<1>0. /\ sent \in Nat /\ sent <= Len(stream.kinds) /\ Len(stream.kinds) \in Nat
      /\ clientAck \in {"no", "offered", "sent"}
      /\ clientDone \in BOOLEAN /\ done \in BOOLEAN /\ syns \in Nat
  BY StreamFacts DEF TypeInv, WireInv
<1>00. stream' = stream
  BY Monotone
<1> USE DEF vars, clientVars, counters, channels, history, Over
<1>1. CASE SendMessage
  <2>1. sent' = sent + 1 /\ sent < Len(stream.kinds)
    BY <1>1 DEF SendMessage
  <2>2. sent' \in Nat /\ sent' <= Len(stream'.kinds)
    BY <1>0, <1>00, <2>1
  <2> QED BY <1>0, <1>1, <2>2 DEF SendMessage
<1>11. CASE AnswerSyn \/ UserCancels \/ UNCHANGED vars
  BY <1>0, <1>00, <1>11 DEF AnswerSyn, UserCancels
<1>2. CASE ConnectionCloses \/ MonitorEnds \/ ServerlessReturns \/ HandleCommand \/ FrameTooLong
  BY <1>0, <1>00, <1>2
     DEF ConnectionCloses, MonitorEnds, ServerlessReturns, HandleCommand, FrameTooLong
<1>3. CASE Read
  BY <1>0, <1>00, <1>3 DEF Read, Receive
<1>4. CASE SendSyn
  BY <1>0, <1>00, <1>4 DEF SendSyn
<1>5. ASSUME NEW i \in Procs, CommandStep(i) PROVE Goal
  <2>1. CASE Reply(i) \/ ReadFile(i) \/ MapCommandReturns(i)
    BY <1>0, <1>00, <2>1 DEF Reply, ReadFile, MapCommandReturns
  <2>2. CASE StartRead(i) \/ GivesUp(i) \/ FileProcessed(i) \/ MaybeFinishAggregateInput(i) \/ CloseSession(i)
    BY <1>0, <1>00, <2>2 DEF StartRead, GivesUp, FileProcessed, MaybeFinishAggregateInput, CloseSession
  <2>3. CASE DecrementActiveCommands(i) \/ LoadActiveCommands(i) \/ CommandFinished(i)
    BY <1>0, <1>00, <2>3 DEF DecrementActiveCommands, LoadActiveCommands, CommandFinished
  <2>4. CASE Shutdown(i) \/ Flush(i)
    BY <1>0, <1>00, <2>4 DEF Shutdown, Flush
  <2> HIDE DEF Goal
  <2> QED BY <1>5, <2>1, <2>2, <2>3, <2>4 DEF CommandStep
<1> HIDE DEF Goal
<1> QED BY <1>1, <1>11, <1>2, <1>3, <1>4, <1>5, NextSplit DEF Transport

LEMMA ServerStep ==
    TypeInv /\ WireInv /\ [Next]_vars =>
        /\ writer' \in Procs \union {0}
        /\ activeCommands' \in Int /\ pendingFiles' \in Int
        /\ seenActive' \in [Procs -> Int]
        /\ aggregate' \in {"none", "open", "finished"}
        /\ early' \in BOOLEAN /\ hasty' \in BOOLEAN
<1> DEFINE Goal == /\ writer' \in Procs \union {0}
                   /\ activeCommands' \in Int /\ pendingFiles' \in Int
                   /\ seenActive' \in [Procs -> Int]
                   /\ aggregate' \in {"none", "open", "finished"}
                   /\ early' \in BOOLEAN /\ hasty' \in BOOLEAN
<1> SUFFICES ASSUME TypeInv, WireInv, [Next]_vars PROVE Goal
  OBVIOUS
<1>0. /\ writer \in Procs \union {0}
      /\ activeCommands \in Int /\ pendingFiles \in Int
      /\ seenActive \in [Procs -> Int]
      /\ aggregate \in {"none", "open", "finished"}
      /\ early \in BOOLEAN /\ hasty \in BOOLEAN
  BY DEF TypeInv
<1> USE DEF counters, history, Over
<1>1. CASE Transport
  BY <1>0, <1>1, TransportEffect
<1>2. CASE HandleCommand
  <2>1. Head(wire) \in Procs
    BY <1>2, HeadOfWire DEF HandleCommand
  <2> QED BY <1>0, <1>2, <2>1 DEF HandleCommand
<1>3. CASE FrameTooLong
  BY <1>0, <1>3 DEF FrameTooLong
<1>4. ASSUME NEW i \in Procs, CommandStep(i) PROVE Goal
  <2>1. CASE Reply(i) \/ ReadFile(i) \/ MapCommandReturns(i)
    BY <1>0, <2>1 DEF Reply, ReadFile, MapCommandReturns
  <2>2. CASE StartRead(i) \/ GivesUp(i) \/ FileProcessed(i) \/ MaybeFinishAggregateInput(i) \/ CloseSession(i)
    BY <1>0, <2>2 DEF StartRead, GivesUp, FileProcessed, MaybeFinishAggregateInput, CloseSession
  <2>3. CASE LoadActiveCommands(i) \/ CommandFinished(i)
    BY <1>0, <2>3 DEF LoadActiveCommands, CommandFinished
  <2>4. CASE DecrementActiveCommands(i)
    <3>1. early' \in BOOLEAN
      BY <2>4, Zenon DEF DecrementActiveCommands
    <3> QED BY <1>0, <2>4, <3>1 DEF DecrementActiveCommands
  <2>5. CASE Shutdown(i)
    BY <1>0, <2>5 DEF Shutdown
  <2>6. CASE Flush(i)
    <3>1. hasty' \in BOOLEAN
      BY <2>6, Zenon DEF Flush
    <3> QED BY <1>0, <2>6, <3>1 DEF Flush
  <2> HIDE DEF Goal
  <2> QED BY <1>4, <2>1, <2>2, <2>3, <2>4, <2>5, <2>6 DEF CommandStep
<1> HIDE DEF Goal
<1> QED BY <1>1, <1>2, <1>3, <1>4, NextSplit

LEMMA WireStep ==
    TypeInv /\ WireInv /\ [Next]_vars => wire' \in Seq(Procs) /\ WireInv'
<1> DEFINE Goal == wire' \in Seq(Procs) /\ WireInv'
<1> SUFFICES ASSUME TypeInv, WireInv, [Next]_vars PROVE Goal
  OBVIOUS
<1>0. /\ wire \in Seq(Procs) /\ Len(wire) \in Nat /\ sent \in Nat
      /\ sent <= Len(stream.kinds) /\ Len(stream.kinds) \in 0 .. MaxCommands
      /\ MaxCommands \in Nat /\ Ack = MaxCommands + 1 /\ Ack \in Procs
      /\ pc \in [Procs -> Places]
      /\ sent' <= Len(stream'.kinds)
      /\ stream' = stream
  BY StreamFacts, ClientStep, Monotone DEF TypeInv, WireInv
<1>00. /\ \A k \in 1 .. Len(wire) :
            /\ pc[wire[k]] = "none"
            /\ wire[k] \in 1 .. sent \/ (wire[k] = Ack /\ clientAck = "sent")
       /\ \A k, l \in 1 .. Len(wire) : wire[k] = wire[l] => k = l
       /\ \A j \in Procs : pc[j] # "none" => j \in 1 .. sent \/ (j = Ack /\ clientAck = "sent")
  BY DEF WireInv
<1>1. CASE UNCHANGED <<wire, pc, sent>> /\ (clientAck = "sent" => clientAck' = "sent")
  BY <1>0, <1>00, <1>1 DEF WireInv
<1>2. ASSUME NEW e \in Procs, wire' = Append(wire, e), UNCHANGED pc,
             pc[e] = "none", \A k \in 1 .. Len(wire) : wire[k] # e,
             sent' \in Nat, sent' >= sent, clientAck = "sent" => clientAck' = "sent",
             e \in 1 .. sent' \/ (e = Ack /\ clientAck' = "sent")
      PROVE  Goal
  <2>1. /\ wire' \in Seq(Procs) /\ Len(wire') = Len(wire) + 1
        /\ wire'[Len(wire) + 1] = e
        /\ \A k \in 1 .. Len(wire) : wire'[k] = wire[k]
    BY <1>0, <1>2
  <2>2. \A k \in 1 .. Len(wire') : k \in 1 .. Len(wire) \/ k = Len(wire) + 1
    BY <1>0, <2>1
  <2>3. 1 .. sent \subseteq 1 .. sent'
    BY <1>0, <1>2
  <2>4. \A k \in 1 .. Len(wire') :
            /\ pc'[wire'[k]] = "none"
            /\ wire'[k] \in 1 .. sent' \/ (wire'[k] = Ack /\ clientAck' = "sent")
    <3>1. ASSUME NEW k \in 1 .. Len(wire)
          PROVE  /\ pc'[wire'[k]] = "none"
                 /\ wire'[k] \in 1 .. sent' \/ (wire'[k] = Ack /\ clientAck' = "sent")
      BY <1>00, <1>2, <2>1, <2>3
    <3> QED BY <1>2, <2>1, <2>2, <3>1
  <2>5. \A k, l \in 1 .. Len(wire') : wire'[k] = wire'[l] => k = l
    BY <1>00, <1>2, <2>1, <2>2
  <2>6. \A j \in Procs : pc'[j] # "none" => j \in 1 .. sent' \/ (j = Ack /\ clientAck' = "sent")
    BY <1>00, <1>2, <2>3
  <2> QED BY <1>0, <2>1, <2>4, <2>5, <2>6 DEF WireInv
<1>3. CASE SendMessage
  <2>1. /\ wire' = Append(wire, sent + 1) /\ sent' = sent + 1 /\ sent < Len(stream.kinds)
        /\ UNCHANGED <<pc, clientAck>>
    BY <1>3 DEF SendMessage
  <2>2. /\ sent + 1 \in Procs /\ sent + 1 \notin 1 .. sent /\ sent + 1 # Ack
        /\ sent' \in Nat /\ sent' >= sent /\ sent + 1 \in 1 .. sent'
    BY <1>0, <2>1 DEF Procs
  <2>3. pc[sent + 1] = "none" /\ \A k \in 1 .. Len(wire) : wire[k] # sent + 1
    BY <1>00, <2>2
  <2> QED BY <1>2, <2>1, <2>2, <2>3
<1>4. CASE AnswerSyn
  <2>1. clientAck = "offered" /\ UNCHANGED <<pc, sent>>
    BY <1>4 DEF AnswerSyn
  <2>2. Ack \notin 1 .. sent
    BY <1>0
  <2>3. pc[Ack] = "none" /\ \A k \in 1 .. Len(wire) : wire[k] # Ack
    BY <1>0, <1>00, <2>1, <2>2
  <2>4. CASE wire' = Append(wire, Ack) /\ clientAck' = "sent"
    BY <1>0, <1>2, <2>1, <2>3, <2>4
  <2>5. CASE UNCHANGED wire
    BY <1>1, <2>1, <2>5
  <2> QED BY <1>4, <2>4, <2>5 DEF AnswerSyn
<1>5. CASE UserCancels \/ ConnectionCloses \/ MonitorEnds \/ ServerlessReturns \/ SendSyn
           \/ UNCHANGED vars
  <2>1. UNCHANGED <<wire, pc, sent, clientAck>>
    BY <1>5 DEF UserCancels, ConnectionCloses, MonitorEnds, ServerlessReturns, SendSyn, vars,
                clientVars
  <2> QED BY <1>1, <2>1
<1>6. CASE Read
  BY <1>1, <1>6 DEF Read, Receive
<1>7. CASE HandleCommand \/ FrameTooLong
  <2>1. /\ wire # <<>> /\ wire' = Tail(wire) /\ UNCHANGED <<sent, clientAck>>
        /\ \E to : pc' = [pc EXCEPT ![Head(wire)] = to]
    BY <1>7 DEF HandleCommand, FrameTooLong, clientVars
  <2>2. PICK to : pc' = [pc EXCEPT ![Head(wire)] = to]
    BY <2>1
  <2>3. /\ wire' \in Seq(Procs) /\ Len(wire) >= 1 /\ Len(wire') = Len(wire) - 1
        /\ Head(wire) = wire[1]
        /\ \A k \in 1 .. Len(wire') : wire'[k] = wire[k + 1] /\ k + 1 \in 1 .. Len(wire)
    BY <1>0, <2>1
  <2>4. \A k \in 1 .. Len(wire') : wire'[k] \in Procs /\ wire'[k] # Head(wire)
    BY <1>0, <1>00, <2>3
  <2>5. \A k \in 1 .. Len(wire') : pc'[wire'[k]] = pc[wire[k + 1]]
    BY <1>0, <2>2, <2>3, <2>4
  <2>6. \A k \in 1 .. Len(wire') :
            /\ pc'[wire'[k]] = "none"
            /\ wire'[k] \in 1 .. sent' \/ (wire'[k] = Ack /\ clientAck' = "sent")
    BY <1>00, <2>1, <2>3, <2>5
  <2>7. \A k, l \in 1 .. Len(wire') : wire'[k] = wire'[l] => k = l
    <3> SUFFICES ASSUME NEW k \in 1 .. Len(wire'), NEW l \in 1 .. Len(wire'), wire'[k] = wire'[l]
                 PROVE  k = l
      OBVIOUS
    <3>0. k + 1 \in 1 .. Len(wire) /\ l + 1 \in 1 .. Len(wire) /\ wire[k + 1] = wire[l + 1]
      BY <2>3
    <3>1. k + 1 = l + 1
      BY <1>00, <3>0, Zenon
    <3> QED BY <3>1
  <2>8. \A j \in Procs : pc'[j] # "none" => j \in 1 .. sent' \/ (j = Ack /\ clientAck' = "sent")
    BY <1>0, <1>00, <2>1, <2>2, HeadOfWire
  <2> QED BY <1>0, <2>3, <2>6, <2>7, <2>8 DEF WireInv
<1>8. ASSUME NEW i \in Procs, CommandStep(i) PROVE Goal
  <2>1. /\ UNCHANGED <<wire, sent, clientAck>> /\ pc[i] # "none"
        /\ \E to \in Places \ {"none", "reply", "start", "mapping"} : pc' = [pc EXCEPT ![i] = to]
    BY <1>8, CommandEffect DEF clientVars
  <2>2. PICK to : pc' = [pc EXCEPT ![i] = to]
    BY <2>1
  <2>3. \A j \in Procs : j # i => pc'[j] = pc[j]
    BY <1>0, <2>2
  <2>4. \A k \in 1 .. Len(wire) : wire[k] \in Procs /\ wire[k] # i
    BY <1>0, <1>00, <2>1
  <2>5. \A j \in Procs : pc'[j] # "none" => pc[j] # "none"
    BY <2>1, <2>3
  <2> QED BY <1>0, <1>00, <2>1, <2>3, <2>4, <2>5 DEF WireInv
<1> HIDE DEF Goal
<1> QED BY <1>3, <1>4, <1>5, <1>6, <1>7, <1>8, NextSplit DEF Transport

LEMMA TypeStep == TypeInv /\ WireInv /\ [Next]_vars => TypeInv'
  BY PcStep, ChannelStep, ClientStep, ServerStep, WireStep, Monotone DEF TypeInv

LEMMA KindStep == TypeInv /\ WireInv /\ KindInv /\ [Next]_vars => KindInv'
<1> DEFINE Fits(j) ==
        /\ pc[j] = "mapping" => Kind(j) = "map"
        /\ pc[j] \in {"start", "reading", "read", "grace"} => Kind(j) = "read"
        /\ pc[j] = "reply" => Kind(j) \notin {"map", "read", "ack"}
        /\ (pc[j] # "none" /\ Kind(j) = "garbled") => pc[j] \in {"reply", "over"}
        /\ stream.handler = "health" => pc[j] \notin {"finish", "decremented", "loaded"}
<1> SUFFICES ASSUME TypeInv, WireInv, KindInv, [Next]_vars PROVE \A j \in Procs : Fits(j)'
  BY DEF KindInv
<1>0. pc \in [Procs -> Places] /\ stream' = stream /\ \A j : Kind(j)' = Kind(j)
  BY Monotone DEF TypeInv, Kind
<1>1. \A j \in Procs : Fits(j)
  BY DEF KindInv
<1>2. ASSUME NEW i \in Procs, NEW to, pc' = [pc EXCEPT ![i] = to], Fits(i)' PROVE \A j \in Procs : Fits(j)'
  <2>1. \A j \in Procs : j # i => pc'[j] = pc[j]
    BY <1>0, <1>2
  <2> QED BY <1>0, <1>1, <1>2, <2>1
<1>3. CASE Transport
  BY <1>0, <1>1, <1>3, TransportEffect
<1>4. CASE HandleCommand
  <2>1. PICK i \in Procs : pc' = [pc EXCEPT ![i] = Entry(i)]
    BY <1>4, HeadOfWire DEF HandleCommand
  <2>2. pc'[i] = Entry(i)
    BY <1>0, <2>1
  <2>3. Fits(i)'
    BY <1>0, <2>2, EntryPlace
  <2> QED BY <1>2, <2>1, <2>3
<1>5. CASE FrameTooLong
  <2>1. PICK i \in Procs : pc' = [pc EXCEPT ![i] = "over"]
    BY <1>5, HeadOfWire DEF FrameTooLong
  <2>2. pc'[i] = "over"
    BY <1>0, <2>1
  <2>3. Fits(i)'
    BY <2>2
  <2> QED BY <1>2, <2>1, <2>3
<1>6. ASSUME NEW i \in Procs, CommandStep(i) PROVE \A j \in Procs : Fits(j)'
  <2>1. PICK to \in Places : pc' = [pc EXCEPT ![i] = to]
    BY <1>6, CommandEffect
  <2>2. pc'[i] = to /\ i \in Procs
    BY <1>0, <2>1
  <2>3. Fits(i)'
    <3> USE DEF Step, Over
    <3>0. Fits(i) /\ Kind(i)' = Kind(i) /\ stream' = stream
      BY <1>0, <1>1
    <3>00. stream.handler = "health" => Kind(i) \notin {"read", "map"}
      <4>1. pc[i] # "none" /\ (i \in 1 .. sent \/ i = Ack) /\ sent <= Len(stream.kinds)
        BY <1>6, CommandEffect DEF WireInv
      <4>2. i \in Commands \/ i = Ack
        BY <4>1, StreamFacts DEF Commands, TypeInv
      <4> QED BY <4>2, StreamFacts
    <3>1. CASE Reply(i)
      BY <1>0, <2>2, <3>0, <3>00, <3>1 DEF Reply
    <3>2. CASE StartRead(i) \/ GivesUp(i) \/ ReadFile(i)
      BY <1>0, <2>2, <3>0, <3>00, <3>2 DEF StartRead, GivesUp, ReadFile
    <3>3. CASE FileProcessed(i)
      BY <1>0, <2>2, <3>0, <3>00, <3>3 DEF FileProcessed
    <3>4. CASE MaybeFinishAggregateInput(i) \/ MapCommandReturns(i)
      BY <1>0, <2>2, <3>0, <3>00, <3>4 DEF MaybeFinishAggregateInput, MapCommandReturns
    <3>5. CASE DecrementActiveCommands(i) \/ LoadActiveCommands(i)
      BY <1>0, <2>2, <3>0, <3>5 DEF DecrementActiveCommands, LoadActiveCommands
    <3>6. CASE CommandFinished(i)
      BY <1>0, <2>2, <3>0, <3>6 DEF CommandFinished
    <3>7. CASE Shutdown(i) \/ Flush(i) \/ CloseSession(i)
      BY <1>0, <2>2, <3>0, <3>7 DEF Shutdown, Flush, CloseSession
    <3> HIDE DEF Fits
    <3> QED BY <1>6, <3>1, <3>2, <3>3, <3>4, <3>5, <3>6, <3>7 DEF CommandStep
  <2> QED BY <1>2, <2>1, <2>3
<1> HIDE DEF Fits
<1> QED BY <1>3, <1>4, <1>5, <1>6, NextSplit

LEMMA CountStep ==
    TypeInv /\ WireInv /\ KindInv /\ CountInv /\ [Next]_vars => CountInv'
<1> SUFFICES ASSUME TypeInv, WireInv, KindInv, CountInv, [Next]_vars PROVE CountInv'
  OBVIOUS
<1>0. /\ pc \in [Procs -> Places] /\ stream' = stream
      /\ \A j : Kind(j)' = Kind(j) /\ Counted(j)' = Counted(j)
      /\ activeCommands = Cardinality(Active) /\ pendingFiles = Cardinality(Pending)
      /\ IsFiniteSet(Active) /\ IsFiniteSet(Pending)
  BY Monotone, FinitePlaces DEF TypeInv, Kind, Counted, CountInv
<1>1. /\ \A i : i \notin Active => Cardinality(Active \union {i}) = Cardinality(Active) + 1
      /\ \A i : i \in Active => Cardinality(Active \ {i}) = Cardinality(Active) - 1
      /\ \A i : i \notin Pending => Cardinality(Pending \union {i}) = Cardinality(Pending) + 1
      /\ \A i : i \in Pending => Cardinality(Pending \ {i}) = Cardinality(Pending) - 1
  BY <1>0, FS_AddElement, FS_RemoveElement
<1> DEFINE IsPending(i) == pc[i] \in {"reading", "read"}
<1>2. ASSUME NEW i \in Procs, NEW to, pc' = [pc EXCEPT ![i] = to]
      PROVE  /\ pc'[i] = to
             /\ (Unfinished(i)' <=> Unfinished(i)) \/ ~Counted(i) => Active' = Active
             /\ Unfinished(i)' /\ Counted(i) => Active' = Active \union {i}
             /\ ~Unfinished(i)' => Active' = Active \ {i}
             /\ (IsPending(i)' <=> IsPending(i)) => Pending' = Pending
             /\ IsPending(i)' => Pending' = Pending \union {i}
             /\ ~IsPending(i)' => Pending' = Pending \ {i}
  <2>1. pc'[i] = to /\ \A j \in Procs : j # i => pc'[j] = pc[j]
    BY <1>0, <1>2
  <2>2. \A j \in Procs : j # i => (j \in Active' <=> j \in Active) /\ (j \in Pending' <=> j \in Pending)
    BY <1>0, <2>1 DEF Active, Pending, Unfinished
  <2>3. /\ i \in Active' <=> Unfinished(i)' /\ Counted(i)
        /\ i \in Active <=> Unfinished(i) /\ Counted(i)
        /\ i \in Pending' <=> IsPending(i)'
        /\ i \in Pending <=> IsPending(i)
    BY <1>0 DEF Active, Pending
  <2>4. \A j : (j \in Active \/ j \in Active' \/ j \in Pending \/ j \in Pending') => j \in Procs
    BY DEF Active, Pending
  <2> HIDE DEF IsPending
  <2> QED BY <2>1, <2>2, <2>3, <2>4
<1>3. CASE Transport
  <2>1. UNCHANGED <<pc, activeCommands, pendingFiles>>
    BY <1>3, TransportEffect DEF counters
  <2>2. Active' = Active /\ Pending' = Pending
    BY <1>0, <2>1 DEF Active, Pending, Unfinished
  <2> QED BY <1>0, <2>1, <2>2 DEF CountInv
<1>4. CASE HandleCommand
  <2>1. PICK i \in Procs :
            /\ pc[i] = "none" /\ pc' = [pc EXCEPT ![i] = Entry(i)]
            /\ activeCommands' = (IF Counted(i) THEN activeCommands + 1 ELSE activeCommands)
            /\ pendingFiles' = pendingFiles
    BY <1>4, HeadOfWire DEF HandleCommand
  <2>2. ~Unfinished(i) /\ ~IsPending(i) /\ ~IsPending(i)' /\ pc'[i] = Entry(i)
    BY <1>0, <2>1, EntryPlace DEF Unfinished
  <2>3. Counted(i) => Unfinished(i)'
    BY <2>2, EntryPlace DEF Unfinished, Counted
  <2>4. Pending' = Pending /\ (Counted(i) => Active' = Active \union {i})
        /\ (~Counted(i) => Active' = Active)
    BY <1>2, <2>1, <2>2, <2>3
  <2>5. i \notin Active
    BY <2>2 DEF Active
  <2> QED BY <1>0, <1>1, <2>1, <2>4, <2>5 DEF CountInv
<1>5. CASE FrameTooLong
  <2>1. PICK i \in Procs :
            /\ pc[i] = "none" /\ pc' = [pc EXCEPT ![i] = "over"]
            /\ UNCHANGED <<activeCommands, pendingFiles>>
    BY <1>5, HeadOfWire DEF FrameTooLong, counters
  <2>2. pc'[i] = "over"
    BY <1>2, <2>1
  <2>3. ~Unfinished(i) /\ ~Unfinished(i)' /\ ~IsPending(i) /\ ~IsPending(i)'
    BY <2>1, <2>2 DEF Unfinished
  <2>4. Active' = Active /\ Pending' = Pending
    BY <1>2, <2>1, <2>3
  <2> QED BY <1>0, <2>1, <2>4 DEF CountInv
<1>6. ASSUME NEW i \in Procs, CommandStep(i) PROVE CountInv'
  <2>1. PICK to \in Places : pc' = [pc EXCEPT ![i] = to]
    BY <1>6, CommandEffect
  <2>2. /\ pc'[i] = to
        /\ (Unfinished(i)' <=> Unfinished(i)) \/ ~Counted(i) => Active' = Active
        /\ Unfinished(i)' /\ Counted(i) => Active' = Active \union {i}
        /\ ~Unfinished(i)' => Active' = Active \ {i}
        /\ (IsPending(i)' <=> IsPending(i)) => Pending' = Pending
        /\ IsPending(i)' => Pending' = Pending \union {i}
        /\ ~IsPending(i)' => Pending' = Pending \ {i}
    BY <1>2, <2>1
  <2> USE DEF Step, Over, counters
  <2>3. CASE Reply(i)
    <3>1. UNCHANGED <<activeCommands, pendingFiles>> /\ ~IsPending(i) /\ ~IsPending(i)'
      BY <1>0, <2>3 DEF Reply
    <3>2. (Unfinished(i)' <=> Unfinished(i)) \/ ~Counted(i)
      BY <1>0, <2>3 DEF Reply, Unfinished, Counted
    <3> QED BY <1>0, <2>2, <3>1, <3>2 DEF CountInv
  <2>4. CASE StartRead(i)
    <3>1. /\ activeCommands' = activeCommands /\ pendingFiles' = pendingFiles + 1
          /\ ~IsPending(i) /\ IsPending(i)' /\ Unfinished(i) /\ Unfinished(i)'
      BY <1>0, <2>4 DEF StartRead, Unfinished
    <3>2. i \notin Pending
      BY <3>1 DEF Pending
    <3> QED BY <1>0, <1>1, <2>2, <3>1, <3>2 DEF CountInv
  <2>5. CASE FileProcessed(i)
    <3>1. /\ activeCommands' = activeCommands /\ pendingFiles' = pendingFiles - 1
          /\ IsPending(i) /\ ~IsPending(i)' /\ Unfinished(i) /\ Unfinished(i)'
      BY <1>0, <2>5 DEF FileProcessed, Unfinished
    <3>2. i \in Pending
      BY <3>1 DEF Pending
    <3> QED BY <1>0, <1>1, <2>2, <3>1, <3>2 DEF CountInv
  <2>6. CASE DecrementActiveCommands(i)
    <3>1. /\ activeCommands' = activeCommands - 1 /\ pendingFiles' = pendingFiles
          /\ ~IsPending(i) /\ ~IsPending(i)' /\ Unfinished(i) /\ ~Unfinished(i)'
          /\ pc[i] = "finish"
      BY <1>0, <2>6 DEF DecrementActiveCommands, Unfinished
    <3>2. i \in Active
      BY <3>1 DEF Active, KindInv, Counted
    <3> QED BY <1>0, <1>1, <2>2, <3>1, <3>2 DEF CountInv
  <2>7. CASE \/ GivesUp(i) \/ ReadFile(i) \/ MaybeFinishAggregateInput(i) \/ MapCommandReturns(i)
             \/ LoadActiveCommands(i)
    <3>1. UNCHANGED <<activeCommands, pendingFiles>> /\ (Unfinished(i)' <=> Unfinished(i))
      BY <1>0, <2>7
         DEF GivesUp, ReadFile, MaybeFinishAggregateInput, MapCommandReturns, LoadActiveCommands, Unfinished
    <3>2. IsPending(i)' <=> IsPending(i)
      BY <1>0, <2>7
         DEF GivesUp, ReadFile, MaybeFinishAggregateInput, MapCommandReturns, LoadActiveCommands
    <3> QED BY <1>0, <2>2, <3>1, <3>2 DEF CountInv
  <2>8. CASE CommandFinished(i) \/ Shutdown(i) \/ Flush(i) \/ CloseSession(i)
    <3>1. UNCHANGED <<activeCommands, pendingFiles>> /\ (Unfinished(i)' <=> Unfinished(i))
      BY <1>0, <2>8 DEF CommandFinished, Shutdown, Flush, CloseSession, Unfinished
    <3>2. IsPending(i)' <=> IsPending(i)
      BY <1>0, <2>8 DEF CommandFinished, Shutdown, Flush, CloseSession
    <3> QED BY <1>0, <2>2, <3>1, <3>2 DEF CountInv
  <2> QED BY <1>6, <2>3, <2>4, <2>5, <2>6, <2>7, <2>8 DEF CommandStep
<1> QED BY <1>3, <1>4, <1>5, <1>6, NextSplit

\* A command that can end the session: it has decremented the counter.
MayEnd(i) == Closing(i) \/ (ShutdownOnCompletion(i) /\ pc[i] \in {"decremented", "loaded"})

\* How a command comes to a place where it can end the session.
LEMMA EndMoves ==
    ASSUME TypeInv, WireInv, KindInv, [Next]_vars, NEW i \in Commands
    PROVE  /\ MayEnd(i)' => \/ MayEnd(i)
                            \/ DecrementActiveCommands(i) /\ ShutdownOnCompletion(i)
                            \/ stream.handler = "health" /\ ~Unfinished(i)'
           /\ Closing(i)' => \/ Closing(i)
                             \/ pc[i] = "loaded" /\ LastCommand(i)
                             \/ stream.handler = "health" /\ ~Unfinished(i)'
           /\ pc'[i] = "loaded" => \/ pc[i] = "loaded" /\ seenActive'[i] = seenActive[i]
                                   \/ LoadActiveCommands(i)
<1> DEFINE Goal ==
           /\ MayEnd(i)' => \/ MayEnd(i)
                            \/ DecrementActiveCommands(i) /\ ShutdownOnCompletion(i)
                            \/ stream.handler = "health" /\ ~Unfinished(i)'
           /\ Closing(i)' => \/ Closing(i)
                             \/ pc[i] = "loaded" /\ LastCommand(i)
                             \/ stream.handler = "health" /\ ~Unfinished(i)'
           /\ pc'[i] = "loaded" => \/ pc[i] = "loaded" /\ seenActive'[i] = seenActive[i]
                                   \/ LoadActiveCommands(i)
<1> SUFFICES Goal
  OBVIOUS
<1>0. /\ pc \in [Procs -> Places] /\ seenActive \in [Procs -> Int] /\ stream' = stream
      /\ i \in Procs /\ Kind(i) # "ack"
      /\ ShutdownOnCompletion(i)' = ShutdownOnCompletion(i)
  BY Monotone, StreamFacts DEF TypeInv, Kind, ShutdownOnCompletion, Kinds
<1>1. CASE pc'[i] = pc[i] /\ seenActive'[i] = seenActive[i]
  BY <1>0, <1>1 DEF MayEnd, Closing
<1>2. CASE Transport
  BY <1>1, <1>2, TransportEffect DEF counters
<1>3. CASE HandleCommand
  <2>1. PICK h \in Procs : pc' = [pc EXCEPT ![h] = Entry(h)] /\ seenActive' = seenActive
    BY <1>3, HeadOfWire DEF HandleCommand
  <2>2. CASE h = i
    <3>1. pc'[i] \in {"start", "mapping", "reply"}
      BY <1>0, <2>1, <2>2, EntryPlace
    <3> QED BY <3>1 DEF MayEnd, Closing
  <2> QED BY <1>0, <1>1, <2>1, <2>2
<1>4. CASE FrameTooLong
  <2>1. PICK h \in Procs : pc' = [pc EXCEPT ![h] = "over"] /\ seenActive' = seenActive
    BY <1>4, HeadOfWire DEF FrameTooLong, counters
  <2>2. CASE h = i
    BY <1>0, <2>1, <2>2 DEF MayEnd, Closing
  <2> QED BY <1>0, <1>1, <2>1, <2>2
<1>5. ASSUME NEW k \in Procs, CommandStep(k), k # i PROVE Goal
  <2>1. pc'[i] = pc[i]
    BY <1>0, <1>5, CommandEffect
  <2>2. seenActive'[i] = seenActive[i]
    <3> USE DEF counters
    <3>1. CASE LoadActiveCommands(k) \/ CommandFinished(k)
      BY <1>0, <1>5, <3>1 DEF LoadActiveCommands, CommandFinished
    <3>2. CASE \/ Reply(k) \/ StartRead(k) \/ GivesUp(k) \/ ReadFile(k) \/ FileProcessed(k)
               \/ MaybeFinishAggregateInput(k) \/ MapCommandReturns(k)
      BY <3>2 DEF Reply, StartRead, GivesUp, ReadFile, FileProcessed, MaybeFinishAggregateInput,
                  MapCommandReturns
    <3>3. CASE DecrementActiveCommands(k) \/ Shutdown(k) \/ Flush(k) \/ CloseSession(k)
      BY <3>3 DEF DecrementActiveCommands, Shutdown, Flush, CloseSession
    <3> QED BY <1>5, <3>1, <3>2, <3>3 DEF CommandStep
  <2> QED BY <1>1, <2>1, <2>2
<1>6. CASE CommandStep(i)
  <2> USE DEF Step, Over, MayEnd, Closing
  <2>1. CASE Reply(i)
    BY <1>0, <2>1 DEF Reply, Unfinished
  <2>2. CASE StartRead(i) \/ GivesUp(i) \/ ReadFile(i) \/ MapCommandReturns(i) \/ MaybeFinishAggregateInput(i)
    BY <1>0, <2>2 DEF StartRead, GivesUp, ReadFile, MapCommandReturns, MaybeFinishAggregateInput
  <2>3. CASE FileProcessed(i)
    BY <1>0, <2>3 DEF FileProcessed
  <2>4. CASE DecrementActiveCommands(i)
    <3>1. pc'[i] = "decremented"
      BY <1>0, <2>4 DEF DecrementActiveCommands
    <3> QED BY <1>0, <2>4, <3>1
  <2>5. CASE LoadActiveCommands(i)
    <3>1. pc'[i] = "loaded" /\ pc[i] = "decremented"
      BY <1>0, <2>5 DEF LoadActiveCommands
    <3> QED BY <1>0, <2>5, <3>1
  <2>6. CASE CommandFinished(i)
    <3>1. /\ pc[i] = "loaded" /\ pc'[i] \in {"shutdown", "over"}
          /\ pc'[i] = "shutdown" => LastCommand(i)
      BY <1>0, <2>6 DEF CommandFinished
    <3>2. LastCommand(i) => ShutdownOnCompletion(i)
      BY DEF LastCommand
    <3> QED BY <1>0, <3>1, <3>2
  <2>7. CASE Shutdown(i) \/ Flush(i) \/ CloseSession(i)
    BY <1>0, <2>7 DEF Shutdown, Flush, CloseSession
  <2> HIDE DEF Goal
  <2> QED BY <1>6, <2>1, <2>2, <2>3, <2>4, <2>5, <2>6, <2>7 DEF CommandStep
<1> HIDE DEF Goal
<1> QED BY <1>2, <1>3, <1>4, <1>5, <1>6, NextSplit

\* No command forgets that it has arrived, and once all have, none starts again.
LEMMA Arrived ==
    ASSUME TypeInv, WireInv, [Next]_vars
    PROVE  /\ Commands' = Commands
           /\ \A j : Kind(j)' = Kind(j)
           /\ \A j \in Procs : pc[j] # "none" => pc'[j] # "none"
           /\ \A j \in Procs : pc[j] # "none" /\ Unfinished(j)' => Unfinished(j)
<1>0. pc \in [Procs -> Places] /\ stream' = stream
  BY Monotone DEF TypeInv
<1>1. Commands' = Commands /\ \A j : Kind(j)' = Kind(j)
  BY <1>0 DEF Commands, Kind
<1> DEFINE Goal == /\ \A j \in Procs : pc[j] # "none" => pc'[j] # "none"
                   /\ \A j \in Procs : pc[j] # "none" /\ Unfinished(j)' => Unfinished(j)
<1> SUFFICES Goal
  BY <1>1
<1>2. CASE Transport
  BY <1>2, TransportEffect DEF Unfinished
<1>3. CASE HandleCommand \/ FrameTooLong
  <2>1. PICK h \in Procs : pc[h] = "none" /\ \E to : pc' = [pc EXCEPT ![h] = to]
    BY <1>3, HeadOfWire DEF HandleCommand, FrameTooLong
  <2> QED BY <1>0, <2>1 DEF Unfinished
<1>4. ASSUME NEW i \in Procs, CommandStep(i) PROVE Goal
  <2>1. PICK to \in Places \ {"none", "reply", "start", "mapping"} : pc' = [pc EXCEPT ![i] = to]
    BY <1>4, CommandEffect
  <2>2. pc'[i] = to /\ \A j \in Procs : j # i => pc'[j] = pc[j]
    BY <1>0, <2>1
  <2>3. Unfinished(i)' => Unfinished(i)
    <3> USE DEF Step, Over, Unfinished
    <3>1. CASE \/ Reply(i) \/ StartRead(i) \/ GivesUp(i) \/ ReadFile(i) \/ FileProcessed(i)
               \/ MaybeFinishAggregateInput(i) \/ MapCommandReturns(i)
      BY <3>1 DEF Reply, StartRead, GivesUp, ReadFile, FileProcessed, MaybeFinishAggregateInput,
                  MapCommandReturns
    <3>2. CASE DecrementActiveCommands(i) \/ LoadActiveCommands(i) \/ CommandFinished(i)
      BY <1>0, <3>2 DEF DecrementActiveCommands, LoadActiveCommands, CommandFinished
    <3>3. CASE Shutdown(i) \/ Flush(i) \/ CloseSession(i)
      BY <1>0, <3>3 DEF Shutdown, Flush, CloseSession
    <3> QED BY <1>4, <3>1, <3>2, <3>3 DEF CommandStep
  <2> QED BY <2>1, <2>2, <2>3 DEF Unfinished
<1> HIDE DEF Goal
<1> QED BY <1>2, <1>3, <1>4, NextSplit

LEMMA EarlyStep ==
    TypeInv /\ WireInv /\ KindInv /\ EarlyInv /\ [Next]_vars => EarlyInv'
<1> SUFFICES ASSUME TypeInv, WireInv, KindInv, EarlyInv, [Next]_vars,
                    NEW i \in Commands, ~early', MayEnd(i)', NEW j \in Commands
             PROVE  pc'[j] # "none"
  BY Arrived DEF EarlyInv, MayEnd
<1>0. ~early /\ j \in Procs /\ (pc[j] # "none" => pc'[j] # "none")
  BY Monotone, StreamFacts, Arrived
<1>1. CASE MayEnd(i)
  BY <1>0, <1>1 DEF EarlyInv, MayEnd
<1>2. CASE DecrementActiveCommands(i) /\ ShutdownOnCompletion(i)
  <2>1. pc[j] # "none"
    BY <1>2, Zenon DEF DecrementActiveCommands
  <2> QED BY <1>0, <2>1
<1>3. CASE stream.handler = "health"
  <2>1. i = j
    BY <1>3, StreamFacts
  <2> QED BY <2>1 DEF MayEnd, Closing
<1> QED BY <1>1, <1>2, <1>3, EndMoves

\* Once a command can end the session, a finished command stays finished.
LEMMA NoneStarts ==
    ASSUME TypeInv, WireInv, EarlyInv, [Next]_vars, ~early, NoneUnfinished,
           NEW i \in Commands, MayEnd(i)
    PROVE  NoneUnfinished'
<1>1. \A j \in Commands : pc[j] # "none"
  BY DEF EarlyInv, MayEnd
<1> QED BY <1>1, StreamFacts, Arrived DEF NoneUnfinished

LEMMA LoadStep ==
    TypeInv /\ WireInv /\ KindInv /\ CountInv /\ EarlyInv /\ LoadInv /\ [Next]_vars => LoadInv'
<1> SUFFICES ASSUME TypeInv, WireInv, KindInv, CountInv, EarlyInv, LoadInv, [Next]_vars,
                    NEW i \in Commands, ~early', ShutdownOnCompletion(i),
                    pc'[i] = "loaded", seenActive'[i] = 0
             PROVE  NoneUnfinished'
  BY Arrived DEF LoadInv, ShutdownOnCompletion
<1>0. ~early /\ pc \in [Procs -> Places] /\ seenActive \in [Procs -> Int] /\ i \in Procs
  BY Monotone, StreamFacts DEF TypeInv
<1>1. CASE pc[i] = "loaded" /\ seenActive'[i] = seenActive[i]
  <2>1. NoneUnfinished /\ MayEnd(i)
    BY <1>0, <1>1 DEF LoadInv, MayEnd
  <2> QED BY <1>0, <2>1, NoneStarts
<1>2. CASE LoadActiveCommands(i)
  <2>1. pc[i] = "decremented" /\ activeCommands = 0
    BY <1>0, <1>2 DEF LoadActiveCommands, Step
  <2>2. stream.handler # "health"
    BY <1>0, <2>1 DEF KindInv
  <2>3. Active = {}
    BY <2>1, FinitePlaces, FS_EmptySet DEF CountInv
  <2>4. NoneUnfinished /\ MayEnd(i)
    BY <1>0, <2>1, <2>2, <2>3, StreamFacts DEF NoneUnfinished, Active, Counted, MayEnd
  <2> QED BY <1>0, <2>4, NoneStarts
<1> QED BY <1>1, <1>2, EndMoves

LEMMA CutOffStep ==
    TypeInv /\ WireInv /\ KindInv /\ EarlyInv /\ LoadInv /\ NoCommandCutOff /\ [Next]_vars
        => NoCommandCutOff'
<1> SUFFICES ASSUME TypeInv, WireInv, KindInv, EarlyInv, LoadInv, NoCommandCutOff, [Next]_vars,
                    ~early', NEW i \in Commands, Closing(i)'
             PROVE  NoneUnfinished'
  BY Arrived DEF NoCommandCutOff, NoneUnfinished, Closing
<1>0. ~early
  BY Monotone
<1>1. CASE Closing(i)
  <2>1. NoneUnfinished
    BY <1>0, <1>1 DEF NoCommandCutOff, NoneUnfinished, Closing
  <2> QED BY <1>0, <1>1, <2>1, NoneStarts DEF MayEnd
<1>2. CASE pc[i] = "loaded" /\ LastCommand(i)
  <2>1. NoneUnfinished /\ MayEnd(i)
    BY <1>0, <1>2 DEF LoadInv, LastCommand, MayEnd
  <2> QED BY <1>0, <2>1, NoneStarts
<1>3. CASE stream.handler = "health" /\ ~Unfinished(i)'
  <2>1. \A j \in Commands' : j = i
    BY <1>3, StreamFacts, Arrived
  <2> QED BY <1>3, <2>1 DEF NoneUnfinished
<1> QED BY <1>1, <1>2, <1>3, EndMoves

\* A message is not lost: it stays in its channel until it is delivered.
LEMMA NothingLost ==
    ASSUME TypeInv, [Next]_vars, NEW m
    PROVE  /\ m \in delivered \/ InQueue(serverMessages, m)
                => m \in delivered' \/ InQueue(serverMessages', m)
           /\ m \in delivered \/ InQueue(lines, m) => m \in delivered' \/ InQueue(lines', m)
           /\ m \in delivered \/ InQueue(maprMessages, m)
                => m \in delivered' \/ InQueue(maprMessages', m)
<1> DEFINE Goal ==
           /\ m \in delivered \/ InQueue(serverMessages, m)
                => m \in delivered' \/ InQueue(serverMessages', m)
           /\ m \in delivered \/ InQueue(lines, m) => m \in delivered' \/ InQueue(lines', m)
           /\ m \in delivered \/ InQueue(maprMessages, m)
                => m \in delivered' \/ InQueue(maprMessages', m)
<1> SUFFICES Goal
  OBVIOUS
<1>0. serverMessages \in Seq(Messages) /\ lines \in Seq(Lines) /\ maprMessages \in Seq(Results)
  BY DEF TypeInv
<1>00. m \in delivered => m \in delivered'
  BY Monotone
<1> USE DEF vars, clientVars, counters, channels, history, Send
<1>1. CASE SendMessage \/ AnswerSyn \/ UserCancels \/ UNCHANGED vars
  BY <1>1 DEF SendMessage, AnswerSyn, UserCancels
<1>2. CASE ConnectionCloses \/ MonitorEnds \/ ServerlessReturns \/ HandleCommand \/ FrameTooLong
  BY <1>2 DEF ConnectionCloses, MonitorEnds, ServerlessReturns, HandleCommand, FrameTooLong
<1>3. CASE Read
  <2>1. CASE /\ serverMessages # <<>> /\ delivered' = delivered \union {Head(serverMessages)}
             /\ serverMessages' = Tail(serverMessages) /\ UNCHANGED <<lines, maprMessages>>
    BY <1>0, <2>1, QueueTail
  <2>2. CASE /\ lines # <<>> /\ delivered' = delivered \union {Head(lines)}
             /\ lines' = Tail(lines) /\ UNCHANGED <<serverMessages, maprMessages>>
    BY <1>0, <2>2, QueueTail
  <2>3. CASE /\ maprMessages # <<>> /\ delivered' = delivered \union {Head(maprMessages)}
             /\ maprMessages' = Tail(maprMessages) /\ UNCHANGED <<serverMessages, lines>>
    BY <1>0, <2>3, QueueTail
  <2> HIDE DEF Goal
  <2> QED BY <1>3, <2>1, <2>2, <2>3 DEF Read, Receive
<1>4. CASE SendSyn
  <2>1. InQueue(serverMessages, m) => InQueue(Append(serverMessages, Syn), m)
    BY <1>0, QueueAppend DEF Messages
  <2> QED BY <1>4, <2>1 DEF SendSyn
<1>5. ASSUME NEW i \in Procs, CommandStep(i) PROVE Goal
  <2>0. /\ InQueue(serverMessages, m) => InQueue(Append(serverMessages, <<"reply", i>>), m)
        /\ InQueue(serverMessages, m) => InQueue(Append(serverMessages, <<"warning", i>>), m)
        /\ InQueue(lines, m) => InQueue(Append(lines, <<"line", i>>), m)
        /\ InQueue(maprMessages, m) => InQueue(Append(maprMessages, <<"result", i>>), m)
    <3>1. /\ <<"reply", i>> \in Messages /\ <<"warning", i>> \in Messages
          /\ <<"line", i>> \in Lines /\ <<"result", i>> \in Results
      BY DEF Messages, Lines, Results
    <3> QED BY <1>0, <3>1, QueueAppend
  <2>1. CASE Reply(i) \/ GivesUp(i) \/ ReadFile(i) \/ MapCommandReturns(i)
    BY <1>00, <2>0, <2>1 DEF Reply, GivesUp, ReadFile, MapCommandReturns
  <2>2. CASE StartRead(i) \/ FileProcessed(i) \/ MaybeFinishAggregateInput(i) \/ CloseSession(i)
    BY <2>2 DEF StartRead, FileProcessed, MaybeFinishAggregateInput, CloseSession
  <2>3. CASE DecrementActiveCommands(i) \/ LoadActiveCommands(i) \/ CommandFinished(i)
    BY <2>3 DEF DecrementActiveCommands, LoadActiveCommands, CommandFinished
  <2>4. CASE Shutdown(i) \/ Flush(i)
    BY <2>4 DEF Shutdown, Flush
  <2> HIDE DEF Goal
  <2> QED BY <1>5, <2>1, <2>2, <2>3, <2>4 DEF CommandStep
<1> HIDE DEF Goal
<1> QED BY <1>1, <1>2, <1>3, <1>4, <1>5, NextSplit DEF Transport

\* The step by which a command passes its output is the one that sends it.
LEMMA OutputMoves ==
    ASSUME TypeInv, WireInv, KindInv, [Next]_vars, NEW i \in Commands
    PROVE  /\ Kind(i) = "map" /\ pc'[i] \notin {"none", "mapping"} =>
                pc[i] \notin {"none", "mapping"} \/ MapCommandReturns(i)
           /\ Kind(i) = "unknown" /\ pc'[i] \notin {"none", "reply"} =>
                pc[i] \notin {"none", "reply"} \/ Reply(i)
           /\ Kind(i) = "read" /\ pc'[i] \notin {"none", "start", "reading"} =>
                pc[i] \notin {"none", "start", "reading"} \/ ReadFile(i) \/ GivesUp(i)
<1> DEFINE Goal ==
           /\ Kind(i) = "map" /\ pc'[i] \notin {"none", "mapping"} =>
                pc[i] \notin {"none", "mapping"} \/ MapCommandReturns(i)
           /\ Kind(i) = "unknown" /\ pc'[i] \notin {"none", "reply"} =>
                pc[i] \notin {"none", "reply"} \/ Reply(i)
           /\ Kind(i) = "read" /\ pc'[i] \notin {"none", "start", "reading"} =>
                pc[i] \notin {"none", "start", "reading"} \/ ReadFile(i) \/ GivesUp(i)
<1> SUFFICES Goal
  OBVIOUS
<1>0. /\ pc \in [Procs -> Places] /\ i \in Procs
      /\ pc[i] = "mapping" => Kind(i) = "map"
      /\ pc[i] = "reply" => Kind(i) \notin {"map", "read", "ack"}
      /\ pc[i] \in {"start", "reading", "read", "grace"} => Kind(i) = "read"
  BY StreamFacts DEF TypeInv, KindInv
<1>1. CASE Transport
  BY <1>1, TransportEffect
<1>2. CASE HandleCommand
  <2>1. PICK h \in Procs : pc' = [pc EXCEPT ![h] = Entry(h)]
    BY <1>2, HeadOfWire DEF HandleCommand
  <2>2. CASE h = i
    BY <1>0, <2>1, <2>2, EntryPlace
  <2> QED BY <1>0, <2>1, <2>2
<1>3. CASE FrameTooLong
  <2>1. PICK h \in Procs : pc' = [pc EXCEPT ![h] = "over"] /\ Kind(h) = "oversize"
    BY <1>3, HeadOfWire DEF FrameTooLong
  <2> QED BY <1>0, <2>1
<1>4. ASSUME NEW k \in Procs, CommandStep(k), k # i PROVE Goal
  <2>1. pc'[i] = pc[i]
    BY <1>0, <1>4, CommandEffect
  <2> QED BY <2>1
<1>5. CASE CommandStep(i)
  <2> USE DEF Step, Over
  <2>1. CASE Reply(i)
    <3>1. pc[i] = "reply"
      BY <2>1 DEF Reply
    <3> QED BY <1>0, <2>1, <3>1
  <2>2. CASE StartRead(i)
    BY <1>0, <2>2 DEF StartRead
  <2>22. CASE GivesUp(i)
    <3>1. pc[i] = "start"
      BY <2>22 DEF GivesUp
    <3> QED BY <1>0, <2>22, <3>1
  <2>3. CASE ReadFile(i)
    <3>1. pc[i] = "reading"
      BY <2>3 DEF ReadFile
    <3> QED BY <1>0, <2>3, <3>1
  <2>4. CASE MapCommandReturns(i)
    <3>1. pc[i] = "mapping"
      BY <2>4 DEF MapCommandReturns
    <3> QED BY <1>0, <2>4, <3>1
  <2>5. CASE FileProcessed(i) \/ MaybeFinishAggregateInput(i)
    BY <2>5 DEF FileProcessed, MaybeFinishAggregateInput
  <2>6. CASE DecrementActiveCommands(i) \/ LoadActiveCommands(i) \/ CommandFinished(i)
    BY <2>6 DEF DecrementActiveCommands, LoadActiveCommands, CommandFinished
  <2>7. CASE Shutdown(i) \/ Flush(i) \/ CloseSession(i)
    BY <2>7 DEF Shutdown, Flush, CloseSession
  <2> HIDE DEF Goal
  <2> QED BY <1>5, <2>1, <2>2, <2>22, <2>3, <2>4, <2>5, <2>6, <2>7 DEF CommandStep
<1> HIDE DEF Goal
<1> QED BY <1>1, <1>2, <1>3, <1>4, <1>5, NextSplit

\* A read that gives up is a command.
LEMMA UnmatchedStep ==
    TypeInv /\ WireInv /\ KindInv /\ UnmatchedInv /\ [Next]_vars => UnmatchedInv'
<1> SUFFICES ASSUME TypeInv, WireInv, KindInv, UnmatchedInv, [Next]_vars PROVE UnmatchedInv'
  OBVIOUS
<1>1. Commands' = Commands
  BY Arrived
<1>2. ASSUME NEW i \in Procs, pc[i] = "start" PROVE i \in Commands
  <2>1. Kind(i) = "read" /\ (i \in 1 .. sent \/ i = Ack) /\ sent <= Len(stream.kinds)
    BY <1>2 DEF KindInv, WireInv
  <2> QED BY <2>1, StreamFacts DEF Commands, TypeInv
<1> QED BY <1>1, <1>2, UnmatchedMoves DEF UnmatchedInv

LEMMA ProducedStep ==
    TypeInv /\ WireInv /\ KindInv /\ ProducedInv /\ [Next]_vars => ProducedInv'
<1> SUFFICES ASSUME TypeInv, WireInv, KindInv, ProducedInv, [Next]_vars, ~done', NEW i \in Commands
    PROVE  /\ (Kind(i) = "map" /\ pc'[i] \notin {"none", "mapping"}) =>
                <<"result", i>> \in delivered' \/ InQueue(maprMessages', <<"result", i>>)
           /\ (Kind(i) = "unknown" /\ pc'[i] \notin {"none", "reply"}) =>
                <<"reply", i>> \in delivered' \/ InQueue(serverMessages', <<"reply", i>>)
           /\ i \in unmatched' =>
                <<"warning", i>> \in delivered' \/ InQueue(serverMessages', <<"warning", i>>)
           /\ (/\ Kind(i) = "read" /\ aggregate' = "none" /\ i \notin unmatched'
               /\ pc'[i] \notin {"none", "start", "reading"}) =>
                <<"line", i>> \in delivered' \/ InQueue(lines', <<"line", i>>)
  BY Arrived DEF ProducedInv, InQueue
<1>0. /\ ~done /\ i \in Procs /\ (aggregate' = "none" => aggregate = "none")
      /\ serverMessages \in Seq(Messages) /\ lines \in Seq(Lines) /\ maprMessages \in Seq(Results)
  BY Monotone, StreamFacts DEF TypeInv
<1>1. ASSUME Kind(i) = "map", pc'[i] \notin {"none", "mapping"}
      PROVE  <<"result", i>> \in delivered' \/ InQueue(maprMessages', <<"result", i>>)
  <2>1. CASE pc[i] \notin {"none", "mapping"}
    BY <1>0, <1>1, <2>1, NothingLost DEF ProducedInv
  <2>2. CASE MapCommandReturns(i)
    <3>1. maprMessages' = Append(maprMessages, <<"result", i>>)
      BY <1>0, <2>2 DEF MapCommandReturns, Send
    <3>2. <<"result", i>> \in Results
      BY <1>0 DEF Results
    <3> QED BY <1>0, <3>1, <3>2, QueueAppend
  <2> QED BY <1>1, <2>1, <2>2, OutputMoves
<1>2. ASSUME Kind(i) = "unknown", pc'[i] \notin {"none", "reply"}
      PROVE  <<"reply", i>> \in delivered' \/ InQueue(serverMessages', <<"reply", i>>)
  <2>1. CASE pc[i] \notin {"none", "reply"}
    BY <1>0, <1>2, <2>1, NothingLost DEF ProducedInv
  <2>2. CASE Reply(i)
    <3>1. serverMessages' = Append(serverMessages, <<"reply", i>>)
      BY <1>0, <2>2 DEF Reply, Send
    <3>2. <<"reply", i>> \in Messages
      BY <1>0 DEF Messages
    <3> QED BY <1>0, <3>1, <3>2, QueueAppend
  <2> QED BY <1>2, <2>1, <2>2, OutputMoves
<1>3. ASSUME i \in unmatched'
      PROVE  <<"warning", i>> \in delivered' \/ InQueue(serverMessages', <<"warning", i>>)
  <2>1. CASE i \in unmatched
    BY <1>0, <2>1, NothingLost DEF ProducedInv
  <2>2. CASE GivesUp(i)
    <3>1. serverMessages' = Append(serverMessages, <<"warning", i>>)
      BY <1>0, <2>2 DEF GivesUp, Send
    <3>2. <<"warning", i>> \in Messages
      BY <1>0 DEF Messages
    <3> QED BY <1>0, <3>1, <3>2, QueueAppend
  <2> QED BY <1>3, <2>1, <2>2, UnmatchedMoves
<1>4. ASSUME Kind(i) = "read", aggregate' = "none", i \notin unmatched',
             pc'[i] \notin {"none", "start", "reading"}
      PROVE  <<"line", i>> \in delivered' \/ InQueue(lines', <<"line", i>>)
  <2>1. CASE pc[i] \notin {"none", "start", "reading"}
    <3>1. i \notin unmatched
      BY <1>4, UnmatchedMoves
    <3> QED BY <1>0, <1>4, <2>1, <3>1, NothingLost DEF ProducedInv
  <2>2. CASE GivesUp(i)
    <3>1. i \in unmatched'
      BY <2>2 DEF GivesUp
    <3> QED BY <1>4, <3>1
  <2>3. CASE ReadFile(i)
    <3>1. lines' = Append(lines, <<"line", i>>)
      BY <1>0, <1>4, <2>3 DEF ReadFile, Send
    <3>2. <<"line", i>> \in Lines
      BY <1>0 DEF Lines
    <3> QED BY <1>0, <3>1, <3>2, QueueAppend
  <2> QED BY <1>4, <2>1, <2>2, <2>3, OutputMoves
<1> QED BY <1>1, <1>2, <1>3, <1>4

\* Only a flush brings a close on its way.
LEMMA SynMoves ==
    ASSUME TypeInv, [Next]_vars, SynOnItsWay'
    PROVE  SynOnItsWay \/ \E i \in Procs : Flush(i)
<1> DEFINE Goal == SynOnItsWay \/ \E i \in Procs : Flush(i)
<1> SUFFICES Goal
  OBVIOUS
<1>0. /\ serverMessages \in Seq(Messages) /\ lines \in Seq(Lines) /\ maprMessages \in Seq(Results)
      /\ syns \in Nat
  BY DEF TypeInv
<1>1. CASE /\ syns' = syns /\ (clientAck' # "no" => clientAck # "no")
           /\ serverMessages' = serverMessages
  BY <1>1 DEF SynOnItsWay, InQueue
<1> USE DEF vars, clientVars, counters, channels, history, Send
<1>2. CASE SendMessage \/ AnswerSyn \/ UserCancels \/ UNCHANGED vars
  BY <1>1, <1>2 DEF SendMessage, AnswerSyn, UserCancels
<1>3. CASE ConnectionCloses \/ MonitorEnds \/ ServerlessReturns \/ HandleCommand \/ FrameTooLong
  BY <1>1, <1>3 DEF ConnectionCloses, MonitorEnds, ServerlessReturns, HandleCommand, FrameTooLong
<1>4. CASE Read
  <2>1. CASE /\ serverMessages # <<>> /\ Receive(Head(serverMessages))
             /\ serverMessages' = Tail(serverMessages)
    <3>1. InQueue(serverMessages, Head(serverMessages))
          /\ (InQueue(Tail(serverMessages), Syn) => InQueue(serverMessages, Syn))
      BY <1>0, <2>1, QueueTail
    <3>2. /\ syns' = syns
          /\ clientAck' # "no" => clientAck # "no" \/ Head(serverMessages) = Syn
      BY <2>1 DEF Receive
    <3>3. InQueue(serverMessages, Syn)' => InQueue(serverMessages, Syn)
      BY <2>1, <3>1 DEF InQueue
    <3> QED BY <3>1, <3>2, <3>3 DEF SynOnItsWay
  <2>2. ASSUME NEW m \in Lines \union Results, Receive(m), serverMessages' = serverMessages
        PROVE  Goal
    <3>1. m # Syn
      BY <2>2 DEF Lines, Results, Syn
    <3> QED BY <1>1, <2>2, <3>1 DEF Receive
  <2>3. /\ lines # <<>> => Head(lines) \in Lines
        /\ maprMessages # <<>> => Head(maprMessages) \in Results
    BY <1>0, QueueTail
  <2> HIDE DEF Goal
  <2> QED BY <1>4, <2>1, <2>2, <2>3 DEF Read
<1>5. CASE SendSyn
  BY <1>0, <1>5 DEF SendSyn, SynOnItsWay
<1>6. ASSUME NEW i \in Procs, CommandStep(i) PROVE Goal
  <2>1. CASE Reply(i)
    <3>1. UNCHANGED <<syns, clientAck>>
      BY <2>1 DEF Reply
    <3>2. InQueue(serverMessages, Syn)' => InQueue(serverMessages, Syn)
      <4>1. <<"reply", i>> # Syn /\ <<"reply", i>> \in Messages
        BY DEF Syn, Messages
      <4>2. InQueue(Append(serverMessages, <<"reply", i>>), Syn) => InQueue(serverMessages, Syn)
        BY <1>0, <4>1, QueueAppend
      <4>3. serverMessages' = serverMessages \/ serverMessages' = Append(serverMessages, <<"reply", i>>)
        BY <2>1 DEF Reply
      <4> QED BY <4>2, <4>3 DEF InQueue
    <3> QED BY <3>1, <3>2 DEF SynOnItsWay
  <2>2. CASE StartRead(i) \/ FileProcessed(i) \/ MaybeFinishAggregateInput(i) \/ CloseSession(i)
    BY <1>1, <2>2 DEF StartRead, FileProcessed, MaybeFinishAggregateInput, CloseSession
  <2>3. CASE DecrementActiveCommands(i) \/ LoadActiveCommands(i) \/ CommandFinished(i)
    BY <1>1, <2>3 DEF DecrementActiveCommands, LoadActiveCommands, CommandFinished
  <2>4. CASE ReadFile(i) \/ MapCommandReturns(i) \/ Shutdown(i)
    BY <1>1, <2>4 DEF ReadFile, MapCommandReturns, Shutdown
  <2>5. CASE Flush(i)
    BY <2>5
  <2>6. CASE GivesUp(i)
    <3>1. UNCHANGED <<syns, clientAck>>
      BY <2>6 DEF GivesUp
    <3>2. InQueue(serverMessages, Syn)' => InQueue(serverMessages, Syn)
      <4>1. <<"warning", i>> # Syn /\ <<"warning", i>> \in Messages
        BY DEF Syn, Messages
      <4>2. InQueue(Append(serverMessages, <<"warning", i>>), Syn) => InQueue(serverMessages, Syn)
        BY <1>0, <4>1, QueueAppend
      <4>3. serverMessages' = serverMessages \/ serverMessages' = Append(serverMessages, <<"warning", i>>)
        BY <2>6 DEF GivesUp
      <4> QED BY <4>2, <4>3 DEF InQueue
    <3> QED BY <3>1, <3>2 DEF SynOnItsWay
  <2> HIDE DEF Goal
  <2> QED BY <1>6, <2>1, <2>2, <2>3, <2>4, <2>5, <2>6 DEF CommandStep
<1> HIDE DEF Goal
<1> QED BY <1>2, <1>3, <1>4, <1>5, <1>6, NextSplit DEF Transport

\* When a flush has found every channel empty, and every command that is no
\* garbled frame has passed its output, everything has arrived.
LEMMA SynStep ==
    TypeInv /\ WireInv /\ KindInv /\ EarlyInv /\ NoCommandCutOff /\ UnmatchedInv /\ ProducedInv
        /\ SynInv /\ [Next]_vars => SynInv'
<1> SUFFICES ASSUME TypeInv, WireInv, KindInv, EarlyInv, NoCommandCutOff, UnmatchedInv, ProducedInv,
                    SynInv, [Next]_vars, SynOnItsWay', ~hasty', ~early', ~done'
             PROVE  AllDelivered' /\ AllOver'
  BY DEF SynInv
<1>0. /\ ~hasty /\ ~early /\ ~done
      /\ aggregate' = "none" => aggregate = "none"
      /\ delivered \subseteq delivered'
      /\ Commands' = Commands /\ \A j : Kind(j)' = Kind(j)
  BY Monotone, Arrived
<1>1. ASSUME AllDelivered, AllOver PROVE AllDelivered' /\ AllOver'
  <2>1. AllOver'
    BY <1>0, <1>1, StreamFacts, Arrived DEF AllOver, NoneUnfinished
  <2>2. unmatched' = unmatched
    <3>1. ASSUME NEW i \in Procs, pc[i] = "start", unmatched' = unmatched \union {i} PROVE FALSE
      <4>1. i \in Commands' /\ Commands' = Commands
        BY <1>0, <3>1, UnmatchedStep DEF UnmatchedInv
      <4>2. Kind(i) = "read"
        BY <3>1 DEF KindInv
      <4> QED BY <1>1, <3>1, <4>1, <4>2 DEF AllOver, NoneUnfinished, Unfinished
    <3> QED BY <3>1, UnmatchedMoves
  <2>3. AllDelivered'
    BY <1>0, <1>1, <2>2 DEF AllDelivered
  <2> QED BY <2>1, <2>3
<1>2. CASE SynOnItsWay
  BY <1>0, <1>1, <1>2 DEF SynInv
<1>3. ASSUME NEW i \in Procs, Flush(i) PROVE AllDelivered /\ AllOver
  <2>1. pc[i] = "flush" /\ Unsent = 0
    <3>1. hasty' = (hasty \/ Unsent # 0)
      BY <1>3 DEF Flush
    <3>2. Unsent = 0
      BY <3>1, Zenon
    <3> QED BY <1>3, <3>2 DEF Flush, Step
  <2>2. i \in Commands \/ (i = Ack /\ clientAck = "sent")
    <3>1. (i \in 1 .. sent \/ (i = Ack /\ clientAck = "sent")) /\ sent <= Len(stream.kinds)
      BY <2>1 DEF WireInv
    <3> QED BY <3>1, StreamFacts DEF Commands, TypeInv
  <2>3. CASE i = Ack /\ clientAck = "sent"
    BY <1>0, <2>3 DEF SynInv, SynOnItsWay
  <2>4. CASE i \in Commands
    <3>1. \A j \in Commands : pc[j] # "none" /\ (Kind(j) # "garbled" => ~Unfinished(j))
      BY <1>0, <2>1, <2>4 DEF EarlyInv, NoCommandCutOff, Closing
    <3>2. Len(serverMessages) = 0 /\ Len(lines) = 0 /\ Len(maprMessages) = 0
      <4>1. Len(serverMessages) \in Nat /\ Len(lines) \in Nat /\ Len(maprMessages) \in Nat
        BY DEF TypeInv
      <4> QED BY <2>1, <4>1 DEF Unsent
    <3>3. \A m : ~InQueue(serverMessages, m) /\ ~InQueue(lines, m) /\ ~InQueue(maprMessages, m)
      BY <3>2 DEF InQueue
    <3> QED BY <1>0, <3>1, <3>3 DEF ProducedInv, AllDelivered, AllOver, NoneUnfinished, Unfinished
  <2> QED BY <2>2, <2>3, <2>4
<1> QED BY <1>1, <1>2, <1>3, SynMoves

-----------------------------------------------------------------------------
(* The theorems. *)

LEMMA InitIInv == Init => IInv
<1> SUFFICES ASSUME Init PROVE IInv
  OBVIOUS
<1>1. stream \in Streams /\ pc = [i \in Procs |-> "none"] /\ sent = 0 /\ wire = <<>>
  BY DEF Init
<1>2. TypeInv
  <2>1. serverMessages \in Seq(Messages)
    BY DEF Init, Messages
  <2>2. clientAck \in {"no", "offered", "sent"} /\ wire \in Seq(Procs) /\ lines \in Seq(Lines)
        /\ maprMessages \in Seq(Results) /\ pc \in [Procs -> Places]
        /\ seenActive \in [Procs -> Int]
    BY DEF Init, Places
  <2>3. /\ stream \in Streams /\ sent \in Nat /\ writer \in Procs \union {0}
        /\ activeCommands \in Int /\ pendingFiles \in Int /\ syns \in Nat
        /\ aggregate \in {"none", "open", "finished"}
    BY DEF Init
  <2>4. clientDone \in BOOLEAN /\ done \in BOOLEAN /\ early \in BOOLEAN /\ hasty \in BOOLEAN
    BY DEF Init
  <2> QED BY <2>1, <2>2, <2>3, <2>4 DEF TypeInv
<1>3. \A j \in Procs : pc[j] = "none"
  BY <1>1
<1>4. \A j \in Commands : pc[j] = "none"
  BY <1>2, <1>3, StreamFacts
<1>5. WireInv
  BY <1>1, <1>2, <1>3, StreamFacts DEF WireInv
<1>6. KindInv
  BY <1>3 DEF KindInv
<1>7. CountInv
  <2>1. Active = {} /\ Pending = {}
    BY <1>3 DEF Active, Pending, Unfinished
  <2> QED BY <2>1, FS_EmptySet DEF CountInv, Init
<1>8. EarlyInv /\ LoadInv /\ NoCommandCutOff /\ ProducedInv
  <2>1. unmatched = {}
    BY DEF Init
  <2> QED BY <1>4, <2>1 DEF EarlyInv, LoadInv, NoCommandCutOff, ProducedInv, Closing
<1>88. UnmatchedInv
  BY DEF Init, UnmatchedInv
<1>9. SynInv
  <2>1. ~InQueue(serverMessages, Syn)
    BY DEF Init, InQueue, Syn
  <2> QED BY <2>1 DEF SynInv, SynOnItsWay, Init
<1> QED BY <1>2, <1>5, <1>6, <1>7, <1>8, <1>88, <1>9 DEF IInv

\* The inductive invariant: the counters count exactly the running commands and
\* open files, whoever can end the session decremented them after the last frame
\* had arrived, and what was produced is in a channel or at the client.
THEOREM Invariance == Spec => []IInv
<1>1. IInv /\ [Next]_vars => IInv'
  BY TypeStep, WireStep, KindStep, CountStep, EarlyStep, LoadStep, CutOffStep, UnmatchedStep,
     ProducedStep, SynStep DEF IInv
<1> QED BY <1>1, InitIInv, PTL DEF Spec

\* commandFinished's decrement, load and test of the counter, interleaved with
\* those of any number of other commands, never shut the session down while a
\* command still runs, if all frames arrived before the first one finished.
THEOREM CutOffCorrect == Spec => []NoCommandCutOff
<1>1. IInv => NoCommandCutOff
  BY DEF IInv
<1> QED BY <1>1, Invariance, PTL

\* shutdown closes the connection only after the client has everything, if in
\* addition flush did not give up.
THEOREM OutputCorrect == Spec => []OutputBeforeClose
<1>1. IInv => OutputBeforeClose
  BY DEF IInv, SynInv, SynOnItsWay, AllDelivered, OutputBeforeClose
<1> QED BY <1>1, Invariance, PTL

\* activeCommands and pendingFiles never wrap: they stay between zero and the
\* number of frames.
THEOREM TypeCorrect == Spec => []TypeOK
<1>1. ASSUME IInv PROVE TypeOK
  <2>1. TypeInv /\ WireInv /\ KindInv /\ CountInv /\ UnmatchedInv
    BY <1>1 DEF IInv
  <2>2. MaxCommands \in Nat /\ Ack = MaxCommands + 1 /\ Procs = 1 .. Ack /\ Kind(Ack) = "ack"
    BY <2>1, StreamFacts DEF Procs
  <2>3. activeCommands \in 0 .. Ack
    <3>1. Active \subseteq Procs
      BY DEF Active
    <3>2. Cardinality(Active) <= Ack /\ Cardinality(Active) \in Nat
      BY <2>1, <3>1, FinitePlaces, FS_Subset, FS_CardinalityType
    <3> QED BY <2>1, <2>2, <3>2 DEF CountInv
  <2>4. pendingFiles \in 0 .. MaxCommands
    <3>1. Pending \subseteq 1 .. MaxCommands
      <4>1. Ack \notin Pending
        BY <2>1, <2>2 DEF Pending, KindInv
      <4> QED BY <2>2, <4>1 DEF Pending
    <3>2. IsFiniteSet(1 .. MaxCommands) /\ Cardinality(1 .. MaxCommands) = MaxCommands
      BY <2>2, FS_Interval
    <3>3. Cardinality(Pending) <= MaxCommands /\ Cardinality(Pending) \in Nat
      BY <3>1, <3>2, FS_Subset, FS_CardinalityType
    <3> QED BY <2>1, <2>2, <3>3 DEF CountInv
  <2>5. sent \in 0 .. MaxCommands
    BY <2>1, <2>2, StreamFacts DEF WireInv, TypeInv
  <2> QED BY <2>1, <2>3, <2>4, <2>5 DEF TypeInv, UnmatchedInv, TypeOK, Places
<1> QED BY <1>1, Invariance, PTL

-----------------------------------------------------------------------------
(* No shutdown is lost.  The parts of a second invariant, on top of IInv. *)

\* Commands arrive in the order in which they were sent, and none is lost.
ArrivalInv ==
    /\ \A i \in 1 .. sent : pc[i] # "none" \/ InQueue(wire, i)
    /\ \A k, l \in 1 .. Len(wire) :
        (k < l /\ wire[k] # Ack /\ wire[l] # Ack) => wire[k] < wire[l]
    /\ \A i, j \in Commands : (i < j /\ pc[j] # "none") => pc[i] # "none"

\* The Write goroutine runs a synchronous command to its end.
WriterInv ==
    \A i \in Procs : (pc[i] \notin {"none", "over"} /\ Synchronous(i)) => writer = i

\* So an AUTHKEY is over when a later command starts.
KeyInv ==
    \A i, j \in Commands : (Kind(i) = "authkey" /\ i < j /\ pc[j] # "none") => pc[i] = "over"

SomeCloses == \E i \in Commands : Closing(i)

\* The close, and the ack that answers it, come from a command that still waits.
CloserInv == SynOnItsWay => done \/ SomeCloses

\* Who can still be the last: a command that has not finished, or has not loaded
\* the counter, or has loaded zero.
MayBeLast(i) ==
    /\ Ends(i)
    /\ \/ pc[i] \in {"none", "decremented"} \/ Unfinished(i)
       \/ pc[i] = "loaded" /\ seenActive[i] = 0

LastInv ==
    (KeysFirst /\ \E i \in Commands : Ends(i)) =>
        done \/ SomeCloses \/ \E i \in Commands : MayBeLast(i)

EndInv == ArrivalInv /\ WriterInv /\ KeyInv /\ CloserInv /\ LastInv

\* A command that is over stays over.
LEMMA OverStays ==
    ASSUME TypeInv, WireInv, [Next]_vars, NEW j \in Procs, pc[j] = "over"
    PROVE  pc'[j] = "over"
<1>0. pc \in [Procs -> Places]
  BY DEF TypeInv
<1>1. CASE Transport
  BY <1>1, TransportEffect
<1>2. CASE HandleCommand \/ FrameTooLong
  <2>1. PICK h \in Procs : pc[h] = "none" /\ \E to : pc' = [pc EXCEPT ![h] = to]
    BY <1>2, HeadOfWire DEF HandleCommand, FrameTooLong
  <2> QED BY <1>0, <2>1
<1>3. ASSUME NEW i \in Procs, CommandStep(i) PROVE pc'[j] = "over"
  <2>1. pc[i] # "over"
    <3> USE DEF Step, Over
    <3>1. CASE \/ Reply(i) \/ StartRead(i) \/ GivesUp(i) \/ ReadFile(i) \/ FileProcessed(i)
               \/ MaybeFinishAggregateInput(i) \/ MapCommandReturns(i)
      BY <3>1 DEF Reply, StartRead, GivesUp, ReadFile, FileProcessed, MaybeFinishAggregateInput,
                  MapCommandReturns
    <3>2. CASE DecrementActiveCommands(i) \/ LoadActiveCommands(i) \/ CommandFinished(i)
      BY <3>2 DEF DecrementActiveCommands, LoadActiveCommands, CommandFinished
    <3>3. CASE Shutdown(i) \/ Flush(i) \/ CloseSession(i)
      BY <3>3 DEF Shutdown, Flush, CloseSession
    <3> QED BY <1>3, <3>1, <3>2, <3>3 DEF CommandStep
  <2>2. \E to : pc' = [pc EXCEPT ![i] = to]
    BY <1>3, CommandEffect
  <2> QED BY <1>0, <2>1, <2>2
<1> QED BY <1>1, <1>2, <1>3, NextSplit

LEMMA ArrivalStep == TypeInv /\ WireInv /\ ArrivalInv /\ [Next]_vars => ArrivalInv'
<1> SUFFICES ASSUME TypeInv, WireInv, ArrivalInv, [Next]_vars PROVE ArrivalInv'
  OBVIOUS
<1>0. /\ wire \in Seq(Procs) /\ Len(wire) \in Nat /\ sent \in Nat
      /\ sent <= Len(stream.kinds) /\ Len(stream.kinds) \in 0 .. MaxCommands
      /\ MaxCommands \in Nat /\ Ack = MaxCommands + 1 /\ Procs = 1 .. Ack
      /\ Commands = 1 .. Len(stream.kinds) /\ Commands \subseteq Procs
      /\ Commands' = Commands /\ pc \in [Procs -> Places]
  <2>1. wire \in Seq(Procs) /\ sent \in Nat /\ pc \in [Procs -> Places]
    BY DEF TypeInv
  <2>2. Len(wire) \in Nat
    BY <2>1
  <2>3. sent <= Len(stream.kinds)
    BY DEF WireInv
  <2>4. Procs = 1 .. Ack /\ Commands = 1 .. Len(stream.kinds)
    BY DEF Procs, Commands
  <2> QED BY <2>1, <2>2, <2>3, <2>4, StreamFacts, Arrived
<1>00. \A j \in Procs : pc[j] # "none" => pc'[j] # "none"
  BY Arrived
<1>01. /\ \A i \in 1 .. sent : pc[i] # "none" \/ InQueue(wire, i)
       /\ \A k, l \in 1 .. Len(wire) :
            (k < l /\ wire[k] # Ack /\ wire[l] # Ack) => wire[k] < wire[l]
       /\ \A i, j \in Commands : (i < j /\ pc[j] # "none") => pc[i] # "none"
  BY DEF ArrivalInv
<1>02. \A k \in 1 .. Len(wire) : wire[k] # Ack => wire[k] \in 1 .. sent
  BY DEF WireInv
<1>1. ASSUME UNCHANGED <<wire, sent>>, \A j \in Procs : pc'[j] # "none" => pc[j] # "none"
      PROVE  ArrivalInv'
  <2>1. \A i \in 1 .. sent : pc'[i] # "none" \/ InQueue(wire, i)
    BY <1>0, <1>00, <1>01
  <2>2. \A i, j \in Commands : (i < j /\ pc'[j] # "none") => pc'[i] # "none"
    BY <1>0, <1>00, <1>01, <1>1
  <2> QED BY <1>0, <1>01, <1>1, <2>1, <2>2 DEF ArrivalInv, InQueue
<1>2. ASSUME NEW e \in Procs, wire' = Append(wire, e), UNCHANGED pc,
             \/ e = Ack /\ sent' = sent
             \/ e = sent + 1 /\ sent' = sent + 1
      PROVE  ArrivalInv'
  <2>1. /\ Len(wire') = Len(wire) + 1 /\ wire'[Len(wire) + 1] = e
        /\ \A k \in 1 .. Len(wire) : wire'[k] = wire[k]
    BY <1>0, <1>2
  <2>2. InQueue(wire', e) /\ \A m : InQueue(wire, m) => InQueue(wire', m)
    BY <1>0, <1>2, QueueAppend
  <2>3. \A i \in 1 .. sent' : pc'[i] # "none" \/ InQueue(wire', i)
    <3>1. \A i \in 1 .. sent' : i \in 1 .. sent \/ i = e
      BY <1>0, <1>2
    <3> QED BY <1>01, <1>2, <2>2, <3>1
  <2>4. ASSUME NEW k \in 1 .. Len(wire'), NEW l \in 1 .. Len(wire'), k < l,
               wire'[k] # Ack, wire'[l] # Ack
        PROVE  wire'[k] < wire'[l]
    <3>1. k \in 1 .. Len(wire) /\ wire'[k] = wire[k]
      BY <1>0, <2>1, <2>4
    <3>2. CASE l \in 1 .. Len(wire)
      BY <1>01, <2>1, <2>4, <3>1, <3>2
    <3>3. CASE l = Len(wire) + 1
      <4>1. wire'[l] = e /\ e = sent + 1
        BY <1>2, <2>1, <2>4, <3>3
      <4>2. wire[k] \in 1 .. sent
        BY <1>02, <2>4, <3>1
      <4> QED BY <1>0, <3>1, <4>1, <4>2
    <3> QED BY <1>0, <2>1, <3>2, <3>3
  <2>5. \A i, j \in Commands : (i < j /\ pc'[j] # "none") => pc'[i] # "none"
    BY <1>01, <1>2
  <2> QED BY <1>0, <2>3, <2>4, <2>5 DEF ArrivalInv, InQueue
<1>3. CASE SendMessage
  <2>1. wire' = Append(wire, sent + 1) /\ sent' = sent + 1 /\ UNCHANGED pc /\ sent < Len(stream.kinds)
    BY <1>3 DEF SendMessage
  <2>2. sent + 1 \in Procs
    BY <1>0, <2>1
  <2> QED BY <1>2, <2>1, <2>2
<1>4. CASE AnswerSyn
  <2>1. UNCHANGED <<pc, sent>> /\ (wire' = Append(wire, Ack) \/ UNCHANGED wire)
    BY <1>4 DEF AnswerSyn
  <2> QED BY <1>1, <1>2, <2>1, StreamFacts
<1>5. CASE UserCancels \/ ConnectionCloses \/ MonitorEnds \/ ServerlessReturns \/ SendSyn
           \/ UNCHANGED vars
  <2>1. UNCHANGED <<wire, pc, sent>>
    BY <1>5 DEF UserCancels, ConnectionCloses, MonitorEnds, ServerlessReturns, SendSyn, vars,
                clientVars
  <2> QED BY <1>1, <2>1
<1>6. CASE Read
  BY <1>1, <1>6 DEF Read, Receive
<1>7. CASE HandleCommand \/ FrameTooLong
  <2> DEFINE h == Head(wire)
  <2>1. /\ wire # <<>> /\ wire' = Tail(wire) /\ UNCHANGED sent
        /\ h \in Procs /\ pc[h] = "none" /\ (h # Ack => h \in 1 .. sent)
    BY <1>7, HeadOfWire DEF HandleCommand, FrameTooLong, clientVars
  <2>2. pc'[h] # "none" /\ \A j \in Procs : j # h => pc'[j] = pc[j]
    <3>1. CASE HandleCommand
      BY <1>0, <2>1, <3>1, EntryPlace DEF HandleCommand
    <3>2. CASE FrameTooLong
      BY <1>0, <2>1, <3>2 DEF FrameTooLong
    <3> QED BY <1>7, <3>1, <3>2
  <2>3. /\ Len(wire') = Len(wire) - 1 /\ Len(wire) >= 1 /\ h = wire[1]
        /\ \A k \in 1 .. Len(wire') : wire'[k] = wire[k + 1] /\ k + 1 \in 1 .. Len(wire)
    BY <1>0, <2>1
  <2>4. \A i \in 1 .. sent' : pc'[i] # "none" \/ InQueue(wire', i)
    <3> SUFFICES ASSUME NEW i \in 1 .. sent, pc'[i] = "none" PROVE InQueue(Tail(wire), i)
      BY <2>1 DEF InQueue
    <3>1. i \in Procs /\ InQueue(wire, i)
      BY <1>0, <1>00, <1>01
    <3>2. i # h
      BY <2>2
    <3> QED BY <1>0, <2>1, <3>1, <3>2, QueueTail
  <2>5. ASSUME NEW k \in 1 .. Len(wire'), NEW l \in 1 .. Len(wire'), k < l,
               wire'[k] # Ack, wire'[l] # Ack
        PROVE  wire'[k] < wire'[l]
    <3>1. /\ wire'[k] = wire[k + 1] /\ wire'[l] = wire[l + 1]
          /\ k + 1 \in 1 .. Len(wire) /\ l + 1 \in 1 .. Len(wire) /\ k + 1 < l + 1
      BY <2>3, <2>5
    <3> QED BY <1>01, <2>5, <3>1
  <2>6. ASSUME NEW i \in Commands, NEW j \in Commands, i < j, pc'[j] # "none"
        PROVE  pc'[i] # "none"
    <3>1. CASE pc[j] # "none"
      BY <1>0, <1>00, <1>01, <2>6, <3>1
    <3>2. CASE pc[j] = "none"
      <4>1. j = h /\ j # Ack /\ i # Ack
        BY <1>0, <2>2, <2>6, <3>2
      <4>2. i \in 1 .. sent
        BY <1>0, <2>1, <2>6, <4>1
      <4>3. ~InQueue(wire, i)
        <5> SUFFICES ASSUME NEW l \in 1 .. Len(wire), wire[l] = i PROVE FALSE
          BY DEF InQueue
        <5>1. l # 1 /\ 1 < l /\ 1 \in 1 .. Len(wire)
          BY <1>0, <2>3, <2>6, <4>1
        <5>2. wire[1] < wire[l]
          BY <1>01, <2>3, <4>1, <5>1
        <5> QED BY <1>0, <2>3, <2>6, <4>1, <5>2
      <4>4. pc[i] # "none"
        BY <1>01, <4>2, <4>3
      <4> QED BY <1>0, <1>00, <4>4
    <3> QED BY <3>1, <3>2
  <2> HIDE DEF h
  <2> QED BY <1>0, <2>4, <2>5, <2>6 DEF ArrivalInv, InQueue
<1>8. ASSUME NEW i \in Procs, CommandStep(i) PROVE ArrivalInv'
  <2>1. /\ UNCHANGED <<wire, sent>> /\ pc[i] # "none"
        /\ \E to : pc' = [pc EXCEPT ![i] = to]
    BY <1>8, CommandEffect DEF clientVars
  <2> QED BY <1>0, <1>1, <2>1
<1> QED BY <1>3, <1>4, <1>5, <1>6, <1>7, <1>8, NextSplit DEF Transport

\* The Write goroutine waits for a synchronous command, and for no other.
LEMMA WriterStep == TypeInv /\ WireInv /\ WriterInv /\ [Next]_vars => WriterInv'
<1> SUFFICES ASSUME TypeInv, WireInv, WriterInv, [Next]_vars,
                    NEW i \in Procs, pc'[i] \notin {"none", "over"}, Synchronous(i)
             PROVE  writer' = i
  BY Monotone DEF WriterInv, Synchronous, Kind
<1>0. pc \in [Procs -> Places] /\ i # 0
  BY StreamFacts DEF TypeInv, Procs
<1>1. pc[i] \notin {"none", "over"} => writer = i
  BY DEF WriterInv
<1>2. CASE Transport
  BY <1>1, <1>2, TransportEffect
<1>3. CASE HandleCommand
  <2>1. /\ writer = 0 /\ Head(wire) \in Procs
        /\ pc' = [pc EXCEPT ![Head(wire)] = Entry(Head(wire))]
        /\ writer' = IF Synchronous(Head(wire)) THEN Head(wire) ELSE 0
    BY <1>3, HeadOfWire DEF HandleCommand
  <2> QED BY <1>0, <1>1, <2>1
<1>4. CASE FrameTooLong
  <2>1. UNCHANGED writer /\ Head(wire) \in Procs /\ pc' = [pc EXCEPT ![Head(wire)] = "over"]
    BY <1>4, HeadOfWire DEF FrameTooLong
  <2> QED BY <1>0, <1>1, <2>1
<1>5. ASSUME NEW j \in Procs, CommandStep(j) PROVE writer' = i
  <2>1. \/ writer' = writer /\ pc[j] # "over"
        \/ pc' = [pc EXCEPT ![j] = "over"] /\ writer' = IF writer = j THEN 0 ELSE writer
    <3> USE DEF Step, Over
    <3>1. CASE Reply(j)
      BY <3>1 DEF Reply
    <3>2. CASE \/ StartRead(j) \/ GivesUp(j) \/ ReadFile(j) \/ FileProcessed(j)
               \/ MaybeFinishAggregateInput(j) \/ MapCommandReturns(j)
      BY <3>2 DEF StartRead, GivesUp, ReadFile, FileProcessed, MaybeFinishAggregateInput,
                  MapCommandReturns
    <3>3. CASE DecrementActiveCommands(j) \/ LoadActiveCommands(j) \/ CommandFinished(j)
      BY <3>3 DEF DecrementActiveCommands, LoadActiveCommands, CommandFinished
    <3>4. CASE Shutdown(j) \/ Flush(j) \/ CloseSession(j)
      BY <3>4 DEF Shutdown, Flush, CloseSession
    <3> QED BY <1>5, <3>1, <3>2, <3>3, <3>4 DEF CommandStep
  <2>2. pc[j] # "none" /\ \E to : pc' = [pc EXCEPT ![j] = to]
    BY <1>5, CommandEffect
  <2>3. i # j => pc'[i] = pc[i]
    BY <1>0, <2>2
  <2>4. CASE writer' = writer /\ pc[j] # "over"
    BY <1>1, <2>2, <2>3, <2>4
  <2>5. CASE pc' = [pc EXCEPT ![j] = "over"] /\ writer' = IF writer = j THEN 0 ELSE writer
    <3>1. i # j
      BY <1>0, <2>5
    <3> QED BY <1>1, <2>3, <2>5, <3>1
  <2> QED BY <2>1, <2>4, <2>5
<1> QED BY <1>2, <1>3, <1>4, <1>5, NextSplit

\* When a frame is taken, every synchronous command before it is over.
LEMMA KeyStep ==
    TypeInv /\ WireInv /\ ArrivalInv /\ WriterInv /\ KeyInv /\ [Next]_vars => KeyInv'
<1> SUFFICES ASSUME TypeInv, WireInv, ArrivalInv, WriterInv, KeyInv, [Next]_vars,
                    NEW i \in Commands, NEW j \in Commands,
                    Kind(i) = "authkey", i < j, pc'[j] # "none"
             PROVE  pc'[i] = "over"
  BY Arrived DEF KeyInv
<1>0. pc \in [Procs -> Places] /\ i \in Procs /\ j \in Procs /\ Synchronous(i)
      /\ Procs \subseteq Int
  BY StreamFacts DEF TypeInv, Synchronous, Procs
<1>1. CASE pc[j] # "none"
  BY <1>0, <1>1, OverStays DEF KeyInv
<1>2. CASE pc[j] = "none"
  <2>1. CASE Transport
    BY <1>2, <2>1, TransportEffect
  <2>2. CASE HandleCommand \/ FrameTooLong
    <3>1. /\ writer = 0
          /\ \E to : pc' = [pc EXCEPT ![Head(wire)] = to]
      BY <2>2 DEF HandleCommand, FrameTooLong
    <3>2. j = Head(wire) /\ pc'[i] = pc[i]
      <4>1. i # j
        BY <1>0
      <4> QED BY <1>0, <1>2, <3>1, <4>1
    <3>3. pc'[i] # "none"
      BY ArrivalStep, Arrived DEF ArrivalInv
    <3>4. 0 \notin Procs
      BY DEF Procs
    <3> QED BY <1>0, <3>1, <3>2, <3>3, <3>4 DEF WriterInv
  <2>3. ASSUME NEW k \in Procs, CommandStep(k) PROVE FALSE
    <3>1. pc[k] # "none" /\ \E to : pc' = [pc EXCEPT ![k] = to]
      BY <2>3, CommandEffect
    <3> QED BY <1>0, <1>2, <3>1
  <2> QED BY <2>1, <2>2, <2>3, NextSplit
<1> QED BY <1>1, <1>2

\* A command that shuts the session down goes on until the session is done.
LEMMA ClosingStays ==
    ASSUME TypeInv, WireInv, [Next]_vars, NEW i \in Commands, Closing(i)
    PROVE  done' \/ Closing(i)'
<1>0. pc \in [Procs -> Places] /\ i \in Procs /\ pc[i] # "none" /\ pc[i] # "loaded"
  BY StreamFacts DEF TypeInv, Closing
<1>1. CASE Transport
  BY <1>1, TransportEffect DEF Closing
<1>2. CASE HandleCommand \/ FrameTooLong
  <2>1. PICK h \in Procs : pc[h] = "none" /\ \E to : pc' = [pc EXCEPT ![h] = to]
    BY <1>2, HeadOfWire DEF HandleCommand, FrameTooLong
  <2> QED BY <1>0, <2>1 DEF Closing
<1>3. ASSUME NEW k \in Procs, CommandStep(k), k # i PROVE Closing(i)'
  BY <1>0, <1>3, CommandEffect DEF Closing
<1>4. CASE CommandStep(i)
  <2> USE DEF Step, Over, Closing
  <2>1. CASE \/ Reply(i) \/ StartRead(i) \/ GivesUp(i) \/ ReadFile(i) \/ FileProcessed(i)
             \/ MaybeFinishAggregateInput(i) \/ MapCommandReturns(i)
    BY <2>1 DEF Reply, StartRead, GivesUp, ReadFile, FileProcessed, MaybeFinishAggregateInput,
                MapCommandReturns
  <2>2. CASE DecrementActiveCommands(i) \/ LoadActiveCommands(i) \/ CommandFinished(i)
    BY <2>2 DEF DecrementActiveCommands, LoadActiveCommands, CommandFinished
  <2>3. CASE Shutdown(i) \/ Flush(i) \/ CloseSession(i)
    BY <1>0, <2>3 DEF Shutdown, Flush, CloseSession
  <2> QED BY <1>4, <2>1, <2>2, <2>3 DEF CommandStep
<1> QED BY <1>1, <1>2, <1>3, <1>4, NextSplit

LEMMA CloserStep ==
    TypeInv /\ WireInv /\ CloserInv /\ [Next]_vars => CloserInv'
<1> SUFFICES ASSUME TypeInv, WireInv, CloserInv, [Next]_vars, SynOnItsWay'
             PROVE  done' \/ SomeCloses'
  BY DEF CloserInv
<1>1. CASE SynOnItsWay
  BY <1>1, Monotone, Arrived, ClosingStays DEF CloserInv, SomeCloses
<1>2. ASSUME NEW i \in Procs, Flush(i) PROVE SynOnItsWay \/ SomeCloses'
  <2>1. pc[i] = "flush" /\ pc' = [pc EXCEPT ![i] = "await"]
    BY <1>2 DEF Flush, Step
  <2>2. i \in 1 .. sent \/ (i = Ack /\ clientAck = "sent")
    BY <2>1 DEF WireInv
  <2>3. CASE clientAck = "sent"
    BY <2>3 DEF SynOnItsWay
  <2>4. CASE i \in 1 .. sent
    <3>1. i \in Commands
      BY <2>4, StreamFacts DEF WireInv, Commands, TypeInv
    <3>2. pc'[i] = "await"
      BY <2>1 DEF TypeInv
    <3> QED BY <3>1, <3>2, Arrived DEF SomeCloses, Closing
  <2> QED BY <2>2, <2>3, <2>4
<1> QED BY <1>1, <1>2, SynMoves

\* How a command that may be the last goes on: it closes the session, unless it
\* sees that another one is active or pending.
LEMMA MayBeLastMoves ==
    ASSUME TypeInv, WireInv, KindInv, [Next]_vars, NEW i \in Commands, MayBeLast(i)
    PROVE  \/ done' \/ Closing(i)' \/ MayBeLast(i)'
           \/ LoadActiveCommands(i) /\ activeCommands # 0
           \/ CommandFinished(i) /\ pendingFiles # 0
<1> DEFINE Goal == \/ done' \/ Closing(i)' \/ MayBeLast(i)'
                   \/ LoadActiveCommands(i) /\ activeCommands # 0
                   \/ CommandFinished(i) /\ pendingFiles # 0
<1> SUFFICES Goal
  OBVIOUS
<1>0. /\ pc \in [Procs -> Places] /\ seenActive \in [Procs -> Int]
      /\ i \in Procs /\ Ends(i) /\ Ends(i)' /\ Kind(i) \notin {"garbled", "authkey", "ack"}
  BY StreamFacts, Arrived DEF TypeInv, MayBeLast, Ends, Kinds
<1>00. /\ pc[i] \in {"none", "decremented"} \/ Unfinished(i) \/ (pc[i] = "loaded" /\ seenActive[i] = 0)
       /\ ~Closing(i) /\ pc[i] # "over"
  BY DEF MayBeLast, Closing, Unfinished
<1>1. CASE pc'[i] = pc[i] /\ seenActive'[i] = seenActive[i]
  BY <1>0, <1>00, <1>1 DEF MayBeLast, Unfinished
<1>2. ASSUME Unfinished(i)' \/ pc'[i] = "decremented" PROVE Goal
  BY <1>0, <1>2 DEF MayBeLast
<1>3. CASE Transport
  BY <1>1, <1>3, TransportEffect DEF counters
<1>4. CASE HandleCommand
  <2>1. PICK h \in Procs : pc' = [pc EXCEPT ![h] = Entry(h)] /\ seenActive' = seenActive
    BY <1>4, HeadOfWire DEF HandleCommand
  <2>2. CASE h = i
    <3>1. pc'[i] \in {"start", "mapping", "reply"}
      BY <1>0, <2>1, <2>2, EntryPlace
    <3> QED BY <1>2, <3>1 DEF Unfinished
  <2> QED BY <1>0, <1>1, <2>1, <2>2
<1>5. CASE FrameTooLong
  BY <1>5 DEF FrameTooLong
<1>6. ASSUME NEW k \in Procs, CommandStep(k), k # i PROVE Goal
  <2>1. pc'[i] = pc[i]
    BY <1>0, <1>6, CommandEffect
  <2>2. seenActive'[i] = seenActive[i]
    <3> USE DEF counters
    <3>1. CASE LoadActiveCommands(k) \/ CommandFinished(k)
      BY <1>0, <1>6, <3>1 DEF LoadActiveCommands, CommandFinished
    <3>2. CASE \/ Reply(k) \/ StartRead(k) \/ GivesUp(k) \/ ReadFile(k) \/ FileProcessed(k)
               \/ MaybeFinishAggregateInput(k) \/ MapCommandReturns(k)
      BY <3>2 DEF Reply, StartRead, GivesUp, ReadFile, FileProcessed, MaybeFinishAggregateInput,
                  MapCommandReturns
    <3>3. CASE DecrementActiveCommands(k) \/ Shutdown(k) \/ Flush(k) \/ CloseSession(k)
      BY <3>3 DEF DecrementActiveCommands, Shutdown, Flush, CloseSession
    <3> QED BY <1>6, <3>1, <3>2, <3>3 DEF CommandStep
  <2> QED BY <1>1, <2>1, <2>2
<1>7. CASE CommandStep(i)
  <2> USE DEF Step, Over
  <2>1. CASE Reply(i)
    BY <1>0, <1>2, <2>1 DEF Reply, Unfinished, Closing
  <2>2. CASE \/ StartRead(i) \/ GivesUp(i) \/ ReadFile(i) \/ FileProcessed(i)
             \/ MaybeFinishAggregateInput(i) \/ MapCommandReturns(i)
    BY <1>0, <1>2, <2>2 DEF StartRead, GivesUp, ReadFile, FileProcessed, MaybeFinishAggregateInput,
                MapCommandReturns, Unfinished
  <2>3. CASE DecrementActiveCommands(i)
    BY <1>0, <1>2, <2>3 DEF DecrementActiveCommands
  <2>4. CASE LoadActiveCommands(i)
    <3>1. pc'[i] = "loaded" /\ seenActive'[i] = activeCommands
      BY <1>0, <2>4 DEF LoadActiveCommands
    <3> QED BY <1>0, <2>4, <3>1 DEF MayBeLast
  <2>5. CASE CommandFinished(i)
    <3>1. seenActive[i] = 0 /\ ShutdownOnCompletion(i)
      BY <1>0, <1>00, <2>5 DEF CommandFinished, Unfinished, ShutdownOnCompletion
    <3>2. CASE pendingFiles = 0
      <4>1. pc'[i] = "shutdown"
        BY <1>0, <2>5, <3>1, <3>2 DEF CommandFinished, LastCommand
      <4> QED BY <4>1 DEF Closing
    <3> QED BY <2>5, <3>2
  <2>6. CASE Shutdown(i) \/ Flush(i) \/ CloseSession(i)
    BY <1>00, <2>6 DEF Shutdown, Flush, CloseSession, Closing
  <2> HIDE DEF Goal
  <2> QED BY <1>7, <2>1, <2>2, <2>3, <2>4, <2>5, <2>6 DEF CommandStep
<1> HIDE DEF Goal
<1> QED BY <1>3, <1>4, <1>5, <1>6, <1>7, NextSplit

\* A command that sees another one active or pending leaves the end to that one,
\* or to the command that follows an AUTHKEY.
LEMMA LastStep ==
    TypeInv /\ WireInv /\ KindInv /\ CountInv /\ KeyInv /\ CloserInv /\ LastInv /\ [Next]_vars
        => LastInv'
<1> SUFFICES ASSUME TypeInv, WireInv, KindInv, CountInv, KeyInv, CloserInv, LastInv, [Next]_vars,
                    KeysFirst, \E i \in Commands : Ends(i), ~done'
             PROVE  SomeCloses' \/ \E i \in Commands : MayBeLast(i)'
  BY Arrived DEF LastInv, KeysFirst, Ends
<1>0. /\ ~done /\ Commands' = Commands /\ (\A j : Kind(j)' = Kind(j))
      /\ pc \in [Procs -> Places] /\ Commands \subseteq Procs
  BY Monotone, Arrived, StreamFacts DEF TypeInv
<1>1. CASE SomeCloses
  BY <1>0, <1>1, ClosingStays DEF SomeCloses
<1>2. ASSUME NEW i \in Commands, MayBeLast(i), ~SomeCloses PROVE SomeCloses' \/ \E j \in Commands : MayBeLast(j)'
  <2>1. ASSUME NEW j \in Procs, pc[j] # "none" PROVE j \in Commands
    <3>1. clientAck # "sent"
      BY <1>0, <1>2 DEF CloserInv, SynOnItsWay
    <3>2. j \in 1 .. sent /\ sent <= Len(stream.kinds)
      BY <2>1, <3>1 DEF WireInv
    <3> QED BY <3>2, StreamFacts DEF Commands, TypeInv
  <2>2. ASSUME NEW j \in Commands, Ends(j), Unfinished(j) \/ pc[j] = "none", pc'[j] = pc[j]
        PROVE  MayBeLast(j)'
    BY <1>0, <2>2 DEF MayBeLast, Ends, Unfinished
  <2>3. CASE LoadActiveCommands(i) /\ activeCommands # 0
    <3>1. PICK j \in Active : TRUE
      BY <2>3, FS_EmptySet DEF CountInv
    <3>2. /\ j \in Commands /\ Unfinished(j) /\ Kind(j) # "garbled"
      BY <2>1, <3>1 DEF Active, Unfinished, Counted
    <3>3. pc[i] = "decremented" /\ \A k \in Procs : k # i => pc'[k] = pc[k]
      BY <1>0, <2>3 DEF LoadActiveCommands, Step
    <3>4. CASE Kind(j) # "authkey"
      <4>1. Ends(j) /\ j # i
        BY <3>2, <3>3, <3>4 DEF Ends, Unfinished
      <4> QED BY <1>0, <2>2, <3>2, <3>3, <4>1
    <3>5. CASE Kind(j) = "authkey"
      <4>1. PICK k \in Commands : j < k /\ Ends(k)
        BY <3>2, <3>5 DEF KeysFirst
      <4>2. pc[k] = "none"
        BY <3>2, <3>5, <4>1 DEF KeyInv, Unfinished
      <4> QED BY <1>0, <2>2, <3>3, <4>1, <4>2
    <3> QED BY <3>4, <3>5
  <2>4. CASE CommandFinished(i) /\ pendingFiles # 0
    <3>1. PICK j \in Pending : TRUE
      BY <2>4, FS_EmptySet DEF CountInv
    <3>2. j \in Commands /\ Unfinished(j) /\ Kind(j) = "read"
      BY <2>1, <3>1 DEF Pending, Unfinished, KindInv
    <3>3. pc[i] = "loaded" /\ \A k \in Procs : k # i => pc'[k] = pc[k]
      BY <1>0, <2>4 DEF CommandFinished, Step, Over
    <3>4. Ends(j) /\ j # i
      BY <3>2, <3>3 DEF Ends, Unfinished
    <3> QED BY <1>0, <2>2, <3>2, <3>3, <3>4
  <2>5. CASE Closing(i)' \/ MayBeLast(i)'
    BY <1>0, <2>5 DEF SomeCloses
  <2> QED BY <1>2, <2>3, <2>4, <2>5, MayBeLastMoves
<1> QED BY <1>0, <1>1, <1>2 DEF LastInv

LEMMA InitEndInv == Init => EndInv
<1> SUFFICES ASSUME Init PROVE EndInv
  OBVIOUS
<1>1. IInv /\ sent = 0 /\ wire = <<>> /\ \A j \in Procs : pc[j] = "none"
  BY InitIInv DEF Init
<1>2. Commands \subseteq Procs
  BY <1>1, StreamFacts DEF IInv
<1>3. ArrivalInv
  BY <1>1, <1>2 DEF ArrivalInv
<1>4. WriterInv /\ KeyInv
  BY <1>1, <1>2 DEF WriterInv, KeyInv
<1>5. CloserInv
  <2>1. ~InQueue(serverMessages, Syn)
    BY DEF Init, InQueue, Syn
  <2> QED BY <2>1 DEF CloserInv, SynOnItsWay, Init
<1>6. LastInv
  BY <1>1, <1>2 DEF LastInv, MayBeLast
<1> QED BY <1>3, <1>4, <1>5, <1>6 DEF EndInv

\* The last command to finish finds the counters at zero, and closes: of those
\* that finish at the same time one loads the counter last, and an AUTHKEY, which
\* would keep the others from closing, is over before the next command starts.
THEOREM LastCommandCorrect == Spec => []LastCommandCloses
<1>1. IInv /\ EndInv /\ [Next]_vars => EndInv'
  BY ArrivalStep, WriterStep, KeyStep, CloserStep, LastStep DEF IInv, EndInv
<1>2. Spec => []EndInv
  BY <1>1, InitEndInv, Invariance, PTL DEF Spec
<1>3. EndInv => LastCommandCloses
  BY DEF EndInv, LastInv, LastCommandCloses, SomeCloses, MayBeLast, Closing, Unfinished
<1> QED BY <1>2, <1>3, PTL
=============================================================================
