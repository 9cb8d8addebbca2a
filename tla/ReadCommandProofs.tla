-------------------------- MODULE ReadCommandProofs --------------------------
(***************************************************************************)
(* Proofs about ReadCommand, for every set of commands and files, every    *)
(* channel capacity, limiter size and bound.                               *)
(***************************************************************************)
EXTENDS ReadCommand, FiniteSetTheorems, TLAPS

-----------------------------------------------------------------------------
(* The parts of the inductive invariant. *)

\* tryRead owns mu exactly in the states of its receive loop, and enters the
\* loop only in output mode with an empty remainder.
ReaderInv ==
    /\ muHeld <=> rpc \in {"receive", "recheck", "ack", "disable"}
    /\ rpc # "idle" => mode /\ buffer = NoPayload
    /\ rpc = "retry" => lines # << >>
    /\ rpc = "disable" => eofClosed /\ lines = << >>

\* pendingFiles counts the files in flight; a command that has not started
\* has none.
PendingInv ==
    /\ pending = Cardinality({f \in File : fpc[f] \in InFlight})
    /\ \A c \in Command : cpc[c] = "new" => \A f \in FilesOf(c) : fpc[f] = "idle"

\* A command that found pending = 0 and whose epoch is still current knows
\* that nobody writes; an epoch is never captured ahead of time.
EpochInv ==
    \A c \in Command :
        /\ cpc[c] \in {"check", "flush", "signal"} => cepoch[c] <= epoch
        /\ cpc[c] \in {"flush", "signal"} /\ cepoch[c] = epoch
              => \A f \in File : ~Writing(f)

\* Nobody writes after an EOF signal or outside output mode.
QuietInv ==
    eofClosed \/ ~mode => \A f \in File : ~Writing(f)

\* Outside output mode the channel and the remainder are empty.
DrainInv ==
    ~mode => lines = << >> /\ buffer = NoPayload

\* Every handshake but the current one is acknowledged, and so is the current
\* one outside output mode.
AckInv ==
    /\ mode => handshake # 0
    /\ \A i \in 1 .. handshake - 1 : i \in ackClosed
    /\ ~mode /\ handshake # 0 => handshake \in ackClosed

\* The limiter counts its holders, which are at or past the limiter.
LimiterInv ==
    /\ LimiterMatchesHolders
    /\ \A f \in File : acquired[f] => fpc[f] \in {"enable", "writing", "sending",
                                                  "release"}

\* No command runs ahead of the session generation, so output that is stale
\* once stays stale.
GenerationInv ==
    \A c \in Command :
        cgen[c] <= generation /\ (cpc[c] = "new" => cgen[c] = 0)

IInv ==
    /\ TypeOK
    /\ ReaderInv /\ PendingInv /\ EpochInv /\ QuietInv
    /\ DrainInv /\ AckInv /\ LimiterInv /\ GenerationInv

-----------------------------------------------------------------------------
(* Sequences and counting. *)

\* What the channel operations do to the content of the lines channel.
LEMMA ChannelOps ==
    /\ \A s \in Seq(Payload), p \in Payload :
          Append(s, p) \in Seq(Payload) /\ Len(Append(s, p)) = Len(s) + 1
          /\ Append(s, p) # << >>
    /\ \A s \in Seq(Payload) : s # << >> =>
          /\ Head(s) \in Payload /\ Tail(s) \in Seq(Payload)
          /\ Len(Tail(s)) = Len(s) - 1
  OBVIOUS

\* Type correctness: every step of the commands, the files and the reader
\* keeps every variable in its type.
LEMMA Typing == TypeOK /\ [Next]_vars => TypeOK'
<1> SUFFICES ASSUME TypeOK, [Next]_vars PROVE TypeOK'
  OBVIOUS
<1> USE ChannelBufferSizeAssumption, LimitAssumption, GenerationAssumption
    DEF TypeOK, OMTypeOK, omVars, cmdVars, fileVars, readerVars, InFlight
<1>1. CASE SessionUpdate
  BY <1>1 DEF SessionUpdate
<1>2. CASE CancelOutdated
  BY <1>2 DEF CancelOutdated, Outdated
<1>3. ASSUME NEW c \in Command, CancelCommand(c) PROVE TypeOK'
  BY <1>3 DEF CancelCommand
<1>4. ASSUME NEW c \in Command, CommandNext(c) \/ AckTimeout(c) PROVE TypeOK'
  <2>1. CASE StartFiles(c)
    <3>1. Cardinality(FilesOf(c)) \in Nat
      BY FileAssumption, FS_Subset, FS_CardinalityType DEF FilesOf
    <3>2. fpc' \in [File -> InFlight \cup {"idle", "done"}]
      BY <2>1 DEF StartFiles
    <3>3. pending' \in Int
      BY <2>1, <3>1 DEF StartFiles
    <3> QED BY <2>1, <3>2, <3>3 DEF StartFiles, CommandStep
  <2>2. CASE NoFilesFound(c)
    BY <2>2 DEF NoFilesFound, CommandStep
  <2>3. CASE FilesFinished(c)
    BY <2>3 DEF FilesFinished, CommandStep
  <2>4. CASE CheckOutputActive(c)
    BY <2>4 DEF CheckOutputActive, CommandStep
  <2>5. CASE CaptureEpoch(c)
    BY <2>5 DEF CaptureEpoch, CommandStep
  <2>6. CASE CheckPending(c)
    BY <2>6 DEF CheckPending, CommandStep
  <2>7. CASE FlushDrained(c)
    BY <2>7 DEF FlushDrained, CommandStep
  <2>8. CASE FlushTimeout(c)
    BY <2>8 DEF FlushTimeout, CommandStep
  <2>9. CASE SignalOutputEOF(c)
    BY <2>9 DEF SignalOutputEOF, SignalEOF, CommandStep
  <2>10. CASE SnapshotAck(c)
    BY <2>10 DEF SnapshotAck, CommandStep
  <2>11. CASE AckReceived(c)
    BY <2>11 DEF AckReceived, CommandStep
  <2>12. CASE AckTimeout(c)
    BY <2>12 DEF AckTimeout, CommandStep
  <2> QED
    BY <1>4, <2>1, <2>2, <2>3, <2>4, <2>5, <2>6, <2>7, <2>8, <2>9, <2>10,
       <2>11, <2>12
    DEF CommandNext
<1>5. ASSUME NEW f \in File, FileNext(f) PROVE TypeOK'
  <2>1. CASE PrepareDenied(f) \/ PrepareGranted(f) \/ AbandonQueue(f)
             \/ AbandonSend(f) \/ FinishReading(f)
    <3>1. \E to \in InFlight : fpc' = [fpc EXCEPT ![f] = to]
      BY <2>1 DEF PrepareDenied, PrepareGranted, AbandonQueue, AbandonSend,
                  FinishReading, FileStep
    <3>2. UNCHANGED <<pending, sent, limiter, acquired, omVars, cmdVars, readerVars>>
      BY <2>1 DEF PrepareDenied, PrepareGranted, AbandonQueue, AbandonSend,
                  FinishReading
    <3> QED BY <3>1, <3>2
  <2>2. CASE AcquireSlot(f)
    BY <2>2 DEF AcquireSlot, FileStep
  <2>3. CASE EnableOutput(f)
    <3>1. fpc' \in [File -> InFlight \cup {"idle", "done"}]
      BY <2>3 DEF EnableOutput, FileStep
    <3>2. /\ epoch' \in Nat /\ mode' \in BOOLEAN /\ handshake' \in Nat
          /\ emptySince' \in {"zero", "recent", "elapsed"}
      BY <2>3 DEF EnableOutput, Enable, ResetEOFHandshake
    <3>3. ackClosed' \in SUBSET Nat
      BY <2>3 DEF EnableOutput, Enable
    <3>4. eofClosed' \in BOOLEAN
      BY <2>3, Zenon DEF EnableOutput, Enable, ResetEOFHandshake
    <3> QED BY <2>3, <3>1, <3>2, <3>3, <3>4 DEF EnableOutput, Enable
  <2>4. CASE BeginSend(f)
    BY <2>4, PayloadAssumption DEF BeginSend, FileStep
  <2>5. CASE SendToChannel(f)
    <3>1. <<f, sent[f]>> \in Payload
      BY <2>5, PayloadAssumption DEF SendToChannel, FileStep
    <3> QED BY <2>5, <3>1, ChannelOps DEF SendToChannel, SendLine, FileStep
  <2>6. CASE ReleaseSlot(f)
    BY <2>6 DEF ReleaseSlot, FileStep
  <2>7. CASE CompletePendingFile(f)
    BY <2>7 DEF CompletePendingFile, FileStep
  <2> QED BY <1>5, <2>1, <2>2, <2>3, <2>4, <2>5, <2>6, <2>7 DEF FileNext
<1>6. CASE ReaderNext
  <2>1. CASE ReadBuffered
    BY <2>1, ChannelOps DEF ReadBuffered, DrainBuffer
  <2>2. CASE TryRead
    BY <2>2 DEF TryRead, BeginTryRead
  <2>3. CASE ReceiveStale
    BY <2>3, ChannelOps DEF ReceiveStale, ConsumeStale
  <2>4. CASE ReceiveLive
    <3>1. PICK fits \in BOOLEAN :
             /\ Consume(fits)
             /\ delivered' = IF fits THEN Append(delivered, Head(lines)) ELSE delivered
      BY <2>4 DEF ReceiveLive
    <3>2. lines # << >> /\ Head(lines) \in Payload /\ Tail(lines) \in Seq(Payload)
          /\ Len(Tail(lines)) <= ChannelBufferSize
      BY <3>1, ChannelOps DEF Consume
    <3>3. delivered' \in Seq(Payload)
      BY <3>1, <3>2, ChannelOps
    <3> QED BY <2>4, <3>1, <3>2, <3>3 DEF ReceiveLive, Consume
  <2>5. CASE ReceiveNothing \/ StillNothing \/ DecideAck
    BY <2>5 DEF ReceiveNothing, StillNothing, DecideAck
  <2>6. CASE SleepBeforeRetry
    BY <2>6 DEF SleepBeforeRetry, ReleaseForRetry
  <2>7. CASE MaybeAckEOF
    BY <2>7 DEF MaybeAckEOF, ObserveEOF
  <2>8. CASE AckEOF
    BY <2>8 DEF AckEOF, DisableOutput
  <2> QED
    BY <1>6, <2>1, <2>2, <2>3, <2>4, <2>5, <2>6, <2>7, <2>8 DEF ReaderNext
<1>7. CASE QuietPeriod
  BY <1>7 DEF QuietPeriod, QuietPeriodElapses
<1>8. CASE UNCHANGED vars
  BY <1>8 DEF vars
<1> QED
  BY <1>1, <1>2, <1>3, <1>4, <1>5, <1>6, <1>7, <1>8 DEF Next, Done

-----------------------------------------------------------------------------
(* Every step preserves every part of the invariant. *)

\* Steps that leave the manager, the reader and the set of writers alone.
Bystander ==
    \/ SessionUpdate \/ CancelOutdated
    \/ \E c \in Command :
          \/ CancelCommand(c) \/ NoFilesFound(c) \/ FilesFinished(c)
          \/ CheckOutputActive(c) \/ CaptureEpoch(c) \/ CheckPending(c)
          \/ FlushDrained(c) \/ FlushTimeout(c) \/ SnapshotAck(c)
          \/ AckReceived(c) \/ AckTimeout(c)
    \/ UNCHANGED vars

\* The steps by kind: this is how the proofs below split Next.
LEMMA StepCases ==
    ASSUME [Next]_vars
    PROVE  \/ Bystander
           \/ \E c \in Command : StartFiles(c) \/ SignalOutputEOF(c)
           \/ \E f \in File : FileNext(f)
           \/ ReaderNext
           \/ QuietPeriod
  BY DEF Next, CommandNext, Bystander, Done

\* Bystanders change neither the manager nor the files nor the reader.
LEMMA BystanderFrame ==
    ASSUME Bystander
    PROVE  UNCHANGED <<omVars, fileVars, readerVars>>
  BY DEF Bystander, SessionUpdate, CancelOutdated, CancelCommand, NoFilesFound,
         FilesFinished, CheckOutputActive, CaptureEpoch, CheckPending,
         FlushDrained, FlushTimeout, SnapshotAck, AckReceived, AckTimeout, vars

\* File steps other than EnableOutput and SendToChannel leave the manager
\* alone, and none but EnableOutput makes a file a writer.
LEMMA FileFrame ==
    ASSUME TypeOK, NEW f \in File, FileNext(f)
    PROVE  /\ UNCHANGED <<cmdVars, readerVars>>
           /\ EnableOutput(f) \/ SendToChannel(f) \/ UNCHANGED omVars
           /\ EnableOutput(f) \/ \A g \in File : Writing(g)' => Writing(g)
           /\ \A g \in File : g # f => fpc'[g] = fpc[g]
  BY DEF FileNext, PrepareDenied, PrepareGranted, AcquireSlot, AbandonQueue,
         EnableOutput, BeginSend, SendToChannel, AbandonSend, FinishReading,
         ReleaseSlot, CompletePendingFile, FileStep, Writing, TypeOK

\* tryRead keeps mu, output mode and the empty remainder together.
LEMMA ReaderInvStep ==
    ASSUME IInv, [Next]_vars PROVE ReaderInv'
<1> USE DEF IInv, ReaderInv
<1>1. CASE Bystander \/ QuietPeriod
  BY <1>1, BystanderFrame DEF QuietPeriod, QuietPeriodElapses, omVars, readerVars
<1>2. ASSUME NEW c \in Command, StartFiles(c) \/ SignalOutputEOF(c)
      PROVE  ReaderInv'
  BY <1>2 DEF StartFiles, SignalOutputEOF, SignalEOF, omVars, readerVars, TypeOK,
              OMTypeOK
<1>3. ASSUME NEW f \in File, FileNext(f) PROVE ReaderInv'
  <2>1. CASE EnableOutput(f)
    BY <2>1 DEF EnableOutput, Enable, omVars, readerVars
  <2>2. CASE SendToChannel(f)
    <3>1. Writing(f)
      BY <2>2 DEF SendToChannel, FileStep, Writing
    <3>2. rpc # "disable"
      BY <3>1 DEF QuietInv
    <3>3. <<f, sent[f]>> \in Payload
      BY PayloadAssumption DEF TypeOK
    <3> QED
      BY <2>2, <3>2, <3>3, ChannelOps DEF SendToChannel, SendLine, readerVars, TypeOK, OMTypeOK
  <2>3. CASE UNCHANGED omVars
    BY <1>3, <2>3, FileFrame DEF omVars, readerVars
  <2> QED BY <1>3, <2>1, <2>2, <2>3, FileFrame
<1>4. CASE ReaderNext
  BY <1>4
  DEF ReaderNext, ReadBuffered, TryRead, ReceiveStale, ReceiveLive, AtReceive,
      ReceiveNothing, SleepBeforeRetry, StillNothing, MaybeAckEOF, DecideAck,
      AckEOF, DrainBuffer, BeginTryRead, ConsumeStale, Consume, ReleaseForRetry,
      ObserveEOF, DisableOutput, QuietPeriodOver, omVars, TypeOK
<1> QED BY <1>1, <1>2, <1>3, <1>4, StepCases

\* Nobody writes after an EOF signal or outside output mode.  The signal is
\* the step that matters: its epoch is current, so EpochInv applies.
LEMMA QuietInvStep ==
    ASSUME IInv, [Next]_vars PROVE QuietInv'
<1> USE DEF IInv, QuietInv
<1>1. CASE Bystander \/ QuietPeriod
  BY <1>1, BystanderFrame
  DEF QuietPeriod, QuietPeriodElapses, omVars, fileVars, Writing
<1>2. ASSUME NEW c \in Command, StartFiles(c) PROVE QuietInv'
  BY <1>2 DEF StartFiles, omVars, Writing, TypeOK
<1>3. ASSUME NEW c \in Command, SignalOutputEOF(c) PROVE QuietInv'
  BY <1>3 DEF SignalOutputEOF, SignalEOF, CommandStep, EpochInv, fileVars, Writing
<1>4. ASSUME NEW f \in File, FileNext(f) PROVE QuietInv'
  <2>1. CASE EnableOutput(f)
    BY <2>1 DEF EnableOutput, Enable, ResetEOFHandshake, TypeOK, OMTypeOK
  <2>2. CASE SendToChannel(f)
    BY <1>4, <2>2, FileFrame DEF SendToChannel, SendLine, FileStep, Writing, TypeOK
  <2>3. CASE UNCHANGED omVars /\ \A g \in File : Writing(g)' => Writing(g)
    BY <2>3 DEF omVars
  <2> QED BY <1>4, <2>1, <2>2, <2>3, FileFrame
<1>5. CASE ReaderNext
  BY <1>5
  DEF ReaderNext, ReadBuffered, TryRead, ReceiveStale, ReceiveLive,
      ReceiveNothing, SleepBeforeRetry, StillNothing, MaybeAckEOF, DecideAck,
      AckEOF, DrainBuffer, BeginTryRead, ConsumeStale, Consume, ReleaseForRetry,
      ObserveEOF, DisableOutput, omVars, fileVars, Writing, ReaderInv
<1> QED BY <1>1, <1>2, <1>3, <1>4, <1>5, StepCases

\* The files in flight, and what a step of one file does to their number.
Flying == {f \in File : fpc[f] \in InFlight}

\* The set of files in flight is finite, so it can be counted.
LEMMA FlyingFinite == IsFiniteSet(Flying) /\ Cardinality(Flying) \in Nat
  BY FileAssumption, FS_Subset, FS_CardinalityType DEF Flying

\* pendingFiles counts the files in flight.
LEMMA PendingInvStep ==
    ASSUME IInv, [Next]_vars PROVE PendingInv'
<1> USE DEF IInv, PendingInv
<1>1. CASE Bystander
  <2>1. UNCHANGED <<pending, fpc>>
    BY <1>1, BystanderFrame DEF fileVars
  <2>2. \A c \in Command : cpc'[c] = "new" => cpc[c] = "new"
    BY <1>1
    DEF Bystander, SessionUpdate, CancelOutdated, CancelCommand, NoFilesFound,
        FilesFinished, CheckOutputActive, CaptureEpoch, CheckPending,
        FlushDrained, FlushTimeout, SnapshotAck, AckReceived, AckTimeout, vars,
        cmdVars, CommandStep, TypeOK
  <2> QED BY <2>1, <2>2
<1>2. CASE QuietPeriod \/ ReaderNext
  BY <1>2
  DEF QuietPeriod, ReaderNext, ReadBuffered, TryRead, ReceiveStale, ReceiveLive,
      ReceiveNothing, SleepBeforeRetry, StillNothing, MaybeAckEOF, DecideAck,
      AckEOF, cmdVars, fileVars
<1>3. ASSUME NEW c \in Command, SignalOutputEOF(c) PROVE PendingInv'
  BY <1>3 DEF SignalOutputEOF, CommandStep, fileVars, TypeOK
<1>4. ASSUME NEW c \in Command, StartFiles(c) PROVE PendingInv'
  <2>1. IsFiniteSet(FilesOf(c)) /\ Cardinality(FilesOf(c)) \in Nat
    BY FileAssumption, FS_Subset, FS_CardinalityType DEF FilesOf
  <2>2. Flying \cap FilesOf(c) = {}
    BY <1>4 DEF StartFiles, CommandStep, Flying, InFlight
  <2>3. Flying' = Flying \cup FilesOf(c)
    BY <1>4 DEF StartFiles, Flying, FilesOf, InFlight, TypeOK
  <2>4. Cardinality(Flying \cup FilesOf(c))
          = Cardinality(Flying) + Cardinality(FilesOf(c)) - Cardinality({})
    BY <2>1, <2>2, FlyingFinite, FS_Union
  <2>5. Cardinality(Flying') = Cardinality(Flying) + Cardinality(FilesOf(c))
    BY <2>1, <2>3, <2>4, FlyingFinite, FS_EmptySet
  <2>6. pending' = Cardinality(Flying')
    BY <1>4, <2>5 DEF StartFiles, Flying
  <2>7. \A d \in Command : cpc'[d] = "new" =>
            cpc[d] = "new" /\ \A f \in FilesOf(d) : fpc'[f] = fpc[f]
    BY <1>4 DEF StartFiles, CommandStep, FilesOf, TypeOK
  <2> QED BY <2>6, <2>7 DEF Flying
<1>5. ASSUME NEW f \in File, FileNext(f) PROVE PendingInv'
  <2>1. fpc[f] # "idle" /\ UNCHANGED cpc
    BY <1>5, FileFrame
    DEF FileNext, PrepareDenied, PrepareGranted, AcquireSlot, AbandonQueue,
        EnableOutput, BeginSend, SendToChannel, AbandonSend, FinishReading,
        ReleaseSlot, CompletePendingFile, FileStep, cmdVars
  <2>2. \A c \in Command : cpc'[c] = "new" => \A g \in FilesOf(c) : fpc'[g] = "idle"
    BY <1>5, <2>1, FileFrame DEF FilesOf
  <2>3. pending' = Cardinality(Flying')
    <3>1. CASE CompletePendingFile(f)
      <4>1. f \in Flying /\ Flying' = Flying \ {f}
        BY <3>1 DEF CompletePendingFile, FileStep, Flying, InFlight, TypeOK
      <4>2. Cardinality(Flying \ {f}) = Cardinality(Flying) - 1
        BY <4>1, FlyingFinite, FS_RemoveElement
      <4>3. pending = Cardinality(Flying)
        BY DEF Flying
      <4> QED BY <3>1, <4>1, <4>2, <4>3 DEF CompletePendingFile
    <3>2. CASE ~CompletePendingFile(f)
      <4>1. pending' = pending /\ fpc[f] \in InFlight /\ fpc'[f] \in InFlight
        BY <1>5, <3>2
        DEF FileNext, PrepareDenied, PrepareGranted, AcquireSlot, AbandonQueue,
            EnableOutput, BeginSend, SendToChannel, AbandonSend, FinishReading,
            ReleaseSlot, FileStep, InFlight, TypeOK
      <4>2. \A g \in File : fpc'[g] \in InFlight <=> fpc[g] \in InFlight
        BY <1>5, <4>1, FileFrame
      <4>3. Flying' = Flying
        BY <4>2 DEF Flying
      <4> QED BY <4>1, <4>3 DEF Flying
    <3> QED BY <3>1, <3>2
  <2> QED BY <2>2, <2>3 DEF Flying
<1> QED BY <1>1, <1>2, <1>3, <1>4, <1>5, StepCases

\* A current epoch after a zero pending count means that nobody writes:
\* CheckPending establishes it, and a later writer bumps the epoch.
LEMMA EpochInvStep ==
    ASSUME IInv, [Next]_vars PROVE EpochInv'
<1> USE DEF IInv, EpochInv
<1>1. CASE Bystander
  <2>1. UNCHANGED <<epoch, fpc>>
    BY <1>1, BystanderFrame DEF fileVars, omVars
  <2>2. ASSUME NEW c \in Command, CheckPending(c) PROVE EpochInv'
    <3>1. pending = 0 => \A f \in File : ~Writing(f)
      BY FlyingFinite, FS_EmptySet DEF PendingInv, Flying, Writing, InFlight
    <3> QED BY <2>1, <2>2, <3>1 DEF CheckPending, CommandStep, Writing, TypeOK
  <2>3. ASSUME NEW c \in Command, CaptureEpoch(c) PROVE EpochInv'
    BY <2>1, <2>3 DEF CaptureEpoch, CommandStep, Writing, TypeOK, OMTypeOK
  <2>4. ASSUME NEW c \in Command,
               \/ NoFilesFound(c) \/ FilesFinished(c) \/ CheckOutputActive(c)
               \/ FlushDrained(c) \/ FlushTimeout(c) \/ SnapshotAck(c)
               \/ AckReceived(c) \/ AckTimeout(c)
        PROVE  EpochInv'
    BY <2>1, <2>4
    DEF NoFilesFound, FilesFinished, CheckOutputActive, FlushDrained,
        FlushTimeout, SnapshotAck, AckReceived, AckTimeout, CommandStep, Writing,
        TypeOK
  <2>5. CASE UNCHANGED <<cpc, cepoch>>
    BY <2>1, <2>5 DEF Writing
  <2> QED
    BY <1>1, <2>2, <2>3, <2>4, <2>5
    DEF Bystander, SessionUpdate, CancelOutdated, CancelCommand, vars, cmdVars
<1>2. CASE QuietPeriod \/ ReaderNext
  BY <1>2
  DEF QuietPeriod, QuietPeriodElapses, ReaderNext, ReadBuffered, TryRead,
      ReceiveStale, ReceiveLive, ReceiveNothing, SleepBeforeRetry, StillNothing,
      MaybeAckEOF, DecideAck, AckEOF, DrainBuffer, BeginTryRead, ConsumeStale,
      Consume, ReleaseForRetry, ObserveEOF, DisableOutput, omVars, cmdVars,
      fileVars, Writing
<1>3. ASSUME NEW c \in Command, SignalOutputEOF(c) PROVE EpochInv'
  BY <1>3 DEF SignalOutputEOF, SignalEOF, CommandStep, fileVars, Writing, TypeOK
<1>4. ASSUME NEW c \in Command, StartFiles(c) PROVE EpochInv'
  BY <1>4 DEF StartFiles, CommandStep, omVars, Writing, TypeOK
<1>5. ASSUME NEW f \in File, FileNext(f) PROVE EpochInv'
  <2>1. CASE EnableOutput(f)
    BY <2>1 DEF EnableOutput, Enable, cmdVars, TypeOK, OMTypeOK
  <2>2. CASE ~EnableOutput(f)
    <3>1. epoch' = epoch
      BY <1>5, <2>2, FileFrame DEF omVars, SendToChannel, SendLine
    <3> QED BY <1>5, <2>2, <3>1, FileFrame DEF cmdVars
  <2> QED BY <2>1, <2>2
<1> QED BY <1>1, <1>2, <1>3, <1>4, <1>5, StepCases

\* Outside output mode the channel and the remainder stay empty: only a
\* writer fills the channel, and there is none.
LEMMA DrainInvStep ==
    ASSUME IInv, [Next]_vars PROVE DrainInv'
<1> USE DEF IInv, DrainInv
<1>1. CASE Bystander \/ QuietPeriod
  BY <1>1, BystanderFrame DEF QuietPeriod, QuietPeriodElapses, omVars
<1>2. ASSUME NEW c \in Command, StartFiles(c) \/ SignalOutputEOF(c)
      PROVE  DrainInv'
  BY <1>2 DEF StartFiles, SignalOutputEOF, SignalEOF, omVars
<1>3. ASSUME NEW f \in File, FileNext(f) PROVE DrainInv'
  <2>1. CASE EnableOutput(f)
    BY <2>1 DEF EnableOutput, Enable
  <2>2. CASE SendToChannel(f)
    BY <2>2 DEF SendToChannel, SendLine, FileStep, QuietInv, Writing
  <2>3. CASE UNCHANGED omVars
    BY <2>3 DEF omVars
  <2> QED BY <1>3, <2>1, <2>2, <2>3, FileFrame
<1>4. CASE ReaderNext
  BY <1>4
  DEF ReaderNext, ReadBuffered, TryRead, ReceiveStale, ReceiveLive, AtReceive,
      ReceiveNothing, SleepBeforeRetry, StillNothing, MaybeAckEOF, DecideAck,
      AckEOF, DrainBuffer, BeginTryRead, ConsumeStale, Consume, ReleaseForRetry,
      ObserveEOF, DisableOutput, omVars, ReaderInv
<1> QED BY <1>1, <1>2, <1>3, <1>4, StepCases

\* A replaced handshake is an acknowledged one.
LEMMA AckInvStep ==
    ASSUME IInv, [Next]_vars PROVE AckInv'
<1> USE DEF IInv, AckInv
<1>1. CASE Bystander \/ QuietPeriod
  BY <1>1, BystanderFrame DEF QuietPeriod, QuietPeriodElapses, omVars
<1>2. ASSUME NEW c \in Command, StartFiles(c) \/ SignalOutputEOF(c)
      PROVE  AckInv'
  BY <1>2 DEF StartFiles, SignalOutputEOF, SignalEOF, omVars
<1>3. ASSUME NEW f \in File, FileNext(f) PROVE AckInv'
  <2>1. CASE EnableOutput(f)
    <3>1. handshake \in Nat /\ mode'
      BY <2>1 DEF EnableOutput, Enable, TypeOK, OMTypeOK
    <3>2. CASE handshake' = handshake /\ ackClosed' = ackClosed /\ mode
      BY <3>1, <3>2
    <3>3. CASE /\ handshake' = handshake + 1
               /\ ackClosed \subseteq ackClosed'
               /\ handshake # 0 => handshake \in ackClosed'
      BY <3>1, <3>3
    <3> QED
      BY <2>1, <3>2, <3>3 DEF EnableOutput, Enable, ResetEOFHandshake
  <2>2. CASE SendToChannel(f)
    BY <2>2 DEF SendToChannel, SendLine
  <2>3. CASE UNCHANGED omVars
    BY <2>3 DEF omVars
  <2> QED BY <1>3, <2>1, <2>2, <2>3, FileFrame
<1>4. CASE ReaderNext
  BY <1>4
  DEF ReaderNext, ReadBuffered, TryRead, ReceiveStale, ReceiveLive,
      ReceiveNothing, SleepBeforeRetry, StillNothing, MaybeAckEOF, DecideAck,
      AckEOF, DrainBuffer, BeginTryRead, ConsumeStale, Consume, ReleaseForRetry,
      ObserveEOF, DisableOutput, omVars
<1> QED BY <1>1, <1>2, <1>3, <1>4, StepCases

\* The files that hold a limiter slot.
Holders == {f \in File : acquired[f]}

\* The set of slot holders is finite, so it can be counted.
LEMMA HoldersFinite == IsFiniteSet(Holders) /\ Cardinality(Holders) \in Nat
  BY FileAssumption, FS_Subset, FS_CardinalityType DEF Holders

\* The limiter channel holds exactly the tokens of its holders.
LEMMA LimiterInvStep ==
    ASSUME IInv, [Next]_vars PROVE LimiterInv'
<1> USE DEF IInv, LimiterInv, LimiterMatchesHolders
<1>1. CASE UNCHANGED <<fpc, limiter, acquired>>
  BY <1>1
<1>2. CASE Bystander \/ QuietPeriod \/ ReaderNext
           \/ \E c \in Command : SignalOutputEOF(c)
  BY <1>1, <1>2, BystanderFrame
  DEF QuietPeriod, ReaderNext, ReadBuffered, TryRead, ReceiveStale, ReceiveLive,
      ReceiveNothing, SleepBeforeRetry, StillNothing, MaybeAckEOF, DecideAck,
      AckEOF, SignalOutputEOF, fileVars
<1>3. ASSUME NEW c \in Command, StartFiles(c) PROVE LimiterInv'
  BY <1>3 DEF StartFiles, CommandStep, PendingInv, TypeOK
<1>4. ASSUME NEW f \in File, FileNext(f) PROVE LimiterInv'
  <2>1. CASE AcquireSlot(f)
    <3>1. f \notin Holders /\ Holders' = Holders \cup {f}
      BY <2>1 DEF AcquireSlot, FileStep, Holders, TypeOK
    <3>2. Cardinality(Holders \cup {f}) = Cardinality(Holders) + 1
      BY <3>1, HoldersFinite, FS_AddElement
    <3>3. limiter = Cardinality(Holders)
      BY DEF Holders
    <3>4. limiter' = limiter + 1 /\ limiter < Limit /\ limiter \in Nat
      BY <2>1, <3>3, HoldersFinite DEF AcquireSlot
    <3>5. limiter' = Cardinality(Holders') /\ limiter' <= Limit
      BY <3>1, <3>2, <3>3, <3>4, LimitAssumption
    <3> QED BY <2>1, <3>5 DEF AcquireSlot, FileStep, Holders, TypeOK
  <2>2. CASE ReleaseSlot(f)
    <3>1. Holders' = Holders \ {f} /\ (acquired[f] <=> f \in Holders)
      BY <2>2 DEF ReleaseSlot, Holders, TypeOK
    <3>2. Cardinality(Holders \ {f})
            = IF f \in Holders THEN Cardinality(Holders) - 1 ELSE Cardinality(Holders)
      BY HoldersFinite, FS_RemoveElement
    <3>3. limiter = Cardinality(Holders) /\ limiter <= Limit
      BY DEF Holders
    <3>4. limiter' = IF f \in Holders THEN limiter - 1 ELSE limiter
      BY <2>2, <3>1 DEF ReleaseSlot
    <3>5. limiter' = Cardinality(Holders') /\ limiter' <= Limit
      BY <3>1, <3>2, <3>3, <3>4, HoldersFinite, LimitAssumption
    <3> QED BY <2>2, <3>5 DEF ReleaseSlot, FileStep, Holders, TypeOK
  <2>3. CASE ~AcquireSlot(f) /\ ~ReleaseSlot(f)
    BY <1>4, <2>3
    DEF FileNext, PrepareDenied, PrepareGranted, AbandonQueue, EnableOutput,
        BeginSend, SendToChannel, AbandonSend, FinishReading, CompletePendingFile,
        FileStep, TypeOK
  <2> QED BY <2>1, <2>2, <2>3
<1> QED BY <1>2, <1>3, <1>4, StepCases

\* The session generation never falls behind that of a command.
LEMMA GenerationInvStep ==
    ASSUME IInv, [Next]_vars PROVE GenerationInv'
<1> USE DEF IInv, GenerationInv
<1>1. CASE SessionUpdate
  BY <1>1 DEF SessionUpdate, TypeOK
<1>2. ASSUME NEW c \in Command, StartFiles(c) PROVE GenerationInv'
  BY <1>2 DEF StartFiles, CommandStep, TypeOK
<1>3. CASE /\ UNCHANGED <<generation, cgen>>
           /\ \A c \in Command : cpc'[c] = "new" => cpc[c] = "new"
  BY <1>3
<1>4. CASE Bystander /\ ~SessionUpdate
  BY <1>3, <1>4
  DEF Bystander, CancelOutdated, CancelCommand, NoFilesFound, FilesFinished,
      CheckOutputActive, CaptureEpoch, CheckPending, FlushDrained, FlushTimeout,
      SnapshotAck, AckReceived, AckTimeout, CommandStep, vars, cmdVars, TypeOK
<1>5. ASSUME NEW c \in Command, SignalOutputEOF(c) PROVE GenerationInv'
  BY <1>3, <1>5 DEF SignalOutputEOF, CommandStep, TypeOK
<1>6. ASSUME NEW f \in File, FileNext(f) PROVE GenerationInv'
  BY <1>3, <1>6, FileFrame DEF cmdVars
<1>7. CASE QuietPeriod \/ ReaderNext
  BY <1>3, <1>7
  DEF QuietPeriod, ReaderNext, ReadBuffered, TryRead, ReceiveStale, ReceiveLive,
      ReceiveNothing, SleepBeforeRetry, StillNothing, MaybeAckEOF, DecideAck,
      AckEOF, cmdVars
<1> QED BY <1>1, <1>2, <1>4, <1>5, <1>6, <1>7, StepCases

-----------------------------------------------------------------------------
(* The theorems. *)

\* The initial state satisfies the invariant.
LEMMA InitInvariant == Init => IInv
<1> SUFFICES ASSUME Init PROVE IInv
  OBVIOUS
<1>1. TypeOK
  <2>1. OMTypeOK
    <3>1. lines \in Seq(Payload)
      BY DEF Init, OMInit
    <3>2. Len(lines) <= ChannelBufferSize
      BY ChannelBufferSizeAssumption DEF Init, OMInit
    <3>3. ackClosed \in SUBSET Nat
      BY DEF Init, OMInit
    <3>4. /\ muHeld \in BOOLEAN /\ mode \in BOOLEAN /\ eofClosed \in BOOLEAN
          /\ buffer \in Payload \cup {NoPayload} /\ handshake \in Nat
          /\ emptySince \in {"zero", "recent", "elapsed"} /\ epoch \in Nat
      BY DEF Init, OMInit
    <3> QED BY <3>1, <3>2, <3>3, <3>4 DEF OMTypeOK
  <2>2. /\ generation \in 0 .. MaxGeneration
        /\ cgen \in [Command -> 0 .. MaxGeneration]
        /\ sent \in [File -> 0 .. MaxPayloads]
    BY PayloadAssumption, GenerationAssumption DEF Init
  <2> QED BY <2>1, <2>2 DEF Init, TypeOK, InFlight
<1>2. Flying = {} /\ Holders = {}
  BY DEF Init, InFlight, Flying, Holders
<1>3. pending = Cardinality(Flying) /\ limiter = Cardinality(Holders)
  BY <1>2, FS_EmptySet DEF Init
<1>4. PendingInv
  BY <1>3 DEF Init, PendingInv, Flying, FilesOf
<1>5. LimiterInv
  BY <1>3, LimitAssumption DEF Init, LimiterInv, LimiterMatchesHolders, Holders
<1>6. ReaderInv /\ EpochInv /\ QuietInv /\ DrainInv /\ AckInv
  BY DEF Init, OMInit, ReaderInv, EpochInv, QuietInv, DrainInv, AckInv, Writing
<1>7. GenerationInv
  BY <1>1 DEF Init, GenerationInv, TypeOK
<1> QED BY <1>1, <1>4, <1>5, <1>6, <1>7 DEF IInv

\* The invariant is inductive.
LEMMA StepInvariant == IInv /\ [Next]_vars => IInv'
  BY Typing, ReaderInvStep, PendingInvStep, EpochInvStep, QuietInvStep,
     DrainInvStep, AckInvStep, LimiterInvStep, GenerationInvStep DEF IInv

\* Every reachable state of the read commands and the output manager
\* satisfies the inductive invariant.
THEOREM Invariance == Spec => []IInv
  BY InitInvariant, StepInvariant, PTL DEF Spec

\* Type correctness of the read commands and the output manager.
THEOREM TypeCorrect == Spec => []TypeOK
  BY Invariance, PTL DEF IInv

\* signalEOF's epoch guard keeps an EOF from being signalled while any file
\* goroutine is still between enable and the end of its read.
THEOREM EOFOnlyWhenQuiet == Spec => []NoEOFMidBatch
<1>1. IInv => NoEOFMidBatch
  BY DEF IInv, QuietInv, NoEOFMidBatch
<1> QED BY Invariance, <1>1, PTL

\* No payload stays in the lines channel, and no remainder in the buffer,
\* once tryRead has left output mode.
THEOREM OutputNeverStranded == Spec => [](NoStrandedOutput /\ RemainderImpliesMode)
<1>1. IInv => NoStrandedOutput /\ RemainderImpliesMode
  BY DEF IInv, DrainInv, NoStrandedOutput, RemainderImpliesMode
<1> QED BY Invariance, <1>1, PTL

\* enable never replaces an ack channel that a waiter could still hang on.
THEOREM AcksNeverAbandoned == Spec => []ReplacedAckClosed
<1>1. IInv => ReplacedAckClosed
  BY DEF IInv, AckInv, ReplacedAckClosed
<1> QED BY Invariance, <1>1, PTL

\* The limiter channel holds one token per holder and at most Limit of them.
THEOREM LimiterExact == Spec => []LimiterMatchesHolders
<1>1. IInv => LimiterMatchesHolders
  BY DEF IInv, LimiterInv
<1> QED BY Invariance, <1>1, PTL

-----------------------------------------------------------------------------
(* No EOF is lost: a second invariant, on top of IInv. *)

\* While a file is in flight, its command waits for it.
OwnerInv == \A f \in File : fpc[f] \in InFlight => cpc[Owner[f]] = "reading"

\* A command that has not captured its epoch yet, or has captured the current one.
WillSignal(c) ==
    \/ cpc[c] \in {"reading", "epilogue", "capture"}
    \/ cpc[c] \in {"check", "flush", "signal"} /\ cepoch[c] = epoch

SignalInv == (cancelled = {} /\ mode /\ ~eofClosed) => \E c \in Command : WillSignal(c)

LEMMA OwnerInvStep ==
    ASSUME IInv, OwnerInv, [Next]_vars PROVE OwnerInv'
<1>0. /\ cpc \in [Command -> {"new", "reading", "epilogue", "capture", "check",
                              "flush", "signal", "snapshot", "wait", "done"}]
      /\ fpc \in [File -> InFlight \cup {"idle", "done"}]
      /\ Owner \in [File -> Command]
      /\ "done" \notin InFlight /\ "idle" \notin InFlight
  BY FileAssumption DEF IInv, TypeOK, InFlight
<1>1. CASE UNCHANGED <<cpc, fpc>>
  BY <1>1 DEF OwnerInv
<1>2. ASSUME NEW c \in Command, NEW from, NEW to, CommandStep(c, from, to), from # "reading",
             UNCHANGED fpc
      PROVE  OwnerInv'
  BY <1>0, <1>2 DEF OwnerInv, CommandStep
<1>3. CASE Bystander
  <2>1. UNCHANGED fpc
    BY <1>3, BystanderFrame DEF fileVars
  <2>2. ASSUME NEW c \in Command, FilesFinished(c) PROVE OwnerInv'
    <3>1. \A f \in File : fpc[f] \in InFlight => Owner[f] # c
      BY <1>0, <2>2 DEF FilesFinished, FilesOf
    <3> QED BY <1>0, <2>1, <2>2, <3>1 DEF FilesFinished, CommandStep, OwnerInv
  <2>3. ASSUME NEW c \in Command,
               \/ NoFilesFound(c) \/ CheckOutputActive(c) \/ CaptureEpoch(c) \/ CheckPending(c)
               \/ FlushDrained(c) \/ FlushTimeout(c) \/ SnapshotAck(c)
               \/ AckReceived(c) \/ AckTimeout(c)
        PROVE  OwnerInv'
    <3>1. \E from, to : CommandStep(c, from, to) /\ from # "reading"
      BY <2>3 DEF NoFilesFound, CheckOutputActive, CaptureEpoch, CheckPending, FlushDrained,
                  FlushTimeout, SnapshotAck, AckReceived, AckTimeout
    <3> QED BY <1>2, <2>1, <3>1
  <2>4. CASE SessionUpdate \/ CancelOutdated \/ (\E c \in Command : CancelCommand(c)) \/ UNCHANGED vars
    <3>1. UNCHANGED cpc
      BY <2>4 DEF SessionUpdate, CancelOutdated, CancelCommand, vars, cmdVars
    <3> QED BY <1>1, <2>1, <3>1
  <2> QED BY <1>3, <2>2, <2>3, <2>4 DEF Bystander
<1>4. ASSUME NEW c \in Command, StartFiles(c) PROVE OwnerInv'
  BY <1>0, <1>4 DEF StartFiles, CommandStep, FilesOf, OwnerInv
<1>5. ASSUME NEW c \in Command, SignalOutputEOF(c) PROVE OwnerInv'
  BY <1>2, <1>5 DEF SignalOutputEOF, fileVars
<1>6. ASSUME NEW f \in File, FileNext(f) PROVE OwnerInv'
  <2>1. UNCHANGED cpc /\ \A g \in File : g # f => fpc'[g] = fpc[g]
    BY <1>6, FileFrame DEF IInv, cmdVars
  <2>2. fpc[f] \in InFlight
    BY <1>6
    DEF FileNext, PrepareDenied, PrepareGranted, AcquireSlot, AbandonQueue,
        EnableOutput, BeginSend, SendToChannel, AbandonSend, FinishReading,
        ReleaseSlot, CompletePendingFile, FileStep, InFlight
  <2> QED BY <2>1, <2>2 DEF OwnerInv
<1>7. CASE QuietPeriod \/ ReaderNext
  <2>1. UNCHANGED <<cpc, fpc>>
    BY <1>7
    DEF QuietPeriod, ReaderNext, ReadBuffered, TryRead, ReceiveStale, ReceiveLive,
        ReceiveNothing, SleepBeforeRetry, StillNothing, MaybeAckEOF, DecideAck,
        AckEOF, cmdVars, fileVars
  <2> QED BY <1>1, <2>1
<1> QED BY <1>3, <1>4, <1>5, <1>6, <1>7, StepCases

\* Whoever drops out hands the signal on: an enable to the owner of its file, a
\* command that finds files pending to their owners.
LEMMA SignalInvStep ==
    ASSUME IInv, OwnerInv, SignalInv, [Next]_vars PROVE SignalInv'
<1> SUFFICES ASSUME cancelled' = {}, mode', ~eofClosed' PROVE \E c \in Command : WillSignal(c)'
  BY DEF SignalInv
<1>0. /\ cpc \in [Command -> {"new", "reading", "epilogue", "capture", "check",
                              "flush", "signal", "snapshot", "wait", "done"}]
      /\ cepoch \in [Command -> Nat] /\ fpc \in [File -> InFlight \cup {"idle", "done"}]
      /\ Owner \in [File -> Command]
  BY FileAssumption DEF IInv, TypeOK
<1>1. ASSUME UNCHANGED <<cpc, cepoch, epoch, mode, eofClosed, cancelled>>
      PROVE  \E c \in Command : WillSignal(c)'
  BY <1>1 DEF SignalInv, WillSignal
<1>2. ASSUME NEW c \in Command, NEW from, NEW to, CommandStep(c, from, to),
             UNCHANGED <<cepoch, epoch, mode, eofClosed, cancelled>>,
             WillSignal(c) => WillSignal(c)'
      PROVE  \E d \in Command : WillSignal(d)'
  <2>1. PICK d \in Command : WillSignal(d)
    BY <1>2 DEF SignalInv
  <2>2. CASE d = c
    BY <1>2, <2>1, <2>2
  <2>3. CASE d # c
    <3>1. cpc'[d] = cpc[d]
      BY <1>0, <1>2, <2>3 DEF CommandStep
    <3> QED BY <1>2, <2>1, <3>1 DEF WillSignal
  <2> QED BY <2>2, <2>3
<1>3. CASE Bystander
  <2>1. UNCHANGED <<epoch, mode, eofClosed, handshake, fpc>>
    BY <1>3, BystanderFrame DEF omVars, fileVars
  <2>2. cancelled = {}
    BY <1>3
    DEF Bystander, SessionUpdate, CancelOutdated, CancelCommand, NoFilesFound, FilesFinished,
        CheckOutputActive, CaptureEpoch, CheckPending, FlushDrained, FlushTimeout, SnapshotAck,
        AckReceived, AckTimeout, vars, cmdVars
  <2>3. ASSUME NEW c \in Command, CheckPending(c), pending # 0
        PROVE  \E d \in Command : WillSignal(d)'
    <3>1. PICK f \in Flying : TRUE
      BY <2>3, FS_EmptySet DEF IInv, PendingInv, Flying
    <3>2. cpc[Owner[f]] = "reading" /\ Owner[f] \in Command
      BY <1>0, <3>1 DEF OwnerInv, Flying
    <3>3. cpc'[Owner[f]] = "reading"
      BY <1>0, <2>3, <3>2 DEF CheckPending, CommandStep
    <3> QED BY <3>2, <3>3 DEF WillSignal
  <2>4. ASSUME NEW c \in Command, CheckPending(c), pending = 0
        PROVE  \E d \in Command : WillSignal(d)'
    <3>1. CommandStep(c, "check", "flush") /\ UNCHANGED <<cepoch, cancelled>>
      BY <2>4 DEF CheckPending
    <3>2. WillSignal(c) => WillSignal(c)'
      BY <1>0, <2>1, <3>1 DEF CommandStep, WillSignal
    <3> QED BY <1>2, <2>1, <3>1, <3>2
  <2>5. ASSUME NEW c \in Command, CaptureEpoch(c) PROVE \E d \in Command : WillSignal(d)'
    <3>1. cpc'[c] = "check" /\ cepoch'[c] = epoch'
      BY <1>0, <2>1, <2>5 DEF CaptureEpoch, CommandStep
    <3> QED BY <3>1 DEF WillSignal
  <2>6. ASSUME NEW c \in Command, FilesFinished(c) PROVE \E d \in Command : WillSignal(d)'
    <3>1. cpc'[c] = "epilogue"
      BY <1>0, <2>2, <2>6 DEF FilesFinished, CommandStep
    <3> QED BY <3>1 DEF WillSignal
  <2>7. ASSUME NEW c \in Command, CheckOutputActive(c) PROVE \E d \in Command : WillSignal(d)'
    <3>1. mode /\ handshake # 0
      BY <2>1 DEF IInv, AckInv
    <3>2. cpc'[c] = "capture"
      BY <1>0, <2>7, <3>1 DEF CheckOutputActive, CommandStep
    <3> QED BY <3>2 DEF WillSignal
  <2>8. ASSUME NEW c \in Command, FlushDrained(c) \/ FlushTimeout(c)
        PROVE  \E d \in Command : WillSignal(d)'
    <3>1. CommandStep(c, "flush", "signal") /\ UNCHANGED <<cepoch, cancelled>>
      BY <2>8 DEF FlushDrained, FlushTimeout
    <3>2. WillSignal(c) => WillSignal(c)'
      BY <1>0, <2>1, <3>1 DEF CommandStep, WillSignal
    <3> QED BY <1>2, <2>1, <3>1, <3>2
  <2>9. ASSUME NEW c \in Command, NoFilesFound(c) \/ SnapshotAck(c) \/ AckReceived(c) \/ AckTimeout(c)
        PROVE  \E d \in Command : WillSignal(d)'
    <3>1. /\ \E from, to : CommandStep(c, from, to)
          /\ UNCHANGED <<cepoch, cancelled>> /\ ~WillSignal(c)
      BY <2>9 DEF NoFilesFound, SnapshotAck, AckReceived, AckTimeout, CommandStep, WillSignal
    <3> QED BY <1>2, <2>1, <3>1
  <2>10. CASE SessionUpdate \/ CancelOutdated \/ (\E c \in Command : CancelCommand(c)) \/ UNCHANGED vars
    <3>1. UNCHANGED <<cpc, cepoch>>
      BY <2>10 DEF SessionUpdate, CancelOutdated, CancelCommand, vars, cmdVars
    <3> QED BY <1>1, <2>1, <2>2, <3>1
  <2> QED BY <1>3, <2>3, <2>4, <2>5, <2>6, <2>7, <2>8, <2>9, <2>10 DEF Bystander
<1>4. ASSUME NEW c \in Command, StartFiles(c) PROVE \E d \in Command : WillSignal(d)'
  <2>1. cpc'[c] = "reading"
    BY <1>0, <1>4 DEF StartFiles, CommandStep
  <2> QED BY <2>1 DEF WillSignal
<1>5. ASSUME NEW c \in Command, SignalOutputEOF(c) PROVE \E d \in Command : WillSignal(d)'
  <2>1. /\ CommandStep(c, "signal", "snapshot") /\ UNCHANGED <<cepoch, cancelled, epoch, mode, handshake>>
        /\ eofClosed' = (eofClosed \/ (cepoch[c] = epoch /\ handshake # 0))
    BY <1>5 DEF SignalOutputEOF, SignalEOF
  <2>2. ~eofClosed /\ mode /\ handshake # 0 /\ cepoch[c] # epoch
    BY <2>1 DEF IInv, AckInv
  <2>3. UNCHANGED eofClosed
    BY <2>1, <2>2 DEF IInv, TypeOK, OMTypeOK
  <2>4. ~WillSignal(c)
    BY <2>1, <2>2 DEF CommandStep, WillSignal
  <2> QED BY <1>2, <2>1, <2>3, <2>4
<1>6. ASSUME NEW f \in File, FileNext(f) PROVE \E d \in Command : WillSignal(d)'
  <2>0. UNCHANGED <<cpc, cepoch, cancelled>>
    BY <1>6, FileFrame DEF IInv, cmdVars
  <2>1. CASE EnableOutput(f)
    <3>1. cpc[Owner[f]] = "reading" /\ Owner[f] \in Command
      BY <1>0, <2>1 DEF EnableOutput, FileStep, OwnerInv, InFlight
    <3> QED BY <2>0, <3>1 DEF WillSignal
  <2>2. CASE SendToChannel(f) \/ UNCHANGED omVars
    <3>1. UNCHANGED <<epoch, mode, eofClosed>>
      BY <2>2 DEF SendToChannel, SendLine, omVars
    <3> QED BY <1>1, <2>0, <3>1
  <2> QED BY <1>6, <2>1, <2>2, FileFrame DEF IInv
<1>7. CASE QuietPeriod \/ ReaderNext
  <2>1. UNCHANGED <<cpc, cepoch, cancelled, epoch, eofClosed>> /\ (mode' => mode)
    BY <1>7
    DEF QuietPeriod, QuietPeriodElapses, ReaderNext, ReadBuffered, TryRead, ReceiveStale,
        ReceiveLive, ReceiveNothing, SleepBeforeRetry, StillNothing, MaybeAckEOF, DecideAck,
        AckEOF, DrainBuffer, BeginTryRead, ConsumeStale, Consume, ReleaseForRetry,
        ObserveEOF, DisableOutput, cmdVars, omVars
  <2> QED BY <2>1 DEF SignalInv, WillSignal
<1> QED BY <1>3, <1>4, <1>5, <1>6, <1>7, StepCases

\* signalEOF drops outdated signals and the pending check holds others back, but
\* the last command of a session always ends output mode for all of them.
THEOREM LastBatchCorrect == Spec => []LastBatchSignals
<1>1. Init => OwnerInv /\ SignalInv
  BY FileAssumption DEF Init, OMInit, OwnerInv, SignalInv, InFlight
<1>2. IInv /\ OwnerInv /\ SignalInv /\ [Next]_vars => (OwnerInv /\ SignalInv)'
  BY OwnerInvStep, SignalInvStep
<1>3. Spec => [](OwnerInv /\ SignalInv)
  BY <1>1, <1>2, Invariance, PTL DEF Spec
<1>4. SignalInv => LastBatchSignals
  BY DEF SignalInv, WillSignal, LastBatchSignals
<1> QED BY <1>3, <1>4, PTL

-----------------------------------------------------------------------------
(* The refinement of OutputSession. *)

AbsQueue == Remainder \o lines
AbsWriters == {f \in File : Writing(f)}
AbsSuperseded == {f \in File : Stale(Owner[f])}

\* What the channel operations do to the queue of the abstract session.
LEMMA QueueOps ==
    /\ \A s \in Seq(Payload) : << >> \o s = s
    /\ \A s \in Seq(Payload), p \in Payload :
          /\ <<p>> \o s # << >>
          /\ Head(<<p>> \o s) = p
          /\ Tail(<<p>> \o s) = s
    /\ \A s \in Seq(Payload) : s # << >> => <<Head(s)>> \o Tail(s) = s
    /\ \A r, s \in Seq(Payload), p \in Payload :
          r \o Append(s, p) = Append(r \o s, p)
  OBVIOUS

\* Steps that change none of what the abstract session sees.
Invisible == UNCHANGED <<mode, lines, buffer, delivered, fpc, generation, cgen>>

\* They are stuttering steps of the abstract session.
LEMMA InvisibleStutters ==
    ASSUME Invisible PROVE UNCHANGED Session!sessionVars
  BY DEF Invisible, Session!sessionVars, Remainder, Writing, Stale

\* Every step of the commands, the files and tryRead is a step of the
\* abstract session or changes nothing it sees.
LEMMA RefinementStep ==
    ASSUME IInv, [Next]_vars
    PROVE  [Session!SessionNext]_(Session!sessionVars)
<1> USE DEF IInv
<1>1. CASE SessionUpdate
  <2>1. AbsSuperseded \subseteq AbsSuperseded'
    BY <1>1, FileAssumption DEF SessionUpdate, AbsSuperseded, Stale, GenerationInv, TypeOK
  <2>2. AbsSuperseded' = AbsSuperseded \cup AbsSuperseded' /\ AbsSuperseded' \in SUBSET File
    BY <2>1 DEF AbsSuperseded
  <2>3. Session!Supersede
    BY <1>1, <2>2
    DEF SessionUpdate, Session!Supersede, AbsSuperseded, omVars, fileVars,
        readerVars, Remainder, Writing
  <2> QED BY <2>3 DEF Session!SessionNext
<1>2. CASE Bystander /\ ~SessionUpdate
  <2>1. UNCHANGED <<generation, cgen>>
    BY <1>2
    DEF Bystander, CancelOutdated, CancelCommand, NoFilesFound, FilesFinished,
        CheckOutputActive, CaptureEpoch, CheckPending, FlushDrained, FlushTimeout,
        SnapshotAck, AckReceived, AckTimeout, vars, cmdVars
  <2> QED
    BY <1>2, <2>1, BystanderFrame, InvisibleStutters
    DEF Invisible, omVars, fileVars, readerVars
<1>3. ASSUME NEW c \in Command, StartFiles(c)
      PROVE  UNCHANGED Session!sessionVars
  <2>1. AbsWriters' = AbsWriters
    BY <1>3 DEF StartFiles, CommandStep, AbsWriters, Writing, PendingInv, TypeOK
  <2>2. AbsSuperseded' = AbsSuperseded
    BY <1>3, FileAssumption
    DEF StartFiles, CommandStep, AbsSuperseded, Stale, GenerationInv, TypeOK
  <2> QED
    BY <1>3, <2>1, <2>2
    DEF StartFiles, Session!sessionVars, AbsWriters, AbsSuperseded, omVars,
        readerVars, Remainder
<1>4. ASSUME NEW c \in Command, SignalOutputEOF(c)
      PROVE  UNCHANGED Session!sessionVars
  BY <1>4, InvisibleStutters
  DEF Invisible, SignalOutputEOF, SignalEOF, fileVars, readerVars
<1>5. ASSUME NEW f \in File, FileNext(f)
      PROVE  [Session!SessionNext]_(Session!sessionVars)
  <2>1. AbsSuperseded' = AbsSuperseded /\ delivered' = delivered
    BY <1>5, FileFrame DEF cmdVars, readerVars, AbsSuperseded, Stale
  <2>2. CASE EnableOutput(f)
    <3>1. f \notin AbsWriters /\ AbsWriters' = AbsWriters \cup {f}
      BY <2>2 DEF EnableOutput, FileStep, AbsWriters, Writing, TypeOK
    <3>2. Session!Join(f)
      BY <2>1, <2>2, <3>1
      DEF EnableOutput, Enable, Session!Join, AbsWriters, AbsSuperseded, Remainder
    <3> QED BY <3>2 DEF Session!SessionNext
  <2>3. CASE SendToChannel(f)
    <3>1. f \in AbsWriters /\ AbsWriters' = AbsWriters /\ mode
      BY <2>3 DEF SendToChannel, FileStep, AbsWriters, Writing, QuietInv, TypeOK
    <3>2. <<f, sent[f]>> \in Payload
      BY PayloadAssumption DEF TypeOK
    <3>3. Remainder \in Seq(Payload) /\ lines \in Seq(Payload)
      BY DEF Remainder, TypeOK, OMTypeOK
    <3>4. AbsQueue' = Append(AbsQueue, <<f, sent[f]>>)
      BY <2>3, <3>2, <3>3, QueueOps DEF SendToChannel, SendLine, AbsQueue, Remainder
    <3>5. Session!Send(f)
      BY <2>1, <2>3, <3>1, <3>2, <3>4
      DEF SendToChannel, SendLine, Session!Send, AbsWriters, AbsSuperseded, AbsQueue
    <3> QED BY <3>5 DEF Session!SessionNext
  <2>4. CASE FinishReading(f)
    <3>1. f \in AbsWriters /\ AbsWriters' = AbsWriters \ {f}
      BY <2>4 DEF FinishReading, FileStep, AbsWriters, Writing, TypeOK
    <3>2. Session!Leave(f)
      BY <2>1, <2>4, <3>1
      DEF FinishReading, Session!Leave, AbsWriters, AbsSuperseded, omVars, Remainder
    <3> QED BY <3>2 DEF Session!SessionNext
  <2>5. CASE ~EnableOutput(f) /\ ~SendToChannel(f) /\ ~FinishReading(f)
    <3>1. AbsWriters' = AbsWriters
      BY <1>5, <2>5
      DEF FileNext, PrepareDenied, PrepareGranted, AcquireSlot, AbandonQueue,
          BeginSend, AbandonSend, ReleaseSlot, CompletePendingFile, FileStep,
          AbsWriters, Writing, TypeOK
    <3>2. UNCHANGED omVars
      BY <1>5, <2>5, FileFrame
    <3> QED
      BY <2>1, <3>1, <3>2
      DEF Session!sessionVars, AbsWriters, AbsSuperseded, omVars, Remainder
  <2> QED BY <2>2, <2>3, <2>4, <2>5
<1>6. CASE ReaderNext
  <2>1. /\ AbsWriters' = AbsWriters /\ AbsSuperseded' = AbsSuperseded
        /\ UNCHANGED <<fpc, generation, cgen>>
    BY <1>6
    DEF ReaderNext, ReadBuffered, TryRead, ReceiveStale, ReceiveLive,
        ReceiveNothing, SleepBeforeRetry, StillNothing, MaybeAckEOF, DecideAck,
        AckEOF, cmdVars, fileVars, AbsWriters, AbsSuperseded, Writing, Stale
  <2>2. lines \in Seq(Payload)
    BY DEF TypeOK, OMTypeOK
  <2>3. CASE ReadBuffered
    <3>1. buffer \in Payload /\ AbsQueue = <<buffer>> \o lines
      BY <2>3 DEF ReadBuffered, DrainBuffer, AbsQueue, Remainder, TypeOK, OMTypeOK
    <3>2. AbsQueue' = lines
      BY <2>2, <2>3, QueueOps DEF ReadBuffered, DrainBuffer, AbsQueue, Remainder
    <3>3. AbsQueue # << >> /\ Head(AbsQueue) = buffer /\ Tail(AbsQueue) = lines
      BY <2>2, <3>1, QueueOps
    <3>4. Session!Deliver
      BY <2>1, <2>3, <3>2, <3>3
      DEF ReadBuffered, DrainBuffer, Session!Deliver, AbsQueue, AbsWriters,
          AbsSuperseded
    <3> QED BY <3>4 DEF Session!SessionNext
  <2>4. ASSUME AtReceive PROVE AbsQueue = lines /\ buffer = NoPayload
    BY <2>2, <2>4, QueueOps DEF AtReceive, ReaderInv, AbsQueue, Remainder
  <2>5. CASE ReceiveStale
    <3>1. AbsQueue = lines /\ AbsQueue' = Tail(lines) /\ lines # << >>
      BY <2>2, <2>4, <2>5, QueueOps, ChannelOps
      DEF ReceiveStale, ConsumeStale, AbsQueue, Remainder
    <3>2. Head(lines)[1] \in AbsSuperseded
      BY <2>2, <2>5, ChannelOps, PayloadAssumption DEF ReceiveStale, AbsSuperseded
    <3>3. Session!Discard
      BY <2>1, <2>5, <3>1, <3>2
      DEF ReceiveStale, ConsumeStale, Session!Discard, AbsQueue, AbsWriters,
          AbsSuperseded
    <3> QED BY <3>3 DEF Session!SessionNext
  <2>6. CASE ReceiveLive
    <3>1. PICK fits \in BOOLEAN :
             /\ Consume(fits)
             /\ delivered' = IF fits THEN Append(delivered, Head(lines)) ELSE delivered
      BY <2>6 DEF ReceiveLive
    <3>2. AbsQueue = lines /\ lines # << >> /\ Head(lines) \in Payload
          /\ Tail(lines) \in Seq(Payload)
      BY <2>2, <2>4, <2>6, ChannelOps DEF ReceiveLive
    <3>3. CASE fits
      <4>1. AbsQueue' = Tail(lines)
        BY <3>1, <3>2, <3>3, QueueOps DEF Consume, AbsQueue, Remainder
      <4>2. Session!Deliver
        BY <2>1, <3>1, <3>2, <3>3, <4>1
        DEF Consume, Session!Deliver, AbsQueue, AbsWriters, AbsSuperseded
      <4> QED BY <4>2 DEF Session!SessionNext
    <3>4. CASE ~fits
      <4>1. AbsQueue' = <<Head(lines)>> \o Tail(lines)
        BY <3>1, <3>2, <3>4, NoPayloadAssumption DEF Consume, AbsQueue, Remainder
      <4>2. AbsQueue' = AbsQueue
        BY <2>2, <3>2, <4>1, QueueOps
      <4> QED
        BY <2>1, <3>1, <3>4, <4>2
        DEF Consume, Session!sessionVars, AbsQueue, AbsWriters, AbsSuperseded
    <3> QED BY <3>3, <3>4
  <2>7. CASE AckEOF
    <3>1. mode /\ AbsWriters = {} /\ AbsQueue = << >>
      BY <2>2, <2>7, QueueOps
      DEF AckEOF, ReaderInv, QuietInv, AbsWriters, AbsQueue, Remainder
    <3>2. Session!Close
      BY <2>1, <2>7, <3>1
      DEF AckEOF, DisableOutput, Session!Close, AbsWriters, AbsQueue,
          AbsSuperseded, Remainder
    <3> QED BY <3>2 DEF Session!SessionNext
  <2>8. CASE \/ TryRead \/ ReceiveNothing \/ SleepBeforeRetry \/ StillNothing
             \/ MaybeAckEOF \/ DecideAck
    BY <2>1, <2>8, InvisibleStutters
    DEF Invisible, TryRead, ReceiveNothing, SleepBeforeRetry, StillNothing,
        MaybeAckEOF, DecideAck, BeginTryRead, ReleaseForRetry, ObserveEOF, omVars
  <2> QED BY <1>6, <2>3, <2>5, <2>6, <2>7, <2>8 DEF ReaderNext
<1>7. CASE QuietPeriod
  BY <1>7, InvisibleStutters
  DEF Invisible, QuietPeriod, QuietPeriodElapses, cmdVars, fileVars, readerVars
<1> QED BY <1>1, <1>2, <1>3, <1>4, <1>5, <1>6, <1>7, StepCases

\* The initial state maps to the initial state of the abstract session.
LEMMA RefinementInit == Init => Session!SessionInit
<1> SUFFICES ASSUME Init PROVE Session!SessionInit
  OBVIOUS
<1>1. AbsWriters = {} /\ AbsSuperseded = {}
  BY FileAssumption DEF Init, AbsWriters, AbsSuperseded, Writing, Stale
<1>2. AbsQueue = << >>
  BY DEF Init, OMInit, AbsQueue, Remainder
<1> QED
  BY <1>1, <1>2 DEF Init, OMInit, Session!SessionInit, AbsWriters, AbsSuperseded,
                    AbsQueue

\* The commands, the files, the EOF handshake and tryRead together implement
\* the abstract output session: delivery in order, nothing discarded but
\* superseded output, no close with a writer or a payload left.
THEOREM Refinement == Spec => ImplementsSession
<1>1. IInv /\ [Next]_vars => [Session!SessionNext]_(Session!sessionVars)
  BY RefinementStep
<1> QED
  BY RefinementInit, Invariance, <1>1, PTL
  DEF Spec, ImplementsSession, Session!SessionSpec
=============================================================================
