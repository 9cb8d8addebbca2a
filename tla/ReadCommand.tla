----------------------------- MODULE ReadCommand -----------------------------
(***************************************************************************)
(* The cat/grep/tail commands of one server-mode session and the output    *)
(* manager they share: every command expands to a batch of files, every    *)
(* file is read by a goroutine of its own (readcommand.go), and the        *)
(* session output goroutine (baseHandler.Read -> tryRead) empties the      *)
(* lines channel towards the client.                                       *)
(*                                                                         *)
(* A command runs once; Owner fixes which command reads which file.  The   *)
(* contexts of commands are cancelled by a "timeout" prefix (Cancellable)  *)
(* and by a session update, which also makes older output stale.           *)
(***************************************************************************)
EXTENDS OutputManager, FiniteSets

CONSTANTS
    Command,       \* read commands the client issues
    File,          \* files matched by the commands' globs
    Owner,         \* Owner[f]: the command that reads f
    MaxPayloads,   \* bound: payloads a file goroutine tries to send
    MaxGeneration, \* bound: highest session generation
    Limit,         \* MaxConcurrentCats / MaxConcurrentTails
    Cancellable    \* commands whose context may be cancelled on its own

ASSUME CommandAssumption == Cancellable \subseteq Command
ASSUME FileAssumption == IsFiniteSet(File) /\ Owner \in [File -> Command]
ASSUME PayloadAssumption ==
    MaxPayloads \in Nat /\ Payload = File \X (0 .. MaxPayloads)
ASSUME LimitAssumption == Limit \in Nat \ {0}
ASSUME GenerationAssumption == MaxGeneration \in Nat

VARIABLES
    generation,  \* sessionCommandState.generation; 0 outside a session
    cancelled,   \* commands whose context is done
    cgen,        \* cgen[c]: the generation c was dispatched with
    cpc,         \* cpc[c]: where command c is in readFiles
    cepoch,      \* cepoch[c]: the epoch c captured before its pending check
    cack,        \* cack[c]: number of the eofAck channel c waits on
    pending,     \* pendingFiles
    fpc,         \* fpc[f]: where the goroutine of file f is
    sent,        \* sent[f]: payloads f has tried to send
    limiter,     \* slots taken in the limiter channel
    acquired,    \* acquired[f]: the flag that guards the release of f's slot
    rpc,         \* where tryRead is
    delivered    \* payloads handed to the client, in order (history)

cmdVars == <<generation, cancelled, cgen, cpc, cepoch, cack>>
fileVars == <<pending, fpc, sent, limiter, acquired>>
readerVars == <<rpc, delivered>>
vars == <<omVars, cmdVars, fileVars, readerVars>>

FilesOf(c) == {f \in File : Owner[f] = c}

\* Counted in pendingFiles: AddPendingFiles ran, CompletePendingFile did not.
InFlight == {"prepare", "queued", "enable", "writing", "sending", "release",
             "complete"}

\* Has enabled output mode and may still send to the lines channel.
Writing(f) == fpc[f] \in {"writing", "sending"}

\* shouldDropGeneration / not shouldWriteGeneration for command c's output.
Stale(c) == cgen[c] # 0 /\ generation # 0 /\ generation # cgen[c]

Init ==
    /\ OMInit
    /\ generation \in {0, 1} \cap (0 .. MaxGeneration)
    /\ cancelled = {}
    /\ cgen = [c \in Command |-> 0]
    /\ cpc = [c \in Command |-> "new"]
    /\ cepoch = [c \in Command |-> 0]
    /\ cack = [c \in Command |-> 0]
    /\ pending = 0
    /\ fpc = [f \in File |-> "idle"]
    /\ sent = [f \in File |-> 0]
    /\ limiter = 0
    /\ acquired = [f \in File |-> FALSE]
    /\ rpc = "idle"
    /\ delivered = << >>

TypeOK ==
    /\ OMTypeOK
    /\ generation \in 0 .. MaxGeneration
    /\ cancelled \in SUBSET Command
    /\ cgen \in [Command -> 0 .. MaxGeneration]
    /\ cpc \in [Command -> {"new", "reading", "epilogue", "capture", "check",
                            "flush", "signal", "snapshot", "wait", "done"}]
    /\ cepoch \in [Command -> Nat]
    /\ cack \in [Command -> Nat]
    /\ pending \in Int
    /\ fpc \in [File -> InFlight \cup {"idle", "done"}]
    /\ sent \in [File -> 0 .. MaxPayloads]
    /\ limiter \in Int
    /\ acquired \in [File -> BOOLEAN]
    /\ rpc \in {"idle", "receive", "recheck", "retry", "ack", "disable"}
    /\ delivered \in Seq(Payload)

CommandStep(c, from, to) == cpc[c] = from /\ cpc' = [cpc EXCEPT ![c] = to]
FileStep(f, from, to) == fpc[f] = from /\ fpc' = [fpc EXCEPT ![f] = to]

-----------------------------------------------------------------------------
(* Session and contexts. *)

\* sessionCommandState.update: the generation moves on under the lock ...
SessionUpdate ==
    /\ generation > 0 /\ generation < MaxGeneration
    /\ generation' = generation + 1
    /\ UNCHANGED <<cancelled, cgen, cpc, cepoch, cack, omVars, fileVars,
                   readerVars>>

Outdated == {c \in Command : cpc[c] \notin {"new", "done"} /\ cgen[c] # generation}

\* ... and the context of the previous generation is cancelled after it.
CancelOutdated ==
    /\ ~ Outdated \subseteq cancelled
    /\ cancelled' = cancelled \cup Outdated
    /\ UNCHANGED <<generation, cgen, cpc, cepoch, cack, omVars, fileVars,
                   readerVars>>

\* A "timeout" prefix expires (applyCommandTimeout).
CancelCommand(c) ==
    /\ c \in Cancellable \ cancelled
    /\ cpc[c] # "new"
    /\ cancelled' = cancelled \cup {c}
    /\ UNCHANGED <<generation, cgen, cpc, cepoch, cack, omVars, fileVars,
                   readerVars>>

-----------------------------------------------------------------------------
(* A command: readFiles. *)

\* AddPendingFiles, then one goroutine per path.  A session update dispatches
\* its commands after it has cancelled the old context.
StartFiles(c) ==
    /\ Outdated \subseteq cancelled
    /\ CommandStep(c, "new", "reading")
    /\ cgen' = [cgen EXCEPT ![c] = generation]
    /\ pending' = pending + Cardinality(FilesOf(c))
    /\ fpc' = [f \in File |-> IF f \in FilesOf(c) THEN "prepare" ELSE fpc[f]]
    /\ UNCHANGED <<generation, cancelled, cepoch, cack, sent, limiter,
                   acquired, omVars, readerVars>>

\* readGlob gives up without a match (retries used up, or ctx.Done()).
NoFilesFound(c) ==
    /\ CommandStep(c, "new", "done")
    /\ UNCHANGED <<generation, cancelled, cgen, cepoch, cack, omVars, fileVars,
                   readerVars>>

\* wg.Wait returns; a command whose context is done skips the epilogue.
FilesFinished(c) ==
    /\ \A f \in FilesOf(c) : fpc[f] = "done"
    /\ CommandStep(c, "reading", IF c \in cancelled THEN "done" ELSE "epilogue")
    /\ UNCHANGED <<generation, cancelled, cgen, cepoch, cack, omVars, fileVars,
                   readerVars>>

\* DirectOutputActive() && HasOutputEOF()
CheckOutputActive(c) ==
    /\ ~muHeld
    /\ CommandStep(c, "epilogue", IF mode /\ handshake # 0 THEN "capture"
                                                           ELSE "done")
    /\ UNCHANGED <<generation, cancelled, cgen, cepoch, cack, omVars, fileVars,
                   readerVars>>

\* OutputEpoch(), before the pending check.
CaptureEpoch(c) ==
    /\ ~muHeld
    /\ CommandStep(c, "capture", "check")
    /\ cepoch' = [cepoch EXCEPT ![c] = epoch]
    /\ UNCHANGED <<generation, cancelled, cgen, cack, omVars, fileVars,
                   readerVars>>

\* Mutant: every command signals, the ones that are not the last included.
CheckPendingSkipped(c) ==
    /\ CommandStep(c, "check", "flush")
    /\ UNCHANGED <<generation, cancelled, cgen, cepoch, cack, omVars, fileVars,
                   readerVars>>

\* Mutant: another command that is still active keeps this one from signalling.
CheckPendingAndActive(c) ==
    /\ CommandStep(c, "check",
                   IF pending = 0 /\ \A d \in Command \ {c} : cpc[d] = "done"
                   THEN "flush" ELSE "done")
    /\ UNCHANGED <<generation, cancelled, cgen, cepoch, cack, omVars, fileVars,
                   readerVars>>

\* PendingAndActive(): a command that is not the last to drain stops here.
CheckPending(c) ==
    /\ CommandStep(c, "check", IF pending = 0 THEN "flush" ELSE "done")
    /\ UNCHANGED <<generation, cancelled, cgen, cepoch, cack, omVars, fileVars,
                   readerVars>>

\* FlushOutput returns when it sees the channel empty ...
FlushDrained(c) ==
    /\ lines = << >>
    /\ CommandStep(c, "flush", "signal")
    /\ UNCHANGED <<generation, cancelled, cgen, cepoch, cack, omVars, fileVars,
                   readerVars>>

\* ... or when its timeout expires, with payloads still queued.
FlushTimeout(c) ==
    /\ lines # << >>
    /\ CommandStep(c, "flush", "signal")
    /\ UNCHANGED <<generation, cancelled, cgen, cepoch, cack, omVars, fileVars,
                   readerVars>>

SignalOutputEOF(c) ==
    /\ CommandStep(c, "signal", "snapshot")
    /\ SignalEOF(cepoch[c])
    /\ UNCHANGED <<generation, cancelled, cgen, cepoch, cack, fileVars,
                   readerVars>>

\* waitForEOFAck: the ack channel is snapshotted under mu ...
SnapshotAck(c) ==
    /\ ~muHeld
    /\ CommandStep(c, "snapshot", "wait")
    /\ cack' = [cack EXCEPT ![c] = handshake]
    /\ UNCHANGED <<generation, cancelled, cgen, cepoch, omVars, fileVars,
                   readerVars>>

\* ... and waited on until it is closed ...
AckReceived(c) ==
    /\ cack[c] \in ackClosed
    /\ CommandStep(c, "wait", "done")
    /\ UNCHANGED <<generation, cancelled, cgen, cepoch, cack, omVars, fileVars,
                   readerVars>>

\* ... or until the timeout.
AckTimeout(c) ==
    /\ cack[c] \notin ackClosed
    /\ CommandStep(c, "wait", "done")
    /\ UNCHANGED <<generation, cancelled, cgen, cepoch, cack, omVars, fileVars,
                   readerVars>>

-----------------------------------------------------------------------------
(* A file: readFileIfPermissions, read, readWithProcessor. *)

\* PrepareReadTarget refuses the path, or the reader cannot be built.
PrepareDenied(f) ==
    /\ FileStep(f, "prepare", "release")
    /\ UNCHANGED <<pending, sent, limiter, acquired, omVars, cmdVars, readerVars>>

PrepareGranted(f) ==
    /\ FileStep(f, "prepare", "queued")
    /\ UNCHANGED <<pending, sent, limiter, acquired, omVars, cmdVars, readerVars>>

AcquireSlot(f) ==
    /\ limiter < Limit
    /\ FileStep(f, "queued", "enable")
    /\ limiter' = limiter + 1
    /\ acquired' = [acquired EXCEPT ![f] = TRUE]
    /\ UNCHANGED <<pending, sent, omVars, cmdVars, readerVars>>

\* ctx.Done() while queued for the limiter: return without a slot.
AbandonQueue(f) ==
    /\ Owner[f] \in cancelled
    /\ FileStep(f, "queued", "release")
    /\ UNCHANGED <<pending, sent, limiter, acquired, omVars, cmdVars, readerVars>>

\* ensureOutputEnabled.  The ".output wake" message only shortens the reader's
\* poll and is left out.
EnableOutput(f) ==
    /\ FileStep(f, "enable", "writing")
    /\ Enable
    /\ UNCHANGED <<pending, sent, limiter, acquired, cmdVars, readerVars>>

\* NetworkWriter has a full or flushed buffer, its generation and context
\* checks pass, and it turns to the channel.  (The lines of a MapReduce query
\* go to the aggregate instead: its files finish without a BeginSend.)
BeginSend(f) ==
    /\ sent[f] < MaxPayloads
    /\ ~Stale(Owner[f])
    /\ Owner[f] \notin cancelled
    /\ FileStep(f, "writing", "sending")
    /\ sent' = [sent EXCEPT ![f] = @ + 1]
    /\ UNCHANGED <<pending, limiter, acquired, omVars, cmdVars, readerVars>>

\* The send that follows the checks may find them outdated by now.
SendToChannel(f) ==
    /\ FileStep(f, "sending", "writing")
    /\ SendLine(<<f, sent[f]>>)
    /\ UNCHANGED <<pending, sent, limiter, acquired, cmdVars, readerVars>>

\* The retry loop of sendToChannel gives up on a done context or a stale
\* generation.
AbandonSend(f) ==
    /\ Owner[f] \in cancelled \/ Stale(Owner[f])
    /\ FileStep(f, "sending", "writing")
    /\ UNCHANGED <<pending, sent, limiter, acquired, omVars, cmdVars, readerVars>>

\* executeReadLoop returns: end of file, read error, or ctx.Done().
FinishReading(f) ==
    /\ FileStep(f, "writing", "release")
    /\ UNCHANGED <<pending, sent, limiter, acquired, omVars, cmdVars, readerVars>>

\* Mutant: the release is not guarded by the acquired flag.
ReleaseSlotUnguarded(f) ==
    /\ FileStep(f, "release", "complete")
    /\ limiter' = IF limiter > 0 THEN limiter - 1 ELSE limiter
    /\ acquired' = [acquired EXCEPT ![f] = FALSE]
    /\ UNCHANGED <<pending, sent, omVars, cmdVars, readerVars>>

\* The deferred limiter release of read.
ReleaseSlot(f) ==
    /\ FileStep(f, "release", "complete")
    /\ limiter' = IF acquired[f] THEN limiter - 1 ELSE limiter
    /\ acquired' = [acquired EXCEPT ![f] = FALSE]
    /\ UNCHANGED <<pending, sent, omVars, cmdVars, readerVars>>

\* onFileProcessed -> CompletePendingFile, then wg.Done.
CompletePendingFile(f) ==
    /\ FileStep(f, "complete", "done")
    /\ pending' = pending - 1
    /\ UNCHANGED <<sent, limiter, acquired, omVars, cmdVars, readerVars>>

-----------------------------------------------------------------------------
(* The session output goroutine: Read -> tryRead. *)

ReadBuffered ==
    /\ rpc = "idle"
    /\ DrainBuffer
    /\ delivered' = Append(delivered, buffer)
    /\ UNCHANGED <<rpc, cmdVars, fileVars>>

TryRead ==
    /\ rpc = "idle"
    /\ BeginTryRead
    /\ rpc' = "receive"
    /\ UNCHANGED <<delivered, cmdVars, fileVars>>

\* The retry of a receive takes mu back first; it always finds the payload
\* that sent it to sleep, because only this goroutine receives.
AtReceive == rpc = "receive" \/ (rpc = "retry" /\ ~muHeld)

ReceiveStale ==
    /\ AtReceive
    /\ lines # << >> /\ Stale(Owner[Head(lines)[1]])
    /\ ConsumeStale
    /\ rpc' = "receive"
    /\ UNCHANGED <<delivered, cmdVars, fileVars>>

ReceiveLive ==
    /\ AtReceive
    /\ lines # << >> /\ ~Stale(Owner[Head(lines)[1]])
    /\ \E fits \in BOOLEAN :
          /\ Consume(fits)
          /\ delivered' = IF fits THEN Append(delivered, Head(lines)) ELSE delivered
    /\ rpc' = "idle"
    /\ UNCHANGED <<cmdVars, fileVars>>

\* The non-blocking receive found nothing.
ReceiveNothing ==
    /\ rpc = "receive"
    /\ lines = << >>
    /\ rpc' = "recheck"
    /\ UNCHANGED <<delivered, omVars, cmdVars, fileVars>>

\* len(t.lines) > 0: a writer got in since; sleep with mu released.
SleepBeforeRetry ==
    /\ rpc = "recheck"
    /\ lines # << >>
    /\ ReleaseForRetry
    /\ rpc' = "retry"
    /\ UNCHANGED <<delivered, cmdVars, fileVars>>

StillNothing ==
    /\ rpc = "recheck"
    /\ lines = << >>
    /\ rpc' = "ack"
    /\ UNCHANGED <<delivered, omVars, cmdVars, fileVars>>

MaybeAckEOF ==
    /\ rpc = "ack"
    /\ ObserveEOF
    /\ rpc' = "idle"
    /\ UNCHANGED <<delivered, cmdVars, fileVars>>

\* The last len check of maybeAckEOFLocked; a send may still come after it.
DecideAck ==
    /\ rpc = "ack"
    /\ QuietPeriodOver
    /\ rpc' = "disable"
    /\ UNCHANGED <<delivered, omVars, cmdVars, fileVars>>

AckEOF ==
    /\ rpc = "disable"
    /\ DisableOutput
    /\ rpc' = "idle"
    /\ UNCHANGED <<delivered, cmdVars, fileVars>>

QuietPeriod ==
    /\ QuietPeriodElapses
    /\ UNCHANGED <<cmdVars, fileVars, readerVars>>

-----------------------------------------------------------------------------
CommandNext(c) ==
    \/ StartFiles(c) \/ NoFilesFound(c) \/ FilesFinished(c) \/ CheckOutputActive(c)
    \/ CaptureEpoch(c) \/ CheckPending(c)
    \/ FlushDrained(c) \/ FlushTimeout(c)
    \/ SignalOutputEOF(c) \/ SnapshotAck(c) \/ AckReceived(c)

FileNext(f) ==
    \/ PrepareDenied(f) \/ PrepareGranted(f)
    \/ AcquireSlot(f) \/ AbandonQueue(f)
    \/ EnableOutput(f)
    \/ BeginSend(f) \/ SendToChannel(f) \/ AbandonSend(f)
    \/ FinishReading(f) \/ ReleaseSlot(f) \/ CompletePendingFile(f)

ReaderNext ==
    \/ ReadBuffered \/ TryRead
    \/ ReceiveStale \/ ReceiveLive \/ ReceiveNothing
    \/ SleepBeforeRetry \/ StillNothing
    \/ MaybeAckEOF \/ DecideAck \/ AckEOF

Done ==
    /\ \A c \in Command : cpc[c] = "done"
    /\ UNCHANGED vars

Next ==
    \/ SessionUpdate \/ CancelOutdated
    \/ \E c \in Command : CancelCommand(c) \/ CommandNext(c) \/ AckTimeout(c)
    \/ \E f \in File : FileNext(f)
    \/ ReaderNext
    \/ QuietPeriod
    \/ Done

Spec == Init /\ [][Next]_vars

(***************************************************************************)
(* Fairness.  Every goroutine that can run does run.  Go's sync.Mutex does *)
(* not starve a waiter, so an operation that needs mu is strongly fair:    *)
(* the polling reader takes and releases mu for ever.  No fairness is      *)
(* asked of AckTimeout or of the cancellations the user causes.            *)
(***************************************************************************)
NeedsMutex(c) ==
    CheckOutputActive(c) \/ CaptureEpoch(c) \/ SignalOutputEOF(c) \/ SnapshotAck(c)

Fairness ==
    /\ \A c \in Command : WF_vars(CommandNext(c)) /\ SF_vars(NeedsMutex(c))
    /\ \A f \in File : WF_vars(FileNext(f)) /\ SF_vars(EnableOutput(f))
    /\ WF_vars(ReaderNext)
    /\ WF_vars(QuietPeriod)
    /\ WF_vars(CancelOutdated)

FairSpec == Spec /\ Fairness

-----------------------------------------------------------------------------
(* Properties. *)

\* While an EOF is signalled in output mode, no file goroutine is between
\* ensureOutputEnabled and the end of its read: the epoch that readFiles
\* captures before its pending check keeps a stale "batch over" decision
\* from cutting off a batch that joined meanwhile.
NoEOFMidBatch ==
    mode /\ eofClosed => \A f \in File : ~Writing(f)

\* Output mode is off only when nothing is left in the lines channel, which
\* tryRead does not look at while mode is off.
NoStrandedOutput ==
    ~mode => lines = << >>

\* "buffer-nonempty + mode-off cannot arise" (comment in tryRead).
RemainderImpliesMode ==
    buffer # NoPayload => mode

\* "every current handshake replacement leaves the old ack channel closed"
\* (comment of waitForEOFAck): a waiter never holds a channel that nobody
\* can close any more.
ReplacedAckClosed ==
    \A i \in 1 .. handshake - 1 : i \in ackClosed

\* No EOF is lost: signals with an outdated epoch are dropped, and commands that
\* find files pending do not signal, but when no command is on its way to a signal
\* any more, output mode is off or its EOF is signalled.  A cancelled command
\* skips its signal.
LastBatchSignals ==
    (cancelled = {} /\ mode /\ \A c \in Command : cpc[c] \in {"new", "snapshot", "wait", "done"})
        => eofClosed

\* The limiter channel holds one token per goroutine that has acquired one,
\* and never more than its capacity: the deferred release of read never
\* takes a token that belongs to another file.
LimiterMatchesHolders ==
    /\ limiter = Cardinality({f \in File : acquired[f]})
    /\ limiter <= Limit

\* The refinement of the abstract output session.
Remainder == IF buffer = NoPayload THEN << >> ELSE <<buffer>>

Session == INSTANCE OutputSession WITH
    Writer <- File,
    open <- mode,
    writers <- {f \in File : Writing(f)},
    superseded <- {f \in File : Stale(Owner[f])},
    queue <- Remainder \o lines,
    out <- delivered

\* The read commands, the handshake and tryRead implement the abstract
\* session: in-order delivery, nothing discarded but superseded output, and
\* no close while a writer or a payload is left.
ImplementsSession == Session!SessionSpec

\* A command that waits for the EOF acknowledgement gets it without running
\* into the timeout of waitForEOFAck.
AckWaitReleased ==
    \A c \in Command : cpc[c] = "wait" ~> cpc[c] = "done"

\* Once every command is through, the session leaves output mode for good.
OutputModeEnds ==
    (\A c \in Command : cpc[c] = "done") ~> (~mode /\ lines = << >>)
=============================================================================
