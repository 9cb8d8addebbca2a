---------------------------- MODULE OutputManager ----------------------------
(***************************************************************************)
(* The output manager of one SSH session on the dserver side               *)
(* (internal/server/handlers/output_manager.go): the bounded channel that  *)
(* carries formatted output from the per-file reader goroutines to the     *)
(* session output goroutine, and the EOF handshake by which a finished     *)
(* batch of files tells that goroutine to leave output mode.               *)
(*                                                                         *)
(* The operations here touch the manager's own variables only.             *)
(* ReadCommand composes them with the goroutines that call them.           *)
(*                                                                         *)
(* Every operation runs under the mutex mu.  Only tryRead keeps it over    *)
(* more than one visible step (channel sends do not take the mutex, so a   *)
(* writer may run between two steps of tryRead); muHeld is TRUE exactly    *)
(* while tryRead owns mu, and every other operation is one atomic step     *)
(* that needs mu to be free.                                               *)
(***************************************************************************)
EXTENDS Integers, Sequences

CONSTANTS
    Payload,            \* encoded chunks of output a writer may send
    NoPayload,          \* the empty remainder buffer
    ChannelBufferSize   \* capacity of the lines channel (resolvedChannelBufferSize)

ASSUME ChannelBufferSizeAssumption == ChannelBufferSize \in Nat \ {0}
ASSUME NoPayloadAssumption == NoPayload \notin Payload

VARIABLES
    muHeld,      \* tryRead owns mu
    mode,        \* output mode is on
    lines,       \* content of the lines channel
    buffer,      \* remainder of a payload that did not fit the read buffer
    handshake,   \* number of the current eof/eofAck channel pair; 0 while nil
    eofClosed,   \* the current eof channel has been closed
    ackClosed,   \* numbers of the handshakes whose eofAck channel is closed
    emptySince,  \* eofEmptySince: "zero", "recent", or "elapsed" (quiet period over)
    epoch        \* bumped by every enable

omVars == <<muHeld, mode, lines, buffer, handshake, eofClosed, ackClosed,
            emptySince, epoch>>

(***************************************************************************)
(* The channel pair and the lines channel are created by the first enable, *)
(* and never become nil again: handshake = 0 is "eof, eofAck and lines are *)
(* nil".                                                                   *)
(***************************************************************************)
OMInit ==
    /\ muHeld = FALSE
    /\ mode = FALSE
    /\ lines = << >>
    /\ buffer = NoPayload
    /\ handshake = 0
    /\ eofClosed = FALSE
    /\ ackClosed = {}
    /\ emptySince = "zero"
    /\ epoch = 0

OMTypeOK ==
    /\ muHeld \in BOOLEAN
    /\ mode \in BOOLEAN
    /\ lines \in Seq(Payload)
    /\ Len(lines) <= ChannelBufferSize
    /\ buffer \in Payload \cup {NoPayload}
    /\ handshake \in Nat
    /\ eofClosed \in BOOLEAN
    /\ ackClosed \in SUBSET Nat
    /\ emptySince \in {"zero", "recent", "elapsed"}
    /\ epoch \in Nat

-----------------------------------------------------------------------------
(* Called by the command and file goroutines. *)

\* resetEOFHandshakeLocked: a fresh eof/eofAck pair, quiet-period tracking off.
ResetEOFHandshake ==
    /\ handshake' = handshake + 1
    /\ eofClosed' = FALSE
    /\ emptySince' = "zero"

\* Mutant: the refresh of a signalled handshake forgets to close the old ack.
EnableForgetsAck ==
    /\ ~muHeld
    /\ epoch' = epoch + 1
    /\ mode' = TRUE
    /\ IF ~mode \/ eofClosed
       THEN ResetEOFHandshake
       ELSE UNCHANGED <<handshake, eofClosed, emptySince>>
    /\ UNCHANGED <<ackClosed, muHeld, lines, buffer>>

\* enable: the three cases are the off->on transition, the refresh of a
\* handshake whose EOF was signalled and not acknowledged, and a plain join.
Enable ==
    /\ ~muHeld
    /\ epoch' = epoch + 1
    /\ mode' = TRUE
    /\ \/ /\ ~mode
          /\ ResetEOFHandshake
          /\ UNCHANGED ackClosed
       \/ /\ mode /\ eofClosed
          /\ ackClosed' = ackClosed \cup {handshake}
          /\ ResetEOFHandshake
       \/ /\ mode /\ ~eofClosed
          /\ UNCHANGED <<handshake, eofClosed, emptySince, ackClosed>>
    /\ UNCHANGED <<muHeld, lines, buffer>>

\* Mutant: the epoch of a signal is not compared.
SignalEOFAnyEpoch(e) ==
    /\ ~muHeld
    /\ eofClosed' = (eofClosed \/ handshake # 0)
    /\ UNCHANGED <<muHeld, mode, lines, buffer, handshake, ackClosed,
                   emptySince, epoch>>

\* signalEOF(e): a signal that carries a superseded epoch is dropped.
SignalEOF(e) ==
    /\ ~muHeld
    /\ eofClosed' = (eofClosed \/ (e = epoch /\ handshake # 0))
    /\ UNCHANGED <<muHeld, mode, lines, buffer, handshake, ackClosed,
                   emptySince, epoch>>

\* A channel send; it does not take mu.
SendLine(p) ==
    /\ Len(lines) < ChannelBufferSize
    /\ lines' = Append(lines, p)
    /\ UNCHANGED <<muHeld, mode, buffer, handshake, eofClosed, ackClosed,
                   emptySince, epoch>>

-----------------------------------------------------------------------------
(* Called by the session output goroutine: the parts of tryRead. *)

\* tryRead with a buffered remainder: it goes out first, whatever the mode.
\* (A read that leaves part of the remainder behind changes nothing here.)
DrainBuffer ==
    /\ ~muHeld
    /\ buffer # NoPayload
    /\ buffer' = NoPayload
    /\ UNCHANGED <<muHeld, mode, lines, handshake, eofClosed, ackClosed,
                   emptySince, epoch>>

\* tryRead past its early returns: mu is taken and the receive loop entered.
BeginTryRead ==
    /\ ~muHeld
    /\ buffer = NoPayload
    /\ mode
    /\ muHeld' = TRUE
    /\ UNCHANGED <<mode, lines, buffer, handshake, eofClosed, ackClosed,
                   emptySince, epoch>>

\* consumeLocked on a payload whose generation is stale: dropped, and the
\* receive loop continues with mu held.
ConsumeStale ==
    /\ lines # << >>
    /\ lines' = Tail(lines)
    /\ emptySince' = "zero"
    /\ muHeld' = TRUE
    /\ UNCHANGED <<mode, buffer, handshake, eofClosed, ackClosed, epoch>>

\* Mutant: what the read buffer could not take is dropped.
ConsumeTruncates(fits) ==
    /\ lines # << >>
    /\ lines' = Tail(lines)
    /\ buffer' = NoPayload
    /\ emptySince' = "zero"
    /\ muHeld' = FALSE
    /\ UNCHANGED <<mode, handshake, eofClosed, ackClosed, epoch>>

\* consumeLocked on a live payload: copied out, and what the read buffer could
\* not take (fits = FALSE) kept as the remainder; tryRead returns.
Consume(fits) ==
    /\ lines # << >>
    /\ lines' = Tail(lines)
    /\ buffer' = IF fits THEN NoPayload ELSE Head(lines)
    /\ emptySince' = "zero"
    /\ muHeld' = FALSE
    /\ UNCHANGED <<mode, handshake, eofClosed, ackClosed, epoch>>

\* retryReceiveLocked releases mu while it sleeps.
ReleaseForRetry ==
    /\ muHeld' = FALSE
    /\ UNCHANGED <<mode, lines, buffer, handshake, eofClosed, ackClosed,
                   emptySince, epoch>>

\* The quiet period is over and the channel was seen empty: see DisableOutput.
QuietPeriodOver ==
    eofClosed /\ lines = << >> /\ emptySince = "elapsed"

\* maybeAckEOFLocked up to its early returns; tryRead gives mu back.
ObserveEOF ==
    /\ ~QuietPeriodOver
    /\ emptySince' = IF ~eofClosed THEN emptySince
                     ELSE IF lines # << >> THEN "zero"
                     ELSE IF emptySince = "zero" THEN "recent" ELSE emptySince
    /\ muHeld' = FALSE
    /\ UNCHANGED <<mode, lines, buffer, handshake, eofClosed, ackClosed, epoch>>

\* The end of maybeAckEOFLocked: output mode off, eofAck closed.
DisableOutput ==
    /\ mode' = FALSE
    /\ ackClosed' = ackClosed \cup {handshake}
    /\ muHeld' = FALSE
    /\ UNCHANGED <<lines, buffer, handshake, eofClosed, emptySince, epoch>>

\* Time: eofEmptySince is now at least one quiet period ago.
QuietPeriodElapses ==
    /\ emptySince = "recent"
    /\ emptySince' = "elapsed"
    /\ UNCHANGED <<muHeld, mode, lines, buffer, handshake, eofClosed,
                   ackClosed, epoch>>
=============================================================================
