---------------------------- MODULE OutputSession ----------------------------
(***************************************************************************)
(* What the output path of a session promises to its clients, with no      *)
(* mutex, epoch, handshake channel, timeout or read buffer in sight:       *)
(*                                                                         *)
(*   - a writer joins the session before it sends, and leaves after it;    *)
(*   - payloads reach the client in the order in which they were accepted; *)
(*   - only the output of a superseded writer is ever discarded;           *)
(*   - the session closes only when nobody is writing and nothing is       *)
(*     queued, so no accepted payload is left behind.                      *)
(*                                                                         *)
(* ReadCommand implements this specification (ReadCommand!Session).        *)
(***************************************************************************)
EXTENDS Sequences

CONSTANTS Writer, Payload

VARIABLES
    open,        \* the reader serves the queue
    writers,     \* writers that have joined and not left
    superseded,  \* writers whose output nobody wants any more
    queue,       \* accepted, not yet delivered
    out          \* delivered, in order

sessionVars == <<open, writers, superseded, queue, out>>

SessionInit ==
    /\ open = FALSE
    /\ writers = {}
    /\ superseded = {}
    /\ queue = << >>
    /\ out = << >>

Join(w) ==
    /\ w \notin writers
    /\ writers' = writers \cup {w}
    /\ open' = TRUE
    /\ UNCHANGED <<superseded, queue, out>>

Send(w) ==
    /\ open
    /\ w \in writers
    /\ \E p \in Payload : p[1] = w /\ queue' = Append(queue, p)
    /\ UNCHANGED <<open, writers, superseded, out>>

Leave(w) ==
    /\ w \in writers
    /\ writers' = writers \ {w}
    /\ UNCHANGED <<open, superseded, queue, out>>

Supersede ==
    /\ \E S \in SUBSET Writer : superseded' = superseded \cup S
    /\ UNCHANGED <<open, writers, queue, out>>

Deliver ==
    /\ queue # << >>
    /\ out' = Append(out, Head(queue))
    /\ queue' = Tail(queue)
    /\ UNCHANGED <<open, writers, superseded>>

Discard ==
    /\ queue # << >>
    /\ Head(queue)[1] \in superseded
    /\ queue' = Tail(queue)
    /\ UNCHANGED <<open, writers, superseded, out>>

Close ==
    /\ open
    /\ writers = {}
    /\ queue = << >>
    /\ open' = FALSE
    /\ UNCHANGED <<writers, superseded, queue, out>>

SessionNext ==
    \/ \E w \in Writer : Join(w) \/ Send(w) \/ Leave(w)
    \/ Supersede \/ Deliver \/ Discard \/ Close

SessionSpec == SessionInit /\ [][SessionNext]_sessionVars
=============================================================================
