-------------------------- MODULE InteractiveReload --------------------------
(***************************************************************************)
(* Interactive query reload: the client's control thread replaces the      *)
(* workload of every connected server with SESSION UPDATE messages and     *)
(* rolls back when one of them fails (clients/interactive_control.go,      *)
(* clients/connectors/sessiontransport.go, clients/baseclient.go), and     *)
(* each server keeps the session state machine of sessioncommand.go, whose *)
(* generation number decides which output is stale.                        *)
(*                                                                         *)
(* Two threads of the client work on a connection: its own goroutine,      *)
(* which bootstraps the session with SESSION START ("boot"), and the       *)
(* control thread ("reload").  applyMu of the connection serialises their  *)
(* request/acknowledgement exchanges.  A connection may drop; the client   *)
(* then dials again and bootstraps with the workload stored at that time.  *)
(*                                                                         *)
(* A workload is a member of Spec.  All servers advertise query-update-v1. *)
(***************************************************************************)
EXTENDS Integers, Sequences, FiniteSets

CONSTANTS
    N,              \* number of connections, in the order of c.connections
    Spec,           \* session specifications
    NoSpec,         \* the zero Spec{}, which no server accepts
    Initial,        \* the workload of the command line
    AckCapacity,    \* capacity of the sessionAcks channel
    Scenarios       \* which specs are refused, and the bounds, see below

Conn == 1 .. N

ASSUME ReloadAssumption ==
    /\ N \in Nat \ {0}
    /\ NoSpec \notin Spec /\ Initial \in Spec
    /\ AckCapacity \in Nat \ {0}
    /\ Scenarios \subseteq [unsupported : SUBSET (Conn \X Spec), invalid : SUBSET (Conn \X Spec),
                            undispatchable : SUBSET Spec, uncommittable : SUBSET Spec,
                            requested : SUBSET Spec, reloads : Nat, timeouts : Nat, drops : Nat]

VARIABLES
    \* client: shared state
    stored,     \* c.sessionSpec
    link,       \* link[c]: "down", "new" (dialled), "starting" (START sent), "up"
    bootSpec,   \* bootSpec[c]: the spec the connection object was made with
    committed,  \* committed[c]: committedSessionState, as [gen, spec]
    applyMu,    \* applyMu[c]: the thread that holds it, or "free"
    wanted,     \* wanted[c]: the request whose acknowledgement is awaited
    acks,       \* acks[c]: the sessionAcks channel
    \* client: the control thread
    phase,      \* "idle", "apply", "rollback"
    step,       \* "snapshot", "lock", "wait"
    next,       \* the spec of the reload
    prev,       \* the stored spec when the reload began
    cursor,     \* apply: the connection at hand
    generation, \* apply: the generation of the first connection
    before,     \* apply: the committed session of the connection at hand
    applied,    \* connections to roll back, as [conn, spec, gen]
    gone,       \* connections of the reload's snapshot that are dead by now
    \* the network and the servers
    requests,   \* requests[c]: SESSION commands under way to server c
    replies,    \* replies[c]: acknowledgements under way to the client
    server,     \* server[c]: sessionCommandState, as [gen, spec]; gen 0: inactive
    output,     \* output[c]: output of a workload on its way to the client
    scenario,
    \* history
    reloads, timeouts, drops,
    early,      \* a reload began while a connection was not up
    lost,       \* a connection ended during a reload
    resets,     \* a server reset its session after a failed dispatch
    leaked      \* output of another workload reached the client

clientVars == <<stored, link, bootSpec, committed, applyMu, wanted, acks>>
controlVars == <<phase, step, next, prev, cursor, generation, before, applied, gone>>
serverVars == <<requests, replies, server, output>>
historyVars == <<scenario, reloads, timeouts, drops, early, lost, resets, leaked>>
vars == <<clientVars, controlVars, serverVars, historyVars>>

Unsupported == scenario.unsupported        \* <<c, s>>: the client refuses s for server c
Invalid == scenario.invalid                \* <<c, s>>: server c refuses s when it validates it
Undispatchable == scenario.undispatchable  \* specs that validate, but whose dispatch fails
Uncommittable == scenario.uncommittable    \* specs refused by the client's MapReduce state
Requested == scenario.requested            \* bound: the specs a :reload may name
MaxReloads == scenario.reloads             \* bound: :reload commands
MaxTimeouts == scenario.timeouts           \* bound: acknowledgement waits that time out
MaxDrops == scenario.drops                 \* bound: connections lost

Session == [gen : Nat, spec : Spec \cup {NoSpec}]
NoSession == [gen |-> 0, spec |-> NoSpec]
Request == [action : {"start", "update"}, gen : Nat, spec : Spec \cup {NoSpec}]
NoRequest == [action |-> "start", gen |-> 0, spec |-> NoSpec]
Ack == [action : {"start", "update", "error"}, gen : Nat]

Init ==
    /\ scenario \in Scenarios
    /\ stored = Initial
    /\ link = [c \in Conn |-> "new"]
    /\ bootSpec = [c \in Conn |-> Initial]
    /\ committed = [c \in Conn |-> NoSession]
    /\ applyMu = [c \in Conn |-> "free"]
    /\ wanted = [c \in Conn |-> NoRequest]
    /\ acks = [c \in Conn |-> << >>]
    /\ phase = "idle" /\ step = "snapshot"
    /\ next = NoSpec /\ prev = NoSpec
    /\ cursor = 1 /\ generation = 0 /\ before = NoSession
    /\ applied = << >> /\ gone = {}
    /\ requests = [c \in Conn |-> << >>]
    /\ replies = [c \in Conn |-> << >>]
    /\ server = [c \in Conn |-> NoSession]
    /\ output = [c \in Conn |-> << >>]
    /\ reloads = 0 /\ timeouts = 0 /\ drops = 0
    /\ early = FALSE /\ lost = FALSE /\ resets = FALSE
    /\ leaked = FALSE

TypeOK ==
    /\ stored \in Spec
    /\ {next, prev} \subseteq Spec \cup {NoSpec}
    /\ link \in [Conn -> {"down", "new", "starting", "up"}]
    /\ bootSpec \in [Conn -> Spec]
    /\ committed \in [Conn -> Session]
    /\ applyMu \in [Conn -> {"free", "boot", "reload"}]
    /\ wanted \in [Conn -> Request]
    /\ acks \in [Conn -> Seq(Ack)]
    /\ \A c \in Conn : Len(acks[c]) <= AckCapacity
    /\ phase \in {"idle", "apply", "rollback"}
    /\ step \in {"snapshot", "lock", "wait"}
    /\ cursor \in Conn /\ generation \in Nat /\ before \in Session
    /\ applied \in Seq([conn : Conn, spec : Spec \cup {NoSpec}, gen : Nat])
    /\ gone \in SUBSET Conn
    /\ requests \in [Conn -> Seq(Request)]
    /\ replies \in [Conn -> Seq(Ack)]
    /\ server \in [Conn -> Session]
    /\ output \in [Conn -> Seq(Session)]
    /\ reloads \in 0 .. MaxReloads
    /\ timeouts \in 0 .. MaxTimeouts
    /\ drops \in 0 .. MaxDrops
    /\ {early, lost, resets, leaked} \subseteq BOOLEAN

-----------------------------------------------------------------------------
(* applySessionSpecWithGeneration, the exchange both threads use. *)

\* Mutant: an update keeps the generation it starts from.
RequestForSameGeneration(g, s) ==
    [action |-> IF g = 0 THEN "start" ELSE "update", gen |-> g, spec |-> s]

\* The request that moves a session of generation g to spec s.
RequestFor(g, s) ==
    [action |-> IF g = 0 THEN "start" ELSE "update",
     gen |-> IF g = 0 THEN 0 ELSE g + 1,
     spec |-> s]

\* applyMu is taken, late acknowledgements are drained, the request is sent.
SendRequest(thread, c, r) ==
    /\ applyMu[c] = "free"
    /\ applyMu' = [applyMu EXCEPT ![c] = thread]
    /\ wanted' = [wanted EXCEPT ![c] = r]
    /\ acks' = [acks EXCEPT ![c] = << >>]
    /\ requests' = [requests EXCEPT ![c] = Append(@, r)]

\* Mutant: an error acknowledgement is taken for a confirmation.
VerdictIgnoresError(c, a) ==
    IF a.action = "update" /\ a.gen # wanted[c].gen THEN "unexpected" ELSE "ok"

\* How the exchange ends on acknowledgement a.
Verdict(c, a) ==
    IF a.action = "error" THEN "rejected"
    ELSE IF \/ a.action # wanted[c].action
            \/ a.action = "update" /\ a.gen # wanted[c].gen
         THEN "unexpected"
    ELSE "ok"

\* The wait of thread on c ends with a verdict; an "ok" is committed.
EndExchange(thread, c, verdict) ==
    /\ applyMu[c] = thread
    /\ applyMu' = [applyMu EXCEPT ![c] = "free"]
    /\ wanted' = [wanted EXCEPT ![c] = NoRequest]
    /\ \/ /\ acks[c] # << >>
          /\ verdict = Verdict(c, Head(acks[c]))
          /\ acks' = [acks EXCEPT ![c] = Tail(@)]
          /\ UNCHANGED timeouts
       \/ /\ verdict = "timeout"
          /\ acks[c] = << >>
          /\ timeouts < MaxTimeouts
          /\ timeouts' = timeouts + 1
          /\ UNCHANGED acks
    /\ committed' =
          IF verdict = "ok"
          THEN [committed EXCEPT ![c] = [gen |-> Head(acks[c]).gen,
                                         spec |-> wanted[c].spec]]
          ELSE committed

-----------------------------------------------------------------------------
(* The goroutine of a connection: handle, dispatchInitialCommands and the  *)
(* retry loop of startConnection.                                          *)

\* The generation is read under applyMu: an UPDATE, should a reload have come
\* first.
Bootstrap(c) ==
    /\ link[c] = "new"
    /\ SendRequest("boot", c, RequestFor(committed[c].gen, bootSpec[c]))
    /\ link' = [link EXCEPT ![c] = "starting"]
    /\ UNCHANGED <<stored, bootSpec, committed, controlVars, replies, server,
                   output, historyVars>>

Bootstrapped(c) ==
    /\ link[c] = "starting"
    /\ EndExchange("boot", c, "ok")
    /\ link' = [link EXCEPT ![c] = "up"]
    /\ UNCHANGED <<stored, bootSpec, controlVars, serverVars, scenario, reloads, drops,
                   early, lost, resets, leaked>>

\* Everything that belongs to the connection object and its SSH session ends.
CloseConnection(c) ==
    /\ link' = [link EXCEPT ![c] = "down"]
    /\ committed' = [committed EXCEPT ![c] = NoSession]
    /\ applyMu' = [applyMu EXCEPT ![c] = "free"]
    /\ wanted' = [wanted EXCEPT ![c] = NoRequest]
    /\ acks' = [acks EXCEPT ![c] = << >>]
    /\ requests' = [requests EXCEPT ![c] = << >>]
    /\ replies' = [replies EXCEPT ![c] = << >>]
    /\ server' = [server EXCEPT ![c] = NoSession]
    /\ output' = [output EXCEPT ![c] = << >>]
    /\ gone' = IF phase = "idle" THEN gone ELSE gone \cup {c}
    /\ lost' = (lost \/ phase # "idle")

\* A failed bootstrap shuts the connection down.
BootstrapFails(c) ==
    /\ link[c] = "starting"
    /\ applyMu[c] = "boot"
    /\ \/ /\ acks[c] # << >> /\ Verdict(c, Head(acks[c])) # "ok"
          /\ UNCHANGED timeouts
       \/ /\ acks[c] = << >> /\ timeouts < MaxTimeouts
          /\ timeouts' = timeouts + 1
    /\ CloseConnection(c)
    /\ UNCHANGED <<stored, bootSpec, phase, step, next, prev, cursor,
                   generation, before, applied, scenario, reloads, drops, early, resets,
                   leaked>>

\* The SSH connection is lost.
Drop(c) ==
    /\ link[c] # "down"
    /\ drops < MaxDrops
    /\ drops' = drops + 1
    /\ CloseConnection(c)
    /\ UNCHANGED <<stored, bootSpec, phase, step, next, prev, cursor,
                   generation, before, applied, scenario, reloads, timeouts, early, resets,
                   leaked>>

\* makeConnection with the spec stored by now, replaceConnection, Start.
Redial(c) ==
    /\ link[c] = "down"
    /\ link' = [link EXCEPT ![c] = "new"]
    /\ bootSpec' = [bootSpec EXCEPT ![c] = stored]
    /\ UNCHANGED <<stored, committed, applyMu, wanted, acks, controlVars,
                   serverVars, historyVars>>

-----------------------------------------------------------------------------
(* The control thread: applyInteractiveReload. *)

BeginReload(s) ==
    /\ phase = "idle"
    /\ reloads < MaxReloads
    /\ reloads' = reloads + 1
    /\ phase' = "apply" /\ step' = "snapshot"
    /\ next' = s /\ prev' = stored
    /\ cursor' = 1 /\ generation' = 0 /\ before' = NoSession
    /\ applied' = << >>
    /\ gone' = {c \in Conn : link[c] = "down"}
    /\ early' = (early \/ \E c \in Conn : link[c] # "up")
    /\ UNCHANGED <<clientVars, serverVars, scenario, timeouts, drops, lost, resets,
                   leaked>>

\* CommittedSession(), before applyMu is taken.
SnapshotCommitted ==
    /\ phase = "apply" /\ step = "snapshot"
    /\ before' = committed[cursor]
    /\ step' = "lock"
    /\ UNCHANGED <<clientVars, phase, next, prev, cursor, generation, applied,
                   gone, serverVars, historyVars>>

ApplySend ==
    /\ phase = "apply" /\ step = "lock"
    /\ cursor \notin gone
    /\ <<cursor, next>> \notin Unsupported
    /\ SendRequest("reload", cursor, RequestFor(committed[cursor].gen, next))
    /\ step' = "wait"
    /\ UNCHANGED <<stored, link, bootSpec, committed, phase, next, prev, cursor,
                   generation, before, applied, gone, replies, server, output,
                   historyVars>>

\* The reload returns, leaving spec s stored.
EndReload(s) ==
    /\ stored' = s
    /\ phase' = "idle" /\ step' = "snapshot"
    /\ next' = NoSpec /\ prev' = NoSpec
    /\ cursor' = 1 /\ generation' = 0 /\ before' = NoSession
    /\ applied' = << >> /\ gone' = {}

\* The reload is given up: entries is what has to be rolled back.  With
\* nothing (more) to roll back, the previous spec is stored again.
StartRollback(entries) ==
    IF entries = << >>
    THEN EndReload(prev)
    ELSE /\ phase' = "rollback" /\ step' = "lock"
         /\ applied' = entries
         /\ cursor' = 1 /\ generation' = 0 /\ before' = NoSession
         /\ UNCHANGED <<stored, next, prev, gone>>

\* Mutant: the end of the connection does not end the wait.
ApplyRefusedNotWaiting ==
    /\ phase = "apply" /\ step = "lock"
    /\ \/ cursor \in gone
       \/ /\ applyMu[cursor] = "free"
          /\ <<cursor, next>> \in Unsupported
    /\ StartRollback(applied)
    /\ UNCHANGED <<link, bootSpec, committed, applyMu, wanted, acks, serverVars,
                   historyVars>>

\* Errors without an exchange: a capability is missing, or the connection
\* object is dead.
ApplyRefused ==
    /\ phase = "apply" /\ step # "snapshot"
    /\ \/ cursor \in gone
       \/ /\ step = "lock" /\ applyMu[cursor] = "free"
          /\ <<cursor, next>> \in Unsupported
    /\ StartRollback(applied)
    /\ UNCHANGED <<link, bootSpec, committed, applyMu, wanted, acks, serverVars,
                   historyVars>>

\* Mutant: a rejection returns at once, leaving the earlier servers updated.
ApplyFailedReturns ==
    /\ phase = "apply" /\ step = "wait" /\ cursor \notin gone
    /\ \E verdict \in {"rejected", "unexpected", "timeout"} :
          EndExchange("reload", cursor, verdict)
    /\ StartRollback(<< >>)
    /\ UNCHANGED <<link, bootSpec, serverVars, scenario, reloads, drops,
                   early, lost, resets, leaked>>

\* shouldRollbackFailedReload: after a timeout or an unexpected
\* acknowledgement the server may run the new spec, so it is rolled back too.
ApplyFailed ==
    /\ phase = "apply" /\ step = "wait" /\ cursor \notin gone
    /\ \E verdict \in {"rejected", "unexpected", "timeout"} :
          /\ EndExchange("reload", cursor, verdict)
          /\ StartRollback(
                IF verdict = "rejected" THEN applied
                ELSE Append(applied,
                        [conn |-> cursor, spec |-> before.spec,
                         gen |-> IF generation = 0 THEN before.gen
                                                   ELSE generation]))
    /\ UNCHANGED <<link, bootSpec, serverVars, scenario, reloads, drops,
                   early, lost, resets, leaked>>

\* The connection has committed.  All of them have to be at one generation;
\* after the last one the client commits and stores the spec.
ApplyOK ==
    /\ phase = "apply" /\ step = "wait" /\ cursor \notin gone
    /\ EndExchange("reload", cursor, "ok")
    /\ LET gen == committed'[cursor].gen
           entries == Append(applied, [conn |-> cursor, spec |-> before.spec,
                                       gen |-> gen])
           same == generation \in {0, gen}
       IN  \/ /\ same /\ cursor < N
              /\ cursor' = cursor + 1
              /\ step' = "snapshot"
              /\ generation' = gen
              /\ applied' = entries
              /\ UNCHANGED <<stored, phase, next, prev, before, gone>>
           \/ /\ same /\ cursor = N /\ next \notin Uncommittable
              /\ EndReload(next)
           \/ /\ ~same \/ (cursor = N /\ next \in Uncommittable)
              /\ StartRollback(entries)
    /\ UNCHANGED <<link, bootSpec, serverVars, scenario, reloads, drops,
                   early, lost, resets, leaked>>

-----------------------------------------------------------------------------
(* rollbackInteractiveReload: from the last entry to the first. *)

LastEntry == applied[Len(applied)]

RollbackSend ==
    /\ phase = "rollback" /\ step = "lock"
    /\ LastEntry.conn \notin gone
    /\ SendRequest("reload", LastEntry.conn,
                   RequestFor(LastEntry.gen, LastEntry.spec))
    /\ step' = "wait"
    /\ UNCHANGED <<stored, link, bootSpec, committed, phase, next, prev, cursor,
                   generation, before, applied, gone, replies, server, output,
                   historyVars>>

\* An error is reported and the next entry taken.
RollbackEntryDone ==
    StartRollback(SubSeq(applied, 1, Len(applied) - 1))

RollbackEnd ==
    /\ phase = "rollback" /\ step = "wait" /\ LastEntry.conn \notin gone
    /\ \E verdict \in {"ok", "rejected", "unexpected", "timeout"} :
          EndExchange("reload", LastEntry.conn, verdict)
    /\ RollbackEntryDone
    /\ UNCHANGED <<link, bootSpec, serverVars, scenario, reloads, drops,
                   early, lost, resets, leaked>>

RollbackImpossible ==
    /\ phase = "rollback"
    /\ LastEntry.conn \in gone
    /\ RollbackEntryDone
    /\ UNCHANGED <<link, bootSpec, committed, applyMu, wanted, acks, serverVars,
                   historyVars>>

-----------------------------------------------------------------------------
(* A server: handleSessionCommand, and the output of its workload. *)

\* The acknowledgement of request r on server c.  Validation comes first, then
\* the state: START needs an inactive session, UPDATE an active one.
Acceptable(c, r) ==
    /\ r.spec # NoSpec
    /\ <<c, r.spec>> \notin Invalid
    /\ r.action = "start" <=> server[c].gen = 0

\* An UPDATE carries its generation, and any generation is accepted.  When the
\* commands of the spec cannot be dispatched the session is reset.
HandleSession(c) ==
    /\ requests[c] # << >>
    /\ LET r == Head(requests[c])
           ok == Acceptable(c, r) /\ r.spec \notin Undispatchable
           reset == Acceptable(c, r) /\ r.spec \in Undispatchable
           gen == IF r.action = "start" THEN 1 ELSE r.gen
       IN  /\ server' = [server EXCEPT ![c] =
                            IF ok THEN [gen |-> gen, spec |-> r.spec]
                            ELSE IF reset THEN NoSession ELSE @]
           /\ replies' = [replies EXCEPT ![c] =
                            Append(@, IF ok THEN [action |-> r.action, gen |-> gen]
                                      ELSE [action |-> "error", gen |-> 0])]
           /\ resets' = (resets \/ reset)
    /\ requests' = [requests EXCEPT ![c] = Tail(@)]
    /\ UNCHANGED <<clientVars, controlVars, output, scenario, reloads, timeouts, drops,
                   early, lost, leaked>>

\* handleSessionAckMessage: dropped when the sessionAcks channel is full.
DeliverAck(c) ==
    /\ replies[c] # << >>
    /\ replies' = [replies EXCEPT ![c] = Tail(@)]
    /\ acks' = [acks EXCEPT ![c] = IF Len(@) < AckCapacity
                                   THEN Append(@, Head(replies[c])) ELSE @]
    /\ UNCHANGED <<stored, link, bootSpec, committed, applyMu, wanted,
                   controlVars, requests, server, output, historyVars>>

\* The workload produces output, tagged with its generation.
EmitOutput(c) ==
    /\ server[c].gen # 0
    /\ output[c] = << >>
    /\ output' = [output EXCEPT ![c] = <<server[c]>>]
    /\ UNCHANGED <<clientVars, controlVars, requests, replies, server,
                   historyVars>>

ShouldDropGeneration(c, g) ==
    g # 0 /\ server[c].gen # 0 /\ server[c].gen # g

\* The output reaches the session's Read: dropped there, or sent.
DeliverOutput(c) ==
    /\ output[c] # << >>
    /\ output' = [output EXCEPT ![c] = << >>]
    /\ leaked' = \/ leaked
                 \/ /\ ~ShouldDropGeneration(c, Head(output[c]).gen)
                    /\ Head(output[c]).spec # server[c].spec
    /\ UNCHANGED <<clientVars, controlVars, requests, replies, server, reloads,
                   scenario, timeouts, drops, early, lost, resets>>

-----------------------------------------------------------------------------
ConnectionNext(c) ==
    Bootstrap(c) \/ Bootstrapped(c) \/ BootstrapFails(c) \/ Redial(c)

ControlNext ==
    \/ SnapshotCommitted \/ ApplySend \/ ApplyRefused \/ ApplyFailed \/ ApplyOK
    \/ RollbackSend \/ RollbackEnd \/ RollbackImpossible

Next ==
    \/ \E c \in Conn : ConnectionNext(c) \/ Drop(c)
    \/ \E s \in Requested : BeginReload(s)
    \/ ControlNext
    \/ \E c \in Conn : \/ HandleSession(c) \/ DeliverAck(c)
                       \/ EmitOutput(c) \/ DeliverOutput(c)

ReloadSpec == Init /\ [][Next]_vars

(***************************************************************************)
(* Fairness: the control thread and the connections' goroutines run, the   *)
(* servers answer and SSH delivers the answers.  Drops and further reloads *)
(* are up to the environment.                                              *)
(***************************************************************************)
Fairness ==
    /\ WF_vars(ControlNext)
    /\ \A c \in Conn : /\ WF_vars(ConnectionNext(c))
                       /\ WF_vars(HandleSession(c))
                       /\ WF_vars(DeliverAck(c))

FairSpec == ReloadSpec /\ Fairness

-----------------------------------------------------------------------------
(* Properties. *)

\* Nothing is under way between the client and its servers.
Quiet ==
    /\ phase = "idle"
    /\ \A c \in Conn : /\ link[c] = "up"
                       /\ requests[c] = << >> /\ replies[c] = << >>

\* After every reload, successful or rolled back, every server runs the
\* workload that the client shows as the current one, as long as no
\* acknowledgement timed out, no dispatch failed, and no connection was being
\* (re)started during a reload.
ServersRunStored ==
    Quiet /\ timeouts = 0 /\ ~resets /\ ~early /\ ~lost
        => \A c \in Conn : server[c].spec = stored

\* A connection's committed session is the session its server is in, whenever
\* the connection is at rest: bootstrap and reload never interleave.
CommittedMatchesServer ==
    timeouts = 0 /\ ~resets =>
        \A c \in Conn :
            link[c] = "up" /\ applyMu[c] = "free" /\ requests[c] = << >>
                => committed[c] = server[c]

\* Output of a replaced workload never reaches the client, as long as no
\* acknowledgement timed out, no dispatch failed and no reload began before
\* the bootstraps were through: the generations a server goes through are then all different.
StaleOutputDropped == leaked => timeouts > 0 \/ resets \/ early

\* Every reload comes to an end, whatever connections drop under it.
ReloadEnds == phase # "idle" ~> phase = "idle"
=============================================================================
