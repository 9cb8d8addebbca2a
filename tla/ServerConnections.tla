-------------------------- MODULE ServerConnections --------------------------
(***************************************************************************)
(* The SSH server around the sessions: the accept loop with its            *)
(* maxConnections check, the handshake with its deadline, the pre-auth and *)
(* authenticated connection counters, channels, shell requests and the     *)
(* four goroutines of a shell, each of which ends the session for all once *)
(* the handler has been shut down, which waits for the file processors of  *)
(* its aggregate (internal/server/server.go, stats.go,                     *)
(* handlers/basehandler.go), together with the key store the sessions feed *)
(* and the handshakes consult (AuthKeyStore).                              *)
(***************************************************************************)
EXTENDS AuthKeyStore

CONSTANTS
    Conns, MaxShells,      \* bound: shell requests
    UserOf, IpOf,          \* who connects, and from where
    NoPermissions,         \* users whose UserPermissions lookup fails
    MaxConnections,
    Secrets,               \* passwords a client may try
    NoConn,
    MaxClock,              \* bound: ticks of the clock
    MaxWork                \* bound: AUTHKEY commands, queries, and twice the shell requests

ASSUME ConnectionsAssumption ==
    /\ MaxConnections \in Nat /\ MaxClock \in Nat /\ MaxShells \in Nat
    /\ NoConn \notin Conns /\ IsFiniteSet(Conns)
    /\ UserOf \in [Conns -> Users]

VARIABLES
    clock,
    phase,                 \* where handleConnection is
    listener,              \* the connection between limit check and reservation
    preAuth, current, lifetime,   \* type stats
    sshUp,                 \* the SSH transport is up: chans is open
    offer,                 \* a public key callback between its clock and its lock
    authBy,                \* what the handshake accepted
    shellConn, goroutines, handlerDone,
    inputEnded,            \* the client closed the channel, or sent too long a command
    processors,            \* of the shell's aggregate: reading to the end, or following
    adding,                \* an AUTHKEY command between its clock and its lock
    registered,            \* history: the keys added, by user, in lock order
    stopped                \* the server's context is cancelled

statsVars == <<preAuth, current, lifetime>>
shellVars == <<shellConn, goroutines, handlerDone, inputEnded, processors>>
keyVars == <<keysByUser, adding, registered>>
vars == <<clock, phase, listener, statsVars, sshUp, offer, authBy, shellVars,
          keyVars, stopped>>

Shells == 1..MaxShells
Nothing == [by |-> "nothing"]

Work ==
    2 * Cardinality({s \in Shells : shellConn[s] # NoConn})
      + Cardinality({s \in Shells : adding[s] # Nothing})
      + Cardinality({s \in Shells : processors[s] # "none"})
      + Cardinality({r \in Users \X (1..MaxWork) : r[2] <= Len(registered[r[1]])})
Goroutines == {"out", "in", "done", "wait"}

Init ==
    /\ StoreInit
    /\ clock = 0
    /\ phase = [c \in Conns |-> "idle"]
    /\ listener = NoConn
    /\ preAuth = 0 /\ current = 0 /\ lifetime = 0
    /\ sshUp = [c \in Conns |-> FALSE]
    /\ offer = [c \in Conns |-> Nothing]
    /\ authBy = [c \in Conns |-> Nothing]
    /\ shellConn = [s \in Shells |-> NoConn]
    /\ goroutines = [s \in Shells |-> {}]
    /\ handlerDone = [s \in Shells |-> FALSE]
    /\ inputEnded = [s \in Shells |-> FALSE]
    /\ processors = [s \in Shells |-> "none"]
    /\ adding = [s \in Shells |-> Nothing]
    /\ registered = [u \in Users |-> <<>>]
    /\ stopped = FALSE

Tick ==
    /\ clock < MaxClock
    /\ clock' = clock + 1
    /\ UNCHANGED <<phase, listener, statsVars, sshUp, offer, authBy, shellVars, keyVars, stopped>>

Stop ==
    /\ ~stopped
    /\ stopped' = TRUE
    /\ UNCHANGED <<clock, phase, listener, statsVars, sshUp, offer, authBy, shellVars, keyVars>>

------------------------------------------------------------------------------
(* The listener loop: one goroutine, two separate critical sections.         *)

\* Mutant: connections in the handshake do not count.
LimitIgnoresPreAuth == current >= MaxConnections

LimitExceeded == current + preAuth >= MaxConnections

Accept(c) ==
    /\ listener = NoConn
    /\ phase[c] = "idle"
    /\ IF LimitExceeded
       THEN /\ phase' = [phase EXCEPT ![c] = "gone"]
            /\ UNCHANGED listener
       ELSE /\ phase' = [phase EXCEPT ![c] = "accepted"]
            /\ listener' = c
    /\ UNCHANGED <<clock, statsVars, sshUp, offer, authBy, shellVars, keyVars, stopped>>

ReservePreAuth ==
    /\ listener # NoConn
    /\ preAuth' = preAuth + 1
    /\ phase' = [phase EXCEPT ![listener] = "handshake"]
    /\ listener' = NoConn
    /\ UNCHANGED <<clock, current, lifetime, sshUp, offer, authBy, shellVars, keyVars, stopped>>

------------------------------------------------------------------------------
(* handleConnection.                                                         *)

\* Mutant: an early exit without releasePreAuth.
ReleaseForgotten(c) ==
    /\ phase' = [phase EXCEPT ![c] = "gone"]
    /\ offer' = [offer EXCEPT ![c] = Nothing]
    /\ UNCHANGED <<preAuth, current, lifetime>>

\* releasePreAuth on an early exit: no deadline set, handshake refused or timed
\* out, deadline not cleared.
Release(c) ==
    /\ preAuth' = preAuth - 1
    /\ phase' = [phase EXCEPT ![c] = "gone"]
    /\ offer' = [offer EXCEPT ![c] = Nothing]
    /\ UNCHANGED <<current, lifetime>>

HandshakeFails(c) ==
    /\ phase[c] \in {"handshake", "lookup"}
    /\ Release(c)
    /\ UNCHANGED <<clock, listener, sshUp, authBy, shellVars, keyVars, stopped>>

OfferPassword(c, secret) ==
    /\ phase[c] = "handshake"
    /\ UserOf[c] \notin NoPermissions
    /\ PasswordAccepted(UserOf[c], secret, IpOf[c])
    /\ phase' = [phase EXCEPT ![c] = "authenticated"]
    /\ authBy' = [authBy EXCEPT ![c] = [by |-> "password"]]
    /\ UNCHANGED <<clock, listener, statsVars, sshUp, offer, shellVars, keyVars, stopped>>

\* The callback reads the clock, then queues for the store's lock.
OfferPublicKey(c, key) ==
    /\ phase[c] = "handshake"
    /\ phase' = [phase EXCEPT ![c] = "lookup"]
    /\ offer' = [offer EXCEPT ![c] = [by |-> "key", key |-> key, now |-> clock]]
    /\ UNCHANGED <<clock, listener, statsVars, sshUp, authBy, shellVars, keyVars, stopped>>

LookupKey(c) ==
    LET u == UserOf[c]
        found == AuthKeyEnabled /\ Has(u, offer[c].key, offer[c].now)
        accepted == PublicKeyAccepted(u, offer[c].key, offer[c].now)
    IN  /\ phase[c] = "lookup"
        /\ IF AuthKeyEnabled THEN Prune(u, offer[c].now) ELSE UNCHANGED keysByUser
        /\ phase' = [phase EXCEPT ![c] = IF accepted THEN "authenticated" ELSE "handshake"]
        /\ authBy' = IF accepted
                     THEN [authBy EXCEPT ![c] = IF found THEN offer[c] ELSE [by |-> "file"]]
                     ELSE authBy
        /\ offer' = [offer EXCEPT ![c] = Nothing]
        /\ UNCHANGED <<clock, listener, statsVars, sshUp, shellVars, adding, registered, stopped>>

\* The handshake is over: the deadline is cleared and the slot is promoted.
Promote(c) ==
    /\ phase[c] = "authenticated"
    /\ preAuth' = preAuth - 1
    /\ current' = current + 1
    /\ lifetime' = lifetime + 1
    /\ phase' = [phase EXCEPT ![c] = "open"]
    /\ sshUp' = [sshUp EXCEPT ![c] = TRUE]
    /\ UNCHANGED <<clock, listener, offer, authBy, shellVars, keyVars, stopped>>

ClearDeadlineFails(c) ==
    /\ phase[c] = "authenticated"
    /\ Release(c)
    /\ UNCHANGED <<clock, listener, sshUp, authBy, shellVars, keyVars, stopped>>

\* chans is closed: the range loop ends and the deferred decrement runs.
ConnectionEnds(c) ==
    /\ phase[c] = "open"
    /\ ~sshUp[c]
    /\ phase' = [phase EXCEPT ![c] = "gone"]
    /\ current' = current - 1
    /\ authBy' = [authBy EXCEPT ![c] = Nothing]
    /\ UNCHANGED <<clock, listener, preAuth, lifetime, sshUp, offer, shellVars, keyVars, stopped>>

\* The peer or the network ends the SSH connection, or the server closes it
\* after a request that is no shell request.
SshCloses(c) ==
    /\ phase[c] = "open"
    /\ sshUp[c]
    /\ sshUp' = [sshUp EXCEPT ![c] = FALSE]
    /\ UNCHANGED <<clock, phase, listener, statsVars, offer, authBy, shellVars, keyVars, stopped>>

------------------------------------------------------------------------------
(* Channels, shell requests and the goroutines of a shell.                   *)

\* A session channel was accepted and asks for a shell; one connection may open
\* several.  A user without permissions has every channel rejected.
HandleShellRequest(s, c) ==
    /\ s = 1 + Cardinality({t \in Shells : shellConn[t] # NoConn})
    /\ phase[c] = "open" /\ sshUp[c]
    /\ UserOf[c] \notin NoPermissions
    /\ Work + 2 <= MaxWork
    /\ shellConn' = [shellConn EXCEPT ![s] = c]
    /\ goroutines' = [goroutines EXCEPT ![s] = Goroutines]
    /\ UNCHANGED <<clock, phase, listener, statsVars, sshUp, offer, authBy, handlerDone, inputEnded,
                   processors, keyVars, stopped>>

\* When the call that goroutine g of shell s is in returns.  A read from the
\* handler looks at done, a write to the channel at the connection.
Wakes(s, g) ==
    \/ g = "out" /\ (handlerDone[s] \/ ~sshUp[shellConn[s]])
    \/ g = "in" /\ (inputEnded[s] \/ ~sshUp[shellConn[s]])
    \/ g = "done" /\ (handlerDone[s] \/ stopped)
    \/ g = "wait" /\ ~sshUp[shellConn[s]]

\* "out" may be in either of the two.
MustWake(s, g) == Wakes(s, g) /\ (g = "out" => handlerDone[s] /\ ~sshUp[shellConn[s]])

Running(s) == processors[s] \in {"reading", "following"}


\* terminate: shut the handler down, which first waits for the processors of the
\* aggregate, and then close the whole SSH connection.
Terminate(s, g) ==
    /\ g \in goroutines[s] /\ Wakes(s, g) /\ ~Running(s)
    /\ goroutines' = [goroutines EXCEPT ![s] = @ \ {g}]
    /\ handlerDone' = [handlerDone EXCEPT ![s] = TRUE]
    /\ sshUp' = [sshUp EXCEPT ![shellConn[s]] = FALSE]
    /\ UNCHANGED <<clock, phase, listener, statsVars, offer, authBy, shellConn, inputEnded, processors,
                   keyVars, stopped>>

ServingRest == UNCHANGED <<clock, phase, listener, statsVars, sshUp, offer, authBy, shellConn, goroutines,
                           keyVars, stopped>>

\* The session ends by itself: its last command has finished.
HandlerFinishes(s) ==
    /\ goroutines[s] # {} /\ ~handlerDone[s] /\ ~Running(s)
    /\ handlerDone' = [handlerDone EXCEPT ![s] = TRUE]
    /\ UNCHANGED <<inputEnded, processors>> /\ ServingRest

\* A command frame over the limit: done is closed with no look at the aggregate.
CommandTooLong(s) ==
    /\ "in" \in goroutines[s] /\ ~inputEnded[s]
    /\ handlerDone' = [handlerDone EXCEPT ![s] = TRUE]
    /\ inputEnded' = [inputEnded EXCEPT ![s] = TRUE]
    /\ UNCHANGED processors /\ ServingRest

\* The client closes the channel and keeps the connection.
ChannelCloses(s) ==
    /\ "in" \in goroutines[s] /\ ~inputEnded[s]
    /\ inputEnded' = [inputEnded EXCEPT ![s] = TRUE]
    /\ UNCHANGED <<handlerDone, processors>> /\ ServingRest

\* A map command and the read whose lines it takes.
StartQuery(s) ==
    /\ "in" \in goroutines[s] /\ ~inputEnded[s] /\ ~handlerDone[s]
    /\ UserOf[shellConn[s]] # HealthUser
    /\ processors[s] = "none" /\ Work < MaxWork
    /\ \E how \in {"reading", "following"} : processors' = [processors EXCEPT ![s] = how]
    /\ UNCHANGED <<handlerDone, inputEnded>> /\ ServingRest

\* The end of the file, or of the command's context, that of the handler for one:
\* the aggregate's own done stops no reader.
ProcessorsEnd(s) ==
    /\ Running(s)
    /\ processors' = [processors EXCEPT ![s] = "ended"]
    /\ UNCHANGED <<handlerDone, inputEnded>> /\ ServingRest

Serving(s) ==
    \/ HandlerFinishes(s) \/ CommandTooLong(s) \/ ChannelCloses(s)
    \/ StartQuery(s) \/ ProcessorsEnd(s)

\* AUTHKEY: the command reads the clock, then takes the store's lock.
AuthKeyCommand(s, key) ==
    /\ "in" \in goroutines[s] /\ ~inputEnded[s]
    /\ UserOf[shellConn[s]] # HealthUser
    /\ adding[s] = Nothing
    /\ AuthKeyEnabled
    /\ Work < MaxWork
    /\ adding' = [adding EXCEPT ![s] = [by |-> "key", key |-> key, now |-> clock]]
    /\ UNCHANGED <<clock, phase, listener, statsVars, sshUp, offer, authBy, shellVars,
                   keysByUser, registered, stopped>>

AddKey(s) ==
    LET u == UserOf[shellConn[s]]
        entry == [pubKey |-> adding[s].key, registeredAt |-> adding[s].now]
    IN  /\ adding[s] # Nothing
        /\ Add(u, adding[s].key, adding[s].now, Len(registered[u]) + 1)
        /\ registered' = [registered EXCEPT ![u] = Append(@, entry)]
        /\ adding' = [adding EXCEPT ![s] = Nothing]
        /\ UNCHANGED <<clock, phase, listener, statsVars, sshUp, offer, authBy, shellVars, stopped>>

------------------------------------------------------------------------------
HandshakeReturns(c) == Promote(c) \/ ClearDeadlineFails(c)

Next ==
    \/ Tick
    \/ Stop
    \/ ReservePreAuth
    \/ \E c \in Conns :
        \/ Accept(c)
        \/ HandshakeFails(c) \/ LookupKey(c) \/ HandshakeReturns(c)
        \/ ConnectionEnds(c)
        \/ SshCloses(c)
        \/ \E secret \in Secrets : OfferPassword(c, secret)
        \/ \E key \in Keys : OfferPublicKey(c, key)
        \/ \E s \in Shells : HandleShellRequest(s, c)
    \/ \E s \in Shells :
        \/ Serving(s)
        \/ AddKey(s)
        \/ \E g \in Goroutines : Terminate(s, g)
        \/ \E key \in Keys : AuthKeyCommand(s, key)

\* Goroutines that can run do run, the handshake deadline fires, a file that is
\* read to its end has one, and a reader sees the end of its context.  Nothing is
\* assumed about the peer, the operator, the commands or a file that is followed.
Fairness ==
    /\ WF_vars(ReservePreAuth)
    /\ \A c \in Conns : WF_vars(HandshakeFails(c))
    /\ \A c \in Conns : WF_vars(LookupKey(c) \/ HandshakeReturns(c) \/ ConnectionEnds(c))
    /\ \A s \in Shells :
        /\ WF_vars(\E g \in goroutines[s] : MustWake(s, g) /\ Terminate(s, g))
        /\ WF_vars((processors[s] = "reading" \/ handlerDone[s]) /\ ProcessorsEnd(s))

Spec == Init /\ [][Next]_vars /\ Fairness

------------------------------------------------------------------------------
(* Properties.                                                               *)

TypeOK ==
    /\ clock \in 0..MaxClock
    /\ phase \in [Conns -> {"idle", "accepted", "handshake", "lookup",
                            "authenticated", "open", "gone"}]
    /\ listener \in Conns \union {NoConn}
    /\ preAuth \in Nat /\ current \in Nat /\ lifetime \in Nat
    /\ sshUp \in [Conns -> BOOLEAN]
    /\ shellConn \in [Shells -> Conns \union {NoConn}]
    /\ goroutines \in [Shells -> SUBSET Goroutines]
    /\ handlerDone \in [Shells -> BOOLEAN] /\ inputEnded \in [Shells -> BOOLEAN]
    /\ processors \in [Shells -> {"none", "reading", "following", "ended"}]
    /\ keysByUser \in [Users -> SUBSET [pubKey : Keys, registeredAt : 0..MaxClock, nr : Nat]]

Handshaking == {c \in Conns : phase[c] \in {"handshake", "lookup", "authenticated"}}
Open == {c \in Conns : phase[c] = "open"}

\* The two counters of stats.go are exactly the connections in the handshake and
\* the open ones: every exit path releases its own slot, once.
CountersMatch ==
    /\ preAuth = Cardinality(Handshaking)
    /\ current = Cardinality(Open)
    /\ lifetime >= current

Slots == INSTANCE BoundedPool WITH
    Holders <- Conns, Limit <- MaxConnections, held <- Handshaking \union Open

\* The counters implement a pool of MaxConnections slots although the limit is
\* checked in one critical section and the slot reserved in another, and although
\* a slot moves from one counter to the other while it is held.
ConnectionLimit == Slots!Spec

\* A handshake that the key store accepted offered a key which the same user had
\* registered, and whose time to live was not over when the key was offered.
KeyLoginRegistered ==
    \A c \in Conns : authBy[c].by = "key" =>
        \E i \in DOMAIN registered[UserOf[c]] :
            LET entry == registered[UserOf[c]][i]
            IN  entry.pubKey = authBy[c].key /\ ~Expired(entry, authBy[c].now)

\* A registered key stays usable until its time to live is over, unless
\* MaxKeysPerUser other keys of the user were registered after it; late writers
\* whose clock was read long ago do not push it out.
RegisteredKeyUsable ==
    \A u \in Users : \A i \in DOMAIN registered[u] :
        LET entry == registered[u][i]
            later == {registered[u][j].pubKey : j \in (i + 1)..Len(registered[u])}
        IN  (~Expired(entry, clock) /\ entry.pubKey \notin later
             /\ Cardinality(later) < MaxKeysPerUser)
            => Has(u, entry.pubKey, clock)


\* "Even if a caller forgets to cancel, handler shutdown still drains it by
\* cancelling the context": a shell whose connection is gone has its handler's done
\* closed, also when one of its commands follows a file.
HandlerDrained ==
    \A s \in Shells : (goroutines[s] # {} /\ ~sshUp[shellConn[s]]) ~> handlerDone[s]
=============================================================================
