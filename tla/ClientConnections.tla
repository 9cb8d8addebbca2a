-------------------------- MODULE ClientConnections --------------------------
(***************************************************************************)
(* The client's connections: per server a loop that starts a connection,   *)
(* waits until its context is done and retries after a pause, and per      *)
(* attempt a goroutine that dials, checks the host key, opens the session  *)
(* and cleans up (internal/clients/baseclient.go,                          *)
(* internal/clients/connectors/serverconnection.go).  The loop does not    *)
(* wait for the goroutine of an attempt, so the cleanup of one attempt may *)
(* overlap the start of the next.                                          *)
(***************************************************************************)
EXTENDS KnownHosts

CONSTANTS
    MaxAttempts,     \* bound: connection attempts per server
    MaxReconnects,   \* bound: reconnects of all servers together
    ThrottleSize,    \* capacity of throttleCh
    Retry

ASSUME ClientAssumption ==
    /\ ThrottleSize \in Nat \ {0}
    /\ MaxAttempts \in Nat \ {0}
    /\ IsFiniteSet(Servers)
    /\ Connections = Servers \X (1..MaxAttempts)
    /\ ServerOf \in [Connections -> Servers]
    /\ DOMAIN InitiallyKnown = Servers

VARIABLES
    main,            \* startConnection, per server
    attempt,         \* the attempt the loop waits for
    dial,            \* the goroutine of each attempt
    connDone,        \* the attempt's own context is cancelled
    throttle,        \* len(throttleCh)
    released,        \* throttleReleased has run
    established,     \* len(connectionsEstCh)
    cancelled        \* the client's context

vars == <<hostVars, main, attempt, dial, connDone, throttle, released, established, cancelled>>

Attempts == Servers \X (1..MaxAttempts)
Current(s) == <<s, attempt[s]>>
Reconnects == Cardinality({c \in Attempts : c[2] \in 2..attempt[c[1]]})
ContextDone(c) == cancelled \/ connDone[c]

Init ==
    /\ HostsInit
    /\ main = [s \in Servers |-> "starting"]
    /\ attempt = [s \in Servers |-> 1]
    /\ dial = [c \in Attempts |-> "none"]
    /\ connDone = [c \in Attempts |-> FALSE]
    /\ throttle = 0
    /\ released = [c \in Attempts |-> FALSE]
    /\ established = 0
    /\ cancelled = FALSE

Cancel ==
    /\ ~cancelled
    /\ cancelled' = TRUE
    /\ UNCHANGED <<hostVars, main, attempt, dial, connDone, throttle, released, established>>

------------------------------------------------------------------------------
(* startConnection and Start.                                                *)

MainStep(s, from, to) == main[s] = from /\ main' = [main EXCEPT ![s] = to]

\* Mutant: the attempt does not wait for a slot.
StartUnthrottled(s) ==
    /\ MainStep(s, "starting", "waiting")
    /\ throttle' = throttle + 1
    /\ dial' = [dial EXCEPT ![Current(s)] = "stats"]
    /\ UNCHANGED <<hostVars, attempt, connDone, released, established, cancelled>>

Start(s) ==
    /\ MainStep(s, "starting", "waiting")
    /\ throttle < ThrottleSize
    /\ throttle' = throttle + 1
    /\ dial' = [dial EXCEPT ![Current(s)] = "stats"]
    /\ UNCHANGED <<hostVars, attempt, connDone, released, established, cancelled>>

\* Start returns: no slot before the context was done, or the context is done.
StartReturns(s) ==
    /\ \/ MainStep(s, "starting", "stopped") /\ cancelled
       \/ MainStep(s, "waiting", "stopped") /\ ContextDone(Current(s))
    /\ UNCHANGED <<hostVars, attempt, dial, connDone, throttle, released, established, cancelled>>

DecideRetry(s) ==
    /\ MainStep(s, "stopped", IF Retry /\ ~cancelled THEN "backoff" ELSE "returned")
    /\ UNCHANGED <<hostVars, attempt, dial, connDone, throttle, released, established, cancelled>>

\* The backoff timer, then a new connection takes the old one's place.
Reconnect(s) ==
    /\ MainStep(s, "backoff", "starting")
    /\ attempt[s] < MaxAttempts /\ Reconnects < MaxReconnects
    /\ attempt' = [attempt EXCEPT ![s] = @ + 1]
    /\ UNCHANGED <<hostVars, dial, connDone, throttle, released, established, cancelled>>

BackoffCancelled(s) ==
    /\ MainStep(s, "backoff", "returned")
    /\ cancelled
    /\ UNCHANGED <<hostVars, attempt, dial, connDone, throttle, released, established, cancelled>>

------------------------------------------------------------------------------
(* dial, session and handle.                                                 *)

DialStep(c, from, to) == dial[c] = from /\ dial' = [dial EXCEPT ![c] = to]
KeepOthers == UNCHANGED <<main, attempt, connDone, throttle, released, established, cancelled>>

IncrementStats(c) ==
    /\ DialStep(c, "stats", "tcp")
    /\ established < Cardinality(Servers)
    /\ established' = established + 1
    /\ UNCHANGED <<hostVars, main, attempt, connDone, throttle, released, cancelled>>

\* The TCP dial, which watches the context and a timeout, the authentication, the
\* session or the dispatch of the first commands fails.
DialFails(c) ==
    /\ dial[c] \in {"tcp", "handshake", "session", "silent"}
    /\ dial' = [dial EXCEPT ![c] = "cleanup"]
    /\ KeepOthers /\ UNCHANGED hostVars

\* The peer stops answering during ssh.NewClientConn, NewSession or Shell, which
\* have neither context nor deadline: only the connection's failure ends the wait.
PeerSilent(c) ==
    /\ dial[c] \in {"tcp", "handshake", "session"} /\ ~connDone[c]
    /\ dial' = [dial EXCEPT ![c] = "silent"]
    /\ KeepOthers /\ UNCHANGED hostVars

\* The callback of Wrap looks the key up in the file.
CheckHostKey(c) ==
    /\ DialStep(c, "tcp", IF HostKnown(c) THEN "handshake" ELSE "unknown")
    /\ KeepOthers /\ UNCHANGED hostVars

AskForTrust(c) ==
    /\ DialStep(c, "unknown", "asking")
    /\ Enqueue(c)
    /\ KeepOthers

\* Mutant: a handshake whose host is being asked for does not watch its context.
HostKeyCancelledEarly(c) ==
    /\ DialStep(c, "unknown", "cleanup")
    /\ ContextDone(c)
    /\ KeepOthers /\ UNCHANGED hostVars

HostKeyCancelled(c) ==
    /\ dial[c] \in {"unknown", "asking"}
    /\ ContextDone(c)
    /\ dial' = [dial EXCEPT ![c] = "cleanup"]
    /\ KeepOthers /\ UNCHANGED hostVars

HostKeyDecided(c) ==
    /\ response[c] # "none"
    /\ DialStep(c, "asking", IF response[c] = "trust" THEN "handshake" ELSE "cleanup")
    /\ response' = [response EXCEPT ![c] = "none"]
    /\ KeepOthers /\ UNCHANGED <<known, trustAllHosts, prompter, hosts>>

HandshakeDone(c) ==
    /\ DialStep(c, "handshake", "session")
    /\ KeepOthers /\ UNCHANGED hostVars

\* Mutant: every caller gives the slot back.
ReleaseThrottleTwice(c) ==
    /\ throttle' = throttle - 1
    /\ released' = [released EXCEPT ![c] = TRUE]

\* throttleReleased.Do: the first caller gives the slot back.
ReleaseThrottle(c) ==
    /\ throttle' = IF released[c] THEN throttle ELSE throttle - 1
    /\ released' = [released EXCEPT ![c] = TRUE]

SessionUp(c) ==
    /\ DialStep(c, "session", "up")
    /\ ReleaseThrottle(c)
    /\ UNCHANGED <<hostVars, main, attempt, connDone, established, cancelled>>

\* A copy goroutine or the handler ends the session: it cancels the context of
\* the attempt, for which the loop and handle both wait.
SessionEnds(c) ==
    /\ dial[c] \in {"session", "up"} /\ ~connDone[c]
    /\ connDone' = [connDone EXCEPT ![c] = TRUE]
    /\ UNCHANGED <<hostVars, main, attempt, dial, throttle, released, established, cancelled>>

HandleReturns(c) ==
    /\ DialStep(c, "up", "cleanup")
    /\ ContextDone(c)
    /\ KeepOthers /\ UNCHANGED hostVars

DecrementStats(c) ==
    /\ DialStep(c, "cleanup", "release")
    /\ established' = established - 1
    /\ UNCHANGED <<hostVars, main, attempt, connDone, throttle, released, cancelled>>

DialGoroutineEnds(c) ==
    /\ DialStep(c, "release", "over")
    /\ ReleaseThrottle(c)
    /\ connDone' = [connDone EXCEPT ![c] = TRUE]
    /\ UNCHANGED <<hostVars, main, attempt, established, cancelled>>

Prompter ==
    /\ \/ QuietPeriod
       \/ StopPrompting /\ cancelled
    /\ UNCHANGED dial /\ KeepOthers

UserAnswers ==
    /\ \E answer \in {"yes", "all", "no", "error"} : PromptAddHosts(answer)
    /\ UNCHANGED dial /\ KeepOthers

------------------------------------------------------------------------------
\* The steps that the client's own goroutines and timers take, the three of a
\* handshake with the peer's answer.
Progress(c) ==
    \/ IncrementStats(c) \/ CheckHostKey(c) \/ AskForTrust(c) \/ HostKeyCancelled(c)
    \/ HostKeyDecided(c) \/ HandshakeDone(c) \/ SessionUp(c)
    \/ HandleReturns(c) \/ DecrementStats(c) \/ DialGoroutineEnds(c)

MainProgress(s) ==
    Start(s) \/ StartReturns(s) \/ DecideRetry(s) \/ Reconnect(s) \/ BackoffCancelled(s)

Next ==
    \/ Cancel
    \/ \E s \in Servers : MainProgress(s)
    \/ \E c \in Attempts : Progress(c) \/ DialFails(c) \/ PeerSilent(c) \/ SessionEnds(c)
    \/ Prompter
    \/ UserAnswers

\* The user answers sooner or later unless the client is cancelled; a peer answers
\* unless it falls silent, and then nothing is promised.  The network may fail or
\* end a session at any time, but need not.
Fairness ==
    /\ \A s \in Servers : WF_vars(MainProgress(s))
    /\ \A c \in Attempts : WF_vars(Progress(c))
    /\ WF_vars(Prompter)
    /\ WF_vars(UserAnswers /\ ~cancelled)

Spec == Init /\ [][Next]_vars /\ Fairness

------------------------------------------------------------------------------
(* Properties.                                                               *)

TypeOK ==
    /\ main \in [Servers -> {"starting", "waiting", "stopped", "backoff", "returned"}]
    /\ attempt \in [Servers -> 1..MaxAttempts]
    /\ dial \in [Attempts -> {"none", "stats", "tcp", "unknown", "asking", "handshake",
                              "session", "silent", "up", "cleanup", "release", "over"}]
    /\ throttle \in Nat /\ established \in Nat
    /\ prompter \in {"collect", "ask", "gone"}
    /\ hosts \subseteq Attempts

HoldsSlot(c) == dial[c] # "none" /\ ~released[c]

Slots == INSTANCE BoundedPool WITH
    Holders <- Attempts, Limit <- ThrottleSize, held <- {c \in Attempts : HoldsSlot(c)}

\* The throttle channel implements a pool: an attempt gives its slot back once,
\* early when its session is up or late in the deferred cleanup, also when the
\* next attempt of the server is already under way.
ThrottleIsPool == Slots!Spec

\* What the two channels hold is what the attempts have put there and not taken
\* back: a second release would take the slot of another connection.
ChannelsExact ==
    /\ throttle = Cardinality({c \in Attempts : HoldsSlot(c)})
    /\ established = Cardinality({c \in Attempts :
            dial[c] \notin {"none", "stats", "release", "over"}})

\* A handshake goes past the host key only with a key that is in known_hosts by
\* then, and no later batch of trusted hosts loses it again.
TrustedIsKnown ==
    \A c \in Attempts : dial[c] \in {"handshake", "session", "up"} => HostKnown(c)

\* After a cancel the client returns and no goroutine of an attempt is left
\* behind, even while the prompt waits for an answer that never comes, but for
\* those that a peer has left waiting in a handshake.
CancelEnds ==
    cancelled ~> /\ \A s \in Servers : main[s] = "returned"
                 /\ \A c \in Attempts : dial[c] \in {"none", "silent", "over"}

\* What context-aware dialing is documented to give: a cancel during connection
\* establishment ends every attempt, whatever its peer does.
EstablishmentCancelled == cancelled ~> \A c \in Attempts : dial[c] \in {"none", "over"}
=============================================================================
