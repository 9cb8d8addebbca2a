----------------------- MODULE ClientConnectionsProofs -----------------------
(***************************************************************************)
(* Proofs about ClientConnections and KnownHosts, for every finite set of  *)
(* servers, every throttle size, batch size and number of attempts.        *)
(***************************************************************************)
EXTENDS ClientConnections, FiniteSetTheorems, TLAPS

-----------------------------------------------------------------------------
(* The parts of the inductive invariant. *)

\* The type invariant of the module and the types of the other variables.
TypeInv ==
    /\ TypeOK
    /\ released \in [Attempts -> BOOLEAN]
    /\ response \in [Attempts -> {"none", "trust", "dont"}]
    /\ DOMAIN known = Servers

\* An attempt that the loop has not started has no goroutine, and an attempt
\* without a goroutine has not released its slot.
StartInv ==
    /\ \A s \in Servers : main[s] = "starting" => dial[Current(s)] = "none"
    /\ \A c \in Attempts : c[2] > attempt[c[1]] => dial[c] = "none"
    /\ \A c \in Attempts : dial[c] = "none" => ~released[c]

\* The prompter answers a handshake only after it has written the file.
AnswerInv == \A c \in Attempts : response[c] = "trust" => HostKnown(c)

IInv ==
    /\ TypeInv /\ StartInv /\ AnswerInv
    /\ ChannelsExact /\ TrustedIsKnown

-----------------------------------------------------------------------------
(* What a step can do to a channel: nothing, put one in, or take one out.    *)

Held == {c \in Attempts : HoldsSlot(c)}
Counted == {c \in Attempts : dial[c] \notin {"none", "stats", "release", "over"}}

Kept(set, n) == set' = set /\ n' = n
Put(set, n, c) == c \notin set /\ set' = set \union {c} /\ n' = n + 1
Taken(set, n, c) == c \in set /\ set' = set \ {c} /\ n' = n - 1

LEMMA FiniteAttempts == IsFiniteSet(Attempts) /\ IsFiniteSet(Held) /\ IsFiniteSet(Counted)
<1>1. IsFiniteSet(1 .. MaxAttempts)
  BY ClientAssumption, FS_Interval
<1>2. IsFiniteSet(Attempts)
  BY <1>1, ClientAssumption, FS_Product DEF Attempts
<1> QED BY <1>2, FS_Subset DEF Held, Counted

LEMMA CurrentIsAttempt ==
    ASSUME TypeInv, NEW s \in Servers
    PROVE  Current(s) \in Attempts /\ attempt[s] \in 1 .. MaxAttempts
  BY DEF TypeInv, TypeOK, Current, Attempts

-----------------------------------------------------------------------------
(* Every step preserves every part of the invariant. *)

\* The steps of the goroutine of an attempt that keep the throttle.
DialMoves(c) ==
    \/ IncrementStats(c) \/ CheckHostKey(c) \/ AskForTrust(c) \/ HostKeyCancelled(c)
    \/ HostKeyDecided(c) \/ HandshakeDone(c) \/ HandleReturns(c) \/ DecrementStats(c)
    \/ DialFails(c) \/ PeerSilent(c)

LEMMA DialMovesEffect ==
    ASSUME TypeInv, NEW c \in Attempts, DialMoves(c)
    PROVE  /\ dial[c] # "none" /\ dial[c] \notin {"release", "over"}
           /\ \E to \in {"tcp", "unknown", "asking", "handshake", "session", "silent", "cleanup", "release"} :
                dial' = [dial EXCEPT ![c] = to]
           /\ UNCHANGED <<main, attempt, connDone, throttle, released, cancelled>>
<1> USE DEF DialStep, KeepOthers
<1>1. CASE IncrementStats(c) \/ DecrementStats(c)
  BY <1>1 DEF IncrementStats, DecrementStats
<1>2. CASE CheckHostKey(c)
  BY <1>2 DEF CheckHostKey
<1>3. CASE AskForTrust(c) \/ HostKeyCancelled(c) \/ HandshakeDone(c) \/ HandleReturns(c)
           \/ DialFails(c) \/ PeerSilent(c)
  BY <1>3 DEF AskForTrust, HostKeyCancelled, HandshakeDone, HandleReturns, DialFails, PeerSilent
<1>4. CASE HostKeyDecided(c)
  BY <1>4 DEF HostKeyDecided
<1> QED BY <1>1, <1>2, <1>3, <1>4 DEF DialMoves

\* The steps by what they are.
LEMMA NextSplit ==
    [Next]_vars =>
        \/ Cancel \/ Prompter \/ UserAnswers \/ UNCHANGED vars
        \/ \E s \in Servers : Start(s) \/ StartReturns(s) \/ DecideRetry(s) \/ Reconnect(s)
                              \/ BackoffCancelled(s)
        \/ \E c \in Attempts : DialMoves(c) \/ SessionUp(c) \/ SessionEnds(c)
                               \/ DialGoroutineEnds(c)
  BY DEF Next, MainProgress, Progress, DialMoves

LEMMA HostTyping ==
    TypeInv /\ [Next]_vars =>
        /\ prompter' \in {"collect", "ask", "gone"}
        /\ hosts' \subseteq Attempts
        /\ response' \in [Attempts -> {"none", "trust", "dont"}]
        /\ DOMAIN known' = Servers
<1> DEFINE Typed == /\ prompter' \in {"collect", "ask", "gone"}
                    /\ hosts' \subseteq Attempts
                    /\ response' \in [Attempts -> {"none", "trust", "dont"}]
                    /\ DOMAIN known' = Servers
<1> SUFFICES ASSUME TypeInv, [Next]_vars PROVE Typed
  OBVIOUS
<1>0. /\ prompter \in {"collect", "ask", "gone"}
      /\ hosts \subseteq Attempts
      /\ response \in [Attempts -> {"none", "trust", "dont"}]
      /\ DOMAIN known = Servers
      /\ Connections = Attempts
  BY ClientAssumption DEF TypeInv, TypeOK, Attempts
<1> USE DEF hostVars, KeepOthers
<1>1. CASE UNCHANGED hostVars
  BY <1>0, <1>1
<1>2. ASSUME NEW c \in Attempts, AskForTrust(c) PROVE Typed
  BY <1>0, <1>2 DEF AskForTrust, Enqueue
<1>3. ASSUME NEW c \in Attempts, HostKeyDecided(c) PROVE Typed
  BY <1>0, <1>3 DEF HostKeyDecided
<1>4. CASE Prompter
  BY <1>0, <1>4 DEF Prompter, QuietPeriod, StopPrompting
<1>5. ASSUME NEW answer \in {"yes", "all", "no", "error"}, PromptAddHosts(answer) PROVE Typed
  BY <1>0, <1>5 DEF PromptAddHosts, TrustHosts, TrustHostsFails, Respond
<1>6. ASSUME \/ Cancel \/ UNCHANGED vars
             \/ \E s \in Servers : MainProgress(s)
             \/ \E c \in Attempts : \/ IncrementStats(c) \/ CheckHostKey(c) \/ HostKeyCancelled(c)
                                    \/ HandshakeDone(c) \/ SessionUp(c) \/ HandleReturns(c)
                                    \/ DecrementStats(c) \/ DialGoroutineEnds(c) \/ DialFails(c) \/ PeerSilent(c)
                                    \/ SessionEnds(c)
      PROVE  UNCHANGED hostVars
  BY <1>6 DEF Cancel, vars, MainProgress, Start, StartReturns, DecideRetry, Reconnect,
              BackoffCancelled, IncrementStats, CheckHostKey, HostKeyCancelled, HandshakeDone,
              SessionUp, HandleReturns, DecrementStats, DialGoroutineEnds, DialFails, PeerSilent, SessionEnds
<1> HIDE DEF hostVars, KeepOthers, Typed
<1> QED BY <1>1, <1>2, <1>3, <1>4, <1>5, <1>6 DEF Next, Progress, UserAnswers

\* The throttle channel: Start puts a token in, the first ReleaseThrottle of the
\* attempt takes one out.
LEMMA ThrottleMoves ==
    TypeInv /\ StartInv /\ [Next]_vars =>
        \/ Kept(Held, throttle)
        \/ \E c \in Attempts : \/ Put(Held, throttle, c) /\ throttle < ThrottleSize
                               \/ Taken(Held, throttle, c)
<1> DEFINE Moved == \/ Kept(Held, throttle)
                    \/ \E c \in Attempts : \/ Put(Held, throttle, c) /\ throttle < ThrottleSize
                                           \/ Taken(Held, throttle, c)
<1> SUFFICES ASSUME TypeInv, StartInv, [Next]_vars PROVE Moved
  OBVIOUS
<1>0. /\ released \in [Attempts -> BOOLEAN]
      /\ dial \in [Attempts -> {"none", "stats", "tcp", "unknown", "asking", "handshake",
                                "session", "silent", "up", "cleanup", "release", "over"}]
  BY DEF TypeInv, TypeOK
<1> USE DEF Held, HoldsSlot
<1>1. ASSUME UNCHANGED <<dial, released, throttle>> PROVE Moved
  BY <1>1 DEF Kept
<1>2. ASSUME \/ Cancel \/ Prompter \/ UserAnswers \/ UNCHANGED vars
             \/ \E s \in Servers : StartReturns(s) \/ DecideRetry(s) \/ Reconnect(s)
                                   \/ BackoffCancelled(s)
             \/ \E c \in Attempts : SessionEnds(c)
      PROVE  UNCHANGED <<dial, released, throttle>>
  BY <1>2 DEF Cancel, Prompter, UserAnswers, vars, StartReturns, DecideRetry, Reconnect,
              BackoffCancelled, SessionEnds, KeepOthers
<1>3. ASSUME NEW s \in Servers, Start(s) PROVE Moved
  <2> DEFINE c == Current(s)
  <2>1. c \in Attempts
    BY CurrentIsAttempt
  <2>2. /\ dial[c] = "none" /\ ~released[c]
        /\ dial' = [dial EXCEPT ![c] = "stats"] /\ UNCHANGED released
        /\ throttle' = throttle + 1 /\ throttle < ThrottleSize
    BY <1>3, <2>1 DEF Start, StartInv, MainStep
  <2> HIDE DEF c
  <2>3. Put(Held, throttle, c)
    BY <1>0, <2>1, <2>2 DEF Put
  <2> QED BY <2>1, <2>2, <2>3
<1>4. ASSUME NEW c \in Attempts, DialMoves(c) PROVE Moved
  <2>1. PICK to \in {"tcp", "unknown", "asking", "handshake", "session", "silent", "cleanup", "release"} :
          dial' = [dial EXCEPT ![c] = to]
    BY <1>4, DialMovesEffect
  <2>2. dial[c] # "none" /\ UNCHANGED <<throttle, released>>
    BY <1>4, DialMovesEffect
  <2>3. Held' = Held
    BY <1>0, <2>1, <2>2
  <2> QED BY <2>2, <2>3 DEF Kept
<1>5. ASSUME NEW c \in Attempts, SessionUp(c) \/ DialGoroutineEnds(c) PROVE Moved
  <2>1. /\ dial[c] # "none" /\ ReleaseThrottle(c)
        /\ \E to \in {"up", "over"} : dial' = [dial EXCEPT ![c] = to]
    BY <1>5 DEF SessionUp, DialGoroutineEnds, DialStep
  <2>2. CASE released[c]
    <3>1. Held' = Held /\ throttle' = throttle
      BY <1>0, <2>1, <2>2 DEF ReleaseThrottle
    <3> QED BY <3>1 DEF Kept
  <2>3. CASE ~released[c]
    <3>1. Taken(Held, throttle, c)
      BY <1>0, <2>1, <2>3 DEF ReleaseThrottle, Taken
    <3> QED BY <3>1
  <2> QED BY <2>2, <2>3
<1> HIDE DEF Moved
<1> QED BY <1>1, <1>2, <1>3, <1>4, <1>5, NextSplit

\* The statistics channel: IncrementStats puts a token in, DecrementStats takes
\* it out.
LEMMA StatsMoves ==
    TypeInv /\ StartInv /\ [Next]_vars =>
        \/ Kept(Counted, established)
        \/ \E c \in Attempts : Put(Counted, established, c) \/ Taken(Counted, established, c)
<1> DEFINE Moved == \/ Kept(Counted, established)
                    \/ \E c \in Attempts : \/ Put(Counted, established, c)
                                           \/ Taken(Counted, established, c)
<1> SUFFICES ASSUME TypeInv, StartInv, [Next]_vars PROVE Moved
  OBVIOUS
<1>0. dial \in [Attempts -> {"none", "stats", "tcp", "unknown", "asking", "handshake",
                             "session", "silent", "up", "cleanup", "release", "over"}]
  BY DEF TypeInv, TypeOK
<1> USE DEF Counted
<1>1. ASSUME UNCHANGED <<dial, established>> PROVE Moved
  BY <1>1 DEF Kept
<1>2. ASSUME \/ Cancel \/ Prompter \/ UserAnswers \/ UNCHANGED vars
             \/ \E s \in Servers : StartReturns(s) \/ DecideRetry(s) \/ Reconnect(s)
                                   \/ BackoffCancelled(s)
             \/ \E c \in Attempts : SessionEnds(c)
      PROVE  UNCHANGED <<dial, established>>
  BY <1>2 DEF Cancel, Prompter, UserAnswers, vars, StartReturns, DecideRetry, Reconnect,
              BackoffCancelled, SessionEnds, KeepOthers
<1>3. ASSUME NEW s \in Servers, Start(s) PROVE Moved
  <2>1. Current(s) \in Attempts
    BY CurrentIsAttempt
  <2>2. Counted' = Counted /\ established' = established
    BY <1>0, <1>3, <2>1 DEF Start, StartInv, MainStep
  <2> QED BY <2>2 DEF Kept
<1>4. ASSUME NEW c \in Attempts, IncrementStats(c) PROVE Put(Counted, established, c)
  BY <1>0, <1>4 DEF IncrementStats, DialStep, Put
<1>5. ASSUME NEW c \in Attempts, DecrementStats(c) PROVE Taken(Counted, established, c)
  BY <1>0, <1>5 DEF DecrementStats, DialStep, Taken
<1>6. ASSUME NEW c \in Attempts,
             \/ CheckHostKey(c) \/ AskForTrust(c) \/ HostKeyCancelled(c) \/ HostKeyDecided(c)
             \/ HandshakeDone(c) \/ HandleReturns(c) \/ DialFails(c) \/ PeerSilent(c) \/ SessionUp(c)
             \/ DialGoroutineEnds(c)
      PROVE  Kept(Counted, established)
  <2>1. /\ established' = established
        /\ \/ \E to \in {"unknown", "asking", "handshake", "session", "silent", "up", "cleanup"} :
                dial' = [dial EXCEPT ![c] = to]
              /\ dial[c] \notin {"none", "stats", "release", "over"}
           \/ dial[c] = "release" /\ dial' = [dial EXCEPT ![c] = "over"]
    <3> USE DEF DialStep, KeepOthers
    <3>1. CASE CheckHostKey(c)
      BY <3>1 DEF CheckHostKey
    <3>2. CASE AskForTrust(c) \/ HostKeyCancelled(c) \/ HandshakeDone(c) \/ HandleReturns(c)
               \/ DialFails(c) \/ PeerSilent(c)
      BY <3>2 DEF AskForTrust, HostKeyCancelled, HandshakeDone, HandleReturns, DialFails, PeerSilent
    <3>3. CASE HostKeyDecided(c)
      BY <3>3 DEF HostKeyDecided
    <3>4. CASE SessionUp(c) \/ DialGoroutineEnds(c)
      BY <3>4 DEF SessionUp, DialGoroutineEnds
    <3> QED BY <1>6, <3>1, <3>2, <3>3, <3>4
  <2> QED BY <1>0, <2>1 DEF Kept
<1> HIDE DEF Counted
<1> QED BY <1>1, <1>2, <1>3, <1>4, <1>5, <1>6, NextSplit DEF DialMoves

\* Counting what is in a channel.
LEMMA CountStep ==
    ASSUME NEW S, NEW T, NEW n, NEW m, NEW c, IsFiniteSet(S), n = Cardinality(S),
           \/ T = S /\ m = n
           \/ c \notin S /\ T = S \union {c} /\ m = n + 1
           \/ c \in S /\ T = S \ {c} /\ m = n - 1
    PROVE  m = Cardinality(T) /\ m \in Nat
<1>1. Cardinality(S) \in Nat
  BY FS_CardinalityType
<1>2. CASE c \notin S /\ T = S \union {c} /\ m = n + 1
  BY <1>1, <1>2, FS_AddElement
<1>3. CASE c \in S /\ T = S \ {c} /\ m = n - 1
  BY <1>1, <1>3, FS_RemoveElement, FS_CardinalityType
<1> QED BY <1>1, <1>2, <1>3

LEMMA ChannelsStep ==
    TypeInv /\ StartInv /\ ChannelsExact /\ [Next]_vars
        => ChannelsExact' /\ throttle' \in Nat /\ established' \in Nat
<1> SUFFICES ASSUME TypeInv, StartInv, ChannelsExact, [Next]_vars
             PROVE  ChannelsExact' /\ throttle' \in Nat /\ established' \in Nat
  OBVIOUS
<1>1. throttle = Cardinality(Held) /\ established = Cardinality(Counted)
  BY DEF ChannelsExact, Held, Counted
<1>2. throttle' = Cardinality(Held') /\ throttle' \in Nat
  <2>1. \E c : Kept(Held, throttle) \/ Put(Held, throttle, c) \/ Taken(Held, throttle, c)
    BY ThrottleMoves
  <2>2. PICK c : \/ Held' = Held /\ throttle' = throttle
                 \/ c \notin Held /\ Held' = Held \union {c} /\ throttle' = throttle + 1
                 \/ c \in Held /\ Held' = Held \ {c} /\ throttle' = throttle - 1
    BY <2>1 DEF Kept, Put, Taken
  <2> QED BY <1>1, <2>2, FiniteAttempts, CountStep
<1>3. established' = Cardinality(Counted') /\ established' \in Nat
  <2>1. \E c : Kept(Counted, established) \/ Put(Counted, established, c) \/ Taken(Counted, established, c)
    BY StatsMoves
  <2>2. PICK c : \/ Counted' = Counted /\ established' = established
                 \/ c \notin Counted /\ Counted' = Counted \union {c} /\ established' = established + 1
                 \/ c \in Counted /\ Counted' = Counted \ {c} /\ established' = established - 1
    BY <2>1 DEF Kept, Put, Taken
  <2> QED BY <1>1, <2>2, FiniteAttempts, CountStep
<1> QED BY <1>2, <1>3 DEF ChannelsExact, Held, Counted

LEMMA Typing == TypeInv /\ StartInv /\ ChannelsExact /\ [Next]_vars => TypeInv'
<1> SUFFICES ASSUME TypeInv, StartInv, ChannelsExact, [Next]_vars PROVE TypeInv'
  OBVIOUS
<1> DEFINE Goroutine == /\ main' \in [Servers -> {"starting", "waiting", "stopped", "backoff",
                                                 "returned"}]
                        /\ attempt' \in [Servers -> 1..MaxAttempts]
                        /\ dial' \in [Attempts -> {"none", "stats", "tcp", "unknown", "asking",
                                                   "handshake", "session", "silent", "up", "cleanup",
                                                   "release", "over"}]
                        /\ released' \in [Attempts -> BOOLEAN]
<1>0. /\ main \in [Servers -> {"starting", "waiting", "stopped", "backoff", "returned"}]
      /\ attempt \in [Servers -> 1..MaxAttempts]
      /\ dial \in [Attempts -> {"none", "stats", "tcp", "unknown", "asking", "handshake",
                                "session", "silent", "up", "cleanup", "release", "over"}]
      /\ released \in [Attempts -> BOOLEAN]
      /\ MaxAttempts \in Nat
  BY ClientAssumption DEF TypeInv, TypeOK
<1>1. ASSUME UNCHANGED <<main, attempt, dial, released>> PROVE Goroutine
  BY <1>0, <1>1
<1>2. ASSUME \/ Cancel \/ Prompter \/ UserAnswers \/ UNCHANGED vars
             \/ \E c \in Attempts : SessionEnds(c)
      PROVE  UNCHANGED <<main, attempt, dial, released>>
  BY <1>2 DEF Cancel, Prompter, UserAnswers, vars, SessionEnds, KeepOthers
<1>3. ASSUME NEW s \in Servers, Start(s) PROVE Goroutine
  BY <1>0, <1>3, CurrentIsAttempt DEF Start, MainStep
<1>4. ASSUME NEW s \in Servers, StartReturns(s) \/ DecideRetry(s) \/ BackoffCancelled(s)
      PROVE  Goroutine
  BY <1>0, <1>4 DEF StartReturns, DecideRetry, BackoffCancelled, MainStep
<1>5. ASSUME NEW s \in Servers, Reconnect(s) PROVE Goroutine
  BY <1>0, <1>5 DEF Reconnect, MainStep
<1>6. ASSUME NEW c \in Attempts, DialMoves(c) PROVE Goroutine
  BY <1>0, <1>6, DialMovesEffect
<1>7. ASSUME NEW c \in Attempts, SessionUp(c) \/ DialGoroutineEnds(c) PROVE Goroutine
  BY <1>0, <1>7 DEF SessionUp, DialGoroutineEnds, DialStep, ReleaseThrottle
<1>8. Goroutine
  <2> HIDE DEF Goroutine
  <2> QED BY <1>1, <1>2, <1>3, <1>4, <1>5, <1>6, <1>7, NextSplit
<1> QED BY <1>8, HostTyping, ChannelsStep DEF TypeInv, TypeOK

LEMMA StartStep == TypeInv /\ StartInv /\ [Next]_vars => StartInv'
<1> SUFFICES ASSUME TypeInv, StartInv, [Next]_vars PROVE StartInv'
  OBVIOUS
<1>0. /\ main \in [Servers -> {"starting", "waiting", "stopped", "backoff", "returned"}]
      /\ attempt \in [Servers -> 1..MaxAttempts]
      /\ dial \in [Attempts -> {"none", "stats", "tcp", "unknown", "asking", "handshake",
                                "session", "silent", "up", "cleanup", "release", "over"}]
      /\ released \in [Attempts -> BOOLEAN]
      /\ MaxAttempts \in Nat
      /\ Attempts = Servers \X (1..MaxAttempts)
      /\ \A s \in Servers : Current(s) \in Attempts
  BY ClientAssumption, CurrentIsAttempt DEF TypeInv, TypeOK, Attempts
<1> USE DEF StartInv
<1>1. CASE UNCHANGED <<main, attempt, dial, released>>
  BY <1>0, <1>1 DEF Current
<1>2. ASSUME \/ Cancel \/ Prompter \/ UserAnswers \/ UNCHANGED vars
             \/ \E c \in Attempts : SessionEnds(c)
      PROVE  UNCHANGED <<main, attempt, dial, released>>
  BY <1>2 DEF Cancel, Prompter, UserAnswers, vars, SessionEnds, KeepOthers
<1>3. ASSUME NEW s \in Servers, Start(s) PROVE StartInv'
  <2>1. /\ main' = [main EXCEPT ![s] = "waiting"] /\ dial' = [dial EXCEPT ![Current(s)] = "stats"]
        /\ UNCHANGED <<attempt, released>>
    BY <1>3 DEF Start, MainStep
  <2>2. \A t \in Servers : t # s => Current(t) # Current(s)
    BY DEF Current
  <2>3. \A t \in Servers : main'[t] = "starting" => dial'[Current(t)] = "none"
    BY <1>0, <2>1, <2>2
  <2>4. \A c \in Attempts : c[2] > attempt[c[1]] => c # Current(s)
    BY <1>0 DEF Current
  <2>5. \A c \in Attempts : c[2] > attempt[c[1]] => dial'[c] = "none"
    BY <1>0, <2>1, <2>4
  <2>6. \A c \in Attempts : dial'[c] = "none" => ~released[c]
    BY <1>0, <2>1
  <2> QED BY <2>1, <2>3, <2>5, <2>6 DEF Current
<1>4. ASSUME NEW s \in Servers, StartReturns(s) \/ DecideRetry(s) \/ BackoffCancelled(s)
      PROVE  StartInv'
  <2>1. /\ \E to \in {"stopped", "backoff", "returned"} : main' = [main EXCEPT ![s] = to]
        /\ UNCHANGED <<attempt, dial, released>>
    BY <1>4 DEF StartReturns, DecideRetry, BackoffCancelled, MainStep
  <2> QED BY <1>0, <2>1 DEF Current
<1>5. ASSUME NEW s \in Servers, Reconnect(s) PROVE StartInv'
  <2>1. /\ main' = [main EXCEPT ![s] = "starting"]
        /\ attempt' = [attempt EXCEPT ![s] = @ + 1] /\ attempt[s] < MaxAttempts
        /\ UNCHANGED <<dial, released>>
    BY <1>5 DEF Reconnect, MainStep
  <2>2. attempt[s] \in Nat /\ attempt'[s] = attempt[s] + 1
    BY <1>0, <2>1
  <2>3. <<s, attempt'[s]>> \in Attempts
    BY <1>0, <2>1, <2>2
  <2>4. dial[<<s, attempt'[s]>>] = "none"
    BY <2>2, <2>3
  <2>5. \A t \in Servers : main'[t] = "starting" => dial'[<<t, attempt'[t]>>] = "none"
    <3> SUFFICES ASSUME NEW t \in Servers, main'[t] = "starting"
                 PROVE  dial[<<t, attempt'[t]>>] = "none"
      BY <2>1
    <3>1. CASE t = s
      BY <2>4, <3>1
    <3>2. CASE t # s
      BY <1>0, <2>1, <3>2 DEF Current
    <3> QED BY <3>1, <3>2
  <2>6. \A c \in Attempts : c[2] > attempt'[c[1]] => dial'[c] = "none"
    <3> SUFFICES ASSUME NEW c \in Attempts, c[2] > attempt'[c[1]] PROVE dial[c] = "none"
      BY <2>1
    <3>1. c[1] \in Servers /\ c[2] \in Nat /\ attempt[c[1]] \in Nat
      BY <1>0
    <3>2. c[2] > attempt[c[1]]
      BY <1>0, <2>1, <2>2, <3>1
    <3> QED BY <3>2
  <2> QED BY <2>1, <2>5, <2>6 DEF Current
<1>6. ASSUME NEW c \in Attempts,
             /\ dial[c] # "none"
             /\ \E to \in {"stats", "tcp", "unknown", "asking", "handshake", "session", "silent", "up",
                            "cleanup", "release", "over"} : dial' = [dial EXCEPT ![c] = to]
             /\ UNCHANGED <<main, attempt>>
             /\ released' = released \/ released' = [released EXCEPT ![c] = TRUE]
      PROVE  StartInv'
  <2>1. \A d \in Attempts : /\ dial'[d] = "none" <=> dial[d] = "none"
                            /\ dial[d] = "none" => released'[d] = released[d]
    BY <1>0, <1>6
  <2> QED BY <1>0, <1>6, <2>1 DEF Current
<1>7. ASSUME NEW c \in Attempts, DialMoves(c) PROVE StartInv'
  BY <1>6, <1>7, DialMovesEffect
<1>8. ASSUME NEW c \in Attempts, SessionUp(c) \/ DialGoroutineEnds(c) PROVE StartInv'
  <2>1. /\ dial[c] # "none"
        /\ \E to \in {"up", "over"} : dial' = [dial EXCEPT ![c] = to]
        /\ UNCHANGED <<main, attempt>>
        /\ released' = [released EXCEPT ![c] = TRUE]
    BY <1>8 DEF SessionUp, DialGoroutineEnds, DialStep, ReleaseThrottle
  <2> QED BY <1>6, <2>1
<1> HIDE DEF StartInv
<1> QED BY <1>1, <1>2, <1>3, <1>4, <1>5, <1>7, <1>8, NextSplit

\* A host that is known stays known, and an answer comes after the file.
LEMMA HostMoves ==
    TypeInv /\ [Next]_vars =>
        \A c \in Attempts :
            /\ HostKnown(c) => HostKnown(c)'
            /\ response'[c] = "trust" => response[c] = "trust" \/ HostKnown(c)'
<1> DEFINE Moved == \A c \in Attempts :
                        /\ HostKnown(c) => HostKnown(c)'
                        /\ response'[c] = "trust" => response[c] = "trust" \/ HostKnown(c)'
<1> SUFFICES ASSUME TypeInv, [Next]_vars PROVE Moved
  OBVIOUS
<1>0. /\ response \in [Attempts -> {"none", "trust", "dont"}]
      /\ DOMAIN known = Servers /\ hosts \subseteq Attempts
      /\ Connections = Attempts /\ ServerOf \in [Attempts -> Servers]
  BY ClientAssumption DEF TypeInv, TypeOK, Attempts
<1> USE DEF HostKnown, hostVars, KeepOthers
<1>1. ASSUME UNCHANGED <<known, response>> PROVE Moved
  BY <1>1
<1>2. ASSUME NEW c \in Attempts, HostKeyDecided(c) PROVE Moved
  BY <1>0, <1>2 DEF HostKeyDecided
<1>3. ASSUME NEW answer \in {"yes", "all", "no", "error"}, PromptAddHosts(answer) PROVE Moved
  <2>1. CASE TrustHosts
    <3>1. \A c \in Attempts :
            /\ known'[ServerOf[c]] = KeyOf[ServerOf[c]] \/ known'[ServerOf[c]] = known[ServerOf[c]]
            /\ c \in hosts => known'[ServerOf[c]] = KeyOf[ServerOf[c]]
            /\ c \notin hosts => response'[c] = response[c]
      BY <1>0, <2>1 DEF TrustHosts, Respond
    <3> QED BY <3>1
  <2>2. CASE TrustHostsFails
    BY <1>0, <2>2 DEF TrustHostsFails, Respond
  <2> QED BY <1>3, <2>1, <2>2 DEF PromptAddHosts
<1>4. ASSUME \/ Cancel \/ UNCHANGED vars \/ Prompter
             \/ \E s \in Servers : MainProgress(s)
             \/ \E c \in Attempts : \/ IncrementStats(c) \/ CheckHostKey(c) \/ HostKeyCancelled(c)
                                    \/ HandshakeDone(c) \/ SessionUp(c) \/ HandleReturns(c)
                                    \/ DecrementStats(c) \/ DialGoroutineEnds(c) \/ DialFails(c) \/ PeerSilent(c)
                                    \/ SessionEnds(c) \/ AskForTrust(c)
      PROVE  UNCHANGED <<known, response>>
  BY <1>4 DEF Cancel, vars, MainProgress, Start, StartReturns, DecideRetry, Reconnect,
              BackoffCancelled, IncrementStats, CheckHostKey, HostKeyCancelled, HandshakeDone,
              SessionUp, HandleReturns, DecrementStats, DialGoroutineEnds, DialFails, PeerSilent, SessionEnds,
              AskForTrust, Enqueue, Prompter, QuietPeriod, StopPrompting
<1> HIDE DEF HostKnown, hostVars, KeepOthers, Moved
<1> QED BY <1>1, <1>2, <1>3, <1>4 DEF Next, Progress, UserAnswers

LEMMA TrustStep ==
    TypeInv /\ StartInv /\ AnswerInv /\ TrustedIsKnown /\ [Next]_vars => TrustedIsKnown' /\ AnswerInv'
<1> SUFFICES ASSUME TypeInv, StartInv, AnswerInv, TrustedIsKnown, [Next]_vars
             PROVE  TrustedIsKnown' /\ AnswerInv'
  OBVIOUS
<1>1. AnswerInv'
  BY HostMoves DEF AnswerInv
<1>2. \A c \in Attempts : HostKnown(c) => HostKnown(c)'
  BY HostMoves
<1>0. dial \in [Attempts -> {"none", "stats", "tcp", "unknown", "asking", "handshake",
                             "session", "silent", "up", "cleanup", "release", "over"}]
  BY DEF TypeInv, TypeOK
<1> DEFINE Past == {"handshake", "session", "up"}
\* Who gets past the host key has been past it, or its host is known.
<1>3. \A c \in Attempts : dial'[c] \in Past => dial[c] \in Past \/ HostKnown(c)
  <2> SUFFICES ASSUME NEW c \in Attempts, dial'[c] \in Past PROVE dial[c] \in Past \/ HostKnown(c)
    OBVIOUS
  <2>1. CASE UNCHANGED dial
    BY <2>1
  <2>2. ASSUME NEW s \in Servers, Start(s) PROVE dial[c] \in Past
    BY <1>0, <2>2, CurrentIsAttempt DEF Start
  <2>3. ASSUME NEW d \in Attempts, CheckHostKey(d) PROVE dial[c] \in Past \/ HostKnown(c)
    BY <1>0, <2>3 DEF CheckHostKey, DialStep
  <2>4. ASSUME NEW d \in Attempts, HostKeyDecided(d) PROVE dial[c] \in Past \/ HostKnown(c)
    BY <1>0, <2>4 DEF HostKeyDecided, DialStep, AnswerInv
  <2>5. ASSUME NEW d \in Attempts, HandshakeDone(d) \/ SessionUp(d) PROVE dial[c] \in Past
    BY <1>0, <2>5 DEF HandshakeDone, SessionUp, DialStep
  <2>6. ASSUME NEW d \in Attempts,
               \/ IncrementStats(d) \/ AskForTrust(d) \/ HostKeyCancelled(d) \/ HandleReturns(d)
               \/ DecrementStats(d) \/ DialGoroutineEnds(d) \/ DialFails(d) \/ PeerSilent(d)
        PROVE  dial[c] \in Past
    BY <1>0, <2>6 DEF IncrementStats, AskForTrust, HostKeyCancelled, HandleReturns,
                      DecrementStats, DialGoroutineEnds, DialFails, PeerSilent, DialStep
  <2>7. ASSUME \/ Cancel \/ UNCHANGED vars \/ Prompter \/ UserAnswers
               \/ \E s \in Servers : StartReturns(s) \/ DecideRetry(s) \/ Reconnect(s)
                                     \/ BackoffCancelled(s)
               \/ \E d \in Attempts : SessionEnds(d)
        PROVE  UNCHANGED dial
    BY <2>7 DEF Cancel, vars, Prompter, UserAnswers, StartReturns, DecideRetry, Reconnect,
                BackoffCancelled, SessionEnds
  <2> HIDE DEF Past
  <2> QED BY <2>1, <2>2, <2>3, <2>4, <2>5, <2>6, <2>7, NextSplit DEF DialMoves
<1>4. TrustedIsKnown'
  <2>1. \A c \in Attempts : dial'[c] \in Past => HostKnown(c)'
    BY <1>2, <1>3 DEF TrustedIsKnown
  <2> QED BY <2>1 DEF TrustedIsKnown
<1> QED BY <1>1, <1>4

-----------------------------------------------------------------------------
(* The theorems. *)

LEMMA Initial == Init => IInv
<1> SUFFICES ASSUME Init PROVE IInv
  OBVIOUS
<1> USE ClientAssumption DEF Init, HostsInit
<1>1. TypeInv
  BY DEF TypeInv, TypeOK, Attempts
<1>2. StartInv
  BY DEF StartInv, Current, Attempts
<1>3. AnswerInv /\ TrustedIsKnown
  BY DEF AnswerInv, TrustedIsKnown, Attempts
<1>4. ChannelsExact
  <2>1. {c \in Attempts : HoldsSlot(c)} = {}
        /\ {c \in Attempts : dial[c] \notin {"none", "stats", "release", "over"}} = {}
    BY DEF HoldsSlot
  <2> QED BY <2>1, FS_EmptySet DEF ChannelsExact
<1> QED BY <1>1, <1>2, <1>3, <1>4 DEF IInv

\* The invariant is inductive: attempts start once, the channels hold what their
\* attempts put there, answers come after the file.
THEOREM Invariance == Spec => []IInv
<1>1. IInv /\ [Next]_vars => IInv'
  BY Typing, StartStep, ChannelsStep, TrustStep DEF IInv
<1> QED BY Initial, <1>1, PTL DEF Spec

\* throttleCh and connectionsEstCh hold one token for every attempt that has put
\* one there and not taken it back, in whatever order attempts end and restart.
THEOREM ChannelsCorrect == Spec => []ChannelsExact
<1>1. IInv => ChannelsExact
  BY DEF IInv
<1> QED BY Invariance, <1>1, PTL

\* No handshake goes past the host key of a host that is not in known_hosts, and
\* no batch of answers takes a known host out of the file.
THEOREM TrustCorrect == Spec => []TrustedIsKnown
<1>1. IInv => TrustedIsKnown
  BY DEF IInv
<1> QED BY Invariance, <1>1, PTL

\* The throttle channel with its once-guarded release implements a pool of
\* ThrottleSize slots.
THEOREM ThrottleCorrect == Spec => ThrottleIsPool
<1>1. Init => Slots!Init
  BY DEF Init, Slots!Init, HoldsSlot
<1>2. IInv /\ [Next]_vars => [Slots!Next]_({c \in Attempts : HoldsSlot(c)})
  <2> SUFFICES ASSUME IInv, [Next]_vars PROVE [Slots!Next]_Held
    BY DEF Held
  <2>1. CASE Kept(Held, throttle)
    BY <2>1 DEF Kept
  <2>2. ASSUME NEW c \in Attempts, Put(Held, throttle, c), throttle < ThrottleSize
        PROVE  Slots!Acquire(c)
    <3>1. Slots!Cardinality(Held) < ThrottleSize
      BY <2>2 DEF IInv, ChannelsExact, Held, Cardinality, Slots!Cardinality
    <3> QED BY <2>2, <3>1 DEF Put, Held, Slots!Acquire
  <2>3. ASSUME NEW c \in Attempts, Taken(Held, throttle, c) PROVE Slots!Release(c)
    BY <2>3 DEF Taken, Held, Slots!Release
  <2> QED BY <2>1, <2>2, <2>3, ThrottleMoves DEF IInv, Slots!Next
<1> QED BY Invariance, <1>1, <1>2, PTL DEF Spec, ThrottleIsPool, Slots!Spec
=============================================================================
