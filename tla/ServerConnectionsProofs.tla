----------------------- MODULE ServerConnectionsProofs -----------------------
(***************************************************************************)
(* Proofs about ServerConnections and AuthKeyStore, for every finite set   *)
(* of connections, every limit, every time to live and every bound.        *)
(***************************************************************************)
EXTENDS ServerConnections, FiniteSetTheorems, TLAPS

-----------------------------------------------------------------------------
(* The parts of the inductive invariant. *)

Time == 0 .. MaxClock

\* A key together with the clock that was read before the store was locked.
Stamped == [by : {"key"}, key : Keys, now : Time]

\* The type invariant of the module and the types of the other variables.
TypeInv ==
    /\ TypeOK
    /\ offer \in [Conns -> Stamped \union {Nothing}]
    /\ authBy \in [Conns -> Stamped \union {Nothing, [by |-> "password"], [by |-> "file"]}]
    /\ adding \in [Shells -> Stamped \union {Nothing}]
    /\ registered \in [Users -> Seq([pubKey : Keys, registeredAt : Time])]

\* The listener goroutine has found a free slot for the connection that it is
\* about to reserve one for; nobody else takes slots, so it is still free.
ListenerInv ==
    listener # NoConn =>
        /\ phase[listener] = "accepted"
        /\ current + preAuth < MaxConnections

\* Who runs on a shell's behalf has a connection, and a callback in the key
\* store's queue has an offer.
WaitingInv ==
    /\ \A s \in Shells : goroutines[s] # {} \/ adding[s] # Nothing => shellConn[s] \in Conns
    /\ \A c \in Conns : phase[c] = "lookup" => offer[c] # Nothing

\* A clock that was read is never ahead of the clock.
ClockInv ==
    /\ \A c \in Conns : offer[c] # Nothing => offer[c].now <= clock
    /\ \A s \in Shells : adding[s] # Nothing => adding[s].now <= clock

\* What the store holds was registered, under its number, and no key twice.
StoreInv ==
    \A u \in Users :
        /\ \A e \in keysByUser[u] :
              /\ e.nr \in 1 .. Len(registered[u])
              /\ registered[u][e.nr] = [pubKey |-> e.pubKey, registeredAt |-> e.registeredAt]
        /\ \A e, f \in keysByUser[u] : e.pubKey = f.pubKey => e = f

\* The keys that a user registered after the i-th one.
Later(u, i) == {registered[u][j].pubKey : j \in (i + 1) .. Len(registered[u])}

\* An entry that is neither expired, nor replaced, nor pushed out is stored.
KeptInv ==
    \A u \in Users : \A i \in 1 .. Len(registered[u]) :
        (/\ ~Expired(registered[u][i], clock)
         /\ registered[u][i].pubKey \notin Later(u, i)
         /\ Cardinality(Later(u, i)) < MaxKeysPerUser)
        => [pubKey |-> registered[u][i].pubKey,
            registeredAt |-> registered[u][i].registeredAt, nr |-> i] \in keysByUser[u]

IInv ==
    /\ TypeInv /\ CountersMatch /\ ListenerInv /\ WaitingInv /\ ClockInv
    /\ StoreInv /\ KeyLoginRegistered /\ KeptInv

-----------------------------------------------------------------------------
(* Types. *)

\* What Prune and Add leave in the store has the type of its entries.
LEMMA StoreTyping ==
    ASSUME TypeInv, NEW u \in Users, NEW key \in Keys, NEW now \in Time, NEW nr \in Nat
    PROVE  /\ Prune(u, now) =>
                keysByUser' \in [Users -> SUBSET [pubKey : Keys, registeredAt : Time, nr : Nat]]
           /\ Add(u, key, now, nr) =>
                keysByUser' \in [Users -> SUBSET [pubKey : Keys, registeredAt : Time, nr : Nat]]
<1> DEFINE Entry == [pubKey : Keys, registeredAt : Time, nr : Nat]
<1>1. PruneExpired(u, now) \in SUBSET Entry
  BY DEF PruneExpired, TypeInv, TypeOK, Time
<1>2. [pubKey |-> key, registeredAt |-> now, nr |-> nr] \in Entry
  OBVIOUS
<1>3. keysByUser \in [Users -> SUBSET Entry]
  BY DEF TypeInv, TypeOK, Time
<1> HIDE DEF Entry
<1>4. Prune(u, now) => keysByUser' \in [Users -> SUBSET Entry]
  BY <1>1, <1>3 DEF Prune
<1>5. Add(u, key, now, nr) => keysByUser' \in [Users -> SUBSET Entry]
  BY <1>1, <1>2, <1>3 DEF Add
<1> QED BY <1>4, <1>5 DEF Entry

\* A connection in the handshake is counted, and so is an open one.
LEMMA Counted ==
    ASSUME TypeInv, CountersMatch, NEW c \in Conns
    PROVE  /\ c \in Handshaking => preAuth > 0
           /\ c \in Open => current > 0
<1>1. IsFiniteSet(Handshaking) /\ IsFiniteSet(Open)
  BY ConnectionsAssumption, FS_Subset DEF Handshaking, Open
<1>2. /\ Cardinality(Handshaking) \in Nat /\ Cardinality(Open) \in Nat
      /\ Cardinality(Handshaking) = 0 <=> Handshaking = {}
      /\ Cardinality(Open) = 0 <=> Open = {}
  BY <1>1, FS_CardinalityType, FS_EmptySet
<1> QED BY <1>2 DEF CountersMatch

\* What happens within a session.
LEMMA ServingLeaves ==
    \A s \in Shells : Serving(s) =>
        UNCHANGED <<clock, phase, listener, statsVars, sshUp, offer, authBy, shellConn, goroutines, keyVars,
                    stopped>>
  BY DEF Serving, HandlerFinishes, CommandTooLong, ChannelCloses, StartQuery, ProcessorsEnd, ServingRest

LEMMA Typing == TypeInv /\ CountersMatch /\ WaitingInv /\ [Next]_vars => TypeInv'
<1> SUFFICES ASSUME TypeInv, CountersMatch, WaitingInv, [Next]_vars PROVE TypeInv'
  OBVIOUS
<1> USE ConnectionsAssumption
    DEF statsVars, shellVars, keyVars, Goroutines
<1>1. CASE Tick
  <2>1. clock' \in 0 .. MaxClock
    BY <1>1 DEF Tick, TypeInv, TypeOK
  <2> QED BY <1>1, <2>1 DEF Tick, TypeInv, TypeOK
<1>2. CASE Stop
  BY <1>2 DEF Stop, TypeInv, TypeOK
<1>3. CASE ReservePreAuth
  <2>1. preAuth' \in Nat
    BY <1>3 DEF ReservePreAuth, TypeInv, TypeOK
  <2>2. /\ phase' \in [Conns -> {"idle", "accepted", "handshake", "lookup",
                                 "authenticated", "open", "gone"}]
        /\ listener' \in Conns \union {NoConn}
    BY <1>3 DEF ReservePreAuth, TypeInv, TypeOK
  <2> QED BY <1>3, <2>1, <2>2 DEF ReservePreAuth, TypeInv, TypeOK
<1>4. ASSUME NEW c \in Conns, Accept(c) PROVE TypeInv'
  <2>1. /\ phase' \in [Conns -> {"idle", "accepted", "handshake", "lookup",
                                 "authenticated", "open", "gone"}]
        /\ listener' \in Conns \union {NoConn}
    BY <1>4 DEF Accept, TypeInv, TypeOK
  <2> QED BY <1>4, <2>1 DEF Accept, TypeInv, TypeOK
<1>5. ASSUME NEW c \in Conns, HandshakeFails(c) \/ ClearDeadlineFails(c) PROVE TypeInv'
  <2>1. c \in Handshaking /\ Release(c)
        /\ UNCHANGED <<clock, listener, sshUp, authBy, shellVars, keyVars, stopped>>
    BY <1>5 DEF HandshakeFails, ClearDeadlineFails, Handshaking
  <2>2. preAuth' \in Nat
    <3>1. preAuth > 0
      BY <2>1, Counted
    <3> QED BY <2>1, <3>1 DEF Release, TypeInv, TypeOK
  <2>3. phase' \in [Conns -> {"idle", "accepted", "handshake", "lookup",
                              "authenticated", "open", "gone"}]
    BY <2>1 DEF Release, TypeInv, TypeOK
  <2>4. offer' \in [Conns -> Stamped \union {Nothing}]
    BY <2>1 DEF Release, TypeInv
  <2> QED BY <2>1, <2>2, <2>3, <2>4 DEF Release, TypeInv, TypeOK
<1>6. ASSUME NEW c \in Conns, NEW secret \in Secrets, OfferPassword(c, secret) PROVE TypeInv'
  <2>1. phase' \in [Conns -> {"idle", "accepted", "handshake", "lookup",
                              "authenticated", "open", "gone"}]
    BY <1>6 DEF OfferPassword, TypeInv, TypeOK
  <2>2. authBy' \in [Conns -> Stamped \union {Nothing, [by |-> "password"], [by |-> "file"]}]
    BY <1>6 DEF OfferPassword, TypeInv
  <2> QED BY <1>6, <2>1, <2>2 DEF OfferPassword, TypeInv, TypeOK
<1>7. ASSUME NEW c \in Conns, NEW key \in Keys, OfferPublicKey(c, key) PROVE TypeInv'
  <2>1. phase' \in [Conns -> {"idle", "accepted", "handshake", "lookup",
                              "authenticated", "open", "gone"}]
    BY <1>7 DEF OfferPublicKey, TypeInv, TypeOK
  <2>2. [by |-> "key", key |-> key, now |-> clock] \in Stamped
    BY DEF TypeInv, TypeOK, Stamped, Time
  <2>3. offer' \in [Conns -> Stamped \union {Nothing}]
    BY <1>7, <2>2 DEF OfferPublicKey, TypeInv
  <2> QED BY <1>7, <2>1, <2>3 DEF OfferPublicKey, TypeInv, TypeOK
<1>8. ASSUME NEW c \in Conns, LookupKey(c) PROVE TypeInv'
  <2>1. phase' \in [Conns -> {"idle", "accepted", "handshake", "lookup",
                              "authenticated", "open", "gone"}]
    BY <1>8 DEF LookupKey, TypeInv, TypeOK
  <2>2. UserOf[c] \in Users /\ offer[c] \in Stamped
    BY <1>8 DEF LookupKey, WaitingInv, TypeInv
  <2>3. offer[c].key \in Keys /\ offer[c].now \in Time
    BY <2>2 DEF Stamped
  <2>4. keysByUser' \in [Users -> SUBSET [pubKey : Keys, registeredAt : 0 .. MaxClock, nr : Nat]]
    BY <1>8, <2>2, <2>3, StoreTyping DEF LookupKey, TypeInv, TypeOK, Time
  <2>5. authBy' \in [Conns -> Stamped \union {Nothing, [by |-> "password"], [by |-> "file"]}]
    BY <1>8, <2>2 DEF LookupKey, TypeInv
  <2>6. offer' \in [Conns -> Stamped \union {Nothing}]
    BY <1>8 DEF LookupKey, TypeInv
  <2> QED BY <1>8, <2>1, <2>4, <2>5, <2>6 DEF LookupKey, TypeInv, TypeOK
<1>9. ASSUME NEW c \in Conns, Promote(c) PROVE TypeInv'
  <2>1. preAuth' \in Nat /\ current' \in Nat /\ lifetime' \in Nat
    <3>1. preAuth > 0
      BY <1>9, Counted DEF Promote, Handshaking
    <3> QED BY <1>9, <3>1 DEF Promote, TypeInv, TypeOK
  <2>2. phase' \in [Conns -> {"idle", "accepted", "handshake", "lookup",
                              "authenticated", "open", "gone"}]
        /\ sshUp' \in [Conns -> BOOLEAN]
    BY <1>9 DEF Promote, TypeInv, TypeOK
  <2> QED BY <1>9, <2>1, <2>2 DEF Promote, TypeInv, TypeOK
<1>10. ASSUME NEW c \in Conns, ConnectionEnds(c) PROVE TypeInv'
  <2>1. current' \in Nat
    <3>1. current > 0
      BY <1>10, Counted DEF ConnectionEnds, Open
    <3> QED BY <1>10, <3>1 DEF ConnectionEnds, TypeInv, TypeOK
  <2>2. phase' \in [Conns -> {"idle", "accepted", "handshake", "lookup",
                              "authenticated", "open", "gone"}]
    BY <1>10 DEF ConnectionEnds, TypeInv, TypeOK
  <2>3. authBy' \in [Conns -> Stamped \union {Nothing, [by |-> "password"], [by |-> "file"]}]
    BY <1>10 DEF ConnectionEnds, TypeInv
  <2> QED BY <1>10, <2>1, <2>2, <2>3 DEF ConnectionEnds, TypeInv, TypeOK
<1>11. ASSUME NEW c \in Conns, SshCloses(c) PROVE TypeInv'
  <2>1. sshUp' \in [Conns -> BOOLEAN]
    BY <1>11 DEF SshCloses, TypeInv, TypeOK
  <2> QED BY <1>11, <2>1 DEF SshCloses, TypeInv, TypeOK
<1>12. ASSUME NEW s \in Shells, NEW c \in Conns, HandleShellRequest(s, c) PROVE TypeInv'
  <2>1. /\ shellConn' \in [Shells -> Conns \union {NoConn}]
        /\ goroutines' \in [Shells -> SUBSET Goroutines]
    BY <1>12 DEF HandleShellRequest, TypeInv, TypeOK
  <2> QED BY <1>12, <2>1 DEF HandleShellRequest, TypeInv, TypeOK
<1>13. ASSUME NEW s \in Shells, NEW g \in Goroutines, Terminate(s, g) PROVE TypeInv'
  <2>1. goroutines' \in [Shells -> SUBSET Goroutines]
    BY <1>13 DEF Terminate, TypeInv, TypeOK
  <2>2. handlerDone' \in [Shells -> BOOLEAN] /\ sshUp' \in [Conns -> BOOLEAN]
    BY <1>13 DEF Terminate, TypeInv, TypeOK
  <2> QED BY <1>13, <2>1, <2>2 DEF Terminate, TypeInv, TypeOK
<1>14. ASSUME NEW s \in Shells, Serving(s) PROVE TypeInv'
  <2>1. /\ handlerDone' \in [Shells -> BOOLEAN] /\ inputEnded' \in [Shells -> BOOLEAN]
        /\ processors' \in [Shells -> {"none", "reading", "following", "ended"}]
    <3>1. CASE HandlerFinishes(s) \/ CommandTooLong(s)
      BY <3>1 DEF HandlerFinishes, CommandTooLong, TypeInv, TypeOK
    <3>2. CASE ChannelCloses(s) \/ ProcessorsEnd(s)
      BY <3>2 DEF ChannelCloses, ProcessorsEnd, TypeInv, TypeOK
    <3>3. CASE StartQuery(s)
      BY <3>3 DEF StartQuery, TypeInv, TypeOK
    <3> QED BY <1>14, <3>1, <3>2, <3>3 DEF Serving
  <2> QED BY <1>14, <2>1, ServingLeaves DEF TypeInv, TypeOK
<1>15. ASSUME NEW s \in Shells, NEW key \in Keys, AuthKeyCommand(s, key) PROVE TypeInv'
  <2>1. [by |-> "key", key |-> key, now |-> clock] \in Stamped
    BY DEF TypeInv, TypeOK, Stamped, Time
  <2>2. adding' \in [Shells -> Stamped \union {Nothing}]
    BY <1>15, <2>1 DEF AuthKeyCommand, TypeInv
  <2> QED BY <1>15, <2>2 DEF AuthKeyCommand, TypeInv, TypeOK
<1>16. ASSUME NEW s \in Shells, AddKey(s) PROVE TypeInv'
  <2> DEFINE u == UserOf[shellConn[s]]
             entry == [pubKey |-> adding[s].key, registeredAt |-> adding[s].now]
  <2>1. adding[s] \in Stamped /\ u \in Users
    BY <1>16 DEF AddKey, WaitingInv, TypeInv
  <2>2. adding[s].key \in Keys /\ adding[s].now \in Time
    BY <2>1 DEF Stamped
  <2>3. registered[u] \in Seq([pubKey : Keys, registeredAt : Time])
    BY <2>1 DEF TypeInv
  <2>4. /\ Len(registered[u]) + 1 \in Nat
        /\ Append(registered[u], entry) \in Seq([pubKey : Keys, registeredAt : Time])
    BY <2>2, <2>3
  <2>5. keysByUser' \in [Users -> SUBSET [pubKey : Keys, registeredAt : 0 .. MaxClock, nr : Nat]]
    BY <1>16, <2>1, <2>2, <2>4, StoreTyping DEF AddKey, Time
  <2>6. registered' \in [Users -> Seq([pubKey : Keys, registeredAt : Time])]
    BY <1>16, <2>1, <2>4 DEF AddKey, TypeInv
  <2>7. adding' \in [Shells -> Stamped \union {Nothing}]
    BY <1>16 DEF AddKey, TypeInv
  <2> QED BY <1>16, <2>5, <2>6, <2>7 DEF AddKey, TypeInv, TypeOK
<1>17. CASE UNCHANGED vars
  BY <1>17 DEF vars, TypeInv, TypeOK
<1> QED
  BY <1>1, <1>2, <1>3, <1>4, <1>5, <1>6, <1>7, <1>8, <1>9, <1>10, <1>11, <1>12, <1>13,
     <1>14, <1>15, <1>16, <1>17
  DEF Next, HandshakeReturns
-----------------------------------------------------------------------------
(* The slots. *)

\* The five things a step can do to the slots and their counters.
SlotsKept ==
    Handshaking' = Handshaking /\ Open' = Open /\ UNCHANGED statsVars

SlotReserved(c) ==
    /\ c = listener /\ c \notin Handshaking \union Open
    /\ Handshaking' = Handshaking \union {c} /\ Open' = Open
    /\ preAuth' = preAuth + 1 /\ UNCHANGED <<current, lifetime>>
    /\ listener' = NoConn

SlotReleased(c) ==
    /\ c \in Handshaking
    /\ Handshaking' = Handshaking \ {c} /\ Open' = Open
    /\ preAuth' = preAuth - 1 /\ UNCHANGED <<current, lifetime, listener>>

SlotPromoted(c) ==
    /\ c \in Handshaking /\ c \notin Open
    /\ Handshaking' = Handshaking \ {c} /\ Open' = Open \union {c}
    /\ preAuth' = preAuth - 1 /\ current' = current + 1 /\ lifetime' = lifetime + 1
    /\ UNCHANGED listener

SlotFreed(c) ==
    /\ c \in Open
    /\ Handshaking' = Handshaking /\ Open' = Open \ {c}
    /\ current' = current - 1 /\ UNCHANGED <<preAuth, lifetime, listener>>

LEMMA SlotMoves ==
    TypeInv /\ ListenerInv /\ [Next]_vars =>
        \/ SlotsKept
        \/ \E c \in Conns :
              SlotReserved(c) \/ SlotReleased(c) \/ SlotPromoted(c) \/ SlotFreed(c)
<1> SUFFICES ASSUME TypeInv, ListenerInv, [Next]_vars
             PROVE  \/ SlotsKept
                    \/ \E c \in Conns :
                          SlotReserved(c) \/ SlotReleased(c) \/ SlotPromoted(c) \/ SlotFreed(c)
  OBVIOUS
<1>0. phase \in [Conns -> {"idle", "accepted", "handshake", "lookup",
                           "authenticated", "open", "gone"}]
      /\ listener \in Conns \union {NoConn}
  BY DEF TypeInv, TypeOK
<1> USE DEF statsVars, Handshaking, Open
<1>1. ASSUME UNCHANGED <<phase, statsVars>> PROVE SlotsKept
  BY <1>1 DEF SlotsKept
<1>2. CASE ReservePreAuth
  BY <1>0, <1>2 DEF ReservePreAuth, ListenerInv, SlotReserved
<1>3. ASSUME NEW c \in Conns, Accept(c) PROVE SlotsKept
  BY <1>0, <1>3 DEF Accept, SlotsKept
<1>4. ASSUME NEW c \in Conns, HandshakeFails(c) \/ ClearDeadlineFails(c) PROVE SlotReleased(c)
  BY <1>0, <1>4 DEF HandshakeFails, ClearDeadlineFails, Release, SlotReleased
<1>5. ASSUME NEW c \in Conns, NEW secret \in Secrets, OfferPassword(c, secret) PROVE SlotsKept
  BY <1>0, <1>5 DEF OfferPassword, SlotsKept
<1>6. ASSUME NEW c \in Conns, NEW key \in Keys, OfferPublicKey(c, key) PROVE SlotsKept
  BY <1>0, <1>6 DEF OfferPublicKey, SlotsKept
<1>7. ASSUME NEW c \in Conns, LookupKey(c) PROVE SlotsKept
  BY <1>0, <1>7 DEF LookupKey, SlotsKept
<1>8. ASSUME NEW c \in Conns, Promote(c) PROVE SlotPromoted(c)
  BY <1>0, <1>8 DEF Promote, SlotPromoted
<1>9. ASSUME NEW c \in Conns, ConnectionEnds(c) PROVE SlotFreed(c)
  BY <1>0, <1>9 DEF ConnectionEnds, SlotFreed
<1>10. ASSUME \/ Tick \/ Stop \/ UNCHANGED vars
              \/ \E c \in Conns : SshCloses(c) \/ \E s \in Shells : HandleShellRequest(s, c)
              \/ \E s \in Shells : \/ Serving(s) \/ AddKey(s)
                                   \/ \E g \in Goroutines : Terminate(s, g)
                                   \/ \E key \in Keys : AuthKeyCommand(s, key)
       PROVE  UNCHANGED <<phase, statsVars>>
  BY <1>10, ServingLeaves DEF Tick, Stop, vars, SshCloses, HandleShellRequest, AddKey,
               Terminate, AuthKeyCommand
<1> HIDE DEF statsVars, Handshaking, Open
<1> QED
  BY <1>1, <1>2, <1>3, <1>4, <1>5, <1>6, <1>7, <1>8, <1>9, <1>10 DEF Next, HandshakeReturns

LEMMA CountersStep ==
    TypeInv /\ CountersMatch /\ ListenerInv /\ [Next]_vars => CountersMatch'
<1> SUFFICES ASSUME TypeInv, CountersMatch, ListenerInv, [Next]_vars PROVE CountersMatch'
  OBVIOUS
<1>1. IsFiniteSet(Handshaking) /\ IsFiniteSet(Open)
  BY ConnectionsAssumption, FS_Subset DEF Handshaking, Open
<1>2. preAuth \in Nat /\ current \in Nat /\ lifetime \in Nat
  BY DEF TypeInv, TypeOK
<1>3. CASE SlotsKept
  BY <1>3 DEF SlotsKept, CountersMatch, statsVars
<1>4. ASSUME NEW c \in Conns, SlotReserved(c) PROVE CountersMatch'
  BY <1>1, <1>2, <1>4, FS_AddElement DEF SlotReserved, CountersMatch
<1>5. ASSUME NEW c \in Conns, SlotReleased(c) PROVE CountersMatch'
  <2>1. Cardinality(Handshaking') = Cardinality(Handshaking) - 1
    BY <1>1, <1>5, FS_RemoveElement DEF SlotReleased
  <2> QED BY <1>2, <1>5, <2>1 DEF SlotReleased, CountersMatch
<1>6. ASSUME NEW c \in Conns, SlotPromoted(c) PROVE CountersMatch'
  <2>1. Cardinality(Handshaking') = Cardinality(Handshaking) - 1
    BY <1>1, <1>6, FS_RemoveElement DEF SlotPromoted
  <2>2. Cardinality(Open') = Cardinality(Open) + 1
    BY <1>1, <1>6, FS_AddElement DEF SlotPromoted
  <2> QED BY <1>2, <1>6, <2>1, <2>2 DEF SlotPromoted, CountersMatch
<1>7. ASSUME NEW c \in Conns, SlotFreed(c) PROVE CountersMatch'
  <2>1. Cardinality(Open') = Cardinality(Open) - 1
    BY <1>1, <1>7, FS_RemoveElement DEF SlotFreed
  <2> QED BY <1>2, <1>7, <2>1 DEF SlotFreed, CountersMatch
<1> QED BY <1>3, <1>4, <1>5, <1>6, <1>7, SlotMoves

LEMMA ListenerStep ==
    TypeInv /\ ListenerInv /\ [Next]_vars => ListenerInv'
<1> SUFFICES ASSUME TypeInv, ListenerInv, [Next]_vars PROVE ListenerInv'
  OBVIOUS
<1>1. /\ phase \in [Conns -> {"idle", "accepted", "handshake", "lookup",
                              "authenticated", "open", "gone"}]
      /\ listener \in Conns \union {NoConn}
      /\ preAuth \in Nat /\ current \in Nat /\ MaxConnections \in Nat
      /\ NoConn \notin Conns
  BY ConnectionsAssumption DEF TypeInv, TypeOK
<1> USE DEF ListenerInv, statsVars
<1>2. CASE ReservePreAuth
  BY <1>2 DEF ReservePreAuth
<1>3. ASSUME NEW c \in Conns, Accept(c) PROVE ListenerInv'
  BY <1>1, <1>3 DEF Accept, LimitExceeded
<1>4. ASSUME NEW c \in Conns, HandshakeFails(c) \/ ClearDeadlineFails(c) PROVE ListenerInv'
  BY <1>1, <1>4 DEF HandshakeFails, ClearDeadlineFails, Release
<1>5. ASSUME NEW c \in Conns, NEW secret \in Secrets, OfferPassword(c, secret) PROVE ListenerInv'
  BY <1>1, <1>5 DEF OfferPassword
<1>6. ASSUME NEW c \in Conns, NEW key \in Keys, OfferPublicKey(c, key) PROVE ListenerInv'
  BY <1>1, <1>6 DEF OfferPublicKey
<1>7. ASSUME NEW c \in Conns, LookupKey(c) PROVE ListenerInv'
  BY <1>1, <1>7 DEF LookupKey
<1>8. ASSUME NEW c \in Conns, Promote(c) PROVE ListenerInv'
  BY <1>1, <1>8 DEF Promote
<1>9. ASSUME NEW c \in Conns, ConnectionEnds(c) PROVE ListenerInv'
  BY <1>1, <1>9 DEF ConnectionEnds
<1>10. ASSUME \/ Tick \/ Stop \/ UNCHANGED vars
              \/ \E c \in Conns : SshCloses(c) \/ \E s \in Shells : HandleShellRequest(s, c)
              \/ \E s \in Shells : \/ Serving(s) \/ AddKey(s)
                                   \/ \E g \in Goroutines : Terminate(s, g)
                                   \/ \E key \in Keys : AuthKeyCommand(s, key)
       PROVE  UNCHANGED <<phase, statsVars, listener>>
  BY <1>10, ServingLeaves DEF Tick, Stop, vars, SshCloses, HandleShellRequest, AddKey,
               Terminate, AuthKeyCommand
<1>11. ASSUME UNCHANGED <<phase, statsVars, listener>> PROVE ListenerInv'
  BY <1>11
<1> QED
  BY <1>2, <1>3, <1>4, <1>5, <1>6, <1>7, <1>8, <1>9, <1>10, <1>11 DEF Next, HandshakeReturns

-----------------------------------------------------------------------------
(* The key store. *)

LEMMA WaitingStep == TypeInv /\ WaitingInv /\ [Next]_vars => WaitingInv'
<1> SUFFICES ASSUME TypeInv, WaitingInv, [Next]_vars PROVE WaitingInv'
  OBVIOUS
<1>1. /\ phase \in [Conns -> {"idle", "accepted", "handshake", "lookup",
                              "authenticated", "open", "gone"}]
      /\ listener \in Conns \union {NoConn}
      /\ offer \in [Conns -> Stamped \union {Nothing}]
      /\ adding \in [Shells -> Stamped \union {Nothing}]
      /\ shellConn \in [Shells -> Conns \union {NoConn}]
      /\ goroutines \in [Shells -> SUBSET Goroutines]
  BY DEF TypeInv, TypeOK
<1> USE DEF WaitingInv, statsVars, shellVars, keyVars
<1>2. CASE ReservePreAuth
  BY <1>1, <1>2 DEF ReservePreAuth
<1>3. ASSUME NEW c \in Conns, Accept(c) PROVE WaitingInv'
  BY <1>1, <1>3 DEF Accept
<1>4. ASSUME NEW c \in Conns, HandshakeFails(c) \/ ClearDeadlineFails(c) PROVE WaitingInv'
  BY <1>1, <1>4 DEF HandshakeFails, ClearDeadlineFails, Release
<1>5. ASSUME NEW c \in Conns, NEW secret \in Secrets, OfferPassword(c, secret) PROVE WaitingInv'
  BY <1>1, <1>5 DEF OfferPassword
<1>6. ASSUME NEW c \in Conns, NEW key \in Keys, OfferPublicKey(c, key) PROVE WaitingInv'
  <2>1. [by |-> "key", key |-> key, now |-> clock] # Nothing
    BY DEF Nothing
  <2> QED BY <1>1, <1>6, <2>1 DEF OfferPublicKey
<1>7. ASSUME NEW c \in Conns, LookupKey(c) PROVE WaitingInv'
  BY <1>1, <1>7 DEF LookupKey
<1>8. ASSUME NEW c \in Conns, Promote(c) \/ ConnectionEnds(c) PROVE WaitingInv'
  BY <1>1, <1>8 DEF Promote, ConnectionEnds
<1>9. ASSUME NEW s \in Shells, NEW c \in Conns, HandleShellRequest(s, c) PROVE WaitingInv'
  BY <1>1, <1>9 DEF HandleShellRequest
<1>10. ASSUME NEW s \in Shells, NEW g \in Goroutines, Terminate(s, g) PROVE WaitingInv'
  BY <1>1, <1>10 DEF Terminate
<1>11. ASSUME NEW s \in Shells, NEW key \in Keys, AuthKeyCommand(s, key) PROVE WaitingInv'
  BY <1>1, <1>11 DEF AuthKeyCommand
<1>12. ASSUME NEW s \in Shells, AddKey(s) PROVE WaitingInv'
  BY <1>1, <1>12 DEF AddKey
<1>13. ASSUME \/ Tick \/ Stop \/ UNCHANGED vars
              \/ \E c \in Conns : SshCloses(c)
              \/ \E s \in Shells : Serving(s)
       PROVE  WaitingInv'
  BY <1>13, ServingLeaves DEF Tick, Stop, vars, SshCloses
<1> QED
  BY <1>2, <1>3, <1>4, <1>5, <1>6, <1>7, <1>8, <1>9, <1>10, <1>11, <1>12, <1>13
  DEF Next, HandshakeReturns

LEMMA ClockStep == TypeInv /\ ClockInv /\ [Next]_vars => ClockInv'
<1> SUFFICES ASSUME TypeInv, ClockInv, [Next]_vars PROVE ClockInv'
  OBVIOUS
<1>1. /\ offer \in [Conns -> Stamped \union {Nothing}]
      /\ adding \in [Shells -> Stamped \union {Nothing}]
      /\ clock \in Nat
      /\ \A x \in Stamped : x.now \in Nat
  BY DEF TypeInv, TypeOK, Stamped, Time
<1> USE DEF ClockInv, statsVars, shellVars, keyVars
<1>2. CASE Tick
  <2>1. ASSUME NEW c \in Conns, offer[c] # Nothing PROVE offer[c].now <= clock + 1
    BY <1>1, <2>1
  <2>2. ASSUME NEW s \in Shells, adding[s] # Nothing PROVE adding[s].now <= clock + 1
    BY <1>1, <2>2
  <2> QED BY <1>2, <2>1, <2>2 DEF Tick
<1>3. ASSUME NEW c \in Conns, HandshakeFails(c) \/ ClearDeadlineFails(c) \/ LookupKey(c)
      PROVE  ClockInv'
  BY <1>1, <1>3 DEF HandshakeFails, ClearDeadlineFails, Release, LookupKey
<1>4. ASSUME NEW c \in Conns, NEW key \in Keys, OfferPublicKey(c, key) PROVE ClockInv'
  BY <1>1, <1>4 DEF OfferPublicKey
<1>5. ASSUME NEW s \in Shells, NEW key \in Keys, AuthKeyCommand(s, key) PROVE ClockInv'
  BY <1>1, <1>5 DEF AuthKeyCommand
<1>6. ASSUME NEW s \in Shells, AddKey(s) PROVE ClockInv'
  BY <1>1, <1>6 DEF AddKey
<1>7. ASSUME UNCHANGED <<clock, offer, adding>> PROVE ClockInv'
  BY <1>7
<1>8. ASSUME \/ Stop \/ ReservePreAuth \/ UNCHANGED vars
             \/ \E c \in Conns : \/ Accept(c) \/ Promote(c) \/ ConnectionEnds(c) \/ SshCloses(c)
                                 \/ \E secret \in Secrets : OfferPassword(c, secret)
                                 \/ \E s \in Shells : HandleShellRequest(s, c)
             \/ \E s \in Shells : \/ Serving(s)
                                  \/ \E g \in Goroutines : Terminate(s, g)
      PROVE  UNCHANGED <<clock, offer, adding>>
  BY <1>8, ServingLeaves DEF Stop, ReservePreAuth, vars, Accept, Promote, ConnectionEnds, SshCloses,
              OfferPassword, HandleShellRequest, Terminate
<1> QED BY <1>2, <1>3, <1>4, <1>5, <1>6, <1>7, <1>8 DEF Next, HandshakeReturns

\* The three things a step can do to the store, with a time read earlier.
StoreKept == UNCHANGED <<keysByUser, registered>> /\ clock' \in Nat /\ clock' >= clock

StorePruned(u, now) ==
    Prune(u, now) /\ now <= clock /\ UNCHANGED <<registered, clock>>

KeyStored(u, key, now) ==
    /\ now <= clock
    /\ Add(u, key, now, Len(registered[u]) + 1)
    /\ registered' = [registered EXCEPT
            ![u] = Append(@, [pubKey |-> key, registeredAt |-> now])]
    /\ UNCHANGED clock

LEMMA StoreMoves ==
    TypeInv /\ WaitingInv /\ ClockInv /\ [Next]_vars =>
        \/ StoreKept
        \/ \E u \in Users, now \in Time : StorePruned(u, now)
        \/ \E u \in Users, key \in Keys, now \in Time : KeyStored(u, key, now)
<1> SUFFICES ASSUME TypeInv, WaitingInv, ClockInv, [Next]_vars
             PROVE  \/ StoreKept
                    \/ \E u \in Users, now \in Time : StorePruned(u, now)
                    \/ \E u \in Users, key \in Keys, now \in Time : KeyStored(u, key, now)
  OBVIOUS
<1>1. clock \in Nat /\ UserOf \in [Conns -> Users]
  BY ConnectionsAssumption DEF TypeInv, TypeOK
<1> USE DEF statsVars, shellVars, keyVars
<1>2. CASE Tick
  BY <1>1, <1>2 DEF Tick, StoreKept
<1>3. ASSUME NEW c \in Conns, LookupKey(c)
      PROVE  StoreKept \/ \E u \in Users, now \in Time : StorePruned(u, now)
  <2>1. UserOf[c] \in Users /\ offer[c] \in Stamped /\ offer[c] # Nothing
    BY <1>1, <1>3 DEF LookupKey, WaitingInv, TypeInv
  <2>2. offer[c].now \in Time /\ offer[c].now <= clock
    BY <2>1 DEF Stamped, ClockInv
  <2>3. CASE AuthKeyEnabled
    <3>1. StorePruned(UserOf[c], offer[c].now)
      BY <1>3, <2>2, <2>3 DEF LookupKey, StorePruned
    <3> QED BY <2>1, <2>2, <3>1
  <2>4. CASE ~AuthKeyEnabled
    BY <1>1, <1>3, <2>4 DEF LookupKey, StoreKept
  <2> QED BY <2>3, <2>4
<1>4. ASSUME NEW s \in Shells, AddKey(s)
      PROVE  \E u \in Users, key \in Keys, now \in Time : KeyStored(u, key, now)
  <2>1. UserOf[shellConn[s]] \in Users /\ adding[s] \in Stamped /\ adding[s] # Nothing
    BY <1>1, <1>4 DEF AddKey, WaitingInv, TypeInv
  <2>2. adding[s].now \in Time /\ adding[s].now <= clock /\ adding[s].key \in Keys
    BY <2>1 DEF Stamped, ClockInv
  <2>3. KeyStored(UserOf[shellConn[s]], adding[s].key, adding[s].now)
    BY <1>4, <2>2 DEF AddKey, KeyStored
  <2> QED BY <2>1, <2>2, <2>3
<1>5. ASSUME \/ Stop \/ ReservePreAuth \/ UNCHANGED vars
             \/ \E c \in Conns : \/ Accept(c) \/ Promote(c) \/ ConnectionEnds(c) \/ SshCloses(c)
                                 \/ HandshakeFails(c) \/ ClearDeadlineFails(c)
                                 \/ \E secret \in Secrets : OfferPassword(c, secret)
                                 \/ \E key \in Keys : OfferPublicKey(c, key)
                                 \/ \E s \in Shells : HandleShellRequest(s, c)
             \/ \E s \in Shells : \/ Serving(s)
                                  \/ \E g \in Goroutines : Terminate(s, g)
                                  \/ \E key \in Keys : AuthKeyCommand(s, key)
      PROVE  UNCHANGED <<clock, keysByUser, registered>>
  BY <1>5, ServingLeaves DEF Stop, ReservePreAuth, vars, Accept, Promote, ConnectionEnds, SshCloses,
              HandshakeFails, ClearDeadlineFails, OfferPassword, OfferPublicKey,
              HandleShellRequest, Terminate, AuthKeyCommand
<1>6. ASSUME UNCHANGED <<clock, keysByUser, registered>> PROVE StoreKept
  BY <1>1, <1>6 DEF StoreKept
<1> QED BY <1>2, <1>3, <1>4, <1>5, <1>6 DEF Next, HandshakeReturns

\* What a registration does to the store and the history of one user.
LEMMA AddEffect ==
    ASSUME TypeInv, StoreInv, NEW u \in Users, NEW key \in Keys, NEW now \in Time,
           KeyStored(u, key, now)
    PROVE  LET n == Len(registered[u]) + 1
               new == [pubKey |-> key, registeredAt |-> now, nr |-> n]
               all == {e \in keysByUser[u] : ~Expired(e, now) /\ e.pubKey # key} \union {new}
           IN  /\ n \in Nat /\ Len(registered'[u]) = n
               /\ \A i \in 1 .. n - 1 : registered'[u][i] = registered[u][i]
               /\ registered'[u][n] = [pubKey |-> key, registeredAt |-> now]
               /\ keysByUser'[u] = {e \in all : Cardinality({f \in all : f.nr > e.nr}) < MaxKeysPerUser}
               /\ \A v \in Users \ {u} :
                    registered'[v] = registered[v] /\ keysByUser'[v] = keysByUser[v]
<1> DEFINE n == Len(registered[u]) + 1
           new == [pubKey |-> key, registeredAt |-> now, nr |-> n]
           rec == [pubKey |-> key, registeredAt |-> now]
           all == {e \in keysByUser[u] : ~Expired(e, now) /\ e.pubKey # key} \union {new}
<1>1. /\ registered \in [Users -> Seq([pubKey : Keys, registeredAt : Time])]
      /\ DOMAIN keysByUser = Users
  BY DEF TypeInv, TypeOK
<1>2. /\ registered[u] \in Seq([pubKey : Keys, registeredAt : Time])
      /\ rec \in [pubKey : Keys, registeredAt : Time]
  BY <1>1
<1>3. registered'[u] = Append(registered[u], rec)
  BY <1>1 DEF KeyStored
<1>4. /\ n \in Nat /\ Len(registered'[u]) = n
      /\ \A i \in 1 .. n - 1 : registered'[u][i] = registered[u][i]
      /\ registered'[u][n] = rec
  BY <1>2, <1>3
<1>5. all = {e \in PruneExpired(u, now) : e.pubKey # key} \union {new}
  BY DEF PruneExpired
<1>6. keysByUser'[u] = {e \in all : Cardinality({f \in all : f.nr > e.nr}) < MaxKeysPerUser}
  <2> HIDE DEF all
  <2> QED BY <1>1, <1>5 DEF KeyStored, Add
<1>7. \A v \in Users \ {u} : registered'[v] = registered[v] /\ keysByUser'[v] = keysByUser[v]
  BY <1>1 DEF KeyStored, Add
<1> QED BY <1>4, <1>6, <1>7

LEMMA StoreStep ==
    TypeInv /\ WaitingInv /\ ClockInv /\ StoreInv /\ [Next]_vars => StoreInv'
<1> SUFFICES ASSUME TypeInv, WaitingInv, ClockInv, StoreInv, [Next]_vars PROVE StoreInv'
  OBVIOUS
<1>1. CASE StoreKept
  BY <1>1 DEF StoreKept, StoreInv
<1>2. ASSUME NEW u \in Users, NEW now \in Time, StorePruned(u, now) PROVE StoreInv'
  <2>1. \A v \in Users : keysByUser'[v] \subseteq keysByUser[v] /\ registered'[v] = registered[v]
    BY <1>2 DEF StorePruned, Prune, PruneExpired, TypeInv, TypeOK
  <2> QED BY <2>1 DEF StoreInv
<1>3. ASSUME NEW u \in Users, NEW key \in Keys, NEW now \in Time, KeyStored(u, key, now)
      PROVE  StoreInv'
  <2> DEFINE n == Len(registered[u]) + 1
             new == [pubKey |-> key, registeredAt |-> now, nr |-> n]
  <2>1. /\ n \in Nat /\ Len(registered'[u]) = n
        /\ \A i \in 1 .. n - 1 : registered'[u][i] = registered[u][i]
        /\ registered'[u][n] = [pubKey |-> key, registeredAt |-> now]
        /\ \A e \in keysByUser'[u] : e = new \/ (e \in keysByUser[u] /\ e.pubKey # key)
        /\ \A v \in Users \ {u} :
             registered'[v] = registered[v] /\ keysByUser'[v] = keysByUser[v]
    <3> DEFINE all == {e \in keysByUser[u] : ~Expired(e, now) /\ e.pubKey # key} \union {new}
    <3>1. /\ n \in Nat /\ Len(registered'[u]) = n
          /\ \A i \in 1 .. n - 1 : registered'[u][i] = registered[u][i]
          /\ registered'[u][n] = [pubKey |-> key, registeredAt |-> now]
          /\ keysByUser'[u] = {e \in all : Cardinality({f \in all : f.nr > e.nr}) < MaxKeysPerUser}
          /\ \A v \in Users \ {u} :
               registered'[v] = registered[v] /\ keysByUser'[v] = keysByUser[v]
      BY <1>3, AddEffect, Zenon
    <3>2. keysByUser'[u] \subseteq all
      BY <3>1
    <3> QED BY <3>1, <3>2
  <2>2. /\ Len(registered[u]) = n - 1
        /\ \A e \in keysByUser[u] :
              /\ e.nr \in 1 .. n - 1
              /\ registered[u][e.nr] = [pubKey |-> e.pubKey, registeredAt |-> e.registeredAt]
        /\ \A e, f \in keysByUser[u] : e.pubKey = f.pubKey => e = f
    <3>1. Len(registered[u]) \in Nat
      BY DEF TypeInv
    <3>2. Len(registered[u]) = n - 1
      BY <3>1
    <3> HIDE DEF n
    <3> QED BY <3>2 DEF StoreInv
  <2>3. new.nr = n /\ new.pubKey = key /\ new.registeredAt = now
    OBVIOUS
  <2> HIDE DEF n, new
  <2>4. ASSUME NEW e \in keysByUser'[u]
        PROVE  /\ e.nr \in 1 .. Len(registered'[u])
               /\ registered'[u][e.nr] = [pubKey |-> e.pubKey, registeredAt |-> e.registeredAt]
    <3>1. CASE e = new
      BY <2>1, <2>2, <2>3, <3>1
    <3>2. CASE e \in keysByUser[u]
      BY <2>1, <2>2, <3>2
    <3> QED BY <2>1, <3>1, <3>2
  <2>5. \A e, f \in keysByUser'[u] : e.pubKey = f.pubKey => e = f
    BY <2>1, <2>2, <2>3
  <2> QED BY <2>1, <2>4, <2>5 DEF StoreInv
<1> QED BY <1>1, <1>2, <1>3, StoreMoves

LEMMA KeyLoginStep ==
    TypeInv /\ WaitingInv /\ ClockInv /\ StoreInv /\ KeyLoginRegistered /\ [Next]_vars
        => KeyLoginRegistered'
<1> SUFFICES ASSUME TypeInv, WaitingInv, ClockInv, StoreInv, KeyLoginRegistered, [Next]_vars,
                    NEW c \in Conns, authBy'[c].by = "key"
             PROVE  \E i \in DOMAIN registered'[UserOf[c]] :
                        /\ registered'[UserOf[c]][i].pubKey = authBy'[c].key
                        /\ ~Expired(registered'[UserOf[c]][i], authBy'[c].now)
  BY DEF KeyLoginRegistered, Expired
<1> DEFINE u == UserOf[c]
<1>1. /\ u \in Users /\ registered[u] \in Seq([pubKey : Keys, registeredAt : Time])
      /\ authBy \in [Conns -> Stamped \union {Nothing, [by |-> "password"], [by |-> "file"]}]
  BY ConnectionsAssumption DEF TypeInv
<1>2. \A i \in DOMAIN registered[u] :
        i \in DOMAIN registered'[u] /\ registered'[u][i] = registered[u][i]
  <2>1. CASE StoreKept \/ \E v \in Users, now \in Time : StorePruned(v, now)
    BY <2>1 DEF StoreKept, StorePruned
  <2>2. ASSUME NEW v \in Users, NEW key \in Keys, NEW now \in Time, KeyStored(v, key, now)
        PROVE  <1>2!:
    <3>1. CASE u = v
      <4>1. [pubKey |-> key, registeredAt |-> now] \in [pubKey : Keys, registeredAt : Time]
        OBVIOUS
      <4>2. registered'[u] = Append(registered[u], [pubKey |-> key, registeredAt |-> now])
        BY <2>2, <3>1 DEF KeyStored, TypeInv
      <4> QED BY <1>1, <4>1, <4>2
    <3>2. CASE u # v
      BY <1>1, <2>2, <3>2 DEF KeyStored, TypeInv
    <3> QED BY <3>1, <3>2
  <2> QED BY <2>1, <2>2, StoreMoves
<1>3. CASE authBy'[c] = authBy[c]
  <2>1. PICK i \in DOMAIN registered[u] :
          registered[u][i].pubKey = authBy[c].key /\ ~Expired(registered[u][i], authBy[c].now)
    BY <1>3 DEF KeyLoginRegistered
  <2> QED BY <1>2, <1>3, <2>1
<1>4. CASE LookupKey(c)
  <2>1. CASE AuthKeyEnabled /\ Has(u, offer[c].key, offer[c].now)
    <3>1. PICK e \in keysByUser[u] : ~Expired(e, offer[c].now) /\ e.pubKey = offer[c].key
      BY <2>1 DEF Has, PruneExpired
    <3>2. /\ e.nr \in DOMAIN registered[u]
          /\ registered[u][e.nr] = [pubKey |-> e.pubKey, registeredAt |-> e.registeredAt]
      BY <1>1 DEF StoreInv
    <3>3. /\ registered[u][e.nr].pubKey = e.pubKey
          /\ registered[u][e.nr].registeredAt = e.registeredAt
      BY <3>2
    <3>4. authBy'[c] = offer[c]
      BY <1>1, <1>4, <2>1 DEF LookupKey, PublicKeyAccepted
    <3> QED BY <1>2, <3>1, <3>2, <3>3, <3>4 DEF Expired
  <2>2. CASE ~(AuthKeyEnabled /\ Has(u, offer[c].key, offer[c].now))
    <3>1. authBy'[c] = authBy[c] \/ authBy'[c] = [by |-> "file"]
      BY <1>1, <1>4, <2>2 DEF LookupKey
    <3>2. authBy'[c] # [by |-> "file"]
      OBVIOUS
    <3> QED BY <1>3, <3>1, <3>2
  <2> QED BY <2>1, <2>2
<1>5. CASE authBy'[c] # authBy[c] /\ ~LookupKey(c)
  <2> USE DEF statsVars, shellVars, keyVars
  <2>1. ASSUME NEW d \in Conns, LookupKey(d) PROVE d = c \/ authBy'[c] = authBy[c]
    BY <1>1, <2>1 DEF LookupKey
  <2>2. ASSUME NEW d \in Conns, NEW secret \in Secrets, OfferPassword(d, secret)
        PROVE  authBy'[c] = authBy[c] \/ authBy'[c] = [by |-> "password"]
    BY <1>1, <2>2 DEF OfferPassword
  <2>3. ASSUME NEW d \in Conns, ConnectionEnds(d)
        PROVE  authBy'[c] = authBy[c] \/ authBy'[c] = Nothing
    BY <1>1, <2>3 DEF ConnectionEnds
  <2>4. authBy'[c] # [by |-> "password"] /\ authBy'[c] # Nothing
    BY DEF Nothing
  <2>5. ASSUME \/ Tick \/ Stop \/ ReservePreAuth \/ UNCHANGED vars
               \/ \E d \in Conns : \/ Accept(d) \/ Promote(d) \/ SshCloses(d)
                                   \/ HandshakeFails(d) \/ ClearDeadlineFails(d)
                                   \/ \E key \in Keys : OfferPublicKey(d, key)
                                   \/ \E s \in Shells : HandleShellRequest(s, d)
               \/ \E s \in Shells : \/ Serving(s) \/ AddKey(s)
                                    \/ \E g \in Goroutines : Terminate(s, g)
                                    \/ \E key \in Keys : AuthKeyCommand(s, key)
        PROVE  UNCHANGED authBy
    BY <2>5, ServingLeaves DEF Tick, Stop, ReservePreAuth, vars, Accept, Promote, SshCloses,
                HandshakeFails, ClearDeadlineFails, OfferPublicKey,
                HandleShellRequest, AddKey, Terminate, AuthKeyCommand
  <2> QED BY <1>5, <2>1, <2>2, <2>3, <2>4, <2>5 DEF Next, HandshakeReturns
<1> QED BY <1>3, <1>4, <1>5

\* What the history holds.
LEMMA RegisteredEntry ==
    ASSUME TypeInv, NEW u \in Users, NEW i \in 1 .. Len(registered[u])
    PROVE  registered[u][i] \in [pubKey : Keys, registeredAt : Time]
           /\ registered[u][i].registeredAt \in Nat
<1> DEFINE Entry == [pubKey : Keys, registeredAt : Time]
<1>1. registered \in [Users -> Seq(Entry)]
  BY DEF TypeInv
<1>2. \A e \in Entry : e.registeredAt \in Nat
  BY DEF Time
<1> HIDE DEF Entry
<1>3. registered[u] \in Seq(Entry)
  BY <1>1
<1>4. registered[u][i] \in Entry
  BY <1>3
<1> QED BY <1>2, <1>4 DEF Entry

\* The keys registered after an entry are finitely many.
LEMMA LaterFinite ==
    ASSUME NEW seq \in Seq([pubKey : Keys, registeredAt : Time]), NEW i \in Nat
    PROVE  IsFiniteSet({seq[j].pubKey : j \in (i + 1) .. Len(seq)})
<1> DEFINE J == (i + 1) .. Len(seq)
           T == {seq[j].pubKey : j \in J}
           f == [j \in J |-> seq[j].pubKey]
<1>1. IsFiniteSet(J)
  BY FS_Interval
<1>2. f \in Surjection(J, T)
  BY DEF Surjection
<1> QED BY <1>1, <1>2, FS_Surjection

LEMMA KeptStep ==
    TypeInv /\ WaitingInv /\ ClockInv /\ StoreInv /\ KeptInv /\ [Next]_vars => KeptInv'
<1> SUFFICES ASSUME TypeInv, WaitingInv, ClockInv, StoreInv, KeptInv, [Next]_vars,
                    NEW u \in Users, NEW i \in 1 .. Len(registered'[u]),
                    ~Expired(registered'[u][i], clock'),
                    registered'[u][i].pubKey \notin Later(u, i)',
                    Cardinality(Later(u, i)') < MaxKeysPerUser
             PROVE  [pubKey |-> registered'[u][i].pubKey,
                     registeredAt |-> registered'[u][i].registeredAt, nr |-> i] \in keysByUser'[u]
  BY DEF KeptInv, Expired
<1> DEFINE Kept == [pubKey |-> registered[u][i].pubKey,
                    registeredAt |-> registered[u][i].registeredAt, nr |-> i]
<1>1. /\ registered \in [Users -> Seq([pubKey : Keys, registeredAt : Time])]
      /\ registered[u] \in Seq([pubKey : Keys, registeredAt : Time])
      /\ keysByUser \in [Users -> SUBSET [pubKey : Keys, registeredAt : Time, nr : Nat]]
  BY DEF TypeInv, TypeOK, Time
<1>0. /\ clock \in Nat /\ TTL \in Nat /\ MaxKeysPerUser \in Nat \ {0}
      /\ \A t \in Time : t \in Nat
  BY StoreAssumption, ConnectionsAssumption DEF TypeInv, TypeOK, Time
<1>2. CASE StoreKept
  <2>1. registered'[u][i] = registered[u][i] /\ Later(u, i)' = Later(u, i)
        /\ i \in 1 .. Len(registered[u])
    BY <1>2 DEF StoreKept, Later
  <2>2. registered[u][i].registeredAt \in Nat
    BY <2>1, RegisteredEntry
  <2>3. clock' \in Nat /\ clock' >= clock
    BY <1>2 DEF StoreKept
  <2>4. ~Expired(registered[u][i], clock)
    BY <1>0, <2>1, <2>2, <2>3 DEF Expired
  <2> QED BY <1>2, <2>1, <2>4 DEF KeptInv, StoreKept
<1>3. ASSUME NEW v \in Users, NEW now \in Time, StorePruned(v, now)
      PROVE  Kept \in keysByUser'[u] /\ registered'[u] = registered[u]
  <2>1. registered'[u][i] = registered[u][i] /\ Later(u, i)' = Later(u, i)
        /\ i \in 1 .. Len(registered[u]) /\ registered'[u] = registered[u]
    BY <1>3 DEF StorePruned, Later
  <2>2. registered[u][i].registeredAt \in Nat
    BY <2>1, RegisteredEntry
  <2>3. ~Expired(registered[u][i], clock)
    BY <1>3, <2>1 DEF StorePruned
  <2>4. Kept \in keysByUser[u]
    BY <2>1, <2>3 DEF KeptInv
  <2>5. ~Expired(Kept, now)
    <3>1. now \in Nat /\ now <= clock
      BY <1>0, <1>3 DEF StorePruned
    <3> QED BY <1>0, <2>2, <2>3, <3>1 DEF Expired
  <2>6. keysByUser'[u] = keysByUser[u] \/ keysByUser'[u] = {e \in keysByUser[u] : ~Expired(e, now)}
    BY <1>1, <1>3 DEF StorePruned, Prune, PruneExpired
  <2> HIDE DEF Kept
  <2> QED BY <2>1, <2>4, <2>5, <2>6
<1>4. ASSUME NEW v \in Users, NEW key \in Keys, NEW now \in Time, KeyStored(v, key, now), u # v
      PROVE  Kept \in keysByUser'[u] /\ registered'[u] = registered[u]
  <2>1. registered'[u] = registered[u] /\ keysByUser'[u] = keysByUser[u] /\ clock' = clock
    BY <1>1, <1>4 DEF KeyStored, Add
  <2>2. Later(u, i)' = Later(u, i)
    BY <2>1 DEF Later
  <2> QED BY <2>1, <2>2 DEF KeptInv
<1>5. ASSUME NEW key \in Keys, NEW now \in Time, KeyStored(u, key, now)
      PROVE  [pubKey |-> registered'[u][i].pubKey,
              registeredAt |-> registered'[u][i].registeredAt, nr |-> i] \in keysByUser'[u]
  <2> DEFINE n == Len(registered[u]) + 1
             new == [pubKey |-> key, registeredAt |-> now, nr |-> n]
             all == {e \in keysByUser[u] : ~Expired(e, now) /\ e.pubKey # key} \union {new}
             newer(m) == {f \in all : f.nr > m}
  <2>1. /\ n \in Nat /\ Len(registered'[u]) = n
        /\ \A j \in 1 .. n - 1 : registered'[u][j] = registered[u][j]
        /\ registered'[u][n] = [pubKey |-> key, registeredAt |-> now]
        /\ keysByUser'[u] = {e \in all : Cardinality({f \in all : f.nr > e.nr}) < MaxKeysPerUser}
        /\ \A v \in Users \ {u} :
             registered'[v] = registered[v] /\ keysByUser'[v] = keysByUser[v]
    BY <1>5, AddEffect, Zenon
  <2>2. /\ \A e \in keysByUser[u] :
              /\ e.nr \in 1 .. n - 1
              /\ registered[u][e.nr] = [pubKey |-> e.pubKey, registeredAt |-> e.registeredAt]
        /\ \A e, f \in keysByUser[u] : e.pubKey = f.pubKey => e = f
    <3>1. Len(registered[u]) = n - 1
      BY <1>1
    <3> HIDE DEF n
    <3> QED BY <3>1 DEF StoreInv
  <2>3. new.nr = n /\ new.pubKey = key /\ new.registeredAt = now /\ i \in 1 .. n
    BY <2>1
  <2>4. /\ \A e \in all : /\ e.nr \in 1 .. n
                          /\ registered'[u][e.nr].pubKey = e.pubKey
        /\ \A e, f \in all : e.pubKey = f.pubKey => e = f
    <3>1. \A e \in keysByUser[u] : /\ e.nr \in 1 .. n /\ e.nr \in 1 .. n - 1
                                   /\ registered'[u][e.nr].pubKey = e.pubKey
      <4> SUFFICES ASSUME NEW e \in keysByUser[u]
                   PROVE  /\ e.nr \in 1 .. n /\ e.nr \in 1 .. n - 1
                          /\ registered'[u][e.nr].pubKey = e.pubKey
        OBVIOUS
      <4> HIDE DEF n
      <4>0. n \in Nat /\ e.nr \in 1 .. n - 1
        BY <2>1, <2>2, Zenon
      <4>1. e.nr \in 1 .. n /\ e.nr \in 1 .. n - 1
        BY <4>0
      <4>2. registered'[u][e.nr] = [pubKey |-> e.pubKey, registeredAt |-> e.registeredAt]
        BY <2>1, <2>2, <4>1
      <4> QED BY <4>1, <4>2
    <3>2. registered'[u][new.nr].pubKey = new.pubKey /\ new.nr \in 1 .. n
      BY <2>1, <2>3
    <3> HIDE DEF new
    <3> QED BY <2>2, <2>3, <3>1, <3>2
  <2>5. Later(u, i)' = {registered'[u][j].pubKey : j \in (i + 1) .. n}
    BY <2>1 DEF Later
  <2> HIDE DEF n, new, all
  <2>6. Cardinality(newer(i)) < MaxKeysPerUser
    <3> DEFINE N == newer(i)
               L == Later(u, i)'
               g == [f \in N |-> f.pubKey]
    <3>1. \A f \in N : f.pubKey \in L
      <4> SUFFICES ASSUME NEW f \in N PROVE f.pubKey \in L
        OBVIOUS
      <4>1. f.nr \in (i + 1) .. n /\ registered'[u][f.nr].pubKey = f.pubKey
        BY <2>1, <2>3, <2>4
      <4> QED BY <2>5, <4>1
    <3>2. \A e, f \in N : e.pubKey = f.pubKey => e = f
      BY <2>4
    <3>3. IsFiniteSet(L)
      <4>1. registered'[u] \in Seq([pubKey : Keys, registeredAt : Time])
        <5>1. [pubKey |-> key, registeredAt |-> now] \in [pubKey : Keys, registeredAt : Time]
          OBVIOUS
        <5>2. registered'[u] = Append(registered[u], [pubKey |-> key, registeredAt |-> now])
          BY <1>1, <1>5 DEF KeyStored
        <5> QED BY <1>1, <5>1, <5>2
      <4>2. i \in Nat
        BY <2>3
      <4> QED BY <4>1, <4>2, LaterFinite DEF Later
    <3> HIDE DEF N, L
    <3>4. g \in Injection(N, L)
      <4>1. g \in [N -> L]
        BY <3>1
      <4>2. \A a, b \in N : g[a] = g[b] => a = b
        BY <3>2
      <4> HIDE DEF g
      <4> QED BY <4>1, <4>2 DEF Injection, IsInjective
    <3> HIDE DEF g
    <3>5. IsFiniteSet(N) /\ Cardinality(N) <= Cardinality(L)
      BY <3>3, <3>4, FS_Injection
    <3>6. Cardinality(N) \in Nat /\ Cardinality(L) \in Nat
      BY <3>3, <3>5, FS_CardinalityType
    <3> QED BY <1>0, <3>5, <3>6 DEF N, L
  <2>7. CASE i = n
    <3>1. new \in all /\ new.nr = i
      BY <2>3, <2>7 DEF all
    <3>2. new \in keysByUser'[u]
      BY <2>1, <2>6, <3>1
    <3> QED BY <2>1, <2>7, <3>2 DEF new
  <2>8. CASE i \in 1 .. n - 1
    <3>1. registered'[u][i] = registered[u][i] /\ clock' = clock
      BY <1>5, <2>1, <2>8 DEF KeyStored
    <3>2. Later(u, i)' = Later(u, i) \union {key}
      <4>1. Later(u, i) = {registered[u][j].pubKey : j \in (i + 1) .. n - 1}
        BY <1>1 DEF Later, n
      <4>2. \A j \in (i + 1) .. n - 1 : registered'[u][j].pubKey = registered[u][j].pubKey
        BY <2>1, <2>8
      <4>3. registered'[u][n].pubKey = key /\ n \in (i + 1) .. n
        BY <2>1, <2>8
      <4>4. (i + 1) .. n = ((i + 1) .. n - 1) \union {n}
        BY <2>1, <2>8
      <4> QED BY <2>5, <4>1, <4>2, <4>3, <4>4
    <3>3. Cardinality(Later(u, i)) < MaxKeysPerUser
      <4>1. i \in Nat
        BY <2>8
      <4>2. IsFiniteSet(Later(u, i))
        BY <1>1, <4>1, LaterFinite DEF Later
      <4>3. Cardinality(Later(u, i)) \in Nat
        BY <4>2, FS_CardinalityType
      <4>4. Cardinality(Later(u, i)') =
              IF key \in Later(u, i) THEN Cardinality(Later(u, i)) ELSE Cardinality(Later(u, i)) + 1
        BY <3>2, <4>2, FS_AddElement
      <4> QED BY <1>0, <4>3, <4>4
    <3>4. Kept \in keysByUser[u] /\ registered[u][i].pubKey # key
          /\ i \in 1 .. Len(registered[u])
      <4>1. i \in 1 .. Len(registered[u])
        BY <1>1, <2>8 DEF n
      <4> QED BY <3>1, <3>2, <3>3, <4>1 DEF KeptInv
    <3>5. ~Expired(Kept, now)
      <4>1. registered[u][i].registeredAt \in Nat
        BY <3>4, RegisteredEntry
      <4>2. now \in Nat /\ now <= clock /\ ~Expired(registered[u][i], clock)
        BY <1>0, <1>5, <3>1 DEF KeyStored
      <4> QED BY <1>0, <4>1, <4>2 DEF Expired
    <3>6. Kept.pubKey # key /\ Kept.nr = i
      BY <3>4
    <3>7. Kept \in all
      <4> HIDE DEF Kept
      <4> QED BY <3>4, <3>5, <3>6 DEF all
    <3>8. Kept \in keysByUser'[u]
      <4> HIDE DEF Kept
      <4> QED BY <2>1, <2>6, <3>6, <3>7
    <3> QED BY <3>1, <3>8
  <2> QED BY <2>1, <2>3, <2>7, <2>8
<1> QED BY <1>2, <1>3, <1>4, <1>5, StoreMoves

-----------------------------------------------------------------------------
(* The theorems. *)

LEMMA Initial == Init => IInv
<1> SUFFICES ASSUME Init PROVE IInv
  OBVIOUS
<1> USE ConnectionsAssumption DEF Init, StoreInit
<1>1. TypeInv
  <2>1. registered \in [Users -> Seq([pubKey : Keys, registeredAt : Time])]
    OBVIOUS
  <2>2. TypeOK
    BY DEF TypeOK, Goroutines
  <2> QED BY <2>1, <2>2 DEF TypeInv
<1>2. CountersMatch
  <2>1. Handshaking = {} /\ Open = {}
    BY DEF Handshaking, Open
  <2> QED BY <2>1, FS_EmptySet DEF CountersMatch
<1>3. ListenerInv /\ WaitingInv
  BY DEF ListenerInv, WaitingInv
<1>4. ClockInv
  BY DEF ClockInv
<1>5. StoreInv
  BY DEF StoreInv
<1>6. KeyLoginRegistered
  BY DEF KeyLoginRegistered, Nothing
<1>7. KeptInv
  BY DEF KeptInv
<1> QED BY <1>1, <1>2, <1>3, <1>4, <1>5, <1>6, <1>7 DEF IInv

\* The invariant is inductive: the counters, the listener's free slot, the times
\* in the queues of the store, and what the store holds of what was registered.
THEOREM Invariance == Spec => []IInv
<1>1. IInv /\ [Next]_vars => IInv'
  BY Typing, CountersStep, ListenerStep, WaitingStep, ClockStep, StoreStep, KeyLoginStep,
     KeptStep
  DEF IInv
<1> QED BY Initial, <1>1, PTL DEF Spec

\* Every exit of handleConnection gives back the slot that it holds, once: the
\* counters of stats.go are the connections in the handshake and the open ones.
THEOREM CountersCorrect == Spec => []CountersMatch
<1>1. IInv => CountersMatch
  BY DEF IInv
<1> QED BY Invariance, <1>1, PTL

\* Who logs in with a key of the store has registered it, and its time to live
\* was not over when the key was offered.
THEOREM KeyLoginCorrect == Spec => []KeyLoginRegistered
<1>1. IInv => KeyLoginRegistered
  BY DEF IInv
<1> QED BY Invariance, <1>1, PTL

\* A registered key is found until its time to live is over or MaxKeysPerUser
\* other keys follow it, whatever order the callers take the lock in.
THEOREM UsableCorrect == Spec => []RegisteredKeyUsable
<1>1. IInv => RegisteredKeyUsable
  <2> SUFFICES ASSUME IInv, NEW u \in Users, NEW i \in DOMAIN registered[u],
                      ~Expired(registered[u][i], clock),
                      registered[u][i].pubKey \notin Later(u, i),
                      Cardinality(Later(u, i)) < MaxKeysPerUser
               PROVE  Has(u, registered[u][i].pubKey, clock)
    BY DEF RegisteredKeyUsable, Later
  <2> DEFINE e == [pubKey |-> registered[u][i].pubKey,
                   registeredAt |-> registered[u][i].registeredAt, nr |-> i]
  <2>1. i \in 1 .. Len(registered[u])
    BY DEF IInv, TypeInv
  <2>2. e \in keysByUser[u]
    BY <2>1 DEF IInv, KeptInv
  <2>3. ~Expired(e, clock) /\ e.pubKey = registered[u][i].pubKey
    BY DEF Expired
  <2> HIDE DEF e
  <2> QED BY <2>2, <2>3 DEF Has, PruneExpired
<1> QED BY Invariance, <1>1, PTL

\* The slots held number what the counters add up to.
LEMMA HeldCounted ==
    ASSUME IInv PROVE Cardinality(Handshaking \union Open) = preAuth + current
<1>1. IsFiniteSet(Handshaking) /\ IsFiniteSet(Open)
  BY ConnectionsAssumption, FS_Subset DEF Handshaking, Open
<1>2. Handshaking \intersect Open = {}
  BY DEF Handshaking, Open
<1>3. Cardinality(Handshaking) \in Nat /\ Cardinality(Open) \in Nat
  BY <1>1, FS_CardinalityType
<1>4. Cardinality(Handshaking \union Open) = Cardinality(Handshaking) + Cardinality(Open) - 0
  BY <1>1, <1>2, FS_Union, FS_EmptySet
<1> QED BY <1>3, <1>4 DEF IInv, CountersMatch

\* The two counters and the check of the listener implement a pool of
\* MaxConnections slots.
THEOREM LimitCorrect == Spec => ConnectionLimit
<1>1. Init => Slots!Init
  BY DEF Init, Slots!Init, Handshaking, Open
<1>2. IInv /\ [Next]_vars => [Slots!Next]_(Handshaking \union Open)
  <2> SUFFICES ASSUME IInv, [Next]_vars PROVE [Slots!Next]_(Handshaking \union Open)
    OBVIOUS
  <2>1. CASE SlotsKept
    BY <2>1 DEF SlotsKept
  <2>2. ASSUME NEW c \in Conns, SlotReserved(c) PROVE Slots!Acquire(c)
    <3>1. listener # NoConn
      BY <2>2, ConnectionsAssumption DEF SlotReserved
    <3>2. Cardinality(Handshaking \union Open) < MaxConnections
      <4>1. preAuth \in Nat /\ current \in Nat /\ current + preAuth < MaxConnections
        BY <3>1 DEF IInv, ListenerInv, TypeInv, TypeOK
      <4> QED BY <4>1, HeldCounted
    <3>3. c \notin Handshaking \union Open
          /\ (Handshaking \union Open)' = (Handshaking \union Open) \union {c}
      BY <2>2 DEF SlotReserved
    <3>4. Slots!Cardinality(Handshaking \union Open) = Cardinality(Handshaking \union Open)
      BY DEF Cardinality, Slots!Cardinality
    <3> QED BY <3>2, <3>3, <3>4 DEF Slots!Acquire
  <2>3. ASSUME NEW c \in Conns, SlotReleased(c) \/ SlotFreed(c) PROVE Slots!Release(c)
    <3>1. ~(c \in Handshaking /\ c \in Open)
      BY DEF Handshaking, Open
    <3> QED BY <2>3, <3>1 DEF SlotReleased, SlotFreed, Slots!Release
  <2>4. ASSUME NEW c \in Conns, SlotPromoted(c) PROVE UNCHANGED (Handshaking \union Open)
    BY <2>4 DEF SlotPromoted
  <2> QED BY <2>1, <2>2, <2>3, <2>4, SlotMoves DEF IInv, Slots!Next
<1> QED BY Invariance, <1>1, <1>2, PTL DEF Spec, ConnectionLimit, Slots!Spec
=============================================================================
