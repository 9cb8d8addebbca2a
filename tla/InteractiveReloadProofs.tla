---------------------- MODULE InteractiveReloadProofs ----------------------
(***************************************************************************)
(* Proofs about InteractiveReload, for every number of connections, every  *)
(* set of workloads and every scenario.                                    *)
(***************************************************************************)
EXTENDS InteractiveReload, SequenceTheorems, TLAPS

-----------------------------------------------------------------------------
(* The parts of the inductive invariant. *)

TypeInv ==
    /\ TypeOK
    /\ scenario \in Scenarios
    /\ phase # "idle" => next \in Spec /\ prev \in Spec

\* The connection that the control thread works on.
Current == IF phase = "rollback" THEN Len(applied) ELSE cursor

\* The i-th entry to roll back is that of the i-th connection.
EntryInv ==
    /\ \A i \in DOMAIN applied : applied[i].conn = i
    /\ phase = "idle" => applied = << >> /\ step = "snapshot" /\ gone = {}
    /\ phase = "apply" => Len(applied) = cursor - 1
    /\ phase = "rollback" => Len(applied) \in Conn /\ step # "snapshot"

\* applyMu is held exactly while its thread awaits an acknowledgement.
HoldInv ==
    \A c \in Conn :
        /\ applyMu[c] = "boot" <=> link[c] = "starting"
        /\ applyMu[c] = "reload" <=> /\ phase # "idle" /\ step = "wait"
                                     /\ c = Current /\ c \notin gone

\* No acknowledgement has timed out and no dispatch has failed.
Calm == timeouts = 0 /\ ~resets

\* What acknowledgement a says of the request that is awaited on connection c.
Answers(c, a) ==
    \/ a.action = "error" /\ committed[c] = server[c]
    \/ /\ a.action = wanted[c].action
       /\ server[c] = [gen |-> a.gen, spec |-> wanted[c].spec]
       /\ a.action = "update" => a.gen = wanted[c].gen

\* One request at a time: it is on its way to the server, or its
\* acknowledgement is on its way back, or the acknowledgement is in the channel.
Exchange(c) ==
    \/ /\ applyMu[c] = "free"
       /\ requests[c] = << >> /\ replies[c] = << >> /\ acks[c] = << >>
       /\ committed[c] = server[c]
    \/ /\ applyMu[c] # "free"
       /\ wanted[c].action = "update" => wanted[c].gen # 0
       /\ \/ /\ Len(requests[c]) = 1 /\ requests[c][1] = wanted[c]
             /\ replies[c] = << >> /\ acks[c] = << >>
             /\ committed[c] = server[c]
          \/ /\ requests[c] = << >> /\ acks[c] = << >>
             /\ Len(replies[c]) = 1 /\ Answers(c, replies[c][1])
          \/ /\ requests[c] = << >> /\ replies[c] = << >>
             /\ Len(acks[c]) = 1 /\ Answers(c, acks[c][1])

ExchangeInv == Calm => \A c \in Conn : Exchange(c)

IInv == TypeInv /\ EntryInv /\ HoldInv /\ ExchangeInv

-----------------------------------------------------------------------------
(* Generations. *)

\* A request moves the generation of its server on.
Advances(c) ==
    \A i \in DOMAIN requests[c] :
        requests[c][i].action = "update" => requests[c][i].gen = server[c].gen + 1

\* Output under way is of the server's generation and workload, or of an
\* earlier generation.
Fresh(c) ==
    output[c] # << >> =>
        /\ Head(output[c]).gen # 0
        /\ Head(output[c]).gen <= server[c].gen
        /\ Head(output[c]).gen = server[c].gen => Head(output[c]).spec = server[c].spec

\* The connections of a reload that are alive are up, and an entry to roll back
\* has the generation that its connection committed.
ReloadInv ==
    phase # "idle" =>
        /\ \A c \in Conn \ gone : link[c] = "up"
        /\ \A i \in DOMAIN applied : i \notin gone => applied[i].gen = committed[i].gen

GenerationInv ==
    Calm /\ ~early =>
        /\ ReloadInv
        /\ \A c \in Conn : Advances(c) /\ Fresh(c)
        /\ ~leaked

-----------------------------------------------------------------------------
(* Workloads. *)

Runs(c, s) == s # NoSpec /\ <<c, s>> \notin Invalid /\ s \notin Undispatchable

\* A server is in no session or runs a workload it accepts.
ServerInv ==
    Calm => \A c \in Conn : IF server[c].gen = 0 THEN server[c].spec = NoSpec
                            ELSE Runs(c, server[c].spec)

IdleInv ==
    phase = "idle" =>
        \A c \in Conn :
            /\ link[c] = "new" => bootSpec[c] = stored
            /\ link[c] = "starting" => wanted[c].spec = stored
            /\ link[c] = "up" => committed[c].gen # 0 /\ committed[c].spec = stored

\* During a reload every server has a session and accepts the workload to roll
\* back to; gone is empty, as no connection is lost.
ActiveInv ==
    phase # "idle" =>
        /\ gone = {}
        /\ \A c \in Conn : committed[c].gen # 0 /\ Runs(c, prev)
        /\ \A i \in DOMAIN applied : applied[i].spec = prev

ApplyInv ==
    phase = "apply" =>
        /\ prev = stored
        /\ \A c \in Conn : committed[c].spec = IF c < cursor THEN next ELSE prev
        /\ step # "snapshot" => before = committed[cursor]
        /\ step = "wait" => wanted[cursor].spec = next

\* A request of the rollback is accepted.
RollbackInv ==
    phase = "rollback" =>
        /\ \A c \in Conn : c > Len(applied) => committed[c].spec = prev
        /\ step = "wait" =>
            LET c == Len(applied)
            IN  /\ wanted[c].spec = prev
                /\ wanted[c].action = "update"
                /\ \A i \in DOMAIN replies[c] : replies[c][i].action # "error"
                /\ \A i \in DOMAIN acks[c] : acks[c][i].action # "error"

Whole == IdleInv /\ ActiveInv /\ ApplyInv /\ RollbackInv

WorkloadInv ==
    /\ ServerInv
    /\ Calm /\ ~early /\ ~lost => Whole

-----------------------------------------------------------------------------
(* The steps by what they do to the exchanges. *)

Threads == {"boot", "reload"}

LEMMA ConstantFacts ==
    /\ N \in Nat \ {0} /\ NoSpec \notin Spec /\ Initial \in Spec /\ AckCapacity \in Nat \ {0}
    /\ \A c \in Conn : c \in Nat /\ c >= 1 /\ c <= N
    /\ 1 \in Conn
    /\ \A g \in Nat : \A s \in Spec \cup {NoSpec} :
          /\ RequestFor(g, s) \in Request
          /\ RequestFor(g, s).action = "update" <=> g # 0
          /\ RequestFor(g, s).action = "update" => RequestFor(g, s).gen = g + 1
          /\ RequestFor(g, s).spec = s
    /\ NoSession \in Session /\ NoSession.gen = 0 /\ NoRequest \in Request
  BY ReloadAssumption DEF Conn, RequestFor, Request, NoSession, Session, NoRequest

TypesX ==
    /\ committed \in [Conn -> Session]
    /\ applyMu \in [Conn -> {"free", "boot", "reload"}]
    /\ wanted \in [Conn -> Request]
    /\ acks \in [Conn -> Seq(Ack)]
    /\ requests \in [Conn -> Seq(Request)]
    /\ replies \in [Conn -> Seq(Ack)]
    /\ server \in [Conn -> Session]

Sends(th, c, r) ==
    /\ SendRequest(th, c, r)
    /\ UNCHANGED <<committed, replies, server, timeouts, resets, output>>

Ends(th, c, verdict) ==
    /\ EndExchange(th, c, verdict)
    /\ UNCHANGED <<requests, replies, server, resets, output>>

Closes(c) == BootstrapFails(c) \/ Drop(c)

\* The exchanges are left alone.
Rests == UNCHANGED <<committed, applyMu, wanted, acks, requests, replies, server, timeouts, resets>>

Entry == [conn : Conn, spec : Spec \cup {NoSpec}, gen : Nat]

LEMMA LastEntryType ==
    TypeInv /\ EntryInv /\ phase = "rollback" =>
        LastEntry \in Entry /\ LastEntry.conn = Len(applied) /\ Len(applied) \in Conn
<1> SUFFICES ASSUME TypeInv, EntryInv, phase = "rollback" PROVE LastEntryType!2
  OBVIOUS
<1>1. applied \in Seq(Entry)
  BY DEF TypeInv, TypeOK, Entry
<1>2. Len(applied) \in Conn /\ \A i \in DOMAIN applied : applied[i].conn = i
  BY DEF EntryInv
<1>3. Len(applied) \in DOMAIN applied
  BY <1>1, <1>2, ConstantFacts
<1> QED BY <1>1, <1>2, <1>3 DEF LastEntry

LEMMA NextSplit ==
    TypeInv /\ EntryInv /\ [Next]_vars =>
        \/ Rests
        \/ \E th \in Threads, c \in Conn, g \in Nat, s \in Spec \cup {NoSpec} :
              Sends(th, c, RequestFor(g, s))
        \/ \E th \in Threads, c \in Conn, v \in {"ok", "rejected", "unexpected", "timeout"} :
              Ends(th, c, v)
        \/ \E c \in Conn : Closes(c) \/ HandleSession(c) \/ DeliverAck(c)
<1> DEFINE Goal == NextSplit!2
<1> SUFFICES ASSUME TypeInv, EntryInv, [Next]_vars PROVE Goal
  OBVIOUS
<1>0. /\ committed \in [Conn -> Session] /\ bootSpec \in [Conn -> Spec] /\ cursor \in Conn
      /\ next \in Spec \cup {NoSpec}
      /\ \A c \in Conn : committed[c].gen \in Nat
  BY DEF TypeInv, TypeOK, Session
<1> USE DEF clientVars, serverVars, controlVars, historyVars, Threads
<1>1. CASE UNCHANGED vars
  BY <1>1 DEF vars, Rests
<1>2. ASSUME NEW c \in Conn, Bootstrap(c) PROVE Goal
  BY <1>0, <1>2 DEF Bootstrap, Sends
<1>3. ASSUME NEW c \in Conn, Bootstrapped(c) PROVE Goal
  BY <1>3 DEF Bootstrapped, Ends
<1>4. ASSUME NEW c \in Conn, Redial(c) \/ EmitOutput(c) \/ DeliverOutput(c) PROVE Goal
  BY <1>4 DEF Redial, EmitOutput, DeliverOutput, Rests
<1>5. ASSUME NEW s, BeginReload(s) PROVE Goal
  BY <1>5 DEF BeginReload, Rests
<1>6. CASE SnapshotCommitted \/ ApplyRefused \/ RollbackImpossible
  BY <1>6 DEF SnapshotCommitted, ApplyRefused, RollbackImpossible, Rests
<1>7. CASE ApplySend
  BY <1>0, <1>7 DEF ApplySend, Sends
<1>8. CASE ApplyFailed
  BY <1>0, <1>8 DEF ApplyFailed, Ends
<1>9. CASE ApplyOK
  BY <1>0, <1>9 DEF ApplyOK, Ends
<1>10. CASE RollbackSend
  <2>1. LastEntry.conn \in Conn /\ LastEntry.gen \in Nat /\ LastEntry.spec \in Spec \cup {NoSpec}
    BY <1>10, LastEntryType DEF RollbackSend, Entry
  <2> QED BY <2>1, <1>10 DEF RollbackSend, Sends
<1>11. CASE RollbackEnd
  <2>1. LastEntry.conn \in Conn
    BY <1>11, LastEntryType DEF RollbackEnd, Entry
  <2> QED BY <2>1, <1>11 DEF RollbackEnd, Ends
<1>12. ASSUME NEW c \in Conn, Closes(c) \/ HandleSession(c) \/ DeliverAck(c) PROVE Goal
  BY <1>12
<1> HIDE DEF Goal
<1> QED BY <1>1, <1>2, <1>3, <1>4, <1>5, <1>6, <1>7, <1>8, <1>9, <1>10, <1>11, <1>12
        DEF Next, ConnectionNext, ControlNext, Closes

-----------------------------------------------------------------------------
(* Types. *)

LEMMA TypeFacts ==
    TypeInv =>
        /\ TypesX
        /\ \A c \in Conn : /\ server[c].gen \in Nat /\ committed[c].gen \in Nat
                           /\ server[c].spec \in Spec \cup {NoSpec}
                           /\ committed[c].spec \in Spec \cup {NoSpec}
        /\ applied \in Seq(Entry)
        /\ Requested \subseteq Spec
        /\ MaxTimeouts \in Nat /\ timeouts \in Nat
<1> SUFFICES ASSUME TypeInv PROVE TypeFacts!2
  OBVIOUS
<1>1. TypesX /\ applied \in Seq(Entry)
  BY DEF TypeInv, TypeOK, TypesX, Entry
<1>2. \A c \in Conn : server[c] \in Session /\ committed[c] \in Session
  BY <1>1 DEF TypesX
<1>3. \A x \in Session : x.gen \in Nat /\ x.spec \in Spec \cup {NoSpec}
  BY DEF Session
<1>4. Requested \subseteq Spec /\ MaxTimeouts \in Nat
  BY ReloadAssumption DEF TypeInv, Requested, MaxTimeouts
<1>5. timeouts \in Nat
  BY <1>4 DEF TypeInv, TypeOK
<1> QED BY <1>1, <1>2, <1>3, <1>4, <1>5

LEMMA HandleType ==
    ASSUME TypesX, NEW c \in Conn, HandleSession(c)
    PROVE  TypesX' /\ (~resets' => ~resets)
<1>1. requests[c] \in Seq(Request) /\ Head(requests[c]) \in Request
      /\ Tail(requests[c]) \in Seq(Request)
  BY DEF HandleSession, TypesX
<1> DEFINE r == Head(requests[c])
           gen == IF r.action = "start" THEN 1 ELSE r.gen
<1>2. /\ r.action \in {"start", "update"} /\ r.gen \in Nat /\ r.spec \in Spec \cup {NoSpec}
  BY <1>1 DEF Request
<1>3. /\ [gen |-> gen, spec |-> r.spec] \in Session
      /\ [action |-> r.action, gen |-> gen] \in Ack
      /\ [action |-> "error", gen |-> 0] \in Ack
  BY <1>2 DEF Session, Ack
<1>4. /\ server' \in [Conn -> Session] /\ replies' \in [Conn -> Seq(Ack)]
  <2>1. \A q \in Seq(Ack), a \in Ack : Append(q, a) \in Seq(Ack)
    OBVIOUS
  <2> QED BY <1>3, <2>1, ConstantFacts DEF HandleSession, TypesX
<1>5. requests' = [requests EXCEPT ![c] = Tail(requests[c])] /\ UNCHANGED clientVars
  BY DEF HandleSession
<1>6. ~resets' => ~resets
  <2>1. \E b \in BOOLEAN : resets' = (resets \/ b)
    BY Zenon DEF HandleSession
  <2> QED BY <2>1, Zenon
<1> QED BY <1>1, <1>4, <1>5, <1>6 DEF TypesX, clientVars

LEMMA EndType ==
    ASSUME TypesX, timeouts \in Nat, NEW th \in Threads, NEW c \in Conn, NEW v, Ends(th, c, v)
    PROVE  TypesX' /\ timeouts' \in Nat /\ timeouts' >= timeouts
<1>0. NoRequest \in Request
  BY ConstantFacts
<1>1. /\ applyMu' = [applyMu EXCEPT ![c] = "free"]
      /\ wanted' = [wanted EXCEPT ![c] = NoRequest]
      /\ UNCHANGED <<requests, replies, server>>
  BY DEF Ends, EndExchange
<1> DEFINE answered == acks[c] # << >> /\ acks' = [acks EXCEPT ![c] = Tail(acks[c])] /\ timeouts' = timeouts
           expired == v = "timeout" /\ timeouts' = timeouts + 1 /\ acks' = acks
<1>2. CASE answered
  <2>1. acks[c] \in Seq(Ack) /\ Head(acks[c]) \in Ack /\ Tail(acks[c]) \in Seq(Ack)
    BY <1>2 DEF TypesX
  <2>2. [gen |-> Head(acks[c]).gen, spec |-> wanted[c].spec] \in Session
    BY <2>1 DEF TypesX, Ack, Request, Session
  <2>3. committed' \in [Conn -> Session]
    BY <2>2 DEF Ends, EndExchange, TypesX
  <2>4. acks' \in [Conn -> Seq(Ack)]
    BY <1>2, <2>1 DEF TypesX
  <2> QED BY <1>0, <1>1, <1>2, <2>3, <2>4 DEF TypesX
<1>3. CASE expired
  <2>1. committed' = committed
    BY <1>3 DEF Ends, EndExchange
  <2> QED BY <1>1, <1>3, <2>1, <1>0 DEF TypesX
<1>4. answered \/ expired
  BY DEF Ends, EndExchange
<1> HIDE DEF answered, expired
<1> QED BY <1>2, <1>3, <1>4

LEMMA XTyping ==
    TypeInv /\ EntryInv /\ [Next]_vars =>
        /\ TypesX' /\ timeouts' \in Nat /\ timeouts' >= timeouts
        /\ (~resets' => ~resets)
<1> DEFINE Goal == XTyping!2
<1> SUFFICES ASSUME TypeInv, EntryInv, [Next]_vars PROVE Goal
  OBVIOUS
<1>0. TypesX /\ timeouts \in Nat
  BY TypeFacts
<1>1. CASE Rests
  BY <1>0, <1>1 DEF Rests, TypesX
<1>2. ASSUME NEW th \in Threads, NEW c \in Conn, NEW g \in Nat, NEW s \in Spec \cup {NoSpec},
             Sends(th, c, RequestFor(g, s))
      PROVE Goal
  <2>1. RequestFor(g, s) \in Request
    BY ConstantFacts
  <2>2. Append(requests[c], RequestFor(g, s)) \in Seq(Request)
    BY <1>0, <2>1 DEF TypesX
  <2> QED BY <1>0, <1>2, <2>1, <2>2 DEF Sends, SendRequest, TypesX, Threads
<1>3. ASSUME NEW th \in Threads, NEW c \in Conn, NEW v, Ends(th, c, v) PROVE Goal
  BY <1>0, <1>3, EndType DEF Ends
<1>4. ASSUME NEW c \in Conn, Closes(c) PROVE Goal
  <2>1. CloseConnection(c) /\ timeouts' \in Nat /\ timeouts' >= timeouts /\ resets' = resets
    BY <1>0, <1>4 DEF Closes, BootstrapFails, Drop
  <2>2. << >> \in Seq(Ack) /\ << >> \in Seq(Request)
    OBVIOUS
  <2>3. TypesX'
    BY <1>0, <2>1, <2>2, ConstantFacts DEF CloseConnection, TypesX
  <2> QED BY <2>1, <2>3
<1>5. ASSUME NEW c \in Conn, HandleSession(c) PROVE Goal
  <2>1. TypesX' /\ (~resets' => ~resets)
    BY <1>0, <1>5, HandleType
  <2>2. timeouts' = timeouts
    BY <1>5 DEF HandleSession
  <2> QED BY <1>0, <2>1, <2>2
<1>6. ASSUME NEW c \in Conn, DeliverAck(c) PROVE Goal
  <2>1. replies[c] \in Seq(Ack) /\ acks[c] \in Seq(Ack) /\ Head(replies[c]) \in Ack
        /\ Tail(replies[c]) \in Seq(Ack)
    BY <1>0, <1>6 DEF DeliverAck, TypesX
  <2>2. Append(acks[c], Head(replies[c])) \in Seq(Ack)
    BY <2>1
  <2> QED BY <1>0, <1>6, <2>1, <2>2 DEF DeliverAck, TypesX, historyVars
<1> HIDE DEF Goal
<1> QED BY <1>1, <1>2, <1>3, <1>4, <1>5, <1>6, NextSplit

\* The variables of the control thread.
TypesC ==
    /\ stored \in Spec
    /\ next \in Spec \cup {NoSpec} /\ prev \in Spec \cup {NoSpec}
    /\ phase # "idle" => next \in Spec /\ prev \in Spec
    /\ phase \in {"idle", "apply", "rollback"}
    /\ step \in {"snapshot", "lock", "wait"}
    /\ cursor \in Conn /\ generation \in Nat /\ before \in Session
    /\ applied \in Seq(Entry)
    /\ gone \in SUBSET Conn

LEMMA ControlTypes == TypeInv => TypesC
  BY DEF TypeInv, TypeOK, TypesC, Entry

LEMMA RollbackType ==
    ASSUME TypesC, phase # "idle", NEW entries \in Seq(Entry), StartRollback(entries) PROVE TypesC'
<1>0. NoSession \in Session /\ 1 \in Conn /\ << >> \in Seq(Entry)
  BY ConstantFacts
<1>1. CASE entries = << >>
  BY <1>0, <1>1 DEF StartRollback, EndReload, TypesC
<1>2. CASE entries # << >>
  BY <1>0, <1>2 DEF StartRollback, TypesC
<1> QED BY <1>1, <1>2

Front == SubSeq(applied, 1, Len(applied) - 1)

LEMMA FrontFacts ==
    ASSUME applied \in Seq(Entry), applied # << >>
    PROVE  /\ Front \in Seq(Entry)
           /\ Len(Front) = Len(applied) - 1
           /\ \A i \in 1 .. Len(applied) - 1 : Front[i] = applied[i]
<1>1. Len(applied) \in Nat \ {0} /\ Len(applied) - 1 \in Nat /\ \A i \in 1 .. Len(applied) - 1 : applied[i] \in Entry
  OBVIOUS
<1>2. /\ Front \in Seq(Entry)
      /\ Len(Front) = IF 1 <= Len(applied) - 1 THEN Len(applied) - 1 - 1 + 1 ELSE 0
      /\ \A i \in 1 .. Len(applied) - 1 - 1 + 1 : Front[i] = applied[1 + i - 1]
  BY <1>1, SubSeqProperties DEF Front
<1>3. Len(Front) = Len(applied) - 1
  <2>1. ASSUME NEW n \in Nat \ {0} PROVE (IF 1 <= n - 1 THEN n - 1 - 1 + 1 ELSE 0) = n - 1
    OBVIOUS
  <2> QED BY <1>1, <1>2, <2>1
<1>4. ASSUME NEW i \in 1 .. Len(applied) - 1 PROVE Front[i] = applied[i]
  <2>1. i \in 1 .. Len(applied) - 1 - 1 + 1 /\ 1 + i - 1 = i
    BY <1>1
  <2> QED BY <1>2, <2>1
<1> QED BY <1>2, <1>3, <1>4

LEMMA ControlTyping == TypeInv /\ EntryInv /\ [Next]_vars => TypesC'
<1> SUFFICES ASSUME TypeInv, EntryInv, [Next]_vars PROVE TypesC'
  OBVIOUS
<1>0. TypesC /\ TypesX /\ Requested \subseteq Spec /\ TypesX'
  BY ControlTypes, TypeFacts, XTyping
<1>a. NoSession \in Session /\ 1 \in Conn /\ << >> \in Seq(Entry) /\ N \in Nat
      /\ \A n \in Nat : n >= 1 /\ n <= N => n \in Conn
  BY ConstantFacts DEF Conn
<1> USE DEF clientVars, serverVars, controlVars, historyVars
<1>1. CASE UNCHANGED <<stored, controlVars>>
  BY <1>0, <1>1 DEF TypesC
<1>2. ASSUME NEW c \in Conn, Bootstrap(c) \/ Bootstrapped(c) \/ Redial(c) \/ EmitOutput(c)
                             \/ DeliverOutput(c) \/ HandleSession(c) \/ DeliverAck(c)
      PROVE TypesC'
  BY <1>1, <1>2 DEF Bootstrap, Bootstrapped, Redial, EmitOutput, DeliverOutput, HandleSession, DeliverAck
<1>3. ASSUME NEW c \in Conn, Closes(c) PROVE TypesC'
  BY <1>0, <1>3 DEF Closes, BootstrapFails, Drop, CloseConnection, TypesC
<1>4. ASSUME NEW s \in Requested, BeginReload(s) PROVE TypesC'
  BY <1>0, <1>a, <1>4 DEF BeginReload, TypesC
<1>5. CASE SnapshotCommitted
  BY <1>0, <1>5 DEF SnapshotCommitted, TypesC, TypesX
<1>6. CASE ApplySend \/ RollbackSend
  BY <1>0, <1>6 DEF ApplySend, RollbackSend, TypesC
<1>7. CASE ApplyRefused
  BY <1>0, <1>7, RollbackType DEF ApplyRefused, TypesC
<1> DEFINE entry(g) == [conn |-> cursor, spec |-> before.spec, gen |-> g]
<1>b. ASSUME NEW g \in Nat PROVE Append(applied, entry(g)) \in Seq(Entry)
  <2>1. entry(g) \in Entry
    BY <1>0, <1>b DEF TypesC, Session, Entry
  <2> QED BY <1>0, <2>1 DEF TypesC
<1>8. CASE ApplyFailed
  <2>1. (IF generation = 0 THEN before.gen ELSE generation) \in Nat
    BY <1>0 DEF TypesC, Session
  <2>2. PICK entries \in Seq(Entry) : StartRollback(entries)
    <3> HIDE DEF entry
    <3>1. applied \in Seq(Entry)
      BY <1>0 DEF TypesC
    <3> QED BY <1>8, <1>b, <2>1, <3>1 DEF ApplyFailed, entry
  <2> QED BY <1>0, <1>8, <2>2, RollbackType DEF ApplyFailed
<1>9. CASE ApplyOK
  <2> DEFINE gen == committed'[cursor].gen
             entries == Append(applied, entry(gen))
  <2>1. gen \in Nat
    BY <1>0 DEF TypesX, TypesC, Session
  <2>2. entries \in Seq(Entry)
    BY <1>b, <2>1
  <2> HIDE DEF entry
  <2>3. \/ /\ cursor < N /\ cursor' = cursor + 1 /\ step' = "snapshot" /\ generation' = gen
           /\ applied' = entries
           /\ UNCHANGED <<stored, phase, next, prev, before, gone>>
        \/ EndReload(next)
        \/ StartRollback(entries)
    BY <1>9 DEF ApplyOK, entry
  <2>4. phase = "apply"
    BY <1>9 DEF ApplyOK
  <2> HIDE DEF entries, gen
  <2>5. CASE StartRollback(entries)
    BY <1>0, <2>2, <2>4, <2>5, RollbackType
  <2>6. CASE EndReload(next)
    BY <1>0, <1>a, <2>4, <2>6 DEF EndReload, TypesC
  <2>7. CASE /\ cursor < N /\ cursor' = cursor + 1 /\ step' = "snapshot" /\ generation' = gen
             /\ applied' = entries
             /\ UNCHANGED <<stored, phase, next, prev, before, gone>>
    <3>1. cursor + 1 \in Conn
      BY <1>0, <1>a, <2>7, ConstantFacts DEF TypesC
    <3> QED BY <1>0, <2>1, <2>2, <2>7, <3>1 DEF TypesC
  <2> QED BY <2>3, <2>5, <2>6, <2>7
<1>10. CASE RollbackEnd \/ RollbackImpossible
  <2>1. phase = "rollback" /\ StartRollback(SubSeq(applied, 1, Len(applied) - 1))
    BY <1>10 DEF RollbackEnd, RollbackImpossible, RollbackEntryDone
  <2>2. applied # << >>
    BY <2>1, ConstantFacts DEF EntryInv
  <2>3. SubSeq(applied, 1, Len(applied) - 1) \in Seq(Entry)
    BY <1>0, <2>2, FrontFacts DEF TypesC, Front
  <2> QED BY <1>0, <2>1, <2>3, RollbackType
<1>11. CASE UNCHANGED vars
  BY <1>1, <1>11 DEF vars
<1> QED BY <1>2, <1>3, <1>4, <1>5, <1>6, <1>7, <1>8, <1>9, <1>10, <1>11
        DEF Next, ConnectionNext, ControlNext, Closes

\* The links, the output and what is counted.
TypesL ==
    /\ link \in [Conn -> {"down", "new", "starting", "up"}]
    /\ bootSpec \in [Conn -> Spec]
    /\ output \in [Conn -> Seq(Session)]
    /\ reloads \in 0 .. MaxReloads /\ timeouts \in 0 .. MaxTimeouts /\ drops \in 0 .. MaxDrops
    /\ \A c \in Conn : Len(acks[c]) <= AckCapacity
    /\ scenario \in Scenarios

TypesB ==
    early \in BOOLEAN /\ lost \in BOOLEAN /\ resets \in BOOLEAN /\ leaked \in BOOLEAN

LEMMA LinkTyping == TypeInv /\ EntryInv /\ [Next]_vars => TypesL' /\ scenario' = scenario
<1> DEFINE Goal == TypesL' /\ scenario' = scenario
<1> SUFFICES ASSUME TypeInv, EntryInv, [Next]_vars PROVE Goal
  OBVIOUS
<1>0. TypesL /\ stored \in Spec /\ TypesX
  BY TypeFacts DEF TypeInv, TypeOK, TypesL
<1>a. MaxReloads \in Nat /\ MaxTimeouts \in Nat /\ MaxDrops \in Nat /\ AckCapacity \in Nat \ {0}
  BY ReloadAssumption DEF TypeInv, MaxReloads, MaxTimeouts, MaxDrops
<1> USE <1>0, <1>a DEF clientVars, serverVars, controlVars, historyVars, TypesL, MaxReloads,
    MaxTimeouts, MaxDrops
<1>1. CASE UNCHANGED <<link, bootSpec, output, reloads, timeouts, drops, acks, scenario>>
  BY <1>1
<1>b. ASSUME NEW th, NEW c \in Conn, NEW r, SendRequest(th, c, r)
      PROVE \A d \in Conn : Len(acks'[d]) <= AckCapacity
  <2>1. \A d \in Conn : acks'[d] = IF d = c THEN << >> ELSE acks[d]
    BY <1>b DEF SendRequest, TypesX
  <2>2. Len(<< >>) <= AckCapacity /\ \A d \in Conn : Len(acks[d]) <= AckCapacity
    OBVIOUS
  <2> QED BY ONLY <2>1, <2>2, Zenon
<1>c. ASSUME NEW th, NEW c \in Conn, NEW v, EndExchange(th, c, v)
      PROVE /\ \A d \in Conn : Len(acks'[d]) <= AckCapacity
            /\ timeouts' \in 0 .. MaxTimeouts
  <2>1. /\ \/ acks[c] # << >> /\ acks' = [acks EXCEPT ![c] = Tail(acks[c])]
           \/ acks' = acks
        /\ timeouts' = timeouts \/ (timeouts < MaxTimeouts /\ timeouts' = timeouts + 1)
    BY <1>c DEF EndExchange
  <2>2. /\ Len(acks[c]) \in Nat /\ Len(acks[c]) <= AckCapacity
        /\ acks[c] # << >> => Len(Tail(acks[c])) = Len(acks[c]) - 1
    BY DEF TypesX
  <2>3. ASSUME NEW d \in Conn PROVE Len(acks'[d]) <= AckCapacity
    <3>1. acks'[d] = acks[d] \/ (acks[c] # << >> /\ acks'[d] = Tail(acks[c]))
      BY <2>1 DEF TypesX
    <3>2. CASE acks'[d] = acks[d]
      BY <3>2
    <3>3. CASE acks'[d] # acks[d]
      <4>1. Len(acks'[d]) = Len(acks[c]) - 1
        BY <2>2, <3>1, <3>3
      <4> QED BY <2>2, <4>1
    <3> QED BY <3>2, <3>3
  <2> QED BY <2>1, <2>3
<1>2. ASSUME NEW c \in Conn, Bootstrap(c) PROVE Goal
  BY <1>2, <1>b DEF Bootstrap
<1>3. ASSUME NEW c \in Conn, Bootstrapped(c) PROVE Goal
  <2>1. /\ UNCHANGED <<bootSpec, output, reloads, drops, scenario>>
        /\ link' = [link EXCEPT ![c] = "up"] /\ EndExchange("boot", c, "ok")
    BY <1>3 DEF Bootstrapped
  <2> QED BY <1>c, <2>1
<1>4. ASSUME NEW c \in Conn, Redial(c) PROVE Goal
  BY <1>4 DEF Redial
<1>5. ASSUME NEW c \in Conn, EmitOutput(c) \/ DeliverOutput(c) PROVE Goal
  <2>1. server[c] \in Session /\ <<server[c]>> \in Seq(Session) /\ << >> \in Seq(Session)
    BY DEF TypesX
  <2> QED BY <1>5, <2>1 DEF EmitOutput, DeliverOutput
<1>6. ASSUME NEW c \in Conn, HandleSession(c) PROVE Goal
  BY <1>6 DEF HandleSession
<1>7. ASSUME NEW c \in Conn, DeliverAck(c) PROVE Goal
  <2>1. replies[c] \in Seq(Ack) /\ acks[c] \in Seq(Ack) /\ Head(replies[c]) \in Ack
    BY <1>7 DEF DeliverAck, TypesX
  <2>2. Len(Append(acks[c], Head(replies[c]))) = Len(acks[c]) + 1 /\ Len(acks[c]) \in Nat
    BY <2>1
  <2>3. \A d \in Conn : acks'[d] = IF d = c /\ Len(acks[c]) < AckCapacity
                                    THEN Append(acks[c], Head(replies[c])) ELSE acks[d]
    BY <1>7 DEF DeliverAck, TypesX
  <2>4. ASSUME NEW d \in Conn PROVE Len(acks'[d]) <= AckCapacity
    <3>1. CASE acks'[d] = acks[d]
      BY <3>1
    <3>2. CASE acks'[d] # acks[d]
      <4>1. Len(acks[c]) < AckCapacity /\ Len(acks'[d]) = Len(acks[c]) + 1
        BY <2>2, <2>3, <3>2
      <4> QED BY <2>2, <4>1
    <3> QED BY <3>1, <3>2
  <2> QED BY <1>7, <2>4 DEF DeliverAck
<1>8. ASSUME NEW c \in Conn, Closes(c) PROVE Goal
  <2>1. /\ CloseConnection(c)
        /\ UNCHANGED <<bootSpec, reloads, scenario>>
        /\ timeouts' \in 0 .. MaxTimeouts /\ drops' \in 0 .. MaxDrops
    BY <1>8 DEF Closes, BootstrapFails, Drop
  <2>2. << >> \in Seq(Session) /\ Len(<< >>) = 0
    OBVIOUS
  <2>3. \A d \in Conn : acks'[d] = IF d = c THEN << >> ELSE acks[d]
    BY <2>1 DEF CloseConnection, TypesX
  <2>4. \A d \in Conn : Len(acks'[d]) <= AckCapacity
    BY <2>2, <2>3
  <2>5. link' \in [Conn -> {"down", "new", "starting", "up"}] /\ output' \in [Conn -> Seq(Session)]
    BY <2>1, <2>2 DEF CloseConnection
  <2> QED BY <2>1, <2>4, <2>5
<1>9. ASSUME NEW s, BeginReload(s) PROVE Goal
  BY <1>9 DEF BeginReload
<1>10. CASE SnapshotCommitted \/ ApplyRefused \/ RollbackImpossible
  BY <1>1, <1>10 DEF SnapshotCommitted, ApplyRefused, RollbackImpossible
<1>d. cursor \in Conn
  BY DEF TypeInv, TypeOK
<1>11. CASE ApplySend
  BY <1>11, <1>b, <1>d DEF ApplySend
<1>12. CASE ApplyFailed \/ ApplyOK
  <2>1. /\ UNCHANGED <<link, bootSpec, output, reloads, drops, scenario>>
        /\ \E v : EndExchange("reload", cursor, v)
    BY <1>12 DEF ApplyFailed, ApplyOK
  <2> QED BY <1>c, <1>d, <2>1
<1>13. CASE RollbackSend
  <2>1. LastEntry.conn \in Conn
    BY <1>13, LastEntryType DEF RollbackSend, Entry
  <2> QED BY <1>13, <1>b, <2>1 DEF RollbackSend
<1>14. CASE RollbackEnd
  <2>1. LastEntry.conn \in Conn
    BY <1>14, LastEntryType DEF RollbackEnd, Entry
  <2>2. /\ UNCHANGED <<link, bootSpec, output, reloads, drops, scenario>>
        /\ \E v : EndExchange("reload", LastEntry.conn, v)
    BY <1>14 DEF RollbackEnd
  <2> QED BY <1>c, <2>1, <2>2
<1>15. CASE UNCHANGED vars
  BY <1>1, <1>15 DEF vars
<1> HIDE DEF Goal
<1> QED BY <1>2, <1>3, <1>4, <1>5, <1>6, <1>7, <1>8, <1>9, <1>10, <1>11, <1>12, <1>13, <1>14, <1>15
        DEF Next, ConnectionNext, ControlNext, Closes

\* The history flags only ever go up, but for Boolean reasons they are handled
\* apart from the rest.
LEMMA FlagTyping ==
    TypesB /\ [Next]_vars => TypesB' /\ (~early' => ~early) /\ (~lost' => ~lost)
<1> DEFINE Goal == TypesB' /\ (~early' => ~early) /\ (~lost' => ~lost)
<1> SUFFICES ASSUME TypesB, [Next]_vars PROVE Goal
  OBVIOUS
<1> USE DEF historyVars
<1>1. CASE UNCHANGED <<early, lost, resets, leaked>>
  BY <1>1 DEF TypesB
<1>2. ASSUME NEW c \in Conn, Bootstrap(c) \/ Bootstrapped(c) \/ Redial(c) \/ EmitOutput(c) \/ DeliverAck(c)
      PROVE Goal
  BY <1>1, <1>2 DEF Bootstrap, Bootstrapped, Redial, EmitOutput, DeliverAck
<1>3. ASSUME NEW c \in Conn, Closes(c) PROVE Goal
  <2>1. lost' = (lost \/ phase # "idle") /\ UNCHANGED <<early, resets, leaked>>
    BY <1>3 DEF Closes, BootstrapFails, Drop, CloseConnection
  <2> QED BY <2>1, Zenon DEF TypesB
<1>4. ASSUME NEW s, BeginReload(s) PROVE Goal
  <2>1. early' = (early \/ \E c \in Conn : link[c] # "up") /\ UNCHANGED <<lost, resets, leaked>>
    BY <1>4 DEF BeginReload
  <2> QED BY <2>1, Zenon DEF TypesB
<1>5. CASE ControlNext
  BY <1>1, <1>5 DEF ControlNext, SnapshotCommitted, ApplySend, ApplyRefused, ApplyFailed, ApplyOK,
     RollbackSend, RollbackEnd, RollbackImpossible
<1>6. ASSUME NEW c \in Conn, HandleSession(c) PROVE Goal
  <2>1. (\E b \in BOOLEAN : resets' = (resets \/ b)) /\ UNCHANGED <<early, lost, leaked>>
    BY <1>6, Zenon DEF HandleSession
  <2> QED BY <2>1, Zenon DEF TypesB
<1>7. ASSUME NEW c \in Conn, DeliverOutput(c) PROVE Goal
  <2>1. (\E b \in BOOLEAN : leaked' = (leaked \/ b)) /\ UNCHANGED <<early, lost, resets>>
    BY <1>7, Zenon DEF DeliverOutput
  <2> QED BY <2>1, Zenon DEF TypesB
<1>8. CASE UNCHANGED vars
  BY <1>1, <1>8 DEF vars
<1> HIDE DEF Goal
<1> QED BY <1>2, <1>3, <1>4, <1>5, <1>6, <1>7, <1>8 DEF Next, ConnectionNext, Closes

LEMMA TypeStep == TypeInv /\ EntryInv /\ [Next]_vars => TypeInv'
<1> SUFFICES ASSUME TypeInv, EntryInv, [Next]_vars PROVE TypeInv'
  OBVIOUS
<1>1. TypesX' /\ TypesC' /\ TypesL'
  BY XTyping, ControlTyping, LinkTyping
<1>2. TypesB
  BY Zenon DEF TypeInv, TypeOK, TypesB
<1>3. TypesB'
  BY <1>2, FlagTyping
<1>4. {early, lost, resets, leaked}' \subseteq BOOLEAN
  BY <1>3, Zenon DEF TypesB
<1> QED BY <1>1, <1>4 DEF TypeInv, TypeOK, TypesX, TypesC, TypesL, Entry

-----------------------------------------------------------------------------
(* The control thread's entries, and who holds applyMu. *)

LEMMA RollbackEntries ==
    ASSUME NEW entries \in Seq(Entry), \A i \in DOMAIN entries : entries[i].conn = i,
           Len(entries) <= N, StartRollback(entries)
    PROVE  EntryInv'
<1>1. CASE entries = << >>
  BY <1>1 DEF StartRollback, EndReload, EntryInv
<1>2. CASE entries # << >>
  <2>1. Len(entries) \in Conn
    BY <1>2, ConstantFacts DEF Conn
  <2> QED BY <1>2, <2>1 DEF StartRollback, EntryInv
<1> QED BY <1>1, <1>2

LEMMA EntryStep == TypeInv /\ EntryInv /\ [Next]_vars => EntryInv'
<1> SUFFICES ASSUME TypeInv, EntryInv, [Next]_vars PROVE EntryInv'
  OBVIOUS
<1>0. TypesC /\ TypesX' /\ N \in Nat /\ cursor \in 1 .. N
  BY ControlTypes, XTyping, ConstantFacts DEF TypesC
<1> USE DEF clientVars, serverVars, controlVars, historyVars
<1>1. CASE UNCHANGED controlVars
  BY <1>1 DEF EntryInv
<1>2. ASSUME NEW c \in Conn, Bootstrap(c) \/ Bootstrapped(c) \/ Redial(c) \/ EmitOutput(c)
                             \/ DeliverOutput(c) \/ HandleSession(c) \/ DeliverAck(c)
      PROVE EntryInv'
  BY <1>1, <1>2 DEF Bootstrap, Bootstrapped, Redial, EmitOutput, DeliverOutput, HandleSession, DeliverAck
<1>3. ASSUME NEW c \in Conn, Closes(c) PROVE EntryInv'
  BY <1>3 DEF Closes, BootstrapFails, Drop, CloseConnection, EntryInv
<1>4. ASSUME NEW s, BeginReload(s) PROVE EntryInv'
  BY <1>4 DEF BeginReload, EntryInv
<1>5. CASE SnapshotCommitted
  BY <1>5 DEF SnapshotCommitted, EntryInv
<1>6. CASE ApplySend \/ RollbackSend
  BY <1>6 DEF ApplySend, RollbackSend, EntryInv
<1>a. applied \in Seq(Entry) /\ Len(applied) \in Nat
  BY <1>0 DEF TypesC
<1>7. CASE ApplyRefused
  BY <1>0, <1>a, <1>7, RollbackEntries DEF ApplyRefused, EntryInv
<1> DEFINE entry(g) == [conn |-> cursor, spec |-> before.spec, gen |-> g]
<1>b. ASSUME NEW g \in Nat, phase = "apply"
      PROVE /\ Append(applied, entry(g)) \in Seq(Entry)
            /\ Len(Append(applied, entry(g))) = cursor
            /\ \A i \in DOMAIN Append(applied, entry(g)) : Append(applied, entry(g))[i].conn = i
  <2>1. entry(g) \in Entry /\ entry(g).conn = cursor
    BY <1>0, <1>b DEF TypesC, Session, Entry
  <2>2. Len(applied) = cursor - 1 /\ \A i \in DOMAIN applied : applied[i].conn = i
    BY <1>b DEF EntryInv
  <2> HIDE DEF entry
  <2> QED BY <1>0, <1>a, <2>1, <2>2
<1>8. CASE ApplyFailed
  <2>1. (IF generation = 0 THEN before.gen ELSE generation) \in Nat /\ phase = "apply"
    BY <1>0, <1>8 DEF TypesC, Session, ApplyFailed
  <2>2. PICK entries \in Seq(Entry) : /\ StartRollback(entries)
                                      /\ Len(entries) <= N
                                      /\ \A i \in DOMAIN entries : entries[i].conn = i
    <3>1. CASE StartRollback(applied)
      BY <1>0, <1>a, <2>1, <3>1 DEF EntryInv
    <3> DEFINE late == Append(applied, entry(IF generation = 0 THEN before.gen ELSE generation))
    <3>2. CASE StartRollback(late)
      <4>1. /\ late \in Seq(Entry) /\ Len(late) = cursor
            /\ \A i \in DOMAIN late : late[i].conn = i
        BY <1>b, <2>1
      <4> HIDE DEF late
      <4> QED BY <1>0, <3>2, <4>1
    <3> QED BY <1>8, <3>1, <3>2 DEF ApplyFailed
  <2> QED BY <2>2, RollbackEntries
<1>9. CASE ApplyOK
  <2> DEFINE gen == committed'[cursor].gen
             entries == Append(applied, entry(gen))
  <2>1. gen \in Nat /\ phase = "apply"
    BY <1>0, <1>9 DEF TypesX, TypesC, Session, ApplyOK
  <2>2. /\ entries \in Seq(Entry) /\ Len(entries) = cursor
        /\ \A i \in DOMAIN entries : entries[i].conn = i
    BY <1>b, <2>1
  <2> HIDE DEF entry
  <2>3. \/ /\ cursor' = cursor + 1 /\ step' = "snapshot" /\ applied' = entries /\ phase' = "apply"
        \/ EndReload(next)
        \/ StartRollback(entries)
    BY <1>9 DEF ApplyOK, entry
  <2> HIDE DEF entries, gen
  <2>4. CASE StartRollback(entries)
    BY <1>0, <2>2, <2>4, RollbackEntries
  <2>5. CASE EndReload(next)
    BY <2>5 DEF EndReload, EntryInv
  <2>6. CASE cursor' = cursor + 1 /\ step' = "snapshot" /\ applied' = entries /\ phase' = "apply"
    BY <1>0, <2>2, <2>6 DEF EntryInv
  <2> QED BY <2>3, <2>4, <2>5, <2>6
<1>10. CASE RollbackEnd \/ RollbackImpossible
  <2>1. phase = "rollback" /\ StartRollback(Front)
    BY <1>10 DEF RollbackEnd, RollbackImpossible, RollbackEntryDone, Front
  <2>2. applied # << >> /\ Len(applied) <= N /\ \A i \in DOMAIN applied : applied[i].conn = i
    BY <2>1, ConstantFacts DEF EntryInv
  <2>3. /\ Front \in Seq(Entry) /\ Len(Front) <= N
        /\ \A i \in DOMAIN Front : Front[i].conn = i
    BY <1>0, <1>a, <2>2, FrontFacts
  <2> QED BY <2>1, <2>3, RollbackEntries
<1>11. CASE UNCHANGED vars
  BY <1>1, <1>11 DEF vars
<1> QED BY <1>2, <1>3, <1>4, <1>5, <1>6, <1>7, <1>8, <1>9, <1>10, <1>11
        DEF Next, ConnectionNext, ControlNext, Closes

\* The control thread does not wait once it gives up or moves on.
LEMMA RollbackWaits ==
    ASSUME NEW entries, StartRollback(entries) PROVE step' # "wait" /\ (phase' # "idle" => gone' = gone)
  BY DEF StartRollback, EndReload

LEMMA HoldStep == TypeInv /\ EntryInv /\ HoldInv /\ [Next]_vars => HoldInv'
<1> SUFFICES ASSUME TypeInv, EntryInv, HoldInv, [Next]_vars PROVE HoldInv'
  OBVIOUS
<1>0. /\ link \in [Conn -> {"down", "new", "starting", "up"}]
      /\ applyMu \in [Conn -> {"free", "boot", "reload"}]
      /\ cursor \in Conn
  BY DEF TypeInv, TypeOK
<1> USE DEF clientVars, serverVars, controlVars, historyVars
<1>1. CASE UNCHANGED <<link, applyMu, controlVars>>
  BY <1>1 DEF HoldInv, Current
<1>2. ASSUME NEW c \in Conn, EmitOutput(c) \/ DeliverOutput(c) \/ HandleSession(c) \/ DeliverAck(c)
      PROVE HoldInv'
  BY <1>1, <1>2 DEF EmitOutput, DeliverOutput, HandleSession, DeliverAck
<1>3. ASSUME NEW c \in Conn, Bootstrap(c) \/ Bootstrapped(c) \/ Redial(c) PROVE HoldInv'
  <2>1. UNCHANGED controlVars
    BY <1>3 DEF Bootstrap, Bootstrapped, Redial
  <2>2. Current' = Current
    BY <2>1 DEF Current
  <2>3. CASE Bootstrap(c)
    BY <1>0, <2>1, <2>2, <2>3 DEF Bootstrap, SendRequest, HoldInv
  <2>4. CASE Bootstrapped(c)
    BY <1>0, <2>1, <2>2, <2>4 DEF Bootstrapped, EndExchange, HoldInv
  <2>5. CASE Redial(c)
    BY <1>0, <2>1, <2>2, <2>5 DEF Redial, HoldInv
  <2> QED BY <1>3, <2>3, <2>4, <2>5
<1>4. ASSUME NEW c \in Conn, Closes(c) PROVE HoldInv'
  <2>1. /\ UNCHANGED <<phase, step, cursor, applied>>
        /\ gone' = IF phase = "idle" THEN gone ELSE gone \cup {c}
        /\ link' = [link EXCEPT ![c] = "down"]
        /\ applyMu' = [applyMu EXCEPT ![c] = "free"]
    BY <1>4 DEF Closes, BootstrapFails, Drop, CloseConnection
  <2>2. Current' = Current
    BY <2>1 DEF Current
  <2> QED BY <1>0, <2>1, <2>2 DEF HoldInv
<1>5. ASSUME NEW s, BeginReload(s) PROVE HoldInv'
  BY <1>5 DEF BeginReload, HoldInv
<1>6. CASE SnapshotCommitted
  BY <1>6 DEF SnapshotCommitted, HoldInv
<1>7. CASE ApplySend
  <2>1. Current = cursor /\ Current' = cursor /\ applyMu' = [applyMu EXCEPT ![cursor] = "reload"]
    BY <1>7 DEF ApplySend, Current, SendRequest
  <2> QED BY <1>0, <1>7, <2>1 DEF ApplySend, HoldInv, SendRequest
<1>8. CASE RollbackSend
  <2>1. LastEntry.conn = Len(applied) /\ Len(applied) \in Conn
    BY <1>8, LastEntryType DEF RollbackSend
  <2>2. /\ Current = Len(applied) /\ Current' = Len(applied)
        /\ applyMu' = [applyMu EXCEPT ![Len(applied)] = "reload"]
    BY <1>8, <2>1 DEF RollbackSend, Current, SendRequest
  <2> QED BY <1>0, <1>8, <2>1, <2>2 DEF RollbackSend, HoldInv, SendRequest
\* What ends a wait or never began one leaves applyMu to nobody.
<1>a. ASSUME UNCHANGED link, step' # "wait",
             \A d \in Conn : /\ applyMu[d] = "boot" <=> applyMu'[d] = "boot"
                             /\ applyMu'[d] # "reload"
      PROVE HoldInv'
  BY <1>a DEF HoldInv
<1>b. ASSUME NEW c \in Conn, Current = c, NEW v, EndExchange("reload", c, v)
      PROVE \A d \in Conn : (applyMu[d] = "boot" <=> applyMu'[d] = "boot") /\ applyMu'[d] # "reload"
  BY <1>0, <1>b DEF EndExchange, HoldInv
<1>9. CASE ApplyRefused
  <2>1. UNCHANGED <<link, applyMu>> /\ step' # "wait" /\ Current = cursor
    BY <1>9, RollbackWaits DEF ApplyRefused, Current
  <2>2. \A d \in Conn : applyMu[d] # "reload"
    BY <1>9, <2>1 DEF ApplyRefused, HoldInv
  <2> QED BY <1>a, <2>1, <2>2
<1>10. CASE ApplyFailed
  <2>1. /\ UNCHANGED link /\ step' # "wait" /\ Current = cursor
        /\ \E v : EndExchange("reload", cursor, v)
    BY <1>10, RollbackWaits DEF ApplyFailed, Current
  <2> QED BY <1>0, <1>a, <1>b, <2>1
<1>11. CASE ApplyOK
  <2>1. /\ UNCHANGED link /\ Current = cursor
        /\ \E v : EndExchange("reload", cursor, v)
    BY <1>11 DEF ApplyOK, Current
  <2>2. step' # "wait"
    BY <1>11, RollbackWaits DEF ApplyOK, EndReload
  <2> QED BY <1>0, <1>a, <1>b, <2>1, <2>2
<1>12. CASE RollbackEnd
  <2>1. LastEntry.conn = Len(applied) /\ Len(applied) \in Conn
    BY <1>12, LastEntryType DEF RollbackEnd
  <2>2. /\ UNCHANGED link /\ Current = Len(applied) /\ step' # "wait"
        /\ \E v : EndExchange("reload", Len(applied), v)
    BY <1>12, <2>1, RollbackWaits DEF RollbackEnd, Current, RollbackEntryDone
  <2> QED BY <1>a, <1>b, <2>1, <2>2
<1>13. CASE RollbackImpossible
  <2>1. LastEntry.conn = Len(applied)
    BY <1>13, LastEntryType DEF RollbackImpossible
  <2>2. UNCHANGED <<link, applyMu>> /\ step' # "wait" /\ Current = Len(applied)
    BY <1>13, RollbackWaits DEF RollbackImpossible, Current, RollbackEntryDone
  <2>3. \A d \in Conn : applyMu[d] # "reload"
    BY <1>13, <2>1, <2>2 DEF RollbackImpossible, HoldInv
  <2> QED BY <1>a, <2>2, <2>3
<1>14. CASE UNCHANGED vars
  BY <1>1, <1>14 DEF vars
<1> QED BY <1>2, <1>3, <1>4, <1>5, <1>6, <1>7, <1>8, <1>9, <1>10, <1>11, <1>12, <1>13, <1>14
        DEF Next, ConnectionNext, ControlNext, Closes

-----------------------------------------------------------------------------
(* One exchange at a time. *)

LEMMA OneElement ==
    ASSUME NEW S, NEW q \in Seq(S), Len(q) = 1
    PROVE  q # << >> /\ Head(q) = q[1] /\ Tail(q) = << >> /\ q[1] \in S
<1>1. q # << >> /\ q[1] \in S /\ Head(q) = q[1]
  OBVIOUS
<1>2. Tail(q) \in Seq(S) /\ Len(Tail(q)) = 0
  BY <1>1
<1>3. Tail(q) = << >>
  BY <1>2, EmptySeq
<1> QED BY <1>1, <1>3

Same(d) ==
    /\ committed'[d] = committed[d] /\ applyMu'[d] = applyMu[d] /\ wanted'[d] = wanted[d]
    /\ acks'[d] = acks[d] /\ requests'[d] = requests[d] /\ replies'[d] = replies[d]
    /\ server'[d] = server[d]

LEMMA SameExchange == ASSUME NEW d, Same(d), Exchange(d) PROVE Exchange(d)'
  BY DEF Same, Exchange, Answers

LEMMA SendExchange ==
    ASSUME TypesX, NEW th \in Threads, NEW c \in Conn, NEW g \in Nat, NEW s \in Spec \cup {NoSpec},
           Sends(th, c, RequestFor(g, s)), NEW d \in Conn, Exchange(d)
    PROVE  Exchange(d)' /\ (d # c => Same(d))
<1> DEFINE r == RequestFor(g, s)
<1>0. r \in Request /\ (r.action = "update" => r.gen # 0)
  BY DEF RequestFor, Request
<1> HIDE DEF r
<1>1. /\ applyMu[c] = "free" /\ applyMu' = [applyMu EXCEPT ![c] = th]
      /\ wanted' = [wanted EXCEPT ![c] = r]
      /\ acks' = [acks EXCEPT ![c] = << >>]
      /\ requests' = [requests EXCEPT ![c] = Append(requests[c], r)]
      /\ UNCHANGED <<committed, replies, server>>
  BY DEF Sends, SendRequest, r
<1>2. CASE d # c
  <2>1. Same(d)
    BY <1>1, <1>2 DEF Same, TypesX
  <2> QED BY <1>2, <2>1, SameExchange
<1>3. CASE d = c
  <2>1. requests[c] = << >> /\ replies[c] = << >> /\ committed[c] = server[c]
    BY <1>1, <1>3 DEF Exchange
  <2>2. requests'[c] = <<r>> /\ wanted'[c] = r /\ acks'[c] = << >> /\ applyMu'[c] # "free"
    BY <1>0, <1>1, <2>1 DEF TypesX, Threads
  <2>3. Len(requests'[c]) = 1 /\ requests'[c][1] = r
    BY <2>2
  <2> QED BY <1>0, <1>1, <1>3, <2>1, <2>2, <2>3 DEF Exchange
<1> QED BY <1>2, <1>3

LEMMA EndExchangeExact ==
    ASSUME TypesX, NEW th \in Threads, NEW c \in Conn, NEW v, Ends(th, c, v), timeouts = 0, timeouts' = 0,
           NEW d \in Conn, Exchange(d)
    PROVE  /\ Exchange(d)' /\ (d # c => Same(d))
           /\ d = c => /\ v \in {"ok", "rejected"}
                       /\ requests[c] = << >>
                       /\ applyMu'[c] = "free" /\ server'[c] = server[c]
                       /\ v = "rejected" => committed'[c] = committed[c] /\ acks[c][1].action = "error"
                       /\ v = "ok" => server[c].spec = wanted[c].spec /\ acks[c][1].action = wanted[c].action
                                      /\ server[c].gen = acks[c][1].gen
<1>1. /\ applyMu[c] = th /\ applyMu' = [applyMu EXCEPT ![c] = "free"]
      /\ wanted' = [wanted EXCEPT ![c] = NoRequest]
      /\ acks[c] # << >> /\ acks' = [acks EXCEPT ![c] = Tail(acks[c])]
      /\ v = Verdict(c, Head(acks[c]))
      /\ UNCHANGED <<requests, replies, server>>
  <2>1. timeouts' # timeouts + 1
    OBVIOUS
  <2> QED BY <2>1 DEF Ends, EndExchange
<1>2. committed' = IF v = "ok" THEN [committed EXCEPT ![c] = [gen |-> Head(acks[c]).gen,
                                                             spec |-> wanted[c].spec]]
                   ELSE committed
  BY DEF Ends, EndExchange
<1>3. CASE d # c
  <2>1. Same(d)
    BY <1>1, <1>2, <1>3 DEF Same, TypesX
  <2> QED BY <1>3, <2>1, SameExchange
<1>4. CASE d = c
  <2>1. /\ requests[c] = << >> /\ replies[c] = << >> /\ Len(acks[c]) = 1 /\ Answers(c, acks[c][1])
    BY <1>1, <1>4 DEF Exchange, Threads
  <2>2. Head(acks[c]) = acks[c][1] /\ Tail(acks[c]) = << >> /\ acks[c][1] \in Ack
    <3>1. acks[c] \in Seq(Ack)
      BY DEF TypesX
    <3> QED BY <2>1, <3>1, OneElement
  <2>3. applyMu'[c] = "free" /\ acks'[c] = << >> /\ requests'[c] = << >> /\ replies'[c] = << >>
        /\ server'[c] = server[c]
    BY <1>1, <2>1, <2>2 DEF TypesX
  <2> DEFINE a == acks[c][1]
  <2>4. CASE a.action = "error"
    <3>1. v = "rejected" /\ committed' = committed
      BY <1>1, <1>2, <2>2, <2>4 DEF Verdict
    <3>2. committed[c] = server[c] \/ wanted[c].action = "error"
      BY <2>1, <2>4 DEF Answers
    <3>3. wanted[c].action # "error"
      BY DEF TypesX, Request
    <3> QED BY <1>4, <2>1, <2>3, <2>4, <3>1, <3>2, <3>3 DEF Exchange
  <2>5. CASE a.action # "error"
    <3>1. /\ a.action = wanted[c].action /\ server[c] = [gen |-> a.gen, spec |-> wanted[c].spec]
          /\ a.action = "update" => a.gen = wanted[c].gen
      BY <2>1, <2>5 DEF Answers
    <3>2. v = "ok"
      BY <1>1, <2>2, <2>5, <3>1 DEF Verdict
    <3>3. committed'[c] = server[c]
      BY <1>2, <2>2, <3>1, <3>2 DEF TypesX
    <3> QED BY <1>4, <2>1, <2>3, <2>5, <3>1, <3>2, <3>3 DEF Exchange
  <2> QED BY <2>4, <2>5
<1> QED BY <1>3, <1>4

LEMMA CloseExchange ==
    ASSUME TypesX, NEW c \in Conn, Closes(c), NEW d \in Conn, Exchange(d)
    PROVE  Exchange(d)' /\ (d # c => Same(d))
<1>1. CloseConnection(c)
  BY DEF Closes, BootstrapFails, Drop
<1>2. CASE d # c
  <2>1. Same(d)
    BY <1>1, <1>2 DEF Same, TypesX, CloseConnection
  <2> QED BY <1>2, <2>1, SameExchange
<1>3. CASE d = c
  BY <1>1, <1>3 DEF CloseConnection, TypesX, Exchange
<1> QED BY <1>2, <1>3

LEMMA HandleExchange ==
    ASSUME TypesX, NEW c \in Conn, HandleSession(c), ~resets', NEW d \in Conn, Exchange(d)
    PROVE  /\ Exchange(d)' /\ (d # c => Same(d))
           /\ d = c =>
                /\ requests[c][1] = wanted[c] /\ requests'[c] = << >>
                /\ applyMu[c] # "free" /\ UNCHANGED <<applyMu, wanted, committed, acks>>
                /\ acks[c] = << >> /\ Len(replies'[c]) = 1
                /\ committed[c] = server[c]
                /\ \/ ~Acceptable(c, wanted[c]) /\ server'[c] = server[c]
                   \/ /\ Runs(c, wanted[c].spec)
                      /\ wanted[c].action = "start" <=> server[c].gen = 0
                      /\ server'[c] = [gen |-> IF wanted[c].action = "start" THEN 1 ELSE wanted[c].gen,
                                       spec |-> wanted[c].spec]
                      /\ replies'[c][1].action = wanted[c].action
<1>0. UNCHANGED <<committed, applyMu, wanted, acks>>
  BY DEF HandleSession, clientVars
<1>1. CASE d # c
  <2>1. Same(d)
    BY <1>0, <1>1 DEF Same, TypesX, HandleSession
  <2> QED BY <1>1, <2>1, SameExchange
<1>2. CASE d = c
  <2>1. /\ Len(requests[c]) = 1 /\ requests[c][1] = wanted[c] /\ applyMu[c] # "free"
        /\ replies[c] = << >> /\ acks[c] = << >> /\ committed[c] = server[c]
        /\ wanted[c].action = "update" => wanted[c].gen # 0
    <3>1. requests[c] # << >>
      BY DEF HandleSession
    <3> QED BY <1>2, <3>1 DEF Exchange
  <2>2. Head(requests[c]) = wanted[c] /\ Tail(requests[c]) = << >>
    <3>1. requests[c] \in Seq(Request)
      BY DEF TypesX
    <3> QED BY <2>1, <3>1, OneElement
  <2> DEFINE r == wanted[c]
             gen == IF r.action = "start" THEN 1 ELSE r.gen
             ok == Acceptable(c, r) /\ r.spec \notin Undispatchable
             reset == Acceptable(c, r) /\ r.spec \in Undispatchable
             ack == IF ok THEN [action |-> r.action, gen |-> gen] ELSE [action |-> "error", gen |-> 0]
  <2>3. /\ server'[c] = IF ok THEN [gen |-> gen, spec |-> r.spec]
                        ELSE IF reset THEN NoSession ELSE server[c]
        /\ replies'[c] = Append(replies[c], ack)
        /\ requests'[c] = << >>
    BY <2>2 DEF HandleSession, TypesX
  <2>4. ~reset
    <3>1. resets' = (resets \/ reset)
      BY <2>2 DEF HandleSession
    <3> HIDE DEF reset
    <3> QED BY <3>1, Zenon
  <2>5. Len(replies'[c]) = 1 /\ replies'[c][1] = ack
    <3> HIDE DEF ack
    <3>1. replies'[c] = <<ack>>
      BY <2>1, <2>3
    <3> QED BY <3>1
  <2>6. r.action \in {"start", "update"}
    BY DEF TypesX, Request
  <2>7. CASE ok
    <3>1. ack.action = r.action /\ ack.gen = gen /\ server'[c] = [gen |-> gen, spec |-> r.spec]
      BY <2>3, <2>7
    <3>2. Answers(c, replies[c][1])'
      BY <1>0, <2>5, <2>6, <3>1 DEF Answers
    <3>3. Exchange(c)'
      BY <1>0, <2>1, <2>3, <2>5, <3>2 DEF Exchange
    <3>4. Runs(c, r.spec) /\ (r.action = "start" <=> server[c].gen = 0)
      BY <2>7 DEF Acceptable, Runs
    <3>5. replies'[c][1].action = r.action
      BY <2>5, <3>1
    <3> QED BY <1>0, <1>2, <2>1, <2>3, <2>5, <3>1, <3>3, <3>4, <3>5
  <2>8. CASE ~ok
    <3>1. ack.action = "error" /\ server'[c] = server[c] /\ ~Acceptable(c, r)
      BY <2>3, <2>4, <2>8
    <3>2. Answers(c, replies[c][1])'
      BY <1>0, <2>1, <2>5, <3>1 DEF Answers
    <3>3. Exchange(c)'
      BY <1>0, <2>1, <2>3, <2>5, <3>2 DEF Exchange
    <3> QED BY <1>0, <1>2, <2>1, <2>3, <2>5, <3>1, <3>3
  <2> QED BY <2>7, <2>8
<1> QED BY <1>1, <1>2

LEMMA DeliverExchange ==
    ASSUME TypesX, NEW c \in Conn, DeliverAck(c), NEW d \in Conn, Exchange(d)
    PROVE  /\ Exchange(d)' /\ (d # c => Same(d))
           /\ d = c => Len(replies[c]) = 1 /\ acks'[c] = <<replies[c][1]>> /\ replies'[c] = << >>
                       /\ requests[c] = << >>
<1>0. UNCHANGED <<committed, applyMu, wanted, requests, server>>
  BY DEF DeliverAck
<1>1. CASE d # c
  <2>1. Same(d)
    BY <1>0, <1>1 DEF Same, TypesX, DeliverAck
  <2> QED BY <1>1, <2>1, SameExchange
<1>2. CASE d = c
  <2>1. /\ requests[c] = << >> /\ acks[c] = << >> /\ Len(replies[c]) = 1 /\ Answers(c, replies[c][1])
        /\ applyMu[c] # "free"
        /\ wanted[c].action = "update" => wanted[c].gen # 0
    BY <1>2 DEF Exchange, DeliverAck
  <2>2. Head(replies[c]) = replies[c][1] /\ Tail(replies[c]) = << >> /\ replies[c][1] \in Ack
    <3>1. replies[c] \in Seq(Ack)
      BY DEF TypesX
    <3> QED BY <2>1, <3>1, OneElement
  <2>3. Len(acks[c]) < AckCapacity
    BY <2>1, ConstantFacts
  <2>4. acks'[c] = Append(acks[c], replies[c][1]) /\ replies'[c] = << >>
    BY <2>2, <2>3 DEF DeliverAck, TypesX
  <2>5. acks'[c] = <<replies[c][1]>>
    BY <2>1, <2>2, <2>4
  <2>6. Len(acks'[c]) = 1 /\ acks'[c][1] = replies[c][1]
    BY <2>5
  <2>7. Answers(c, acks[c][1])'
    BY <1>0, <2>1, <2>6 DEF Answers
  <2> QED BY <1>0, <1>2, <2>1, <2>4, <2>5, <2>6, <2>7 DEF Exchange
<1> QED BY <1>1, <1>2

LEMMA ExchangeStep == IInv /\ [Next]_vars => ExchangeInv'
<1> SUFFICES ASSUME IInv, [Next]_vars, Calm', NEW d \in Conn PROVE Exchange(d)'
  BY DEF ExchangeInv
<1>0. TypesX /\ TypeInv /\ EntryInv
  BY TypeFacts DEF IInv
<1>1. timeouts = 0 /\ timeouts' = 0 /\ ~resets /\ ~resets'
  <2>1. timeouts \in Nat
    BY <1>0, TypeFacts
  <2> QED BY <1>0, <2>1, XTyping DEF Calm
<1>2. Exchange(d)
  BY <1>1 DEF IInv, ExchangeInv, Calm
<1>3. CASE Rests
  BY <1>2, <1>3, SameExchange DEF Rests, Same
<1> QED BY <1>0, <1>1, <1>2, <1>3, NextSplit, SendExchange, EndExchangeExact, CloseExchange, HandleExchange,
        DeliverExchange

LEMMA InitInv == Init => IInv
<1> SUFFICES ASSUME Init PROVE IInv
  OBVIOUS
<1>1. TypesX /\ TypesC /\ link \in [Conn -> {"down", "new", "starting", "up"}]
      /\ bootSpec \in [Conn -> Spec]
  BY ConstantFacts DEF Init, TypesX, TypesC
<1>2. output \in [Conn -> Seq(Session)] /\ \A c \in Conn : Len(acks[c]) <= AckCapacity
  BY ConstantFacts DEF Init
<1>3. scenario \in Scenarios /\ MaxReloads \in Nat /\ MaxTimeouts \in Nat /\ MaxDrops \in Nat
  BY ReloadAssumption DEF Init, MaxReloads, MaxTimeouts, MaxDrops
<1>4. reloads \in 0 .. MaxReloads /\ timeouts \in 0 .. MaxTimeouts /\ drops \in 0 .. MaxDrops
  BY <1>3 DEF Init
<1>5. {early, lost, resets, leaked} \subseteq BOOLEAN
  BY Zenon DEF Init
<1>6. TypeInv
  BY <1>1, <1>2, <1>3, <1>4, <1>5 DEF TypeInv, TypeOK, TypesX, TypesC, Entry
<1>7. EntryInv /\ HoldInv
  BY DEF Init, EntryInv, HoldInv
<1>8. ExchangeInv
  BY DEF Init, ExchangeInv, Exchange
<1> QED BY <1>6, <1>7, <1>8 DEF IInv

\* Whatever connections bootstrap, drop and are dialled again under a reload,
\* bootstrap and reload exchange one request at a time with each server.
THEOREM Invariance == ReloadSpec => []IInv
<1>1. IInv /\ [Next]_vars => IInv'
  BY TypeStep, EntryStep, HoldStep, ExchangeStep DEF IInv
<1> QED BY InitInv, <1>1, PTL DEF ReloadSpec

\* A connection's committed session is the session its server is in.
THEOREM CommittedCorrect == ReloadSpec => []CommittedMatchesServer
<1>1. IInv => CommittedMatchesServer
  BY DEF IInv, ExchangeInv, Calm, Exchange, CommittedMatchesServer
<1> QED BY Invariance, <1>1, PTL

-----------------------------------------------------------------------------
(* Generations. *)

\* As long as every entry to roll back has the generation of its connection,
\* every request is for the generation that its connection has committed.
LEMMA GenerationSplit ==
    IInv /\ Calm /\ ReloadInv /\ [Next]_vars =>
        \/ Rests /\ UNCHANGED <<output, leaked>>
        \/ \E th \in Threads, c \in Conn, s \in Spec \cup {NoSpec} :
              Sends(th, c, RequestFor(committed[c].gen, s)) /\ UNCHANGED leaked
        \/ \E th \in Threads, c \in Conn, v \in {"ok", "rejected", "unexpected", "timeout"} :
              Ends(th, c, v) /\ UNCHANGED leaked
        \/ \E c \in Conn : \/ Closes(c) \/ HandleSession(c) \/ DeliverAck(c)
                           \/ EmitOutput(c) \/ DeliverOutput(c)
<1> DEFINE Goal == GenerationSplit!2
<1> SUFFICES ASSUME IInv, Calm, ReloadInv, [Next]_vars PROVE Goal
  OBVIOUS
<1>0. /\ TypeInv /\ EntryInv /\ bootSpec \in [Conn -> Spec] /\ cursor \in Conn
      /\ next \in Spec \cup {NoSpec}
  BY DEF IInv, TypeInv, TypeOK
<1> USE DEF clientVars, serverVars, controlVars, historyVars, Threads
<1>1. CASE UNCHANGED vars
  BY <1>1 DEF vars, Rests
<1>2. ASSUME NEW c \in Conn, Bootstrap(c) PROVE Goal
  BY <1>0, <1>2 DEF Bootstrap, Sends
<1>3. ASSUME NEW c \in Conn, Bootstrapped(c) PROVE Goal
  BY <1>3 DEF Bootstrapped, Ends
<1>4. ASSUME NEW c \in Conn, Redial(c) PROVE Goal
  BY <1>4 DEF Redial, Rests
<1>5. ASSUME NEW s, BeginReload(s) PROVE Goal
  BY <1>5 DEF BeginReload, Rests
<1>6. CASE SnapshotCommitted \/ ApplyRefused \/ RollbackImpossible
  BY <1>6 DEF SnapshotCommitted, ApplyRefused, RollbackImpossible, Rests
<1>7. CASE ApplySend
  BY <1>0, <1>7 DEF ApplySend, Sends
<1>8. CASE ApplyFailed
  BY <1>0, <1>8 DEF ApplyFailed, Ends
<1>9. CASE ApplyOK
  BY <1>0, <1>9 DEF ApplyOK, Ends
<1>10. CASE RollbackSend
  <2>1. /\ LastEntry \in Entry /\ LastEntry.conn = Len(applied) /\ Len(applied) \in Conn
        /\ LastEntry.spec \in Spec \cup {NoSpec} /\ applied \in Seq(Entry)
    BY <1>0, <1>10, LastEntryType, TypeFacts DEF RollbackSend, Entry
  <2>2. Len(applied) \in DOMAIN applied /\ LastEntry = applied[Len(applied)]
    BY <2>1, ConstantFacts DEF LastEntry
  <2>3. LastEntry.gen = committed[Len(applied)].gen
    BY <1>10, <2>1, <2>2 DEF RollbackSend, ReloadInv
  <2> QED BY <1>10, <2>1, <2>3 DEF RollbackSend, Sends
<1>11. CASE RollbackEnd
  <2>1. LastEntry.conn \in Conn
    BY <1>0, <1>11, LastEntryType DEF RollbackEnd
  <2> QED BY <2>1, <1>11 DEF RollbackEnd, Ends
<1>12. ASSUME NEW c \in Conn, Closes(c) \/ HandleSession(c) \/ DeliverAck(c) \/ EmitOutput(c) \/ DeliverOutput(c)
       PROVE Goal
  BY <1>12
<1> HIDE DEF Goal
<1> QED BY <1>1, <1>2, <1>3, <1>4, <1>5, <1>6, <1>7, <1>8, <1>9, <1>10, <1>11, <1>12
        DEF Next, ConnectionNext, ControlNext, Closes

LEMMA CalmStep == IInv /\ [Next]_vars /\ Calm' => /\ Calm /\ timeouts = 0 /\ timeouts' = 0 /\ ~resets'
                                                  /\ TypesX /\ \A c \in Conn : Exchange(c)
<1> SUFFICES ASSUME IInv, [Next]_vars, Calm' PROVE CalmStep!2
  OBVIOUS
<1>1. TypeInv /\ EntryInv /\ timeouts \in Nat /\ TypesX
  BY TypeFacts DEF IInv
<1>2. timeouts = 0 /\ timeouts' = 0 /\ ~resets /\ ~resets'
  BY <1>1, XTyping DEF Calm
<1> QED BY <1>1, <1>2 DEF Calm, IInv, ExchangeInv

Level(c) == Advances(c) /\ Fresh(c)

LEMMA SameLevel ==
    ASSUME NEW d, requests'[d] = requests[d], server'[d] = server[d], output'[d] = output[d], Level(d)
    PROVE  Level(d)'
  BY DEF Level, Advances, Fresh

LEMMA LevelStep ==
    ASSUME IInv, [Next]_vars, Calm', ReloadInv, \A c \in Conn : Level(c), ~leaked
    PROVE  (\A c \in Conn : Level(c)') /\ ~leaked'
<1> DEFINE Goal == (\A c \in Conn : Level(c)') /\ ~leaked'
<1> SUFFICES Goal
  OBVIOUS
<1>0. /\ Calm /\ timeouts = 0 /\ timeouts' = 0 /\ ~resets' /\ TypesX
      /\ \A c \in Conn : Exchange(c)
  BY CalmStep
<1>a. /\ output \in [Conn -> Seq(Session)]
      /\ \A c \in Conn : server[c] \in Session /\ server[c].gen \in Nat /\ committed[c].gen \in Nat
  BY TypeFacts DEF IInv, TypeInv, TypeOK, TypesX
<1>b. ASSUME NEW c \in Conn, output[c] # << >> PROVE Head(output[c]).gen \in Nat
  <2>1. output[c] \in Seq(Session)
    BY <1>a
  <2>2. Head(output[c]) \in Session
    BY <1>b, <2>1
  <2> QED BY <2>2 DEF Session
<1>1. CASE Rests /\ UNCHANGED <<output, leaked>>
  BY <1>1, SameLevel DEF Rests
<1>2. ASSUME NEW th \in Threads, NEW c \in Conn, NEW s \in Spec \cup {NoSpec},
             Sends(th, c, RequestFor(committed[c].gen, s)), UNCHANGED leaked
      PROVE Goal
  <2> DEFINE r == RequestFor(committed[c].gen, s)
  <2>1. applyMu[c] = "free" /\ server' = server /\ output' = output
        /\ requests' = [requests EXCEPT ![c] = Append(requests[c], r)]
    BY <1>2 DEF Sends, SendRequest
  <2>2. requests[c] = << >> /\ committed[c] = server[c]
    BY <1>0, <2>1 DEF Exchange
  <2>3. r.action = "update" => r.gen = server[c].gen + 1
    BY <1>a, <2>2 DEF RequestFor
  <2> HIDE DEF r
  <2>4. requests'[c] = <<r>> /\ \A d \in Conn : d # c => requests'[d] = requests[d]
    BY <1>0, <2>1, <2>2 DEF TypesX
  <2>5. Advances(c)' /\ Fresh(c)'
    <3>1. DOMAIN <<r>> = {1} /\ <<r>>[1] = r
      OBVIOUS
    <3>2. Advances(c)'
      BY <2>1, <2>3, <2>4, <3>1 DEF Advances
    <3>3. Fresh(c)'
      BY <2>1 DEF Fresh, Level
    <3> QED BY <3>2, <3>3
  <2>6. ASSUME NEW d \in Conn, d # c PROVE Level(d)'
    BY <2>1, <2>4, <2>6, SameLevel
  <2> QED BY <1>2, <2>5, <2>6 DEF Level
<1>3. ASSUME NEW th \in Threads, NEW c \in Conn, NEW v, Ends(th, c, v), UNCHANGED leaked PROVE Goal
  BY <1>3, SameLevel DEF Ends
<1>4. ASSUME NEW c \in Conn, Closes(c) PROVE Goal
  <2>1. CloseConnection(c) /\ leaked' = leaked
    BY <1>4 DEF Closes, BootstrapFails, Drop
  <2>2. \A d \in Conn : d # c => /\ requests'[d] = requests[d] /\ server'[d] = server[d]
                                 /\ output'[d] = output[d]
    BY <1>0, <1>a, <2>1 DEF CloseConnection, TypesX
  <2>3. requests'[c] = << >> /\ output'[c] = << >>
    BY <1>0, <1>a, <2>1 DEF CloseConnection, TypesX
  <2>4. Level(c)'
    BY <2>3 DEF Level, Advances, Fresh
  <2> QED BY <2>1, <2>2, <2>4, SameLevel
<1>5. ASSUME NEW c \in Conn, HandleSession(c) PROVE Goal
  <2>1. output' = output /\ leaked' = leaked
    BY <1>5 DEF HandleSession
  <2>2. \A d \in Conn : d # c => Same(d)
    BY <1>0, <1>5, HandleExchange
  <2>3. ASSUME NEW d \in Conn, d # c PROVE Level(d)'
    BY <2>1, <2>2, <2>3, SameLevel DEF Same
  <2>4. /\ requests[c][1] = wanted[c] /\ requests'[c] = << >>
        /\ \/ server'[c] = server[c]
           \/ /\ wanted[c].action = "start" <=> server[c].gen = 0
              /\ server'[c] = [gen |-> IF wanted[c].action = "start" THEN 1 ELSE wanted[c].gen,
                               spec |-> wanted[c].spec]
    BY <1>0, <1>5, HandleExchange
  <2>5. 1 \in DOMAIN requests[c]
    <3>1. requests[c] # << >> /\ requests[c] \in Seq(Request)
      BY <1>0, <1>5 DEF HandleSession, TypesX
    <3> QED BY <3>1
  <2>6. wanted[c].action = "update" => wanted[c].gen = server[c].gen + 1
    BY <2>4, <2>5 DEF Level, Advances
  <2>7. wanted[c].action \in {"start", "update"}
    BY <1>0 DEF TypesX, Request
  <2>8. output[c] # << >> => Head(output[c]).gen \in Nat
    BY <1>b
  <2>9. Fresh(c)'
    <3>1. CASE server'[c] = server[c]
      BY <2>1, <3>1 DEF Level, Fresh
    <3>2. CASE wanted[c].action = "start" /\ server[c].gen = 0
      <4>1. output[c] = << >>
        BY <2>8, <3>2 DEF Level, Fresh
      <4> QED BY <2>1, <4>1 DEF Fresh
    <3>3. CASE wanted[c].action = "update" /\ server'[c].gen = server[c].gen + 1
      <4>1. output[c] # << >> => /\ Head(output[c]).gen # 0
                                 /\ Head(output[c]).gen <= server[c].gen
        BY DEF Level, Fresh
      <4>2. output[c] # << >> => Head(output[c]).gen <= server'[c].gen /\ Head(output[c]).gen # server'[c].gen
        BY <1>a, <2>8, <3>3, <4>1
      <4> QED BY <2>1, <4>1, <4>2 DEF Fresh
    <3> QED BY <2>4, <2>6, <2>7, <3>1, <3>2, <3>3
  <2>10. Advances(c)'
    BY <2>4 DEF Advances
  <2> QED BY <2>1, <2>3, <2>9, <2>10 DEF Level
<1>6. ASSUME NEW c \in Conn, DeliverAck(c) PROVE Goal
  BY <1>6, SameLevel DEF DeliverAck, historyVars
<1>7. ASSUME NEW c \in Conn, EmitOutput(c) PROVE Goal
  <2>1. /\ server[c].gen # 0 /\ UNCHANGED <<requests, server, leaked>>
        /\ output' = [output EXCEPT ![c] = <<server[c]>>]
    BY <1>7 DEF EmitOutput, historyVars
  <2>2. output'[c] = <<server[c]>> /\ \A d \in Conn : d # c => output'[d] = output[d]
    BY <1>a, <2>1
  <2>3. Head(<<server[c]>>) = server[c]
    OBVIOUS
  <2>4. Level(c)'
    BY <1>a, <2>1, <2>2, <2>3 DEF Level, Advances, Fresh
  <2> QED BY <2>1, <2>2, <2>4, SameLevel
<1>8. ASSUME NEW c \in Conn, DeliverOutput(c) PROVE Goal
  <2>1. /\ output[c] # << >> /\ UNCHANGED <<requests, server>>
        /\ output' = [output EXCEPT ![c] = << >>]
    BY <1>8 DEF DeliverOutput
  <2>2. output'[c] = << >> /\ \A d \in Conn : d # c => output'[d] = output[d]
    BY <1>a, <2>1
  <2>3. Level(c)'
    BY <2>1, <2>2 DEF Level, Advances, Fresh
  <2>4. Head(output[c]).gen \in Nat
    BY <1>b, <2>1
  <2>5. ~(~ShouldDropGeneration(c, Head(output[c]).gen) /\ Head(output[c]).spec # server[c].spec)
    BY <1>a, <2>1, <2>4 DEF ShouldDropGeneration, Level, Fresh
  <2>6. leaked' = (leaked \/ (~ShouldDropGeneration(c, Head(output[c]).gen) /\ Head(output[c]).spec # server[c].spec))
    BY <1>8 DEF DeliverOutput
  <2>7. ~leaked'
    BY <2>5, <2>6, Zenon
  <2> QED BY <2>1, <2>2, <2>3, <2>7, SameLevel
<1> HIDE DEF Goal
<1> QED BY <1>0, <1>1, <1>2, <1>3, <1>4, <1>5, <1>6, <1>7, <1>8, GenerationSplit

\* An entry keeps the generation of its connection.
LEMMA ReloadStep ==
    ASSUME IInv, [Next]_vars, Calm', ~early', ReloadInv PROVE ReloadInv'
<1>0. /\ Calm /\ timeouts = 0 /\ timeouts' = 0 /\ TypesX /\ TypesC /\ TypesX'
      /\ \A c \in Conn : Exchange(c)
      /\ EntryInv /\ HoldInv /\ TypeInv
      /\ link \in [Conn -> {"down", "new", "starting", "up"}]
  BY CalmStep, ControlTypes, XTyping DEF IInv, TypeInv, TypeOK
<1> USE DEF clientVars, serverVars, controlVars, historyVars
<1>b. \A i \in DOMAIN applied : i \in Conn
  <2>1. applied \in Seq(Entry) /\ \A i \in DOMAIN applied : applied[i].conn = i
    BY <1>0 DEF EntryInv, TypesC
  <2>2. \A i \in DOMAIN applied : applied[i] \in Entry
    BY <2>1
  <2> QED BY <2>1, <2>2 DEF Entry
<1>1. CASE UNCHANGED <<phase, gone, link, applied, committed>>
  BY <1>1 DEF ReloadInv
<1>2. ASSUME NEW c \in Conn, EmitOutput(c) \/ DeliverOutput(c) \/ HandleSession(c) \/ DeliverAck(c)
      PROVE ReloadInv'
  BY <1>1, <1>2 DEF EmitOutput, DeliverOutput, HandleSession, DeliverAck
<1>3. CASE SnapshotCommitted \/ ApplySend \/ RollbackSend
  BY <1>1, <1>3 DEF SnapshotCommitted, ApplySend, RollbackSend
\* The goroutine of a connection is at work only on a connection that is not up.
<1>4. ASSUME NEW c \in Conn, Bootstrap(c) \/ Bootstrapped(c) \/ Redial(c) PROVE ReloadInv'
  <2>1. UNCHANGED <<phase, gone, applied>> /\ link[c] # "up"
    BY <1>4 DEF Bootstrap, Bootstrapped, Redial
  <2>2. \A d \in Conn : d # c => link'[d] = link[d] /\ committed'[d] = committed[d]
    BY <1>0, <1>4 DEF Bootstrap, Bootstrapped, Redial, EndExchange, TypesX
  <2>3. phase # "idle" => c \in gone
    BY <2>1 DEF ReloadInv
  <2> QED BY <1>b, <2>1, <2>2, <2>3 DEF ReloadInv
<1>5. ASSUME NEW c \in Conn, Closes(c) PROVE ReloadInv'
  <2>1. UNCHANGED <<phase, applied>> /\ CloseConnection(c)
    BY <1>5 DEF Closes, BootstrapFails, Drop
  <2>2. \A d \in Conn : d # c => link'[d] = link[d] /\ committed'[d] = committed[d]
    BY <1>0, <2>1 DEF CloseConnection, TypesX
  <2>3. gone' = IF phase = "idle" THEN gone ELSE gone \cup {c}
    BY <2>1 DEF CloseConnection
  <2> QED BY <1>b, <2>1, <2>2, <2>3 DEF ReloadInv
<1>6. ASSUME NEW s, BeginReload(s) PROVE ReloadInv'
  <2>1. early' = (early \/ \E c \in Conn : link[c] # "up") /\ applied' = << >> /\ link' = link
    BY <1>6 DEF BeginReload
  <2>2. \A c \in Conn : link[c] = "up"
    BY <2>1, Zenon
  <2> QED BY <2>1, <2>2 DEF ReloadInv
\* A rollback begins, goes on or ends.
<1>a. ASSUME NEW entries, StartRollback(entries), UNCHANGED link, phase # "idle",
             \A i \in DOMAIN entries : i \notin gone => entries[i].gen = committed'[i].gen
      PROVE ReloadInv'
  <2>1. CASE entries = << >>
    BY <1>a, <2>1 DEF StartRollback, EndReload, ReloadInv
  <2>2. CASE entries # << >>
    BY <1>a, <2>2 DEF StartRollback, ReloadInv
  <2> QED BY <2>1, <2>2
\* The exchange of the control thread ends.
<1>c. ASSUME NEW c \in Conn, NEW v, EndExchange("reload", c, v), UNCHANGED <<serverVars, resets>>
      PROVE /\ v \in {"ok", "rejected"}
            /\ v = "rejected" => committed'[c] = committed[c]
            /\ \A d \in Conn : d # c => committed'[d] = committed[d]
  <2>1. Ends("reload", c, v) /\ "reload" \in Threads
    BY <1>c DEF Ends, Threads
  <2> QED BY <1>0, <2>1, EndExchangeExact DEF Same
<1>7. CASE ApplyRefused
  <2>1. StartRollback(applied) /\ UNCHANGED <<link, committed>> /\ phase # "idle"
    BY <1>7 DEF ApplyRefused
  <2> QED BY <1>a, <2>1 DEF ReloadInv
<1>8. CASE ApplyFailed
  <2>1. cursor \in Conn /\ cursor \notin DOMAIN applied /\ phase = "apply"
    BY <1>0, <1>8, ConstantFacts DEF ApplyFailed, EntryInv, TypesC
  <2>2. PICK v \in {"rejected", "unexpected", "timeout"} :
            /\ EndExchange("reload", cursor, v)
            /\ v = "rejected" => StartRollback(applied)
    BY <1>8 DEF ApplyFailed
  <2>3. UNCHANGED <<link, serverVars, resets>>
    BY <1>8 DEF ApplyFailed
  <2>4. v = "rejected" /\ \A d \in Conn : committed'[d] = committed[d]
    BY <1>c, <2>1, <2>2, <2>3
  <2> QED BY <1>a, <1>b, <2>1, <2>2, <2>3, <2>4 DEF ReloadInv
<1>9. CASE ApplyOK
  <2> DEFINE gen == committed'[cursor].gen
             entry == [conn |-> cursor, spec |-> before.spec, gen |-> gen]
             entries == Append(applied, entry)
  <2>1. /\ cursor \in Conn /\ phase = "apply" /\ applied \in Seq(Entry) /\ Len(applied) = cursor - 1
        /\ cursor \in Nat
    BY <1>0, <1>9, ConstantFacts DEF ApplyOK, EntryInv, TypesC
  <2>2. EndExchange("reload", cursor, "ok") /\ UNCHANGED <<link, serverVars, resets>>
    BY <1>9 DEF ApplyOK
  <2>3. \A d \in Conn : d # cursor => committed'[d] = committed[d]
    BY <1>c, <2>1, <2>2
  <2>4. \/ phase' = phase /\ gone' = gone /\ applied' = entries
        \/ EndReload(next)
        \/ StartRollback(entries)
    BY <1>9 DEF ApplyOK
  <2>5. entry.gen = gen
    OBVIOUS
  <2> HIDE DEF entry
  <2>6. \A i \in DOMAIN entries : \/ i = cursor /\ entries[i] = entry
                                  \/ i \in DOMAIN applied /\ i # cursor /\ entries[i] = applied[i]
    BY <2>1
  <2> HIDE DEF entries
  <2>7. \A i \in DOMAIN entries : i \notin gone => entries[i].gen = committed'[i].gen
    BY <1>b, <2>1, <2>3, <2>5, <2>6 DEF ReloadInv
  <2>8. CASE phase' = phase /\ gone' = gone /\ applied' = entries
    BY <2>1, <2>2, <2>7, <2>8 DEF ReloadInv
  <2>9. CASE EndReload(next)
    BY <2>9 DEF EndReload, ReloadInv
  <2>10. CASE StartRollback(entries)
    BY <1>a, <2>1, <2>2, <2>7, <2>10
  <2> QED BY <2>4, <2>8, <2>9, <2>10
<1>10. CASE RollbackEnd
  <2>1. /\ phase = "rollback" /\ StartRollback(Front) /\ UNCHANGED <<link, serverVars, resets>>
        /\ LastEntry.conn = Len(applied) /\ Len(applied) \in Conn /\ applied \in Seq(Entry)
        /\ applied # << >>
    BY <1>0, <1>10, LastEntryType, ConstantFacts DEF RollbackEnd, RollbackEntryDone, Front, TypesC
  <2>2. PICK v : EndExchange("reload", Len(applied), v)
    BY <1>10, <2>1 DEF RollbackEnd
  <2>3. \A d \in Conn : d # Len(applied) => committed'[d] = committed[d]
    BY <1>c, <2>1, <2>2
  <2>4. \A i \in DOMAIN Front : i \in DOMAIN applied /\ i # Len(applied) /\ Front[i] = applied[i]
    BY <2>1, FrontFacts
  <2>5. \A i \in DOMAIN Front : i \notin gone => Front[i].gen = committed'[i].gen
    BY <1>b, <2>1, <2>3, <2>4 DEF ReloadInv
  <2> QED BY <1>a, <2>1, <2>5
<1>11. CASE RollbackImpossible
  <2>1. /\ phase = "rollback" /\ StartRollback(Front) /\ UNCHANGED <<link, committed>>
        /\ Len(applied) \in Conn /\ applied \in Seq(Entry) /\ applied # << >>
    BY <1>0, <1>11, LastEntryType, ConstantFacts
       DEF RollbackImpossible, RollbackEntryDone, Front, TypesC
  <2>2. \A i \in DOMAIN Front : i \in DOMAIN applied /\ Front[i] = applied[i]
    BY <2>1, FrontFacts
  <2> QED BY <1>a, <2>1, <2>2 DEF ReloadInv
<1>12. CASE UNCHANGED vars
  BY <1>1, <1>12 DEF vars
<1> QED BY <1>2, <1>3, <1>4, <1>5, <1>6, <1>7, <1>8, <1>9, <1>10, <1>11, <1>12
        DEF Next, ConnectionNext, ControlNext, Closes

LEMMA FlagTypes == TypeInv => TypesB
  BY Zenon DEF TypeInv, TypeOK, TypesB

LEMMA GenerationStep == IInv /\ GenerationInv /\ [Next]_vars => GenerationInv'
<1> SUFFICES ASSUME IInv, GenerationInv, [Next]_vars, Calm', ~early'
             PROVE  ReloadInv' /\ (\A c \in Conn : Level(c)') /\ ~leaked'
  BY DEF GenerationInv, Level
<1>1. Calm /\ ~early
  BY CalmStep, FlagTypes, FlagTyping DEF IInv
<1>2. ReloadInv /\ (\A c \in Conn : Level(c)) /\ ~leaked
  BY <1>1 DEF GenerationInv, Level
<1>3. ReloadInv'
  BY <1>2, ReloadStep
<1>4. (\A c \in Conn : Level(c)') /\ ~leaked'
  BY <1>2, LevelStep
<1> QED BY <1>3, <1>4

\* Until an acknowledgement times out, a dispatch fails or a reload comes
\* before a bootstrap, the generations of a server only move on.
THEOREM GenerationInvariance == ReloadSpec => []GenerationInv
<1>1. Init => GenerationInv
  BY DEF Init, GenerationInv, ReloadInv, Advances, Fresh
<1> QED BY Invariance, <1>1, GenerationStep, PTL DEF ReloadSpec

\* Output of a replaced workload never reaches the client.
THEOREM StaleCorrect == ReloadSpec => []StaleOutputDropped
<1>1. IInv /\ GenerationInv => StaleOutputDropped
  <2>1. IInv => timeouts \in Nat
    BY TypeFacts DEF IInv
  <2> QED BY <2>1 DEF GenerationInv, Calm, StaleOutputDropped
<1> QED BY Invariance, GenerationInvariance, <1>1, PTL

-----------------------------------------------------------------------------
(* Workloads. *)

LEMMA ServerStep == IInv /\ ServerInv /\ [Next]_vars => ServerInv'
<1> DEFINE Sound(c) == IF server[c].gen = 0 THEN server[c].spec = NoSpec ELSE Runs(c, server[c].spec)
<1> SUFFICES ASSUME IInv, ServerInv, [Next]_vars, Calm', NEW d \in Conn PROVE Sound(d)'
  BY DEF ServerInv
<1>0. /\ Calm /\ timeouts = 0 /\ timeouts' = 0 /\ ~resets' /\ TypesX
      /\ \A c \in Conn : Exchange(c)
      /\ TypeInv /\ EntryInv
  BY CalmStep DEF IInv
<1>1. scenario' = scenario
  BY <1>0, LinkTyping
<1>2. Sound(d)
  BY <1>0 DEF ServerInv
<1>3. CASE server'[d] = server[d]
  BY <1>1, <1>2, <1>3 DEF Runs, Invalid, Undispatchable
<1>4. CASE Rests
  BY <1>3, <1>4 DEF Rests
<1>5. ASSUME NEW th, NEW c, NEW r, Sends(th, c, r) PROVE Sound(d)'
  BY <1>3, <1>5 DEF Sends
<1>6. ASSUME NEW th, NEW c, NEW v, Ends(th, c, v) PROVE Sound(d)'
  BY <1>3, <1>6 DEF Ends
<1>7. ASSUME NEW c \in Conn, Closes(c) PROVE Sound(d)'
  <2>1. server' = [server EXCEPT ![c] = NoSession]
    BY <1>7 DEF Closes, BootstrapFails, Drop, CloseConnection
  <2>2. CASE c = d
    <3>1. server'[d] = NoSession
      BY <1>0, <2>1, <2>2 DEF TypesX
    <3> QED BY <3>1 DEF NoSession
  <2> QED BY <1>0, <1>3, <2>1, <2>2 DEF TypesX
<1>8. ASSUME NEW c \in Conn, DeliverAck(c) PROVE Sound(d)'
  BY <1>3, <1>8 DEF DeliverAck
<1>9. ASSUME NEW c \in Conn, HandleSession(c) PROVE Sound(d)'
  <2>1. CASE c # d
    BY <1>0, <1>3, <1>9, <2>1, HandleExchange DEF Same
  <2>2. CASE c = d /\ server'[d] # server[d]
    <3>1. /\ Runs(d, wanted[d].spec)
          /\ server'[d] = [gen |-> IF wanted[d].action = "start" THEN 1 ELSE wanted[d].gen,
                           spec |-> wanted[d].spec]
          /\ applyMu[d] # "free"
      BY <1>0, <1>9, <2>2, HandleExchange
    <3>2. wanted[d].action \in {"start", "update"} /\ (wanted[d].action = "update" => wanted[d].gen # 0)
      BY <1>0, <3>1 DEF Exchange, TypesX, Request
    <3>3. server'[d].gen # 0 /\ server'[d].spec = wanted[d].spec
      BY <3>1, <3>2
    <3> QED BY <1>1, <3>1, <3>3 DEF Runs, Invalid, Undispatchable
  <2> QED BY <1>3, <2>1, <2>2
<1> HIDE DEF Sound
<1> QED BY <1>0, <1>4, <1>5, <1>6, <1>7, <1>8, <1>9, NextSplit

\* During a reload that no connection is lost in, all connections are up and
\* only the one at hand exchanges anything.
LEMMA Reloading ==
    ASSUME IInv, Calm, ReloadInv, Whole, phase # "idle"
    PROVE  /\ gone = {}
           /\ \A c \in Conn : link[c] = "up"
           /\ \A c \in Conn : /\ applyMu[c] \in {"free", "reload"}
                              /\ applyMu[c] = "reload" => c = Current /\ step = "wait"
                              /\ applyMu[c] = "free" => committed[c] = server[c]
           /\ \A i \in DOMAIN applied : i \in Conn
<1>1. gone = {}
  BY DEF Whole, ActiveInv
<1>2. \A c \in Conn : link[c] = "up"
  BY <1>1 DEF ReloadInv
<1>3. applyMu \in [Conn -> {"free", "boot", "reload"}]
  BY TypeFacts DEF IInv, TypesX
<1>4. ASSUME NEW c \in Conn
      PROVE  /\ applyMu[c] \in {"free", "reload"}
             /\ applyMu[c] = "reload" => c = Current /\ step = "wait"
             /\ applyMu[c] = "free" => committed[c] = server[c]
  BY <1>2, <1>3 DEF IInv, HoldInv, ExchangeInv, Exchange
<1>5. \A i \in DOMAIN applied : i \in Conn
  <2>1. applied \in Seq(Entry) /\ \A i \in DOMAIN applied : applied[i].conn = i
    BY TypeFacts DEF EntryInv, IInv
  <2>2. \A i \in DOMAIN applied : applied[i] \in Entry
    BY <2>1
  <2> QED BY <2>1, <2>2 DEF Entry
<1> QED BY <1>1, <1>2, <1>4, <1>5

\* A rollback begins, goes on or ends: what is beyond the entries runs prev.
LEMMA RollbackWhole ==
    ASSUME NEW entries \in Seq(Entry), StartRollback(entries),
           gone = {}, \A c \in Conn : link[c] = "up", UNCHANGED <<link, scenario>>,
           \A i \in DOMAIN entries : entries[i].spec = prev,
           \A c \in Conn : /\ committed'[c].gen # 0 /\ Runs(c, prev)
                           /\ c > Len(entries) => committed'[c].spec = prev
    PROVE  Whole'
<1>1. CASE entries = << >>
  <2>1. Len(entries) = 0
    BY <1>1
  <2>2. phase' = "idle" /\ stored' = prev
    BY <1>1 DEF StartRollback, EndReload
  <2>3. \A c \in Conn : c > Len(entries)
    BY <2>1, ConstantFacts
  <2> QED BY <2>2, <2>3 DEF Whole, IdleInv, ActiveInv, ApplyInv, RollbackInv
<1>2. CASE entries # << >>
  <2>1. phase' = "rollback" /\ step' = "lock" /\ applied' = entries /\ prev' = prev /\ gone' = gone
    BY <1>2 DEF StartRollback
  <2>2. ASSUME NEW c \in Conn PROVE Runs(c, prev)'
    BY <2>1 DEF Runs, Invalid, Undispatchable
  <2> QED BY <2>1, <2>2 DEF Whole, IdleInv, ActiveInv, ApplyInv, RollbackInv
<1> QED BY <1>1, <1>2

\* What Whole depends on.
Observed == <<stored, link, bootSpec, committed, wanted, controlVars, replies, acks, scenario>>

LEMMA WholeUnchanged == Whole /\ UNCHANGED Observed => Whole'
<1> SUFFICES ASSUME Whole, UNCHANGED Observed PROVE Whole'
  OBVIOUS
<1> USE DEF Observed, controlVars, Whole
<1>1. IdleInv'
  BY DEF IdleInv
<1>2. ActiveInv'
  BY DEF ActiveInv, Runs, Invalid, Undispatchable
<1>3. ApplyInv'
  BY DEF ApplyInv
<1>4. RollbackInv'
  BY DEF RollbackInv
<1> QED BY <1>1, <1>2, <1>3, <1>4

\* The steps of the goroutines, of connections that end, and of a reload that
\* begins.
LEMMA LinkWhole ==
    ASSUME IInv, [Next]_vars, Calm', ~early', ~lost', ReloadInv, ServerInv, Whole, NEW c \in Conn,
           Bootstrap(c) \/ Bootstrapped(c) \/ Redial(c) \/ Closes(c)
    PROVE  Whole'
<1> USE DEF clientVars, controlVars, serverVars, historyVars
<1>0. /\ Calm /\ timeouts = 0 /\ timeouts' = 0 /\ TypesX
      /\ \A d \in Conn : Exchange(d)
      /\ link \in [Conn -> {"down", "new", "starting", "up"}] /\ bootSpec \in [Conn -> Spec]
      /\ stored \in Spec
  BY CalmStep DEF IInv, TypeInv, TypeOK
<1>1. phase = "idle"
  <2>1. CASE Closes(c)
    <3>1. lost' = (lost \/ phase # "idle")
      BY <2>1 DEF Closes, BootstrapFails, Drop, CloseConnection
    <3> QED BY <3>1, Zenon
  <2>2. CASE link[c] # "up"
    BY <1>0, <2>2, Reloading
  <2> QED BY <2>1, <2>2 DEF Bootstrap, Bootstrapped, Redial
<1>2. IdleInv
  BY DEF Whole
<1>3. phase' = "idle" /\ stored' = stored
  BY <1>1 DEF Bootstrap, Bootstrapped, Redial, Closes, BootstrapFails, Drop
<1> SUFFICES IdleInv'
  BY <1>3 DEF Whole, ActiveInv, ApplyInv, RollbackInv
<1>4. CASE Bootstrap(c)
  <2>1. /\ wanted' = [wanted EXCEPT ![c] = RequestFor(committed[c].gen, bootSpec[c])]
        /\ link' = [link EXCEPT ![c] = "starting"] /\ link[c] = "new"
        /\ UNCHANGED <<bootSpec, committed>>
    BY <1>4 DEF Bootstrap, SendRequest
  <2>2. wanted'[c].spec = stored
    BY <1>0, <1>1, <1>2, <2>1 DEF TypesX, RequestFor, IdleInv
  <2> QED BY <1>0, <1>1, <1>2, <1>3, <2>1, <2>2 DEF TypesX, IdleInv
<1>5. CASE Bootstrapped(c)
  <2>1. /\ link' = [link EXCEPT ![c] = "up"] /\ link[c] = "starting" /\ UNCHANGED bootSpec
        /\ Ends("boot", c, "ok") /\ "boot" \in Threads
    BY <1>5 DEF Bootstrapped, Ends, Threads
  <2>2. /\ \A d \in Conn : d # c => Same(d)
        /\ Exchange(c)' /\ applyMu'[c] = "free" /\ server'[c] = server[c]
        /\ server[c].spec = wanted[c].spec
    BY <1>0, <2>1, EndExchangeExact
  <2>3. wanted[c].spec = stored
    BY <1>1, <1>2, <2>1 DEF IdleInv
  <2>4. committed'[c] = server[c]
    BY <2>2 DEF Exchange
  <2>5. server[c].gen # 0
    BY <1>0, <2>2, <2>3, ConstantFacts DEF ServerInv
  <2>6. ASSUME NEW d \in Conn, d # c
        PROVE  link'[d] = link[d] /\ wanted'[d] = wanted[d] /\ committed'[d] = committed[d]
    BY <1>0, <2>1, <2>2, <2>6 DEF Same
  <2>7. link'[c] = "up"
    BY <1>0, <2>1
  <2> QED BY <1>1, <1>2, <1>3, <2>1, <2>2, <2>3, <2>4, <2>5, <2>6, <2>7 DEF IdleInv
<1>6. CASE Redial(c)
  BY <1>0, <1>1, <1>2, <1>3, <1>6 DEF Redial, IdleInv
<1>7. CASE Closes(c)
  <2>1. /\ link' = [link EXCEPT ![c] = "down"] /\ UNCHANGED bootSpec
        /\ wanted' = [wanted EXCEPT ![c] = NoRequest]
        /\ committed' = [committed EXCEPT ![c] = NoSession]
    BY <1>7 DEF Closes, BootstrapFails, Drop, CloseConnection
  <2> QED BY <1>0, <1>1, <1>2, <1>3, <2>1 DEF IdleInv, TypesX
<1> QED BY <1>4, <1>5, <1>6, <1>7

LEMMA BeginWhole ==
    ASSUME IInv, [Next]_vars, Calm', ~early', ServerInv, Whole, NEW s \in Requested, BeginReload(s)
    PROVE  Whole'
<1>1. early' = (early \/ \E c \in Conn : link[c] # "up")
  BY DEF BeginReload
<1>2. \A c \in Conn : link[c] = "up"
  BY <1>1, Zenon
<1>3. /\ phase = "idle" /\ phase' = "apply" /\ step' = "snapshot" /\ prev' = stored /\ next' = s
      /\ cursor' = 1 /\ applied' = << >> /\ gone' = {} /\ UNCHANGED <<committed, stored, scenario>>
  BY <1>2 DEF BeginReload, clientVars
<1>4. Calm /\ (\A c \in Conn : Exchange(c)) /\ TypesX /\ HoldInv
  BY CalmStep DEF IInv
<1>5. ASSUME NEW c \in Conn
      PROVE committed[c].gen # 0 /\ committed[c].spec = stored /\ Runs(c, stored)
  <2>1. committed[c].gen # 0 /\ committed[c].spec = stored
    BY <1>2, <1>3 DEF Whole, IdleInv
  <2>2. applyMu[c] = "free"
    BY <1>2, <1>3, <1>4 DEF HoldInv, TypesX
  <2>3. committed[c] = server[c]
    BY <1>4, <2>2 DEF Exchange
  <2> QED BY <1>4, <2>1, <2>3 DEF ServerInv
<1>6. ASSUME NEW c \in Conn PROVE Runs(c, prev)'
  BY <1>3, <1>5 DEF Runs, Invalid, Undispatchable
<1>7. \A c \in Conn : ~(c < 1)
  BY ConstantFacts
<1>8. ActiveInv'
  BY <1>3, <1>5, <1>6 DEF ActiveInv
<1>9. ApplyInv'
  BY <1>3, <1>5, <1>7 DEF ApplyInv
<1> QED BY <1>3, <1>8, <1>9 DEF Whole, IdleInv, RollbackInv

\* The steps of the control thread while it applies the new workload.
LEMMA ApplyWhole ==
    ASSUME IInv, [Next]_vars, Calm', ReloadInv, ServerInv, Whole,
           SnapshotCommitted \/ ApplySend \/ ApplyRefused \/ ApplyFailed \/ ApplyOK
    PROVE  Whole'
<1> USE DEF clientVars, controlVars, serverVars, historyVars
<1>0. /\ Calm /\ timeouts = 0 /\ timeouts' = 0 /\ TypesX
      /\ \A c \in Conn : Exchange(c)
      /\ TypesC /\ EntryInv /\ TypeInv
  BY CalmStep, ControlTypes DEF IInv
<1>1. phase = "apply" /\ scenario' = scenario /\ link' = link
  BY DEF SnapshotCommitted, ApplySend, ApplyRefused, ApplyFailed, ApplyOK
<1>2. /\ gone = {} /\ \A c \in Conn : link[c] = "up"
  BY <1>0, <1>1, Reloading
<1>3. /\ \A c \in Conn : committed[c].gen # 0 /\ Runs(c, prev)
      /\ \A i \in DOMAIN applied : applied[i].spec = prev
      /\ prev = stored
      /\ \A c \in Conn : committed[c].spec = IF c < cursor THEN next ELSE prev
      /\ step # "snapshot" => before = committed[cursor]
      /\ step = "wait" => wanted[cursor].spec = next
  BY <1>1 DEF Whole, ActiveInv, ApplyInv
<1>4. /\ applied \in Seq(Entry) /\ Len(applied) = cursor - 1 /\ cursor \in Conn /\ cursor \in Nat
      /\ N \in Nat /\ next \in Spec /\ \A c \in Conn : c \in Nat /\ c <= N
  BY <1>0, <1>1, ConstantFacts DEF TypesC, EntryInv
<1>5. CASE SnapshotCommitted \/ ApplySend
  <2>1. UNCHANGED <<stored, committed, phase, next, prev, cursor, applied, gone, scenario>>
    BY <1>5 DEF SnapshotCommitted, ApplySend
  <2>2. ASSUME NEW c \in Conn PROVE Runs(c, prev)'
    BY <1>3, <2>1 DEF Runs, Invalid, Undispatchable
  <2>3. ActiveInv'
    BY <1>2, <1>3, <2>1, <2>2 DEF ActiveInv
  <2>4. step' # "snapshot" => before' = committed[cursor]
    BY <1>3, <1>5 DEF SnapshotCommitted, ApplySend
  <2>5. step' = "wait" => wanted'[cursor].spec = next
    BY <1>0, <1>4, <1>5 DEF SnapshotCommitted, ApplySend, SendRequest, TypesX, RequestFor
  <2>6. ApplyInv'
    BY <1>3, <2>1, <2>4, <2>5 DEF ApplyInv
  <2> QED BY <1>1, <2>1, <2>3, <2>6 DEF Whole, IdleInv, RollbackInv
<1>6. ASSUME StartRollback(applied), \A c \in Conn : committed'[c] = committed[c] PROVE Whole'
  <2>1. \A c \in Conn : c > Len(applied) => committed'[c].spec = prev
    BY <1>3, <1>4, <1>6
  <2> QED BY <1>1, <1>2, <1>3, <1>4, <1>6, <2>1, RollbackWhole
<1>7. CASE ApplyRefused
  BY <1>6, <1>7 DEF ApplyRefused
<1>8. CASE ApplyFailed
  <2>1. PICK v \in {"rejected", "unexpected", "timeout"} :
            /\ EndExchange("reload", cursor, v)
            /\ v = "rejected" => StartRollback(applied)
    BY <1>8 DEF ApplyFailed
  <2>2. Ends("reload", cursor, v) /\ "reload" \in Threads
    BY <1>8, <2>1 DEF Ends, Threads, ApplyFailed
  <2>3. v = "rejected" /\ \A d \in Conn : committed'[d] = committed[d]
    BY <1>0, <1>4, <2>2, EndExchangeExact DEF Same
  <2> QED BY <1>6, <2>1, <2>3
<1>9. CASE ApplyOK
  <2> DEFINE entry == [conn |-> cursor, spec |-> before.spec, gen |-> committed'[cursor].gen]
             entries == Append(applied, entry)
  <2>1. Ends("reload", cursor, "ok") /\ "reload" \in Threads /\ step = "wait"
    BY <1>9 DEF ApplyOK, Ends, Threads
  <2>2. PICK k \in Conn : k = cursor
    BY <1>4
  <2>a. /\ \A d \in Conn : d # k => committed'[d] = committed[d]
        /\ Exchange(k)' /\ applyMu'[k] = "free" /\ server'[k] = server[k]
        /\ server[k].spec = wanted[k].spec
    BY <1>0, <2>1, <2>2, EndExchangeExact DEF Same
  <2>3. committed'[k] = server[k] /\ server[k].spec = next
    BY <1>3, <2>1, <2>2, <2>a DEF Exchange
  <2>4. server[k].gen # 0
    BY <1>0, <1>4, <2>3, ConstantFacts DEF ServerInv
  <2>5. /\ \A c \in Conn : committed'[c].gen # 0
        /\ \A c \in Conn : committed'[c].spec = IF c <= cursor THEN next ELSE prev
    <3>1. ASSUME NEW c \in Conn, c # k
          PROVE  committed'[c].gen # 0 /\ committed'[c].spec = IF c <= cursor THEN next ELSE prev
      BY <1>3, <1>4, <2>2, <2>a, <3>1
    <3>2. committed'[k].gen # 0 /\ committed'[k].spec = next /\ k <= cursor
      BY <1>4, <2>2, <2>3, <2>4
    <3> QED BY <3>1, <3>2
  <2>6. before.spec = prev
    BY <1>3, <1>4, <2>1
  <2>7. entry \in Entry /\ entry.spec = prev
    <3>1. committed'[cursor].gen \in Nat
      BY <1>0, <2>2, <2>3, TypeFacts
    <3> QED BY <1>0, <1>4, <2>6, <3>1 DEF Entry, TypesC
  <2>8. \/ /\ cursor < N /\ cursor' = cursor + 1 /\ step' = "snapshot" /\ applied' = entries
           /\ UNCHANGED <<stored, phase, next, prev, gone>>
        \/ cursor = N /\ EndReload(next)
        \/ StartRollback(entries)
    BY <1>9 DEF ApplyOK
  <2> HIDE DEF entry
  <2>9. entries \in Seq(Entry) /\ Len(entries) = cursor /\ \A i \in DOMAIN entries : entries[i].spec = prev
    BY <1>3, <1>4, <2>7
  <2> HIDE DEF entries
  <2>10. CASE StartRollback(entries)
    <3>1. \A c \in Conn : c > cursor => ~(c <= cursor)
      BY <1>4
    <3>2. \A c \in Conn : c > Len(entries) => committed'[c].spec = prev
      BY <2>5, <2>9, <3>1
    <3> QED BY <1>1, <1>2, <1>3, <2>5, <2>9, <2>10, <3>2, RollbackWhole
  <2>11. CASE cursor = N /\ EndReload(next)
    <3>1. phase' = "idle" /\ stored' = next
      BY <2>11 DEF EndReload
    <3>2. \A c \in Conn : committed'[c].spec = next
      BY <1>4, <2>5, <2>11
    <3> QED BY <1>1, <1>2, <2>5, <3>1, <3>2 DEF Whole, IdleInv, ActiveInv, ApplyInv, RollbackInv
  <2>12. CASE /\ cursor < N /\ cursor' = cursor + 1 /\ step' = "snapshot" /\ applied' = entries
              /\ UNCHANGED <<stored, phase, next, prev, gone>>
    <3>1. ASSUME NEW c \in Conn PROVE Runs(c, prev)'
      BY <1>1, <1>3, <2>12 DEF Runs, Invalid, Undispatchable
    <3>2. ActiveInv'
      BY <1>2, <2>5, <2>9, <2>12, <3>1 DEF ActiveInv
    <3>3. \A c \in Conn : c < cursor + 1 <=> c <= cursor
      BY <1>4
    <3>4. ApplyInv'
      BY <1>3, <2>5, <2>12, <3>3 DEF ApplyInv
    <3> QED BY <1>1, <2>12, <3>2, <3>4 DEF Whole, IdleInv, RollbackInv
  <2> QED BY <2>8, <2>10, <2>11, <2>12
<1> QED BY <1>5, <1>7, <1>8, <1>9

\* The steps of the control thread while it rolls back.
LEMMA UndoWhole ==
    ASSUME IInv, [Next]_vars, Calm', ReloadInv, ServerInv, Whole,
           RollbackSend \/ RollbackEnd \/ RollbackImpossible
    PROVE  Whole'
<1> USE DEF clientVars, controlVars, serverVars, historyVars
<1>n. PICK n : n = Len(applied)
  OBVIOUS
<1>0. /\ Calm /\ timeouts = 0 /\ timeouts' = 0 /\ TypesX
      /\ \A c \in Conn : Exchange(c)
      /\ TypesC /\ EntryInv /\ TypeInv
  BY CalmStep, ControlTypes DEF IInv
<1>1. phase = "rollback" /\ scenario' = scenario /\ link' = link
  BY DEF RollbackSend, RollbackEnd, RollbackImpossible
<1>2. gone = {} /\ (\A c \in Conn : link[c] = "up") /\ \A i \in DOMAIN applied : i \in Conn
  BY <1>0, <1>1, Reloading
<1>3. /\ applied \in Seq(Entry) /\ LastEntry \in Entry /\ LastEntry.conn = n /\ n \in Conn /\ n \in Nat \ {0}
      /\ n \in DOMAIN applied /\ LastEntry = applied[n] /\ applied # << >>
      /\ \A c \in Conn : c \in Nat
  <2>1. LastEntry \in Entry /\ LastEntry.conn = n /\ n \in Conn /\ applied \in Seq(Entry)
    BY <1>0, <1>1, <1>n, LastEntryType DEF TypesC
  <2>2. n \in Nat \ {0} /\ \A c \in Conn : c \in Nat
    BY <2>1, ConstantFacts
  <2> QED BY <1>n, <2>1, <2>2 DEF LastEntry
<1>4. /\ \A c \in Conn : committed[c].gen # 0 /\ Runs(c, prev)
      /\ \A i \in DOMAIN applied : applied[i].spec = prev
      /\ \A c \in Conn : c > n => committed[c].spec = prev
  BY <1>1, <1>n DEF Whole, ActiveInv, RollbackInv
<1>5. CASE RollbackSend
  <2> DEFINE r == RequestFor(LastEntry.gen, LastEntry.spec)
  <2>1. LastEntry.gen = committed[n].gen /\ LastEntry.spec = prev
    BY <1>1, <1>2, <1>3, <1>4 DEF ReloadInv
  <2>2. r.action = "update" /\ r.spec = prev
    BY <1>3, <1>4, <2>1 DEF RequestFor
  <2> HIDE DEF r
  <2>3. /\ UNCHANGED <<committed, phase, prev, applied, gone, replies>>
        /\ applyMu[n] = "free"
        /\ wanted' = [wanted EXCEPT ![n] = r] /\ acks' = [acks EXCEPT ![n] = << >>]
    BY <1>3, <1>5 DEF RollbackSend, SendRequest, r
  <2>4. replies'[n] = << >> /\ acks'[n] = << >> /\ wanted'[n] = r
    BY <1>0, <1>3, <2>3 DEF Exchange, TypesX
  <2>5. ASSUME NEW c \in Conn PROVE Runs(c, prev)'
    BY <1>1, <1>4, <2>3 DEF Runs, Invalid, Undispatchable
  <2>6. ActiveInv'
    BY <1>2, <1>4, <2>3, <2>5 DEF ActiveInv
  <2>7. Len(applied') = n
    BY <1>n, <2>3
  <2>8. RollbackInv'
    BY <1>4, <2>2, <2>3, <2>4, <2>7 DEF RollbackInv
  <2> QED BY <1>1, <2>3, <2>6, <2>8 DEF Whole, IdleInv, ApplyInv
<1>6. CASE RollbackEnd
  <2>1. /\ StartRollback(Front) /\ step = "wait"
        /\ \E v \in {"ok", "rejected", "unexpected", "timeout"} : Ends("reload", n, v)
        /\ "reload" \in Threads
    BY <1>3, <1>6 DEF RollbackEnd, RollbackEntryDone, Front, Ends, Threads
  <2>2. PICK v : Ends("reload", n, v)
    BY <2>1
  <2>3. /\ \A d \in Conn : d # n => committed'[d] = committed[d]
        /\ v \in {"ok", "rejected"}
        /\ Exchange(n)' /\ applyMu'[n] = "free" /\ server'[n] = server[n]
        /\ v = "rejected" => acks[n][1].action = "error"
        /\ v = "ok" => server[n].spec = wanted[n].spec
    BY <1>0, <1>3, <2>1, <2>2, EndExchangeExact DEF Same
  <2>4. /\ wanted[n].spec = prev
        /\ \A i \in DOMAIN acks[n] : acks[n][i].action # "error"
    BY <1>1, <1>n, <2>1 DEF Whole, RollbackInv
  <2>5. 1 \in DOMAIN acks[n]
    <3>1. acks[n] # << >> /\ acks[n] \in Seq(Ack)
      <4>1. timeouts' # timeouts + 1
        BY <1>0
      <4> QED BY <1>0, <1>3, <2>2, <4>1 DEF Ends, EndExchange, TypesX
    <3> QED BY <3>1
  <2>6. v = "ok" /\ committed'[n] = server[n] /\ server[n].spec = prev
    BY <2>3, <2>4, <2>5 DEF Exchange
  <2>7. server[n].gen # 0
    <3>1. prev # NoSpec
      BY <1>3, <1>4 DEF Runs
    <3> QED BY <1>0, <1>3, <2>6, <3>1 DEF ServerInv
  <2>8. Front \in Seq(Entry) /\ Len(Front) = n - 1 /\ \A i \in DOMAIN Front : Front[i].spec = prev
    <3>1. /\ Front \in Seq(Entry) /\ Len(Front) = n - 1
          /\ \A i \in 1 .. n - 1 : Front[i] = applied[i]
      BY <1>n, <1>3, FrontFacts
    <3>2. \A i \in DOMAIN Front : i \in 1 .. n - 1 /\ i \in DOMAIN applied
      BY <1>n, <1>3, <3>1
    <3> QED BY <1>4, <3>1, <3>2
  <2>9. \A c \in Conn : committed'[c].gen # 0 /\ (c > Len(Front) => committed'[c].spec = prev)
    <3>1. ASSUME NEW c \in Conn, c # n
          PROVE  committed'[c].gen # 0 /\ (c > Len(Front) => committed'[c].spec = prev)
      <4>1. c \in Nat /\ (c > n - 1 => c > n)
        BY <1>3, <3>1
      <4> QED BY <1>4, <2>3, <2>8, <3>1, <4>1
    <3> QED BY <2>6, <2>7, <3>1
  <2> QED BY <1>1, <1>2, <1>4, <2>1, <2>8, <2>9, RollbackWhole
<1>7. CASE RollbackImpossible
  BY <1>2, <1>7 DEF RollbackImpossible
<1> QED BY <1>5, <1>6, <1>7

\* The servers' steps: the server accepts the workload to roll back to.
LEMMA ServerWhole ==
    ASSUME IInv, [Next]_vars, Calm', ReloadInv, Whole, NEW c \in Conn,
           HandleSession(c) \/ DeliverAck(c)
    PROVE  Whole'
<1> USE DEF clientVars, controlVars, serverVars, historyVars
<1>0. /\ Calm /\ ~resets' /\ TypesX /\ TypesX'
      /\ \A d \in Conn : Exchange(d)
      /\ TypeInv /\ EntryInv
  BY CalmStep, XTyping DEF IInv
<1>1. UNCHANGED <<stored, link, bootSpec, committed, wanted, controlVars, scenario>>
  BY DEF HandleSession, DeliverAck
<1>2. IdleInv'
  BY <1>1 DEF Whole, IdleInv
<1>3. ActiveInv'
  BY <1>1 DEF Whole, ActiveInv, Runs, Invalid, Undispatchable
<1>4. ApplyInv'
  BY <1>1 DEF Whole, ApplyInv
<1>5. RollbackInv'
  <2> SUFFICES ASSUME phase = "rollback", step = "wait"
               PROVE  /\ \A i \in DOMAIN replies'[Len(applied)] : replies'[Len(applied)][i].action # "error"
                      /\ \A i \in DOMAIN acks'[Len(applied)] : acks'[Len(applied)][i].action # "error"
    BY <1>1 DEF Whole, RollbackInv
  <2>1. PICK n \in Conn : n = Len(applied)
    BY <1>0 DEF EntryInv
  <2>2. /\ wanted[n].spec = prev /\ wanted[n].action = "update"
        /\ \A i \in DOMAIN replies[n] : replies[n][i].action # "error"
        /\ \A i \in DOMAIN acks[n] : acks[n][i].action # "error"
        /\ Runs(n, prev) /\ committed[n].gen # 0
    BY <2>1 DEF Whole, RollbackInv, ActiveInv
  <2>3. CASE c # n
    <3>1. Same(n)
      BY <1>0, <2>3, HandleExchange, DeliverExchange
    <3> QED BY <2>1, <2>2, <3>1 DEF Same
  <2>4. CASE c = n /\ HandleSession(c)
    <3>1. /\ acks'[n] = << >> /\ Len(replies'[n]) = 1
          /\ committed[n] = server[n]
          /\ \/ ~Acceptable(n, wanted[n])
             \/ replies'[n][1].action = wanted[n].action
      BY <1>0, <2>4, HandleExchange
    <3>2. Acceptable(n, wanted[n])
      BY <2>2, <3>1 DEF Acceptable, Runs
    <3>3. replies'[n] \in Seq(Ack) /\ replies'[n][1].action # "error"
      BY <1>0, <2>2, <3>1, <3>2 DEF TypesX
    <3>4. DOMAIN replies'[n] = {1}
      BY <3>1, <3>3
    <3> QED BY <2>1, <3>1, <3>3, <3>4
  <2>5. CASE c = n /\ DeliverAck(c)
    <3>1. Len(replies[n]) = 1 /\ acks'[n] = <<replies[n][1]>> /\ replies'[n] = << >>
      BY <1>0, <2>5, DeliverExchange
    <3>2. replies[n] \in Seq(Ack)
      BY <1>0 DEF TypesX
    <3>3. replies[n][1].action # "error"
      BY <2>2, <3>1, <3>2
    <3>4. ASSUME NEW a, a.action # "error" PROVE \A i \in DOMAIN <<a>> : <<a>>[i].action # "error"
      BY <3>4
    <3> QED BY <2>1, <3>1, <3>3, <3>4
  <2> QED BY <2>3, <2>4, <2>5
<1> QED BY <1>2, <1>3, <1>4, <1>5 DEF Whole

LEMMA WorkloadStep == IInv /\ GenerationInv /\ WorkloadInv /\ [Next]_vars => WorkloadInv'
<1> SUFFICES ASSUME IInv, GenerationInv, WorkloadInv, [Next]_vars, Calm', ~early', ~lost' PROVE Whole'
  BY ServerStep DEF WorkloadInv
<1>1. Calm /\ ~early /\ ~lost
  BY CalmStep, FlagTypes, FlagTyping DEF IInv
<1>2. ReloadInv /\ ServerInv /\ Whole
  BY <1>1 DEF GenerationInv, WorkloadInv
<1>3. CASE UNCHANGED Observed
  BY <1>2, <1>3, WholeUnchanged
<1> USE DEF clientVars, controlVars, serverVars, historyVars
<1>4. ASSUME NEW c \in Conn, EmitOutput(c) \/ DeliverOutput(c) PROVE Whole'
  BY <1>3, <1>4 DEF EmitOutput, DeliverOutput, Observed
<1>5. CASE UNCHANGED vars
  BY <1>3, <1>5 DEF vars, Observed
<1>6. ASSUME NEW c \in Conn, Bootstrap(c) \/ Bootstrapped(c) \/ Redial(c) \/ Closes(c) PROVE Whole'
  BY <1>2, <1>6, LinkWhole
<1>7. ASSUME NEW s \in Requested, BeginReload(s) PROVE Whole'
  BY <1>2, <1>7, BeginWhole
<1>8. CASE SnapshotCommitted \/ ApplySend \/ ApplyRefused \/ ApplyFailed \/ ApplyOK
  BY <1>2, <1>8, ApplyWhole
<1>9. CASE RollbackSend \/ RollbackEnd \/ RollbackImpossible
  BY <1>2, <1>9, UndoWhole
<1>10. ASSUME NEW c \in Conn, HandleSession(c) \/ DeliverAck(c) PROVE Whole'
  BY <1>2, <1>10, ServerWhole
<1> QED BY <1>4, <1>5, <1>6, <1>7, <1>8, <1>9, <1>10 DEF Next, ConnectionNext, ControlNext, Closes

\* A reload takes every server from the stored workload to the next one, or
\* leaves every server at the stored one.
THEOREM WorkloadInvariance == ReloadSpec => []WorkloadInv
<1>1. Init => WorkloadInv
  BY DEF Init, WorkloadInv, ServerInv, Whole, IdleInv, ActiveInv, ApplyInv, RollbackInv, NoSession
<1> QED BY Invariance, GenerationInvariance, <1>1, WorkloadStep, PTL DEF ReloadSpec

\* After every reload, successful or rolled back, every server runs the stored
\* workload.
THEOREM StoredCorrect == ReloadSpec => []ServersRunStored
<1>1. IInv /\ WorkloadInv => ServersRunStored
  <2> SUFFICES ASSUME IInv, WorkloadInv, Quiet, Calm, ~early, ~lost, NEW c \in Conn
               PROVE  server[c].spec = stored
    BY DEF ServersRunStored, Calm
  <2>1. applyMu[c] = "free"
    <3>1. TypesX
      BY TypeFacts DEF IInv
    <3> QED BY <3>1 DEF IInv, HoldInv, Quiet, TypesX
  <2>2. committed[c] = server[c]
    BY <2>1 DEF IInv, ExchangeInv, Exchange
  <2>3. committed[c].spec = stored
    BY DEF WorkloadInv, Whole, IdleInv, Quiet
  <2> QED BY <2>2, <2>3
<1> QED BY Invariance, WorkloadInvariance, <1>1, PTL
=============================================================================
