---------------------------- MODULE BoundedPool ----------------------------
(***************************************************************************)
(* What a limit promises, whatever implements it: at most Limit of the     *)
(* Holders hold a slot at once, one of them takes a slot only while one is *)
(* free, and nobody holds two.  The server's maxConnections counters and   *)
(* the client's throttle channel are both shown to implement it.           *)
(***************************************************************************)
EXTENDS Naturals, FiniteSets

CONSTANTS Holders, Limit

VARIABLE held

Init == held = {}

Acquire(h) ==
    /\ h \notin held
    /\ Cardinality(held) < Limit
    /\ held' = held \union {h}

Release(h) ==
    /\ h \in held
    /\ held' = held \ {h}

Next == \E h \in Holders : Acquire(h) \/ Release(h)

Spec == Init /\ [][Next]_held
=============================================================================
