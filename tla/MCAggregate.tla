----------------------------- MODULE MCAggregate -----------------------------
(***************************************************************************)
(* Model-checking instances of Aggregate.                                  *)
(***************************************************************************)
EXTENDS Aggregate

CONSTANTS p1, p2, l1, l2, l3, g1, g2

\* p1 reads l1 and l2, p2 reads l3; l1 and l3 fall into the same group.
MCSource == [l \in Line |-> IF l = l3 THEN p2 ELSE p1]
MCGroupKey == [l \in Line |-> IF l = l2 THEN g2 ELSE g1]

\* A query that runs to its end, and a tailing session with everything that can
\* happen to it.
MCScenarios == {
    [lines |-> {l1, l2, l3}, follow |-> FALSE, disconnects |-> FALSE, reloads |-> FALSE, timeouts |-> FALSE],
    [lines |-> {l1, l2}, follow |-> TRUE, disconnects |-> TRUE, reloads |-> TRUE, timeouts |-> TRUE]}

\* A query whose connection may end while its files are read.
DisconnectingScenarios ==
    {[lines |-> {l1, l2, l3}, follow |-> FALSE, disconnects |-> TRUE, reloads |-> FALSE, timeouts |-> FALSE]}
=============================================================================
