------------------------- MODULE MCInteractiveReload -------------------------
(***************************************************************************)
(* Model-checking instances of InteractiveReload.                          *)
(***************************************************************************)
EXTENDS InteractiveReload

CONSTANTS s0, s1, s2

\* The second server refuses s2, one way or the other.
SecondRefuses == {<<2, s2>>}

\* Two reloads of which one may be refused, with a lost connection; and a reload
\* that runs into timeouts, failed dispatches and the client's own refusals.
MCScenarios == {
    [unsupported |-> {}, invalid |-> SecondRefuses, undispatchable |-> {}, uncommittable |-> {},
     requested |-> {s1, s2}, reloads |-> 2, timeouts |-> 0, drops |-> 1],
    [unsupported |-> SecondRefuses, invalid |-> {}, undispatchable |-> {s1}, uncommittable |-> {s0},
     requested |-> {s0, s1, s2}, reloads |-> 1, timeouts |-> 2, drops |-> 0]}
=============================================================================
