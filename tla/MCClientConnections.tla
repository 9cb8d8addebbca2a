------------------------ MODULE MCClientConnections ------------------------
(* Two servers, one unknown and one whose key has changed since it was      *)
(* trusted; they share one throttle slot.                                    *)
EXTENDS ClientConnections, TLC

CONSTANTS s1, s2, key1, key2, oldKey

MCConnections == Attempts
MCServerOf == [c \in Attempts |-> c[1]]
MCKeyOf == (s1 :> key1) @@ (s2 :> key2)
MCInitiallyKnown == (s1 :> NoKey) @@ (s2 :> oldKey)
=============================================================================
