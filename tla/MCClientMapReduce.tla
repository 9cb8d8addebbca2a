------------------------- MODULE MCClientMapReduce -------------------------
(* A server with two partial results, or two with one each, and one change of *)
(* the query, which keeps the outfile.                                        *)
EXTENDS ClientMapReduce

CONSTANTS s1, s2, m1, m2, f1

TwoServers == (m1 :> s1) @@ (m2 :> s2)
OneServer == (m1 :> s1) @@ (m2 :> s1)

Client(s, c, f) ==
    [serverless |-> s, cumulative |-> c, outfile |-> [g \in Generations |-> f]]
RemoteClient == {Client(FALSE, TRUE, Terminal)}
OutfileClient == {Client(FALSE, TRUE, f1)}
AllClients ==
    RemoteClient \union OutfileClient
        \union {Client(TRUE, TRUE, Terminal), Client(FALSE, FALSE, Terminal)}
=============================================================================
