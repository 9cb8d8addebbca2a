-------------------------- MODULE MCServerSession --------------------------
(* What the clients send: AUTHKEY first, a map command before its reads, and *)
(* frames the server cannot decode, does not know, or finds too long.        *)
EXTENDS ServerSession

Server(kinds) == [handler |-> "server", transport |-> "ssh", cancel |-> FALSE, kinds |-> kinds]

Serverless(kinds) == [handler |-> "server", transport |-> "serverless", cancel |-> TRUE, kinds |-> kinds]

MCStreams ==
    {Serverless(<<"read">>),
     [Server(<<"map", "read">>) EXCEPT !.cancel = TRUE],
     Server(<<"authkey", "read">>),
     Server(<<"read", "read">>),
     Server(<<"map", "read", "read">>),
     Server(<<"badmap", "read">>),
     Server(<<"read", "unknown">>),
     Server(<<"garbled", "read">>),
     Server(<<"read", "garbled">>),
     Server(<<"read", "oversize">>),
     [handler |-> "health", transport |-> "ssh", cancel |-> FALSE, kinds |-> <<"health">>],
     [handler |-> "health", transport |-> "ssh", cancel |-> FALSE, kinds |-> <<"unknown">>]}

\* A query and its read, for the run on a glob that matches nothing.
QueryStreams == {Server(<<"map", "read">>)}
=============================================================================
