------------------------ MODULE MCServerConnections ------------------------
(* An instance with one slot and two connections of the schedule user: the *)
(* first comes from an address its job allows and logs in with the name of  *)
(* the job, the second can only offer a key that the first has registered,  *)
(* since the cached authorized_keys file hides the one that lists k1.       *)
EXTENDS ServerConnections, TLC

CONSTANTS c1, c2, sched, k1, k2, badLine, jobName, wrongName,
          allowedHost, unknownHost, ip1, ip2

MCUserOf == (c1 :> sched) @@ (c2 :> sched)
MCIpOf == (c1 :> ip1) @@ (c2 :> ip2)
MCJobs == {[owner |-> sched, name |-> jobName, allowFrom |-> {allowedHost, unknownHost}]}
MCResolve == allowedHost :> {ip1}
MCCachedKeys == sched :> <<badLine>>
MCHomeKeys == sched :> <<k1>>
=============================================================================
