---------------------------- MODULE MCFileTail ----------------------------
(* One letter matches and one does not; lines are cut at two bytes, so that  *)
(* lines at, below and above the limit occur.                                *)
EXTENDS FileTail

MCMatch(line) == \E i \in DOMAIN line : line[i] = "m"
MCInitialContent == <<"m", "n", "x">>
MCScripts == {<<"n", "m", "n", "m">>, <<"m", "m", "x", "n">>}
NoContext == [after |-> 0, before |-> 0, max |-> 0]
GrepContext == [after |-> 1, before |-> 1, max |-> 1]
ManyContext == [after |-> 0, before |-> 1, max |-> 3]
MCContexts == {NoContext, GrepContext, ManyContext}
=============================================================================
