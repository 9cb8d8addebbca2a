---------------------------- MODULE MCReadCommand ----------------------------
(***************************************************************************)
(* Model-checking instances of ReadCommand.                                *)
(***************************************************************************)
EXTENDS ReadCommand, TLC

CONSTANTS c1, c2, f1, f2

\* One file per command.
OneFileEach == f1 :> c1 @@ f2 :> c2

MCPayload == File \X (0 .. MaxPayloads)
=============================================================================
