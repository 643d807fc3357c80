---------------------------- MODULE MCInvokeBatch ----------------------------
(* InvokeBatch on small instances. *)
EXTENDS InvokeBatch

AllStyles == {"one by one", "wait for all", "first error"}

CheapOrDear == {1, 2}
=============================================================================
