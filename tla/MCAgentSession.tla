--------------------------- MODULE MCAgentSession ---------------------------
(* AgentSession on a small instance. *)
EXTENDS AgentSession

AllSecured == {TRUE}
SomeAccounts == {NoAccount, 1}
=============================================================================
