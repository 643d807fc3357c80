--------------------------- MODULE MCAgentChannels ---------------------------
(* AgentChannels on small instances. *)
EXTENDS AgentChannelsInv, TLC

\* No call and no channel is singled out.
CallsAndChannels == Permutations(Calls) \cup Permutations(Channels)

AllSecured == {TRUE}
FullBalance == {Deposit}
NoAccounts == {NoAccount}
SomeAccounts == {NoAccount, 1}
=============================================================================
