------------------------- MODULE MCEventLoopChannels -------------------------
(* EventLoopChannels on a small instance. *)
EXTENDS EventLoopChannels, TLC

\* No call and no channel is singled out.
CallsAndChannels == Permutations(Calls) \cup Permutations(Channels)

AllSecured == {TRUE}
FullBalance == {Deposit}
NoAccounts == {NoAccount}
=============================================================================
