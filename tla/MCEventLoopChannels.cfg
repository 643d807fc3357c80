\* Three calls on one agent, TypeScript or Dart.
SPECIFICATION LoopSpec
CONSTANTS
    Sdks = {"ts", "dart"}
    Calls = {c1, c2, c3}
    Channels = {ch1}
    Keys = {k1}
    Txs = {t1}
    RunKey = k1
    NoChannel = NoChannel
    NoTx = NoTx
    Deposit = 2
    OpeningBalances <- FullBalance
    Securing <- AllSecured
    Price = 1
    Credits <- NoAccounts
    MaxExpired = 1
SYMMETRY CallsAndChannels
INVARIANTS SecretLostOnlyWithAnswer RequestsCarryProof NotCachedOnceClosing RunOnceSettles
PROPERTY PaidAsPromised
