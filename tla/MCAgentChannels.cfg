\* Three concurrent calls on one agent, paying from channels or from a credit account that
\* covers one of them.
SPECIFICATION Spec
CONSTANTS
    Calls = {c1, c2, c3}
    Channels = {ch1, ch2}
    Keys = {k1}
    Txs = {t1}
    RunKey = k1
    NoChannel = NoChannel
    NoTx = NoTx
    Deposit = 2
    OpeningBalances <- FullBalance
    Securing <- AllSecured
    Price = 1
    Credits <- SomeAccounts
    MaxExpired = 1
SYMMETRY CallsAndChannels
INVARIANTS IInv SecretLostOnlyWithAnswer RequestsCarryProof NotCachedOnceClosing OpenAnswersItsCaller RunOnceSettles
PROPERTY PaidAsPromised
