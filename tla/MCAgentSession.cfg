\* Two calls, paying or asking, on channels opened with a deposit and without, with an
\* api_key and without.
SPECIFICATION FairSession
CONSTANTS
    Calls = {c1, c2}
    Channels = {ch1, ch2}
    Keys = {k1}
    Txs = {t1}
    RunKey = k1
    NoChannel = NoChannel
    NoTx = NoTx
    Deposit = 3
    OpeningBalances = {2}
    Securing <- AllSecured
    Price = 1
    Credits <- SomeAccounts
    MaxExpired = 1
    MaxManifest = 2
INVARIANTS BalanceStaleByInvokes BillMeetsSettlement LeftOnlyWithCause ManifestSinceDispose
PROPERTY EveryCallReturns
