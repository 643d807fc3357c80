\* The same deposit asked for twice, another deposit between.
SPECIFICATION Spec
CONSTANTS
    Calls = {c1, c2, c3}
    Channels = {ch1, ch2}
    Keys = {k1}
    Txs = {t1, t2}
    RunKey = k1
    NoChannel = NoChannel
    NoTx = NoTx
    Deposit = 2
    OpeningBalances <- FullBalance
    Securing <- AllSecured
    Price = 1
    Credits <- NoAccounts
    MaxExpired = 1
PROPERTY DepositNotSentAgain
