\* One chain, a hex transaction and a base58 one, two wallets.
SPECIFICATION Spec
CONSTANTS
    base = base
    hash = hash
    base58 = base58
    alice = alice
    bob = bob
    Sdks = {"rust", "ts", "dart"}
    Words <- AllWords
    HexWords <- Hex
    Addresses <- Wallet
    Chains <- ChainTexts
    Hashes <- HashTexts
    Payers <- PayerTexts
    Amounts <- Some
    Wallets <- Wallet
    Nobody = Nobody
    Deposits <- OnChains
    MaxCents = 3
CHECK_DEADLOCK FALSE
INVARIANT ProofNamesItsDeposit
