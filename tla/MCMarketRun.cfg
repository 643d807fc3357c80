\* Two runs on one account: one requires a receipt, one verifies it if present.
SPECIFICATION FairSpec
CONSTANTS
    Runs = {r1, r2}
    Offers = {o1, o2}
    Prices <- AroundBudget
    NoPrice = NoPrice
    NoOffer = NoOffer
    Listings <- SomeListings
    Budget = 2
    MinTrust = 1
    MaxLatency = 1
    Policy <- OneRequires
    Funds = 3
    MaxKeys = 1
INVARIANTS ChargedWithinBudget ResultHasReceipt ChargedSafetyOnlyIf
PROPERTIES PaidAsPromised HeadersEnd
