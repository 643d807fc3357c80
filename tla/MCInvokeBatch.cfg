\* Three invokes on a balance that pays for two or for three of them.
SPECIFICATION FairSpec
CONSTANTS
    Size = 3
    Styles <- AllStyles
    Prices <- CheapOrDear
    Funds = 3
INVARIANTS DebitedInOrder RemainingInvocationsEnd
PROPERTIES BatchEnds PaidAsPromised
CHECK_DEADLOCK FALSE
