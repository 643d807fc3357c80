\* One authorization, in every spelling; a u128 has four bits, a word eight.
SPECIFICATION Spec
CONSTANTS
    Sdks = {"rust", "ts", "dart"}
    Params <- AllGiven
    Debits <- AllAsked
    NotGiven = NotGiven
    BaseChainId = 10
    TwoTo128 = 16
    TwoTo256 = 256
CHECK_DEADLOCK FALSE
INVARIANT DebitsAsAuthorised
