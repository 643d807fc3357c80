\* Two requests, one capability, a clock that outlives a cache entry.
SPECIFICATION FairSpec
CONSTANTS
    Requests = {r1, r2}
    Caps = {cap}
    Hashes = {h1, h2}
    NoHash = NoHash
    NoCap = NoCap
    Givens <- OneOrNone
    Maps = {"agent", "caller", "fixed"}
    Registries <- ListsAndBreaksOff
    TTL = 1
    Lifetimes <- OneLifetime
    MaxClock = 2
INVARIANT CacheAgreesWithMap
PROPERTIES SentOnTrustedCode InvokeEnds
