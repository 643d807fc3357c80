\* A verifier of each SDK, timestamps as the protocol writes them,
\* without a zone and with an offset.
SPECIFICATION Spec
CONSTANTS
    Sdks = {"rust", "ts", "dart"}
    Codes = {h1, h2}
    NoCode = NoCode
    Ttls = {0, 1}
    Forms <- SomeForms
    HostOffset <- West
    CacheTtl = 2
    KeyConfigs = {"enclave", "placeholder"}
    MaxListed = 2
    MaxClock = 5
    MaxIssued = 1
SYMMETRY CodeSymmetry
CHECK_DEADLOCK FALSE
INVARIANTS AcceptedIsFresh SdksAgree
PROPERTIES AcceptsTrustedCode ExpiredStaysExpired
