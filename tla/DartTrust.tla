------------------------------ MODULE DartTrust ------------------------------
(***************************************************************************)
(* The trusted code hashes of the Dart agent (dart/lib/src/tee_verifier    *)
(* and agent.dart): the map of expected hashes, the cache with a lifetime  *)
(* in front of it, the fetch of the hub's registry, the check of an        *)
(* attestation before an invoke, and the one HTTP client all of these      *)
(* share with every other request of the agent.                            *)
(*                                                                         *)
(* Dart runs one isolate: a step is the code between two awaits.  The hub, *)
(* the network, the clock and package:http are external.                   *)
(***************************************************************************)
EXTENDS Integers

CONSTANTS
    Requests,     \* requests the application makes of the agent, each once
    Caps, Hashes, \* capabilities and code hashes
    NoHash, NoCap,
    Givens,       \* what may be passed to the constructor as trustedCodeHashes
    Maps,         \* whose that map may be
    Registries,   \* what the hub may publish
    TTL,          \* ttl of TrustedHashCache
    Lifetimes,    \* ttl_s an attestation may carry
    MaxClock      \* bound on the clock

SomeHash == Hashes \cup {NoHash}

\* hashes: the entries up to the first one that is not an object, the last one
\* of a capability counting; whole: there is no such entry.
RegistryType == [hashes : [Caps -> SomeHash], whole : BOOLEAN]

ASSUME TrustAssumption ==
    /\ NoHash \notin Hashes
    /\ NoCap \notin Caps
    /\ Givens \subseteq [Caps -> SomeHash]
    /\ Maps \subseteq {"agent", "caller", "fixed"}
    /\ Registries \subseteq RegistryType
    /\ Registries # {}
    /\ TTL \in Nat /\ Lifetimes \subseteq Nat /\ MaxClock \in Nat

VARIABLES
    \* TeeVerifier
    trusted,   \* _trustedCodeHashes, the very map the constructor was given
    map,       \* who writes it: "agent" alone, the "caller" too; "fixed": nobody can
    rewritten, \* history: the capabilities whose hash the caller wrote last
    cache,     \* _hashCache: the entry of each capability
    \* the agent's requests
    pc,        \* where each request is
    kind,      \* "fetch": fetchTrustedHashes; "invoke"; "other": the rest
    net,       \* its HTTP exchange
    got,       \* the registry in its answer
    checked,   \* the attestation an invoke was sent after: capability, hash
    told,      \* what its caller was told
    open,      \* the HTTP client is open
    disposed,
    \* external
    now, registry

hashMap  == <<trusted, map, rewritten>>
verifier == <<hashMap, cache>>
request  == <<pc, kind, net, got, checked, told>>
vars     == <<verifier, request, open, disposed, now, registry>>

Absent == [hash |-> NoHash, until |-> 0]
Unchecked == [cap |-> NoCap, hash |-> NoHash]
Nothing == [hashes |-> [c \in Caps |-> NoHash], whole |-> TRUE]
Attestations == [cap : Caps, hash : Hashes, issued : 0..MaxClock, life : Lifetimes,
                 genuine : BOOLEAN]

Init ==
    /\ trusted \in Givens
    /\ map \in Maps
    /\ rewritten = {}
    /\ cache = [c \in Caps |-> Absent]
    /\ pc = [r \in Requests |-> "idle"]
    /\ kind = [r \in Requests |-> "none"]
    /\ net = [r \in Requests |-> "none"]
    /\ got = [r \in Requests |-> Nothing]
    /\ checked = [r \in Requests |-> Unchecked]
    /\ told = [r \in Requests |-> "nothing"]
    /\ open = TRUE /\ disposed = FALSE
    /\ now = 0
    /\ registry \in Registries

-----------------------------------------------------------------------------
\* The cache and the check of an attestation

Fresh(c) == cache[c].hash # NoHash /\ now <= cache[c].until

\* Reading drops an entry that is past its time.
Pruned(c) == IF Fresh(c) THEN cache ELSE [cache EXCEPT ![c] = Absent]

\* Mutant: an expired entry is not looked up in the map.
ExpectedOfCache(c) == IF Fresh(c) THEN cache[c].hash ELSE NoHash

Expected(c) == IF Fresh(c) THEN cache[c].hash ELSE trusted[c]

\* verifyAttestationDetailed; genuine stands for the platform, the PCR values
\* and the signature, which do not change.
Valid(a) ==
    /\ a.genuine
    /\ now - a.issued <= a.life
    /\ Expected(a.cap) # NoHash => a.hash = Expected(a.cap)

Entry(h) == [hash |-> h, until |-> now + TTL]

VerifyAttestation(c) ==
    /\ cache' = Pruned(c)
    /\ UNCHANGED <<hashMap, request, open, disposed, now, registry>>

\* A fixed map throws, before the cache is written.
TrustCodeHash(c, h) ==
    /\ map # "fixed"
    /\ trusted' = [trusted EXCEPT ![c] = h]
    /\ cache' = [cache EXCEPT ![c] = Entry(h)]
    /\ rewritten' = rewritten \ {c}
    /\ UNCHANGED <<map, request, open, disposed, now, registry>>

\* The application changes its own map, or takes an entry out.
CallerWrites(c, h) ==
    /\ map = "caller"
    /\ trusted' = [trusted EXCEPT ![c] = h]
    /\ rewritten' = rewritten \cup {c}
    /\ UNCHANGED <<map, cache, request, open, disposed, now, registry>>

-----------------------------------------------------------------------------
\* Sending

\* A closed client fails the request at once.
Post(r, k) ==
    /\ pc[r] = "idle"
    /\ kind' = [kind EXCEPT ![r] = k]
    /\ pc' = [pc EXCEPT ![r] = "waiting"]
    /\ net' = [net EXCEPT ![r] = IF open THEN "request" ELSE "broken"]
    /\ UNCHANGED <<hashMap, got, told, open, disposed, now, registry>>

FetchSend(r) == Post(r, "fetch") /\ UNCHANGED <<cache, checked>>

\* wellKnown, discover, openChannel, getChannelBalance, closeChannel.
OtherSend(r) == Post(r, "other") /\ UNCHANGED <<cache, checked>>

\* invoke without an attestation: nothing to check before sending.
InvokeSend(r) == Post(r, "invoke") /\ UNCHANGED <<cache, checked>>

InvokeAttested(r, a) ==
    /\ Valid(a)
    /\ Post(r, "invoke")
    /\ cache' = Pruned(a.cap)
    /\ checked' = [checked EXCEPT ![r] = [cap |-> a.cap, hash |-> a.hash]]

\* A bad attestation aborts the call before anything is sent.
InvokeRejected(r, a) ==
    /\ pc[r] = "idle"
    /\ ~Valid(a)
    /\ cache' = Pruned(a.cap)
    /\ kind' = [kind EXCEPT ![r] = "invoke"]
    /\ pc' = [pc EXCEPT ![r] = "done"]
    /\ told' = [told EXCEPT ![r] = "safety"]
    /\ UNCHANGED <<hashMap, net, got, checked, open, disposed, now, registry>>

-----------------------------------------------------------------------------
\* Returning

Tell(r, what) ==
    /\ pc[r] = "waiting"
    /\ pc' = [pc EXCEPT ![r] = "done"]
    /\ told' = [told EXCEPT ![r] = what]
    /\ got' = [got EXCEPT ![r] = Nothing]
    /\ checked' = [checked EXCEPT ![r] = Unchecked]
    /\ UNCHANGED kind

\* IOClient.close(force: true): whatever is still under way breaks.
CloseClient(r) ==
    /\ open' = FALSE
    /\ net' = [q \in Requests |->
                  IF q = r THEN "none" ELSE IF net[q] = "request" THEN "broken" ELSE net[q]]

Listed(r) == {c \in Caps : got[r].hashes[c] # NoHash}

\* Mutant: the fetched hashes go to the cache only.
FetchLoadsCacheOnly(r) ==
    LET h == got[r].hashes IN
    /\ kind[r] = "fetch" /\ net[r] = "answered"
    /\ map # "fixed" \/ Listed(r) = {}
    /\ trusted' = trusted
    /\ cache' = [c \in Caps |-> IF c \in Listed(r) THEN Entry(h[c]) ELSE cache[c]]
    /\ rewritten' = rewritten \ Listed(r)
    /\ Tell(r, IF got[r].whole THEN "count" ELSE "exception")
    /\ CloseClient(r)
    /\ UNCHANGED <<map, disposed, now, registry>>

\* 200: the entries are trusted one after the other, until one is not an
\* object.  The client is closed in every case: it is the agent's own.
FetchReturns(r) ==
    LET h == got[r].hashes IN
    /\ kind[r] = "fetch" /\ net[r] = "answered"
    /\ map # "fixed" \/ Listed(r) = {}
    /\ trusted' = [c \in Caps |-> IF c \in Listed(r) THEN h[c] ELSE trusted[c]]
    /\ cache' = [c \in Caps |-> IF c \in Listed(r) THEN Entry(h[c]) ELSE cache[c]]
    /\ rewritten' = rewritten \ Listed(r)
    /\ Tell(r, IF got[r].whole THEN "count" ELSE "exception")
    /\ CloseClient(r)
    /\ UNCHANGED <<map, disposed, now, registry>>

\* A fixed map throws at the first entry, which the cache has by then.
FetchThrows(r) ==
    /\ kind[r] = "fetch" /\ net[r] = "answered"
    /\ map = "fixed"
    /\ \E c \in Listed(r) : cache' = [cache EXCEPT ![c] = Entry(got[r].hashes[c])]
    /\ Tell(r, "exception")
    /\ CloseClient(r)
    /\ UNCHANGED <<hashMap, disposed, now, registry>>

\* Another status is -1; a network error is not caught.
FetchFails(r) ==
    /\ kind[r] = "fetch"
    /\ \/ net[r] = "refused" /\ Tell(r, "-1")
       \/ net[r] = "broken" /\ Tell(r, "exception")
    /\ CloseClient(r)
    /\ UNCHANGED <<verifier, disposed, now, registry>>

Returns(r) ==
    /\ kind[r] # "fetch"
    /\ \/ net[r] \in {"answered", "refused"} /\ Tell(r, "answer")
       \/ net[r] = "broken" /\ Tell(r, "exception")
    /\ net' = [net EXCEPT ![r] = "none"]
    /\ UNCHANGED <<verifier, open, disposed, now, registry>>

\* Mutant: the timeout is applied to the requests that have none, not to invoke.
OtherTimeout(r) ==
    /\ kind[r] = "other" /\ net[r] = "request"
    /\ Tell(r, "exception")
    /\ net' = [net EXCEPT ![r] = "none"]
    /\ UNCHANGED <<verifier, open, disposed, now, registry>>

\* Only invoke has a timeout: config.timeout, or wait_timeout_s + 30 s.
InvokeTimeout(r) ==
    /\ kind[r] = "invoke" /\ net[r] = "request"
    /\ Tell(r, "exception")
    /\ net' = [net EXCEPT ![r] = "none"]
    /\ UNCHANGED <<verifier, open, disposed, now, registry>>

Dispose ==
    /\ ~disposed
    /\ disposed' = TRUE /\ open' = FALSE
    /\ net' = [q \in Requests |-> IF net[q] = "request" THEN "broken" ELSE net[q]]
    /\ UNCHANGED <<verifier, pc, kind, got, checked, told, now, registry>>

-----------------------------------------------------------------------------
\* The hub, the network and the clock

Answer(r) ==
    /\ net[r] = "request"
    /\ \/ /\ net' = [net EXCEPT ![r] = "answered"]
          /\ got' = [got EXCEPT ![r] = IF kind[r] = "fetch" THEN registry ELSE @]
       \/ /\ net' = [net EXCEPT ![r] = "refused"]
          /\ UNCHANGED got
    /\ UNCHANGED <<verifier, pc, kind, checked, told, open, disposed, now, registry>>

Break(r) ==
    /\ net[r] = "request"
    /\ net' = [net EXCEPT ![r] = "broken"]
    /\ UNCHANGED <<verifier, pc, kind, got, checked, told, open, disposed, now, registry>>

Republish ==
    /\ registry' \in Registries
    /\ UNCHANGED <<verifier, request, open, disposed, now>>

Tick ==
    /\ now < MaxClock
    /\ now' = now + 1
    /\ UNCHANGED <<verifier, request, open, disposed, registry>>

-----------------------------------------------------------------------------
Ends(r) == FetchReturns(r) \/ FetchThrows(r) \/ FetchFails(r) \/ Returns(r) \/ InvokeTimeout(r)

Next ==
    \/ \E r \in Requests :
          \/ FetchSend(r) \/ OtherSend(r) \/ InvokeSend(r)
          \/ \E a \in Attestations : InvokeAttested(r, a) \/ InvokeRejected(r, a)
          \/ Ends(r)
          \/ Answer(r) \/ Break(r)
    \/ \E c \in Caps :
          \/ VerifyAttestation(c)
          \/ \E h \in Hashes : TrustCodeHash(c, h)
          \/ \E h \in SomeHash : CallerWrites(c, h)
    \/ Dispose \/ Republish \/ Tick

Spec == Init /\ [][Next]_vars

\* Fairness.  The isolate runs what is ready, and the timer of an invoke fires.
\* Nothing is assumed of the hub or of the network.
FairSpec == Spec /\ \A r \in Requests : WF_vars(Ends(r))

-----------------------------------------------------------------------------
\* Properties

\* The type of every variable.
TypeOK ==
    /\ trusted \in [Caps -> SomeHash]
    /\ map \in Maps /\ rewritten \subseteq Caps
    /\ cache \in [Caps -> [hash : SomeHash, until : Nat]]
    /\ pc \in [Requests -> {"idle", "waiting", "done"}]
    /\ kind \in [Requests -> {"none", "fetch", "invoke", "other"}]
    /\ net \in [Requests -> {"none", "request", "answered", "refused", "broken"}]
    /\ got \in [Requests -> RegistryType]
    /\ checked \in [Requests -> [cap : Caps \cup {NoCap}, hash : SomeHash]]
    /\ told \in [Requests -> {"nothing", "count", "-1", "exception", "answer", "safety"}]
    /\ open \in BOOLEAN /\ disposed \in BOOLEAN
    /\ now \in 0..MaxClock
    /\ registry \in Registries

\* The map says something else than the hash the agent was given last: the caller
\* has written it since, or nobody can and a fetch has thrown.
Diverged(c) ==
    \/ c \in rewritten
    \/ map = "fixed" /\ \E r \in Requests : kind[r] = "fetch" /\ told[r] = "exception"

\* Two stores hold the expected hash of a capability, one of them forgets: the
\* cache holds no other hash than the map behind it, so that its expiry cannot
\* bring an older hash back, unless the map is the caller's and was changed since,
\* or is one that cannot be written and the caller of a fetch was told so.
CacheAgreesWithMap ==
    \A c \in Caps : cache[c].hash # NoHash => cache[c].hash = trusted[c] \/ Diverged(c)

Sends(r) == pc[r] = "idle" /\ pc'[r] = "waiting"

\* Whatever was fetched, pinned, expired or pruned before, an invoke with an
\* attestation is sent only if its code hash is the one the map has for the
\* capability, when it has any; where the two have diverged, an entry of the cache
\* stands in for the map, and for no longer than it lives.
SentOnTrustedCode ==
    [][\A r \in Requests : Sends(r) /\ checked'[r] # Unchecked =>
          LET c == checked'[r].cap IN
          \/ trusted[c] \in {NoHash, checked'[r].hash}
          \/ Diverged(c) /\ Fresh(c) /\ cache[c].hash = checked'[r].hash]_vars

\* An invoke never leaves its caller waiting, even when the hub says nothing.
InvokeEnds ==
    \A r \in Requests : (pc[r] = "waiting" /\ kind[r] = "invoke") ~> (pc[r] = "done")
=============================================================================
