---------------------------- MODULE Attestation ----------------------------
(***************************************************************************)
(* The attestation check of the three TEE verifiers (rust/src/tee.rs,      *)
(* typescript/src/tee.ts, dart/lib/src/tee_verifier.dart) against a clock: *)
(* an enclave signs statements, each with the time and for how long it is  *)
(* good; the hub relays them; an agent checks one before it sends input.   *)
(*                                                                         *)
(* Times are in half seconds, because what the SDKs make of the fraction   *)
(* of a timestamp is where they differ.  There is one capability.          *)
(***************************************************************************)
EXTENDS Integers, FiniteSets

CONSTANTS
    Sdks,         \* the SDKs a verifier may be of
    Codes,        \* code hashes
    NoCode,       \* no code hash is trusted yet
    Ttls,         \* values of ttl_s
    Forms,        \* how the enclave writes a timestamp
    HostOffset,   \* local time of the agent's host minus UTC, in seconds
    CacheTtl,     \* TTL of TrustedHashCache, in half seconds
    KeyConfigs,   \* what is configured as the enclave's public key
    MaxListed,    \* bound on the entries a registry has for the capability
    MaxClock,     \* bound on the clock
    MaxIssued     \* bound on the statements signed

\* "Z": UTC; "none": no zone; "offset": local time of the enclave, and its
\* offset from UTC.
TextForms == [zone : {"Z", "none", "offset"}, offset : Int, frac : BOOLEAN]

ASSUME AttestationAssumption ==
    /\ Sdks \subseteq {"rust", "ts", "dart"}
    /\ NoCode \notin Codes
    /\ Ttls \subseteq Int
    /\ Forms \subseteq TextForms
    /\ \A f \in Forms : f.zone # "offset" => f.offset = 0
    /\ HostOffset \in Int
    /\ CacheTtl \in Nat
    /\ KeyConfigs \subseteq {"enclave", "placeholder", "none"}
    /\ MaxListed \in Nat /\ MaxClock \in Nat /\ MaxIssued \in Nat

VARIABLES
    sdk,       \* the SDK of the verifier
    key,       \* the key configured for the enclave's platform, if any
    now,       \* the clock
    issued,    \* what the enclave has signed, and when
    trusted,   \* trusted_code_hashes of the capability
    cache,     \* TrustedHashCache: hash, and until when
    verdict    \* the last check: what it said and, if it passed, of what and when

vars == <<sdk, key, now, issued, trusted, cache, verdict>>

-----------------------------------------------------------------------------
\* Timestamps.  A text is its form, the seconds written in it and its
\* fraction, 0 where none is written.

Texts == [form : Forms, wall : Int, half : 0..1]

Written(f, t) == [form |-> f, wall |-> t \div 2 + f.offset,
                  half |-> IF f.frac THEN t - 2 * (t \div 2) ELSE 0]

\* The instant a text means, a missing zone meaning UTC.
Meant(x) == 2 * (x.wall - x.form.offset) + x.half

\* Date.parse and DateTime.tryParse: a missing zone means the host's.
HostReads(x) == Meant(x) - (IF x.form.zone = "none" THEN 2 * HostOffset ELSE 0)

\* Mutant: an attestation is expired in its last second already.
RustFreshEarly(x, ttl, t) ==
    /\ x.form.zone = "offset" => x.form.frac
    /\ t \div 2 - x.wall < ttl

\* chrono_like_parse reads up to the fraction and drops what follows, an
\* offset too; an offset without a fraction is no number, which is expired.
RustFresh(x, ttl, t) ==
    /\ x.form.zone = "offset" => x.form.frac
    /\ t \div 2 - x.wall <= ttl

TsFresh(x, ttl, t) == t - HostReads(x) <= 2 * ttl

\* Duration.inSeconds truncates.
InSeconds(d) == IF d >= 0 THEN d \div 2 ELSE -((-d) \div 2)

DartFresh(x, ttl, t) == InSeconds(t - HostReads(x)) <= ttl

\* Mutant: the age is unsigned, so a time ahead of the clock reads as ages ago.
FreshUnsigned(s, x, ttl, t) ==
    CASE s = "rust" -> RustFresh(x, ttl, t) /\ t \div 2 >= x.wall
      [] s = "ts"   -> TsFresh(x, ttl, t)
      [] s = "dart" -> DartFresh(x, ttl, t)

\* The attestation has not expired at t.
Fresh(s, x, ttl, t) ==
    CASE s = "rust" -> RustFresh(x, ttl, t)
      [] s = "ts"   -> TsFresh(x, ttl, t)
      [] s = "dart" -> DartFresh(x, ttl, t)

-----------------------------------------------------------------------------
\* Attestations: what an enclave states, signed or not.

SupportedPlatforms == {"aws_nitro", "intel_tdx", "amd_sev", "azure_cc"}

\* pcrs: the measurements it has are pcr0, others, or none.
Claims == [platform : SupportedPlatforms \cup {"unknown"}, code : Codes,
           pcrs : {"pcr0", "others", "empty"}, text : Texts, ttl : Ttls]

\* Of the measurements pcr0 alone is signed.
Pcr0(a) == IF a.pcrs = "pcr0" THEN "pcr0" ELSE "none"

\* Mutant: the TTL is not signed.
CanonicalWithoutTtl(a) == <<a.platform, a.code, Pcr0(a), a.text>>

\* canonical: the fields a signature covers.
Canonical(a) == <<a.platform, a.code, Pcr0(a), a.text, a.ttl>>

\* What the hub relays of a statement: as it was signed, or with a field that
\* is not the signed one.
Relayed(a) ==
    {a} \cup {[a EXCEPT !.platform = p] : p \in {"unknown", "intel_tdx"}}
    \cup {[a EXCEPT !.pcrs = q] : q \in {"others", "empty"}}
    \cup {[a EXCEPT !.code = h] : h \in Codes}
    \cup {[a EXCEPT !.ttl = n] : n \in Ttls}

\* enclave_public_keys: a placeholder where none is configured.
EnclaveKey(p) ==
    CASE p = "aws_nitro"                           -> key
      [] p \in SupportedPlatforms \ {"aws_nitro"} -> "placeholder"
      [] OTHER                                     -> "none"

\* MarketSigner.verify.  No key decodes from a placeholder.
SignedBy(k, a, signature) == k = "enclave" /\ Canonical(signature) = Canonical(a)

NoEntry == [hash |-> NoCode, until |-> 0]
NoVerdict == [ok |-> FALSE, at |-> 0]
Verdicts(t) == {NoVerdict} \cup [claim : Claims, at : 0..t, ok : {TRUE}]

Init ==
    /\ sdk \in Sdks
    /\ key \in KeyConfigs
    /\ now = 0
    /\ issued = {}
    /\ trusted \in Codes \cup {NoCode}
    /\ cache = NoEntry
    /\ verdict = NoVerdict

\* TrustedHashCache.get, which drops an entry that has expired.
Cached == cache.hash # NoCode /\ now <= cache.until

Expected == IF Cached THEN cache.hash ELSE trusted

\* Mutant: the map keeps the first hash.
TrustFirst(h) ==
    /\ trusted' = IF trusted = NoCode THEN h ELSE trusted
    /\ cache' = [hash |-> h, until |-> now + CacheTtl]
    /\ UNCHANGED <<sdk, key, now, issued, verdict>>

\* trust_code_hash.
TrustCodeHash(h) ==
    /\ trusted' = h
    /\ cache' = [hash |-> h, until |-> now + CacheTtl]
    /\ UNCHANGED <<sdk, key, now, issued, verdict>>

\* The entries of a registry that are trusted: one with a field missing is not.
\* A code_hash that is no text Rust skips, TypeScript trusts, and Dart throws at.
Loads(s, listed) ==
    {i \in DOMAIN listed :
        /\ listed[i] # "missing"
        /\ s = "rust" => listed[i] # "malformed"
        /\ s = "dart" => \A j \in 1..i : listed[j] # "malformed"}

\* fetch_trusted_hashes, load_trusted_hashes: the last entry of the capability
\* stays.  A request that fails trusts nothing.
LoadTrustedHashes(listed) ==
    \E i \in Loads(sdk, listed) :
        /\ \A j \in Loads(sdk, listed) : j <= i
        /\ TrustCodeHash(listed[i])

\* Every check is made, whatever the others said.
Passes(a, signature) ==
    /\ a.platform \in SupportedPlatforms
    /\ Fresh(sdk, a.text, a.ttl, now)
    /\ a.pcrs # "empty"
    /\ Expected # NoCode => a.code = Expected
    /\ SignedBy(EnclaveKey(a.platform), a, signature)

VerifyAttestation(a, signature) ==
    /\ verdict' = IF Passes(a, signature) THEN [claim |-> a, at |-> now, ok |-> TRUE]
                                          ELSE NoVerdict
    /\ cache' = IF Cached THEN cache ELSE NoEntry
    /\ UNCHANGED <<sdk, key, now, issued, trusted>>

\* The enclave states its code, the time and how long that is good for.
Issue(h, n, f) ==
    /\ Cardinality(issued) < MaxIssued
    /\ issued' = issued \cup
           {[claim |-> [platform |-> "aws_nitro", code |-> h, pcrs |-> "pcr0",
                        text |-> Written(f, now), ttl |-> n],
             at |-> now]}
    /\ UNCHANGED <<sdk, key, now, trusted, cache, verdict>>

Tick ==
    /\ now < MaxClock
    /\ now' = now + 1
    /\ UNCHANGED <<sdk, key, issued, trusted, cache, verdict>>

Next ==
    \/ \E h \in Codes : TrustCodeHash(h)
    \/ \E n \in 0..MaxListed :
           \E listed \in [1..n -> Codes \cup {"missing", "malformed"}] :
               LoadTrustedHashes(listed)
    \/ \E e \in issued : \E a \in Relayed(e.claim) : VerifyAttestation(a, e.claim)
    \/ \E h \in Codes, n \in Ttls, f \in Forms : Issue(h, n, f)
    \/ Tick

Spec == Init /\ [][Next]_vars

-----------------------------------------------------------------------------
\* Properties

TypeOK ==
    /\ sdk \in Sdks
    /\ key \in KeyConfigs
    /\ now \in Nat
    /\ issued \subseteq [claim : Claims, at : Nat]
    /\ trusted \in Codes \cup {NoCode, "malformed"}
    /\ cache.hash \in Codes \cup {NoCode, "malformed"}
    /\ cache.until \in Nat /\ cache.until <= now + CacheTtl
    /\ verdict \in Verdicts(now)

\* How much later than it means an SDK may read a timestamp: Rust drops an offset
\* behind a fraction, the others take the host's zone for a missing one.
Shift(s, f) ==
    CASE s = "rust" /\ f.zone = "offset" -> 2 * f.offset
      [] s # "rust" /\ f.zone = "none"   -> -2 * HostOffset
      [] OTHER                           -> 0

\* An attestation passes only if the enclave signed, for the very code, TTL and
\* hardware measurement, less than the TTL and a second ago; a timestamp the
\* protocol does not write stretches that by the zone that was dropped or
\* assumed, and by no more.
AcceptedIsFresh ==
    verdict.ok => \E e \in issued :
        /\ e.claim.code = verdict.claim.code /\ e.claim.ttl = verdict.claim.ttl
        /\ e.claim.pcrs = verdict.claim.pcrs
        /\ verdict.at - e.at < 2 * (verdict.claim.ttl + 1) + Shift(sdk, verdict.claim.text.form)

\* Whenever a check passes, the code is the one trusted last, if one is: an entry
\* of the cache, fresh or expired, never stands in for it.
AcceptsTrustedCode ==
    [][verdict' # verdict /\ verdict'.ok /\ trusted # NoCode
          => verdict'.claim.code = trusted]_vars

\* The SDKs agree on a timestamp the protocol writes, except in the second in
\* which it expires.
SdksAgree ==
    \A f \in Forms, n \in Ttls, w \in 0..MaxClock :
        LET x == Written(f, w)
            age == now - Meant(x)
        IN f.zone = "Z" =>
            /\ age <= 2 * n => \A s \in {"rust", "ts", "dart"} : Fresh(s, x, n, now)
            /\ age >= 2 * (n + 1) => \A s \in {"rust", "ts", "dart"} : ~Fresh(s, x, n, now)

\* An attestation that has expired stays expired: a caller that asks again
\* later is not let through.
ExpiredStaysExpired ==
    [][\A f \in Forms, n \in Ttls, w \in 0..MaxClock :
          LET x == Written(f, w)
          IN ~Fresh(sdk, x, n, now) => ~Fresh(sdk', x, n, now')]_vars
=============================================================================
