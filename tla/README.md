# TLA+ development of the AIMarket consumer SDKs

The repository holds three SDKs of one protocol, in Rust (`src/rust`), TypeScript
(`src/typescript`) and Dart (`src/dart`): an application finds a capability at a hub, pays
for it from a payment channel, a credit account or a trial, and settles. What can go wrong
is money: a call paid twice, a secret lost with the money behind it, a caller told
"refused" who was charged. The modules here state what the SDKs promise about that and
check it against the code.

## The system

| part | state it keeps | operations | what is hard |
|---|---|---|---|
| Rust agent, `rust/src/agent.rs` | `channel_cache`, `channel_secrets`, `channel_wallets`, each behind its own lock; a write-once manifest | `open_channel`, `invoke`, `invoke_batch`, `close_channel`, `run_once`, `dispose`, `discover*`, `get_channel_balance`, `well_known` | concurrent tasks on one agent; awaits between reading a map and using it; answers that are lost, late or do not decode |
| TypeScript agent, `typescript/src/agent.ts` | the same maps | the same | the same, on one event loop; a batch throws while its invokes go on |
| Dart agent, `dart/lib/src/agent.dart` | the same maps, one HTTP client, a TEE verifier | the same, `fetchTrustedHashes` | the same, in one isolate; one client shared by everything; a timeout on invoke only |
| TEE verifier, `tee_verifier.dart`, `tee.rs`, `tee.ts` | map of expected hashes; in Dart a cache with a TTL in front of it | pin a hash, fetch the registry, verify an attestation | two stores with different lifetimes, filled by several callers |
| `market.run`, `typescript/src/market.ts` | nothing between calls | search, choose, invoke, verify the receipt | the hub reprices and rotates its key between the requests; aborts |
| payer proofs, `payer_proof.rs`, `payerProof.ts`, `payer_proof.dart` | nothing | build a challenge, sign it | one meaning has many spellings, and the hub compares byte for byte |
| debit authorizations, `eip712` and `signer` of each SDK | the keys | encode terms, sign them | three languages make words of the same numbers; a slip is another debit |
| errors, wire models, test vectors, docs, scripts | nothing | | |

The parts interact by calls. An agent's method is a chain of HTTP requests to the hub with
an `await` at each; between two awaits it reads or writes the shared maps. The hub keeps
the money. Everything a model says of the hub is external: what the SDKs and their
tests expect of it.

What makes each part correct:

- *Channels.* The one-time debit secret of a channel is kept as long as the agent can use
  the channel; every request carries the proofs the hub asks for; a channel that is being
  closed is never handed out again; an open is answered with the channel its caller asked
  for; a call is debited at most once and its caller is not told otherwise.
- *Batches.* One invoke that fails does not make the others be paid for and forgotten in
  ways the SDK does not say.
- *Session.* What the agent tells without paying (a balance, a manifest, a bill) is stale by no
  more than the code allows; a channel with money on it stays within reach; every call returns.
- *Verified wait.* A client that asked the hub to hold its answer waits longer than the hub does.
- *TEE verifier.* An invoke with an attestation is sent only on the last hash given, and only
  while the attestation lasts.
- *Signatures.* A wallet's signature gets exactly the deposit or the debit its program
  described accepted, however the description is written and in whichever SDK.
- *market.run.* Never charged above the budget; no result without a receipt when
  receipts are required; a payment error or a price conflict means not charged, and a safety
  error after a charge is about the receipt.

## Modules

`PaidCalls` is the abstract specification. It knows only how often a call was debited and
what its caller was told, and says: debited at most once; a result means debited; a failed
result or a refusal, an error that says the call was not paid for, means never debited, not even
later; any other error says nothing. The three modules of paid calls implement it (`PaidAsPromised`), each with its own refinement mapping
`outcome`.

**`AgentChannels`** models the payment channels of the Rust agent: `open_channel`, `invoke`,
`close_channel`, `run_once` and `dispose`, called by any number of tasks at once. `pc` is
where a call is, one step is the code between two awaits, and the HTTP exchange a call
waits on is `net`, `op`, `about` and `proof`. `cache`, `secrets` and `wallets` are the three
maps. `status`, `terms`, `balance`, `credit` and `debits` are the hub's. `OpenHit`, `OpenMiss` and
`OpenWithoutHash` are the start of `open_channel`; `OpenCapture` is the first stretch after
its answer, where secret and owner are stored, and `OpenReturns` or `OpenUndecodable` the
second. `Refused` and `TransportError` are the error returns of every method, and say what
`run_once` makes of each. A request whose caller gave up may still reach the hub, which then
debits it.

An agent without an api_key has `NoAccount` for a `credit` account.

**`AgentSession`** adds the calls of the Rust agent that only ask: `discover`, `get_channel_balance`,
`well_known` and the search `run_once` begins with, interleaved with the paid calls and with
`dispose`. `query` is where such a call is and what it was told, `manifest` is
`well_known_cache`, `served` the hub's. `floor` and `dropped` are history: what the hub served at the last `dispose`
that met no fetch, and the channels `dispose` forgot or a decoding error kept from the caller. Every behaviour of it is
one of `AgentChannels` (`SessionIsAgent`), so that all said of the channels holds here.

**`EventLoopChannels`** extends `AgentChannels` for the TypeScript and Dart agents: the same operations, as
steps of an event loop. `Opened` is the whole answer of `openChannel` in one step. In TypeScript
an answer has two parts: `TsHeaders` ends the timer, and its body is read by the step
that uses it (`TsOpened`, `TsInvoked`, `TsClosed`, `TsRefused`) or breaks (`TsFails`); `reading` is
who waits for one. `closeChannel` forgets secret and owner at the headers. In Dart the
channel is decoded before its secret is kept, so that an answer that does not decode is lost
(`DartFails`), and the requests share `open`, a client that `dispose` and `fetchTrustedHashes` close
(`DartClientClosed`).

**`AgentChannelsInv`** has the inductive invariant of `AgentChannels`, which the event loop keeps too;
**`AgentChannelsProofs`** has the proofs of all three.

**`InvokeBatch`** models `invoke_batch` of the three SDKs, told apart by `style`: Rust sends
one invoke after the other, Dart sends all and waits for all, TypeScript sends all and
throws at the first error. `item` is what each invoke brought. **`InvokeBatchProofs`**.

**`VerifiedWait`** models one invoke with a Pay-on-Verified block, in seconds: what the three agents and
`market.run` make of `wait` and `wait_timeout_s` (`VerifyBlockWaits`, `RustSeconds`, `TsSeconds`, `DartSeconds`), the
`Timeout` each gives the request, with the limits of its language's timers, and a hub that holds
the money until the verdict and the answer until the verdict or its bound. **`VerifiedWaitProofs`**.

**`DartTrust`** models the trusted hashes of the Dart agent: `trusted` is
`_trustedCodeHashes`, `cache` is `TrustedHashCache`, `open` is the agent's HTTP client, and a
request is a fetch of the registry, an invoke (with an attestation or without) or any other
request. The constructor keeps the map it is given: `map` is whether only the agent writes it, the
caller too (`CallerWrites`), or nobody can, as a `const` map, which makes a pin throw before the cache
and a fetch throw behind it (`FetchThrows`). `Diverged` names what may part the two stores.
**`DartTrustProofs`**.

**`MarketRun`** models `market.run`: search, invoke and verify are the three exchanges of a
run, each with its headers and its body, and `Meaning` is what the status codes mean. A safety
error has one class and one status, whoever throws it: the safety gate before the charge, or
`market.run` itself over a receipt after it. So `outcome` makes it an error that says nothing, and
`ChargedSafetyOnlyIf` says what such a caller was charged for: the receipt was required and is missing,
forged, signed with a key that has been rotated out or without the post-quantum half, or the hub did not
verify it. **`MarketRunProofs`**.

**`Calendar`** models the calendar arithmetic of the Rust SDK, which has no date library:
`DaysFromCivil` is the closed formula, and a walk from date to date the calendar it is
checked against. Its proofs are the first part of `AttestationProofs`, which reads those timestamps.

**`Attestation`** models the check the three TEE verifiers make before an invoke sends its
input, against a clock of half seconds. A timestamp is a `Texts` record, and `RustFresh`, `TsFresh`
and `DartFresh` are what each SDK makes of it; `Meant` is what it means, a missing zone being UTC.
`Issue` is the enclave, `Relayed` what the hub hands on, possibly with a
field that is not the signed one; `TrustCodeHash`, `LoadTrustedHashes` and `VerifyAttestation` are the verifier, whose
key for the enclave's platform may be missing or a placeholder (`EnclaveKey`). **`AttestationProofs`**.

**`PayerProof`** models the challenge a wallet signs for the deposit that funds a channel, and the
hub that makes its own of what it finds on chain. A text is what it says, its white space, its
prefix and its case; an amount is what `amount_usd * 100` comes to, in quarters of a cent.
`RustMessage`, `TsMessage` and `DartMessage` are the three SDKs; beyond an `i64` Rust saturates
(`Saturated`), Dart saturates or wraps, and TypeScript goes on. **`PayerProofProofs`**.

**`DebitAuthorization`** models the terms of an on-chain debit: `RustDigest`, `TsDigest` and `DartDigest`
are the words under the hash, each with what its language makes of a text or a number,
`Signer` the key each reads, and `DebitChannel` the escrow, which makes its own words. `Misreads` names the terms
an SDK signs as others than were meant; `RustTakes` is what the types of the Rust SDK can hold.
**`DebitAuthorizationProofs`**.

The `MC*` modules give the constants their small values.

### Abstractions

- A cache key, a deposit, a channel, a hash, a capability is a model value; a balance is
  a few units; `Deposit` is 2 so that half of it is a balance.
- `AgentChannels`: `close_channel` evicts the cache entries and reads secret and owner in one
  step, and forgets secret and owner in the step that reads the body of the answer, where the
  Rust code forgets them at its headers (`EventLoopChannels` tells the two apart); the owner of a channel is known exactly when a deposit funded it (the fallback on the
  wallet the caller passed is not told apart); with an api_key the channel id is absent; the hub
  refuses a spent deposit; hub and client agree on when a channel expires; an answer 2xx with
  `success: false` is an answer with a result.
- `AgentSession`: of a listing only whether it is empty; the manifest is a version; a body without the
  balance reads as 0. The hub names the spend in a settlement: one that does not name it reads as 0 in Rust and
  TypeScript (`agent.rs:711`, `agent.ts:564`), whatever was spent, and a bill is then too low. A discover that fails and one whose listing does not decode are one error: one match
  without its ids spoils the whole plan.
- `VerifiedWait`: whole seconds; invokes share nothing here, so there is one; a Dart bound beyond
  `Duration` is not modelled. Of a `wait` that is truthy and no bool the hub may make either.
- `DartTrust`: `genuine` stands for the checks of an attestation that read no state. Entries of
  the registry for one capability are collapsed to the last; one that is not an object ends
  the loading there. On a map that cannot be written any of the listed entries may be the first.
  `IOClient.close(force: true)` is external.
- `DartTrust`, `Attestation`: the cache of hashes starts empty. `TeeVerifier` takes one from its caller in
  TypeScript and Dart (`tee.ts:91`, `tee_verifier.dart:149`), but no agent passes one (`agent.ts:166`,
  `agent.dart:278`); an entry in it would stand in for the map until it expires.
- The wall clock moves forward. Set back, it makes a stale attestation fresh again and an expired
  cache entry live: `ExpiredStaysExpired` and `PassesFresh` are about a clock that is not.
- `MarketRun`: one account stands for trial, credits and channel; the options of a run are
  constants, its policy one per run; the hub's listing is any short sequence of offers; `pq_valid: null` is false.
- `PayerProof`, `DebitAuthorization`: a hash is what is hashed, and a signature under another
  digest recovers to nobody. Hub and escrow are external: what the test vectors
  (`test-vectors/payer-proof.json`, `debit_authorization.json`) say of them.
- `InvokeBatch`: the invokes of a batch without a rail fail before they send, which is
  `Rejected`; the exchange of an invoke is reduced to what a batch can tell apart.

## Runs

| run | question | result |
|---|---|---|
| `agent_channels` | three calls, two channels or a credit account, full interleaving: what the agent keeps, what callers get, what is paid; is `IInv`, on which the proofs rest, an invariant | holds |
| `agent_session` | two calls of any kind, asking or paying, with an api_key and without: how stale is a balance, do bill and settlement agree, which channels are left with money on them, which manifest is told; does every call return when the hub never answers | holds under `FairSession` |
| `event_loop_channels` | the same promises of the TypeScript and Dart agents: broken bodies, a client closed under calls | holds |
| `dart_trust` | two requests, registry, pins and expiry: which hash an invoke is sent on, also when the map is the caller's or cannot be written; does an invoke end | holds |
| `market_run` | two runs on one account, one requiring a receipt and one verifying it if present; prices and key change under them: what is charged, what a safety error after a charge is about; does a wait for headers end | holds |
| `invoke_batch` | three invokes on one balance, three SDKs | holds |
| `calendar` | does `days_from_civil` count every day once, is a later text read as later | holds |
| `attestation` | how long does an attestation pass, in every form of its timestamp, and for which code; do the SDKs agree | holds |
| `verified_wait` | when does a client give up before the hub does; do the agents agree on a block; how often is the money held | holds |
| `payer_proof` | does the hub credit a proof to the deposit it describes and to no other, in every spelling | holds |
| `debit_authorization` | does the escrow debit what the program meant and nothing else | holds |
| `deposit_sent_again` | is a deposit never sent a second time, as `agent.rs:196` says | violated |

The violated run is a finding in `PROJECT.json`, with the sentence it contradicts.

### Bounds

*Calls.* A call is made once; a sequence of calls by one task is several calls that do not
overlap, so three calls give all orders of open, invoke and close, and all overlaps of two
`run_once` with a third call. *Channels.* Two: the one in the cache and one that another open
is about to put there, so that an entry can be overwritten; after two the hub opens no more.
*Keys.* One, because entries of two keys share nothing but the secrets, which are
per channel. *Txs.* One, to have deposit-funded and other channels; two for the run that asks
for a deposit again. *Deposit.* 2 with `Price` 1: a channel is full, half (no longer
reusable) and empty. The symmetry is over calls and channels in runs without
liveness; the specification treats each of them alike.

`AgentSession`: two calls, because what is asked there is what one call does to what another was
told; `Deposit` 3 and balances of 2, so that a cached balance is neither the deposit nor half of it; with
`MaxManifest` 2 the manifest is republished once. `VerifiedWait`: `Slack` 2 and `Default` 3 on a clock of 12, with
bounds below, at and above the default and around the limits of JavaScript's timers (8), Dart's (10) and
Rust's word (12), which lie in this order in the code, days and ages apart.

`EventLoopChannels`: one channel, for three calls; that one entry overwrites another is in
`agent_channels`. `SecretLostOnlyWithAnswer` counts an answer Dart does not decode as lost.

`DartTrust`: one request can be a fetch and the other an invoke, in either order; `MaxClock` 2
with `TTL` 1 lets an entry expire, with time left for a second one. The capabilities share
nothing, so there is one, and two hashes for it. The constructor is given one of them or none, in each of the
three kinds of map; the hub lists one, or another and then what is not an object, or only that. `MarketRun`: two offers, priced at the budget and
above it; `MaxKeys` 1 is one rotation, which is all a run can see between the signing and the
verification of a receipt; `Funds` pay for one run and not for two. `InvokeBatch`: three
invokes are one that fails, one before and one behind it; `Funds` 3 with prices 1 and 2 pays for
two or three of them.

`Attestation`: TTLs of 0 and 1 second on a clock of two and a half: before, in and after the
second of expiry, with a fraction and without. One statement is signed, in every state of
the clock; a check relates a claim to one. A registry of two entries has a malformed one before or
behind a good one.

`Calendar`: walks of 1500 days hold a leap day each, from the first date a text can name to the
present; seconds are compared where they fit TLC's integers (`Fits`).

`PayerProof`: one chain, a hex transaction and a base58 one, two wallets; every spelling of
them that the code tells apart, and amounts at, below and above two ties, one that goes down
and one that goes up; `MaxCents` is 3, with amounts at its sum, past it by one and by two, and below
its negative. No deposit is as large as `MaxCents`, 2^63 - 1 cents in the code. `DebitAuthorization`: usual terms with one or two of them changed in value,
in spelling, or left out, against the debits a slip could pass for theirs: the id times 16, the address without its last digit, 0 for a
negative number. `TwoTo128` is 16 and `TwoTo256` 256, so that a cast can wrap and a number can exceed its
word. Both are a line of two steps: what varies is the input.

The bounds are constants (`MaxExpired`, `MaxClock`, `MaxKeys`, `MaxDays`,
`MaxManifest`, `MaxListed`, `MaxTime`) with their guards in `Expire`,
`Tick`, `RotateKey` and `Midnight`, or the size of a set. One of the two channels may expire: an entry that has
expired is next to one that has not. Deadlock is checked in every run but `invoke_batch`, `calendar`, `attestation`, `payer_proof`, `debit_authorization` and `verified_wait`: a batch
that has ended is the end, and so are a walk, the bound of a clock and an answer; elsewhere `dispose`, the registry, a price or the clock can always
move.

### Fairness

Only of the client: what is ready to run runs (tokio, the event loop, the isolate), and a timer
that was started fires. In Rust `reqwest` has a timeout on the whole request
(`with_config`), so that once a call is made its own steps are fair (`FairSession`: nothing makes the
application call); in Dart invoke has `.timeout(..)` over the whole exchange, in
TypeScript the timer runs until the headers are there. Nothing is assumed of the hub or of
the network: an answer that never comes is always among the behaviours. `EveryCallReturns`,
`InvokeEnds`, `HeadersEnd` and `BatchEnds` are what follows. `BatchEnds` leaves out TypeScript,
where nothing ends a body that never comes.

## Proofs

All are for every value of the constants that satisfies the named assumptions
(`ConstantsAssumption`, `SessionAssumption`, `TrustAssumption`, `MarketAssumption`, `BatchAssumption`,
`AttestationAssumption`, `PayerProofAssumption`, `DebitAssumption`, `CalendarAssumption`, `WaitAssumption`): any number of
calls (finitely many where what they spent is counted), channels, keys, deposits, requests, runs, any prices and balances.

**AgentChannels.** None of the properties is inductive alone. `IInv` has three parts.
`Shape` ties the stage of a call to the exchange it waits on and to what it holds. `Handles` says
who can know a channel: the answer to an open that nobody has read names a channel nobody else
knows (`UnreadIsFresh`), a captured one is held by one call (`CapturedIsPrivate`), and
any channel somebody knows is provable while it is open (`KnownIsProvable`). That is why
no other call can close, cache or forget it in between, which a proof of
`NotCachedOnceClosing` or `RequestsCarryProof` needs. `Payment` ties a debit to the exchange
of its call. `Invariance` proves it by one lemma per group of actions; the properties are read
off it, and `PaysAsPromised` shows each step to be a step of `PaidCalls` or none.

`DepositNotSentAgain` is violated; `SentAgain` says what holds instead, for every instance: a deposit whose
unexpired channel somebody has is posted again only when that channel is no longer the one cached under its key.
An open that misses is not for the deposit of the channel in the cache, since the cache agrees with the
hub on who funded what (`CacheAgreesWithHub`) and the caller has the channel of its own deposit.

**EventLoopChannels.** A step of either agent is one of `AgentChannels`, or leaves its state alone, or is one
of five that only the event loop has (`LoopStep`): the answer of an open used in one step (`Opened`), an
attestation that fails, headers whose body is not there yet (`TsHeaders`), the body of a close (`TsClosed`), and a
method that finds the client closed (`DartClientClosed`). For the first kind the lemmas of `AgentChannels` are used as
they are; the five keep each part of `IInv` by leaves of their own. The hard ones are `TsHeaders`, where a
secret is forgotten while its close is still under way, which only `CloseAnswered` permits (the hub has closed the
channel), and `DartClientClosed`, where a close that was never sent still has its channel out of the
cache. `LoopIInv` adds that a body is awaited only by a call whose answer is there. The theorems of the Rust agent follow
for the two others (`LoopSecretsKept`, `LoopProofsSent`, `LoopClosedStaysOut`, `LoopOpensMatch`, `LoopCyclesSettle`,
`LoopPays`, `LoopSentAgain`), and with `Accounted`, which the five steps leave alone, `LoopBalanceStale` and `LoopBillsMeet`.

**AgentSession.** `SessionIsAgent` shows each step of a session to be a step of the agent or none,
which gives `IInv` for nothing. `ManifestFresh` needs `ManifestInv`: the version that is cached, and any in an
answer that is still to be read, lies between `floor` and `served`. `BalanceStale` and `BillsMeetSettlements` rest on
`Accounted`: what a channel was opened with less what is left is the price times the calls debited on it, a cardinality
that grows by one with each debit, which is why the calls must be finitely many; `ToldInRange` says
that a balance once told is between the two. `ChannelsStayInReach` takes the property with `SessionShape`: a cached balance is the one the channel came
with, and `run_once` opens only behind a plan; each action that takes a channel out of the cache is then one of its causes.

**InvokeBatch.** `Exchange` ties an invoke's result, exchange and debit. `SentInOrder`: in Rust an
invoke that was sent has only results before it. `SentAtOnce`: in the others all are sent before
any ends, and only a TypeScript batch that has thrown leaves some under way.

**DartTrust.** `CacheAgreesWithMap` is inductive with the types and `ToldIsDone`: both stores are written
together, but for a write of the caller or a fetch that throws, and the cache alone only forgets. Once diverged a
capability stays so until the agent writes both (`DivergedStays`), because what a request was told is
final. `SentOnTrustedCode` follows at the step that sends, since `Expected` reads the cache when it is fresh
and the map otherwise.

**MarketRun.** `ClientRun` and `HubRun` keep the invariant through the steps of the SDK and of the hub:
the budget caps what the invoke sends, the hub charges no more than that, a receipt in hand
was signed for a debit, and a run past its invoke has been debited once or has been refused.
`SafetyErrorsExplained` proves `ChargedSafetyOnlyIf`: a run that was debited is past its invoke, so its safety
error comes from the receipt (`Blamed`), and a key that was rotated out when the hub judged it stays so.

**Calendar.** `ClosedFormula` takes the eras out of the formula (`EraFloors`: the shifted truncating
division is a floor, also before the year 0), which leaves a sum of floors; `YearLength` is the
difference of two years in it. `NextDayCounts` has one lemma per kind of tomorrow: the same month,
March, another month, another year. A walk then counts by induction on its steps.

**Attestation.** `FreshExactly` says of each SDK's arithmetic, truncations and all, that a text in
UTC is fresh while its age is within the TTL and stale a second later; `Agreement` is that for the
three, and `PassesFresh` follows with `Signed`: what the enclave signed means no later instant
than when it did, and the signature covers text, code, TTL and measurement. For a timestamp that is not in
UTC the bound is stretched by `Shift`, the zone an SDK drops or assumes, and by no more. `PassesTrusted`: a check compares
with the hash trusted last, since the cache is empty or agrees with the map (`CacheIsTrusted`).

**VerifiedWait.** `ClientOutlastsHub` compares two computations of one bound: `RustOutlasts`, `TsOutlasts` and `DartOutlasts` say for
each language that its timeout, if it was not wrapped, clamped or read from something else, exceeds the bound the
hub makes of the same block by the slack. `WaitInv` adds what the clock does with it: an aborted call ended no earlier
than its timeout (`Timed`), a request that arrived is held until no later than its bound allows (`Held`), and what was told is
true (`Truthful`). `DocumentedBlockOutlasts` draws the conclusion the comments do: a documented block whose request took no longer
than the slack is never aborted mid-wait. `WaitAssumption` asks that default and slack stay below every limit of
a timer (300 + 30 seconds, against 24 days, 2^63 microseconds and 2^64).

**PayerProof.** `RoundsToNearest` is the rounding for every amount; `ChainNames`, `HashNamesTransaction`,
`PayerNamesAddress` and `CentsName` say of each line of the challenge that it equals the hub's only
if it names the same thing, and whenever it is well formed. `ChallengeNamesDeposit` joins them, and
`ProofIsSound` follows at the step of the hub.

**DebitAuthorization.** `DigestMeans`: the words an SDK computes of any terms it takes and does not
misread are the numbers they mean; `WellFormedComputes`: of well-formed ones it computes them.
`AuthorisationIsSound` follows with `SignerMeans` at the step of the escrow. `Misreads` is stated for each SDK: for a
negative deadline in Rust, an odd number of digits in a `bytes32` in TypeScript, and negative numbers and
odd or surplus digits in Dart. In each of these cases the SDK signs another debit than was meant (see below).

Every safety property of a passing run is a theorem. What is checked by TLC only: the liveness properties (`EveryCallReturns`,
`InvokeEnds`, `HeadersEnd`, `BatchEnds`), since fairness and ENABLED are out of the prover's reach. The violated property is refuted by its run.
`IInv` is an invariant of a run. `LoopIInv`, `WaitInv`, `Patient`, `SentAgainOnceLeft` and, on the event loop, `CachedStaleByInvokes` and
`BillMeetsSettlement` are no properties of a run; they hold on the instances of `verified_wait`, `deposit_sent_again` and `event_loop_channels`.

## Observed and not kept as a run

- `agent.rs:217` says that an open without a deposit reuses a channel that still has most of its
  balance; the cached balance is the one at open and no invoke lowers it. `BalanceStaleByInvokes` says how far off it is.
- `fetchTrustedHashes` closes the HTTP client of the Dart agent (`tee_verifier.dart:194`), which
  `agent.dart:841` says `dispose` does; every later request fails (`CloseClient`).
- A finite amount whose product with 100 is not gives `i64::MAX` or `i64::MIN` in Rust, `Infinity` in
  TypeScript and throws in Dart; the comments say -1 for an unusable amount (`payer_proof.rs:67`). One
  beyond 2^63 cents saturates in Rust (`payer_proof.rs:79`) and wraps in Dart (`floor + 1`).
- U+FEFF and U+0085 are white space to some of the SDKs only, and a payer without `0x` keeps its case.
- A negative deadline is a time that never comes in Rust (`signer.rs:112`); a negative amount, nonce,
  deadline or chain id is 0 in Dart (`eip712.dart:49-57`). A number of 2^256 or more throws in both
  TypeScript and Dart.
- An address with an odd digit loses it in Dart (`eip712.dart:34`), and so does a `bytes32` of 65 digits. TypeScript takes
  a `bytes32` of 63 digits, since viem counts bytes upwards, and pads it at the right: it signs for 16 times the
  id. Rust refuses it.
- Dart signs with a key that lacks leading digits, where the others refuse it; Rust and Dart refuse
  a key with `0X`, TypeScript takes it.
- `fetchTrustedHashes` throws on a connection error; its comment says -1
  (`tee_verifier.dart:173-178`).
- The TTL of the trusted hashes never makes one stale: an expired entry falls back to the map
  (`tee_verifier.dart:230` against the comment at 81).
- A `trustedCodeHashes` map that cannot be written makes `trustCodeHash` throw. `fetchTrustedHashes` then
  throws at its first entry and leaves that hash in the cache only (`tee_verifier.dart:188-189`): it is trusted until it
  expires, and the old one of the map again after that.
- `market.ts` throws `AimarketSafetyException` also when a receipt is missing or does not verify
  (lines 286-297), after the invoke was charged; `errors.ts:28` says the invocation was blocked, and
  `docs/en.md:400` to scrub the input and retry, which is charged again. `ChargedSafetyOnlyIf` says when.
- Rust refuses a timestamp with an offset unless it has a fraction, and then ignores the
  offset (`tee.rs:278`, `RustFresh`). TypeScript and Dart read one without a zone as the host's local time
  (`tee.ts:74`, `tee_verifier.dart:212`), where `models.dart:413` and `445` say it is UTC and that an
  expired one is never treated as fresh; the verifier calls neither (`Shift`).
- A year of more than eleven digits overflows `i64` in Rust (`tee.rs:299`), where the comment at 262 says
  out of range is an error.
- A registry entry whose `code_hash` is no text is skipped in Rust, trusted in TypeScript, and throws in
  Dart (`Loads`).
- `dispose` clears the manifest in Rust; Dart's keeps it.
- Rust lists the price of a match before its routed price (`models.rs:207`), `market.ts` the routed one first.
- In Dart only `invoke` has a timeout (`agent.dart:640`); the constructor's comment says it is per
  request (`agent.dart:254`).
- `market.ts:155` clears the timer at the headers; the body is read without one
  (`docs/en.md:283` says 30 s per request).
- `docs/en.md:283` speaks of retries; no SDK sends a request twice.
- A `wait_timeout_s` given as a fraction or a text reads as 300 in Rust (`agent.rs:776-780`), and one near
  2^64 wraps; a bound of more than 24 days fires a JavaScript timer at once (`agent.ts:453`).
- The comment at `agent.rs:748` says JavaScript and Dart are forgiving about `wait`; `agent.dart:551` is `== true`.
  In Dart the timeout is computed when `post()` has been called, so that a bound given as a text throws with the
  request on its way (`agent.dart:640`). `market.ts` forwards the block and does not wait longer for it.
  `AbortedMidWaitOnlyIf` names each of these.
- A batch that throws drops the results it has paid for.

## Not modelled

Discovery and balance of the TypeScript and Dart agents: they would be as in `AgentSession`, on the event loop, with
what each makes of a match that lacks a field.

Receipts (`verify_receipt` compares two hashes) are left out: no state and no choice. Request ids, the encodings of keys and signatures, and the points of small order stay
out: library code without state. Models, errors, tests and docs have no behaviour of their own.
