------------------------- MODULE EventLoopChannels -------------------------
(***************************************************************************)
(* AimarketAgent of the TypeScript and Dart SDKs (typescript/src/agent.ts, *)
(* dart/lib/src/agent.dart): the channel operations of AgentChannels on an *)
(* event loop, where a stretch between two awaits is one step for          *)
(* everybody, so that a captured secret and its cached channel appear      *)
(* together.  What differs further:                                        *)
(*                                                                         *)
(*   ts    an answer comes in two parts: its headers end the timer, its    *)
(*         body may still break or never come; close_channel forgets the   *)
(*         secret between the two;                                         *)
(*   dart  the channel is decoded before its secret is kept, only invoke   *)
(*         has a timer, and all requests share one HTTP client, which      *)
(*         dispose and fetchTrustedHashes close.                           *)
(*                                                                         *)
(* The hub is the one of AgentChannels.                                    *)
(***************************************************************************)
EXTENDS AgentChannelsInv

CONSTANT Sdks   \* the SDKs an agent may be of

ASSUME LoopAssumption == Sdks \subseteq {"ts", "dart"}

VARIABLES
    sdk,        \* the SDK of this agent
    reading,    \* ts: calls that have the headers of their answer, not its body
    open        \* dart: the HTTP client is open

loop     == <<sdk, reading, open>>
loopVars == <<vars, loop>>

LoopInit ==
    /\ Init
    /\ sdk \in Sdks
    /\ reading = {}
    /\ open = TRUE

Waiting(c) == pc[c] \in {"opening", "invoking", "closing"}

-----------------------------------------------------------------------------
\* Between two awaits

\* Mutant: the owner of the channel is not kept.
OpenedWithoutOwner(c) ==
    LET ch == about[c] IN
    /\ pc[c] = "opening" /\ net[c] = "ok"
    /\ secrets' = IF terms[ch].secured THEN secrets \cup {ch} ELSE secrets
    /\ cache' = [cache EXCEPT ![asked[c].key] =
                     [ch |-> ch, tx |-> asked[c].tx, balance |-> terms[ch].balance]]
    /\ pc' = [pc EXCEPT ![c] = AfterOpen(c)]
    /\ held' = [held EXCEPT ![c] = ch]
    /\ Read(c)
    /\ UNCHANGED <<api, asked, result, wallets, hub>>

\* The answer of channel/open is there: secret, wallet and channel are kept.
Opened(c) ==
    LET ch == about[c] IN
    /\ pc[c] = "opening" /\ net[c] = "ok"
    /\ secrets' = IF terms[ch].secured THEN secrets \cup {ch} ELSE secrets
    /\ wallets' = IF terms[ch].tx # NoTx THEN wallets \cup {ch} ELSE wallets
    /\ cache' = [cache EXCEPT ![asked[c].key] =
                     [ch |-> ch, tx |-> asked[c].tx, balance |-> terms[ch].balance]]
    /\ pc' = [pc EXCEPT ![c] = AfterOpen(c)]
    /\ held' = [held EXCEPT ![c] = ch]
    /\ Read(c)
    /\ UNCHANGED <<api, asked, result, hub>>

\* An attestation that fails its check: an error before anything is sent.
AttestationFails(c) ==
    /\ pc[c] = "idle"
    /\ pc' = [pc EXCEPT ![c] = "err"]
    /\ api' = [api EXCEPT ![c] = "invoke"]
    /\ result' = [result EXCEPT ![c] = "refused"]
    /\ UNCHANGED <<asked, held, exchange, agent, hub>>

-----------------------------------------------------------------------------
\* TypeScript

TsOpenChannel(c, k, t) ==
    /\ OpenHit(c, k, t) \/ OpenMiss(c, k, t) \/ OpenWithoutHash(c)
    /\ UNCHANGED loop

TsInvoke(c, ch) ==
    /\ InvokeSend(c, ch) \/ InvokeWithoutRail(c) \/ AttestationFails(c)
    /\ UNCHANGED loop

TsCloseChannel(c, ch) == CloseSend(c, ch) /\ UNCHANGED loop

TsRunOnce(c) == RunOnce(c) /\ UNCHANGED loop

\* Mutant: secret and wallet are forgotten whatever the status is.
TsHeadersForget(c) ==
    /\ Waiting(c) /\ net[c] \in {"ok", "refused", "failed"} /\ c \notin reading
    /\ reading' = reading \cup {c}
    /\ IF pc[c] = "closing"
       THEN /\ secrets' = secrets \ {held[c]}
            /\ wallets' = wallets \ {held[c]}
       ELSE UNCHANGED <<secrets, wallets>>
    /\ UNCHANGED <<caller, exchange, cache, hub, sdk, open>>

\* The headers end the timer.  A 2xx answer to a close forgets secret and
\* wallet before its body is there.
TsHeaders(c) ==
    /\ Waiting(c) /\ net[c] \in {"ok", "refused", "failed"} /\ c \notin reading
    /\ reading' = reading \cup {c}
    /\ IF pc[c] = "closing" /\ net[c] = "ok"
       THEN /\ secrets' = secrets \ {held[c]}
            /\ wallets' = wallets \ {held[c]}
       ELSE UNCHANGED <<secrets, wallets>>
    /\ UNCHANGED <<caller, exchange, cache, hub, sdk, open>>

\* The rest of each operation, behind its body.
TsBody(c) == c \in reading /\ reading' = reading \ {c} /\ UNCHANGED <<sdk, open>>

TsOpened(c) == Opened(c) /\ TsBody(c)

TsInvoked(c) == InvokeReturns(c) /\ TsBody(c)

TsClosed(c) ==
    /\ pc[c] = "closing" /\ net[c] = "ok"
    /\ pc' = [pc EXCEPT ![c] = "ok"]
    /\ Read(c)
    /\ TsBody(c)
    /\ UNCHANGED <<api, asked, held, result, agent, hub>>

TsRefused(c) == Refused(c) /\ TsBody(c)

\* The timer before the headers, a broken connection, a body that is no JSON.
TsFails(c) ==
    /\ TransportError(c)
    /\ reading' = reading \ {c}
    /\ UNCHANGED <<sdk, open>>

TsDispose == Dispose /\ UNCHANGED loop

Ts(c) ==
    /\ sdk = "ts"
    /\ \/ \E k \in Keys, t \in SomeTx : TsOpenChannel(c, k, t)
       \/ \E ch \in SomeChannel : TsInvoke(c, ch)
       \/ \E ch \in Channels : TsCloseChannel(c, ch)
       \/ TsRunOnce(c) \/ TsHeaders(c)
       \/ TsOpened(c) \/ TsInvoked(c) \/ TsClosed(c) \/ TsRefused(c) \/ TsFails(c)

-----------------------------------------------------------------------------
\* Dart

DartOpenChannel(c, k, t) ==
    /\ OpenHit(c, k, t) \/ (open /\ OpenMiss(c, k, t)) \/ OpenWithoutHash(c)
    /\ UNCHANGED loop

DartInvoke(c, ch) ==
    /\ (open /\ InvokeSend(c, ch)) \/ InvokeWithoutRail(c) \/ AttestationFails(c)
    /\ UNCHANGED loop

DartCloseChannel(c, ch) == open /\ CloseSend(c, ch) /\ UNCHANGED loop

\* On a closed client discover fails.
DartRunOnce(c) ==
    /\ RunOnce(c)
    /\ open \/ pc'[c] = "err"
    /\ UNCHANGED loop

\* A request on the closed client throws where it would have been sent; what
\* the method does before stays done.
ThrowsOnClosed(c) ==
    /\ ~open
    /\ pc' = [pc EXCEPT ![c] = "err"]
    /\ UNCHANGED <<result, exchange, secrets, wallets, hub, loop>>

OpenOnClosed(c, k, t) ==
    /\ MayOpen(c, k, t) /\ ~Reuses(cache[k], t)
    /\ cache' = [cache EXCEPT ![k] = Empty]
    /\ asked' = [asked EXCEPT ![c] = [key |-> k, tx |-> t]]
    /\ api' = [api EXCEPT ![c] = Api(c, "open")]
    /\ UNCHANGED held

InvokeOnClosed(c, ch) ==
    /\ \/ pc[c] = "idle" /\ ch \in (IF ApiKey THEN {NoChannel} ELSE HandedOut)
       \/ pc[c] = "holding" /\ ch = held[c]
    /\ held' = [held EXCEPT ![c] = ch]
    /\ api' = [api EXCEPT ![c] = Api(c, "invoke")]
    /\ UNCHANGED <<asked, cache>>

CloseOnClosed(c, ch) ==
    /\ \/ pc[c] = "idle" /\ ch \in HandedOut
       \/ pc[c] = "invoked" /\ ch = held[c]
    /\ cache' = [k \in Keys |-> IF cache[k].ch = ch THEN Empty ELSE cache[k]]
    /\ held' = [held EXCEPT ![c] = ch]
    /\ api' = [api EXCEPT ![c] = Api(c, "close")]
    /\ UNCHANGED asked

DartClientClosed(c) ==
    /\ ThrowsOnClosed(c)
    /\ \/ \E k \in Keys, t \in SomeTx : OpenOnClosed(c, k, t)
       \/ \E ch \in SomeChannel : InvokeOnClosed(c, ch)
       \/ \E ch \in Channels : CloseOnClosed(c, ch)

DartOpened(c) == Opened(c) /\ UNCHANGED loop

DartInvoked(c) == InvokeReturns(c) /\ UNCHANGED loop

DartClosed(c) == CloseReturns(c) /\ UNCHANGED loop

DartRefused(c) == Refused(c) /\ UNCHANGED loop

\* Mutant: a lost connection sends the invoke again.
DartFailsRetries(c) == TransportErrorRetries(c) /\ UNCHANGED loop

\* The timer of invoke, a broken connection, an answer that does not decode:
\* nothing of it is kept.
DartFails(c) == TransportError(c) /\ UNCHANGED loop

\* The client is closed first.
DartDispose ==
    /\ open' = FALSE
    /\ Dispose
    /\ UNCHANGED <<sdk, reading>>

DartFetchTrustedHashes ==
    /\ open' = FALSE
    /\ UNCHANGED <<vars, sdk, reading>>

Dart(c) ==
    /\ sdk = "dart"
    /\ \/ \E k \in Keys, t \in SomeTx : DartOpenChannel(c, k, t)
       \/ \E ch \in SomeChannel : DartInvoke(c, ch)
       \/ \E ch \in Channels : DartCloseChannel(c, ch)
       \/ DartRunOnce(c) \/ DartClientClosed(c)
       \/ DartOpened(c) \/ DartInvoked(c) \/ DartClosed(c) \/ DartRefused(c) \/ DartFails(c)

-----------------------------------------------------------------------------
LoopNext ==
    \/ \E c \in Calls : Ts(c) \/ Dart(c) \/ (Hub(c) /\ UNCHANGED loop)
    \/ sdk = "ts" /\ TsDispose
    \/ sdk = "dart" /\ (DartDispose \/ DartFetchTrustedHashes)
    \/ \E ch \in Channels : Expire(ch) /\ UNCHANGED loop

LoopSpec == LoopInit /\ [][LoopNext]_loopVars

-----------------------------------------------------------------------------
\* Properties.  Those of AgentChannels, on LoopSpec: SecretLostOnlyWithAnswer,
\* RequestsCarryProof, NotCachedOnceClosing, RunOnceSettles, PaidAsPromised.

\* The types, and whose bodies are awaited: calls whose answer is there.
LoopTypeOK ==
    /\ TypeOK
    /\ sdk \in Sdks
    /\ open \in BOOLEAN
    /\ reading \subseteq {c \in Calls : Waiting(c) /\ net[c] \in {"ok", "refused", "failed"}}
    /\ sdk = "dart" => reading = {}
    /\ sdk = "ts" => open

\* Inductive on the event loop too: what ties a call to its exchange and a channel
\* to who knows it (IInv), where a secret and its cached channel appear together
\* and a close forgets the secret before its body is read.
LoopIInv == IInv /\ LoopTypeOK
=============================================================================
