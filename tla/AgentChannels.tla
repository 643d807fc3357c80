---------------------------- MODULE AgentChannels ----------------------------
(***************************************************************************)
(* AimarketAgent of the Rust SDK (rust/src/agent.rs): open_channel,        *)
(* invoke, close_channel, run_once and dispose, called concurrently on one *)
(* agent, over HTTP requests that may be lost, answered late or answered   *)
(* to a caller that has given up.  The agent keeps three maps under three  *)
(* locks: the channel cache, the debit secrets and the owner wallets.      *)
(*                                                                         *)
(* The hub is another program: its actions are what the SDK and its tests  *)
(* expect of it.  One step is the code between two awaits; where two locks *)
(* are taken in such a stretch and their order can be seen, there are two. *)
(***************************************************************************)
EXTENDS Integers, FiniteSets

CONSTANTS
    Calls,            \* API calls the application makes, each made once
    Channels,         \* channel ids the hub may issue
    Keys,             \* cache keys "deposit:token:chain"
    Txs,              \* canonical hashes of deposit transactions
    RunKey,           \* the key run_once opens under
    NoChannel, NoTx,  \* absent channel, absent deposit
    Deposit,          \* what a channel is opened with
    OpeningBalances,  \* balances the hub may report at open
    Securing,         \* {TRUE}: every channel has a debit secret; BOOLEAN: some do
    Price,            \* price of one invocation
    Credits,          \* opening balances of the credit account, or NoAccount
    MaxExpired        \* bound on how many channels expire

NoAccount == -1   \* the agent has no api_key

ASSUME ConstantsAssumption ==
    /\ RunKey \in Keys
    /\ NoChannel \notin Channels
    /\ NoTx \notin Txs
    /\ Deposit \in Nat
    /\ OpeningBalances \subseteq 0..Deposit
    /\ Securing \subseteq BOOLEAN
    /\ Price \in Nat
    /\ Credits \subseteq Nat \cup {NoAccount}
    /\ MaxExpired \in Nat

VARIABLES
    \* a call, as its caller sees it
    pc,        \* where it is
    api,       \* the method called
    asked,     \* what open_channel was asked for: cache key and deposit
    held,      \* the channel it has
    result,    \* what invoke brought
    \* the HTTP exchange a call waits on
    net,       \* how far it is
    op,        \* its endpoint
    about,     \* the channel it names: in the request, or in the answer to open
    proof,     \* the proofs the request carries
    \* the agent
    cache,     \* channel_cache
    secrets,   \* channels whose debit secret is in channel_secrets
    wallets,   \* channels whose owner is in channel_wallets
    \* the hub
    status,    \* of each channel
    terms,     \* what each channel was opened with
    balance,   \* what is left on it
    expired,   \* channels whose expires_at has passed
    credit,    \* the credit account of the agent's api_key
    debits     \* how often each call was debited

caller   == <<pc, api, asked, held, result>>
exchange == <<net, op, about, proof>>
agent    == <<cache, secrets, wallets>>
hub      == <<status, terms, balance, expired, credit, debits>>
vars     == <<caller, exchange, agent, hub>>

\* "planned": run_once has a plan; "captured": the secret of a fresh channel is
\* stored and the channel not yet cached; "holding": run_once has its channel;
\* "invoked": run_once has its result.
Stages == {"idle", "planned", "opening", "captured", "holding", "invoking",
           "invoked", "closing", "ok", "err"}

\* "ok", "refused", "failed": an answer on its way; "gone": an exchange nobody
\* will hear of again.
Nets == {"none", "request", "ok", "refused", "failed", "gone"}

SomeChannel == Channels \cup {NoChannel}
SomeTx == Txs \cup {NoTx}
Asks == [key : Keys, tx : SomeTx]
Entries == [ch : SomeChannel, tx : SomeTx, balance : 0..Deposit]
Terms == [key : Keys, tx : SomeTx, secured : BOOLEAN, balance : 0..Deposit]

Empty == [ch |-> NoChannel, tx |-> NoTx, balance |-> 0]
NoTerms == [key |-> RunKey, tx |-> NoTx, secured |-> FALSE, balance |-> 0]

Init ==
    /\ pc = [c \in Calls |-> "idle"]
    /\ api = [c \in Calls |-> "none"]
    /\ asked = [c \in Calls |-> [key |-> RunKey, tx |-> NoTx]]
    /\ held = [c \in Calls |-> NoChannel]
    /\ result = [c \in Calls |-> "none"]
    /\ net = [c \in Calls |-> "none"]
    /\ op = [c \in Calls |-> "none"]
    /\ about = [c \in Calls |-> NoChannel]
    /\ proof = [c \in Calls |-> {}]
    /\ cache = [k \in Keys |-> Empty]
    /\ secrets = {} /\ wallets = {}
    /\ status = [ch \in Channels |-> "none"]
    /\ terms = [ch \in Channels |-> NoTerms]
    /\ balance = [ch \in Channels |-> 0]
    /\ expired = {}
    /\ credit \in Credits
    /\ debits = [c \in Calls |-> 0]

-----------------------------------------------------------------------------
\* A call and its exchange

\* The agent is configured with an api_key.
ApiKey == credit # NoAccount

\* The rest of run_once follows a call run_once makes; another call is over.
Api(c, a) == IF api[c] = "run_once" THEN "run_once" ELSE a

Post(c, o, ch, proofs) ==
    /\ net' = [net EXCEPT ![c] = "request"]
    /\ op' = [op EXCEPT ![c] = o]
    /\ about' = [about EXCEPT ![c] = ch]
    /\ proof' = [proof EXCEPT ![c] = proofs]

\* The answer is read.
Read(c) ==
    /\ net' = [net EXCEPT ![c] = "none"]
    /\ op' = [op EXCEPT ![c] = "none"]
    /\ about' = [about EXCEPT ![c] = NoChannel]
    /\ proof' = [proof EXCEPT ![c] = {}]

\* Mutant: the debit secret is not looked up.
NoSecret(ch) == {}

\* What channel_secrets and channel_wallets hold for the channel.
Secret(ch) == IF ch \in secrets THEN {"secret"} ELSE {}
Wallet(ch) == IF ch \in wallets THEN {"wallet"} ELSE {}

-----------------------------------------------------------------------------
\* open_channel

\* CachedChannel::is_reusable: the balance is the one reported at open.
IsReusable(e) == e.ch \notin expired /\ 2 * e.balance > Deposit

\* Mutant: any cached channel that reads as ample answers a deposit.
ReusesAnyAmple(e, t) == e.ch # NoChannel /\ IsReusable(e)

\* A deposit is answered only by the channel it opened, no deposit by any
\* cached channel that reads as ample.
Reuses(e, t) ==
    /\ e.ch # NoChannel
    /\ IF t # NoTx THEN e.tx = t /\ e.ch \notin expired ELSE IsReusable(e)

\* Channels open_channel has handed to the application.
HandedOut == {held[c] : c \in {d \in Calls : api[d] = "open" /\ pc[d] = "ok"}}

MayOpen(c, k, t) ==
    \/ pc[c] = "idle"
    \/ pc[c] = "planned" /\ k = RunKey /\ t = NoTx

AfterOpen(c) == IF api[c] = "run_once" THEN "holding" ELSE "ok"

OpenHit(c, k, t) ==
    /\ MayOpen(c, k, t)
    /\ Reuses(cache[k], t)
    /\ pc' = [pc EXCEPT ![c] = AfterOpen(c)]
    /\ api' = [api EXCEPT ![c] = Api(c, "open")]
    /\ asked' = [asked EXCEPT ![c] = [key |-> k, tx |-> t]]
    /\ held' = [held EXCEPT ![c] = cache[k].ch]
    /\ UNCHANGED <<result, exchange, agent, hub>>

\* A miss drops whatever the key held, and posts channel/open.
OpenMiss(c, k, t) ==
    /\ MayOpen(c, k, t)
    /\ ~Reuses(cache[k], t)
    /\ cache' = [cache EXCEPT ![k] = Empty]
    /\ pc' = [pc EXCEPT ![c] = "opening"]
    /\ api' = [api EXCEPT ![c] = Api(c, "open")]
    /\ asked' = [asked EXCEPT ![c] = [key |-> k, tx |-> t]]
    /\ Post(c, "open", NoChannel, {})
    /\ UNCHANGED <<held, result, secrets, wallets, hub>>

\* A deposit without a transaction hash is an error before anything is sent.
OpenWithoutHash(c) ==
    /\ pc[c] = "idle"
    /\ pc' = [pc EXCEPT ![c] = "err"]
    /\ api' = [api EXCEPT ![c] = "open"]
    /\ UNCHANGED <<asked, held, result, exchange, agent, hub>>

\* Mutant: the channel is decoded before its secret is stored.
OpenCaptureAfterDecode(c) ==
    /\ pc[c] = "opening" /\ net[c] = "ok"
    /\ \/ /\ secrets' = secrets \cup {about[c]}
          /\ pc' = [pc EXCEPT ![c] = "captured"]
          /\ held' = [held EXCEPT ![c] = about[c]]
       \/ /\ pc' = [pc EXCEPT ![c] = "err"]
          /\ UNCHANGED <<held, secrets>>
    /\ Read(c)
    /\ UNCHANGED <<api, asked, result, cache, wallets, hub>>

\* The answer of channel/open is read: secret and wallet are stored first.
OpenCapture(c) ==
    LET ch == about[c] IN
    /\ pc[c] = "opening" /\ net[c] = "ok"
    /\ secrets' = IF terms[ch].secured THEN secrets \cup {ch} ELSE secrets
    /\ wallets' = IF terms[ch].tx # NoTx THEN wallets \cup {ch} ELSE wallets
    /\ pc' = [pc EXCEPT ![c] = "captured"]
    /\ held' = [held EXCEPT ![c] = ch]
    /\ Read(c)
    /\ UNCHANGED <<api, asked, result, cache, hub>>

\* Mutant: the deposit is cached for the balance the hub reports.
OpenReturnsDeposit(c) ==
    /\ pc[c] = "captured"
    /\ cache' = [cache EXCEPT ![asked[c].key] =
                     [ch |-> held[c], tx |-> asked[c].tx, balance |-> Deposit]]
    /\ pc' = [pc EXCEPT ![c] = AfterOpen(c)]
    /\ UNCHANGED <<api, asked, held, result, exchange, secrets, wallets, hub>>

OpenReturns(c) ==
    /\ pc[c] = "captured"
    /\ cache' = [cache EXCEPT ![asked[c].key] =
                     [ch |-> held[c], tx |-> asked[c].tx, balance |-> terms[held[c]].balance]]
    /\ pc' = [pc EXCEPT ![c] = AfterOpen(c)]
    /\ UNCHANGED <<api, asked, held, result, exchange, secrets, wallets, hub>>

\* The channel in the answer does not decode: the caller is handed nothing.
OpenUndecodable(c) ==
    /\ pc[c] = "captured"
    /\ pc' = [pc EXCEPT ![c] = "err"]
    /\ held' = [held EXCEPT ![c] = NoChannel]
    /\ UNCHANGED <<api, asked, result, exchange, agent, hub>>

-----------------------------------------------------------------------------
\* invoke, on a channel the caller holds or on the credit account

InvokeSend(c, ch) ==
    /\ \/ pc[c] = "idle" /\ ch \in (IF ApiKey THEN {NoChannel} ELSE HandedOut)
       \/ pc[c] = "holding" /\ ch = held[c]
    /\ pc' = [pc EXCEPT ![c] = "invoking"]
    /\ api' = [api EXCEPT ![c] = Api(c, "invoke")]
    /\ held' = [held EXCEPT ![c] = ch]
    /\ Post(c, "invoke", ch, Secret(ch))
    /\ UNCHANGED <<asked, result, agent, hub>>

\* Neither an api_key nor a channel id: an error before anything is sent.
InvokeWithoutRail(c) ==
    /\ pc[c] = "idle" /\ ~ApiKey
    /\ pc' = [pc EXCEPT ![c] = "err"]
    /\ api' = [api EXCEPT ![c] = "invoke"]
    /\ result' = [result EXCEPT ![c] = "refused"]
    /\ UNCHANGED <<asked, held, exchange, agent, hub>>

\* A 2xx answer is a paid result; another status outside 402 and 403 is a
\* result that reports failure at price 0.
InvokeReturns(c) ==
    /\ pc[c] = "invoking" /\ net[c] \in {"ok", "failed"}
    /\ pc' = [pc EXCEPT ![c] = IF api[c] = "run_once" /\ ~ApiKey THEN "invoked" ELSE "ok"]
    /\ result' = [result EXCEPT ![c] = IF net[c] = "ok" THEN "paid" ELSE "failed"]
    /\ Read(c)
    /\ UNCHANGED <<api, asked, held, agent, hub>>

-----------------------------------------------------------------------------
\* close_channel

\* Mutant: the channel stays cached until the close succeeds.
CloseSendKeepsCache(c, ch) ==
    /\ \/ pc[c] = "idle" /\ ch \in HandedOut
       \/ pc[c] = "invoked" /\ ch = held[c]
    /\ pc' = [pc EXCEPT ![c] = "closing"]
    /\ api' = [api EXCEPT ![c] = Api(c, "close")]
    /\ held' = [held EXCEPT ![c] = ch]
    /\ Post(c, "close", ch, Secret(ch) \cup Wallet(ch))
    /\ UNCHANGED <<asked, result, agent, hub>>

\* The channel leaves the cache before the request; secret and wallet stay.
CloseSend(c, ch) ==
    /\ \/ pc[c] = "idle" /\ ch \in HandedOut
       \/ pc[c] = "invoked" /\ ch = held[c]
    /\ cache' = [k \in Keys |-> IF cache[k].ch = ch THEN Empty ELSE cache[k]]
    /\ pc' = [pc EXCEPT ![c] = "closing"]
    /\ api' = [api EXCEPT ![c] = Api(c, "close")]
    /\ held' = [held EXCEPT ![c] = ch]
    /\ Post(c, "close", ch, Secret(ch) \cup Wallet(ch))
    /\ UNCHANGED <<asked, result, secrets, wallets, hub>>

\* A 2xx answer forgets secret and wallet, then decodes the settlement.
CloseReturns(c) ==
    /\ pc[c] = "closing" /\ net[c] = "ok"
    /\ secrets' = secrets \ {held[c]}
    /\ wallets' = wallets \ {held[c]}
    /\ \E told \in {"ok", "err"} : pc' = [pc EXCEPT ![c] = told]
    /\ Read(c)
    /\ UNCHANGED <<api, asked, held, result, cache, hub>>

-----------------------------------------------------------------------------
\* What every exchange shares, run_once's start, dispose

\* Mutant: a refused close forgets the channel's secret and wallet too.
RefusedForgets(c) ==
    /\ pc[c] \in {"opening", "invoking", "closing"} /\ net[c] = "refused"
    /\ pc' = [pc EXCEPT ![c] = "err"]
    /\ secrets' = IF pc[c] = "closing" THEN secrets \ {held[c]} ELSE secrets
    /\ Read(c)
    /\ UNCHANGED <<api, asked, held, result, cache, wallets, hub>>

\* Mutant: a refused invoke drops the channel from the cache.
RefusedEvicts(c) ==
    /\ pc[c] \in {"opening", "invoking", "closing"} /\ net[c] = "refused"
    /\ pc' = [pc EXCEPT ![c] = "err"]
    /\ result' = [result EXCEPT ![c] = IF pc[c] = "invoking" THEN "refused" ELSE @]
    /\ cache' = [k \in Keys |-> IF cache[k].ch = held[c] THEN Empty ELSE cache[k]]
    /\ Read(c)
    /\ UNCHANGED <<api, asked, held, secrets, wallets, hub>>

\* Mutant: run_once returns its result even when the close is refused.
RefusedCloseIgnored(c) ==
    /\ pc[c] \in {"opening", "invoking", "closing"} /\ net[c] = "refused"
    /\ pc' = [pc EXCEPT ![c] = IF result[c] # "none" THEN "ok" ELSE "err"]
    /\ Read(c)
    /\ UNCHANGED <<api, asked, held, result, agent, hub>>

\* A refusal is an error; for invoke it is 402 (Payment) or 403 (Safety).
Refused(c) ==
    /\ pc[c] \in {"opening", "invoking", "closing"} /\ net[c] = "refused"
    /\ pc' = [pc EXCEPT ![c] = "err"]
    /\ result' = [result EXCEPT ![c] = IF pc[c] = "invoking" THEN "refused" ELSE @]
    /\ Read(c)
    /\ UNCHANGED <<api, asked, held, agent, hub>>

\* Mutant: an invoke whose answer is lost is posted again.
TransportErrorRetries(c) ==
    /\ pc[c] \in {"opening", "invoking", "closing"}
    /\ pc' = [pc EXCEPT ![c] = IF @ = "invoking" THEN @ ELSE "err"]
    /\ net' = [net EXCEPT ![c] = IF @ = "request" \/ pc[c] = "invoking" THEN "request" ELSE "gone"]
    /\ UNCHANGED <<api, asked, held, result, op, about, proof, agent, hub>>

\* Mutant: a close request has no timeout.
TransportErrorNotOnClose(c) ==
    /\ pc[c] \in {"opening", "invoking"}
    /\ pc' = [pc EXCEPT ![c] = "err"]
    /\ net' = [net EXCEPT ![c] = IF @ = "request" THEN @ ELSE "gone"]
    /\ UNCHANGED <<api, asked, held, result, op, about, proof, agent, hub>>

\* The client's timeout, a broken connection or an unreadable body.  Nothing is
\* sent again; a request still on its way may reach the hub afterwards.
TransportError(c) ==
    /\ pc[c] \in {"opening", "invoking", "closing"}
    /\ pc' = [pc EXCEPT ![c] = "err"]
    /\ net' = [net EXCEPT ![c] = IF @ = "request" THEN @ ELSE "gone"]
    /\ UNCHANGED <<api, asked, held, result, op, about, proof, agent, hub>>

\* run_once: discover failed or found nothing, or there is a plan; the credit
\* account needs no channel.
RunOnce(c) ==
    /\ pc[c] = "idle"
    /\ \E next \in {"err", IF ApiKey THEN "holding" ELSE "planned"} :
           pc' = [pc EXCEPT ![c] = next]
    /\ api' = [api EXCEPT ![c] = "run_once"]
    /\ UNCHANGED <<asked, held, result, exchange, agent, hub>>

Dispose ==
    /\ cache' = [k \in Keys |-> Empty]
    /\ UNCHANGED <<caller, exchange, secrets, wallets, hub>>

-----------------------------------------------------------------------------
\* The hub, and the network

Requested(c, o) == net[c] = "request" /\ op[c] = o

Answer(c, n) == net' = [net EXCEPT ![c] = n]

RequestLost(c) ==
    /\ net[c] = "request"
    /\ Answer(c, "gone")
    /\ UNCHANGED <<caller, op, about, proof, agent, hub>>

\* A deposit funds one channel.
Spent(t) == t # NoTx /\ \E ch \in Channels : status[ch] # "none" /\ terms[ch].tx = t

HubOpen(c, ch) ==
    /\ Requested(c, "open")
    /\ status[ch] = "none" /\ ~Spent(asked[c].tx)
    /\ status' = [status EXCEPT ![ch] = "open"]
    /\ \E secured \in Securing, b \in OpeningBalances :
           /\ terms' = [terms EXCEPT ![ch] = [key |-> asked[c].key, tx |-> asked[c].tx,
                                              secured |-> secured, balance |-> b]]
           /\ balance' = [balance EXCEPT ![ch] = b]
    /\ Answer(c, "ok")
    /\ about' = [about EXCEPT ![c] = ch]
    /\ UNCHANGED <<caller, op, proof, agent, expired, credit, debits>>

Debited(c) == debits' = [debits EXCEPT ![c] = @ + 1]

HubDebitChannel(c) ==
    LET ch == about[c] IN
    /\ Requested(c, "invoke") /\ ch # NoChannel
    /\ status[ch] = "open" /\ ch \notin expired /\ balance[ch] >= Price
    /\ terms[ch].secured => "secret" \in proof[c]
    /\ balance' = [balance EXCEPT ![ch] = @ - Price]
    /\ Debited(c)
    /\ Answer(c, "ok")
    /\ UNCHANGED <<caller, op, about, proof, agent, status, terms, expired, credit>>

HubDebitCredit(c) ==
    /\ Requested(c, "invoke") /\ about[c] = NoChannel
    /\ credit >= Price
    /\ credit' = credit - Price
    /\ Debited(c)
    /\ Answer(c, "ok")
    /\ UNCHANGED <<caller, op, about, proof, agent, status, terms, balance, expired>>

\* A closed or unknown channel is refused, and so is a close without the
\* secret and the wallet that prove ownership.
HubClose(c) ==
    LET ch == about[c] IN
    /\ Requested(c, "close")
    /\ status[ch] = "open"
    /\ terms[ch].secured => "secret" \in proof[c]
    /\ terms[ch].tx # NoTx => "wallet" \in proof[c]
    /\ status' = [status EXCEPT ![ch] = "closed"]
    /\ Answer(c, "ok")
    /\ UNCHANGED <<caller, op, about, proof, agent, terms, balance, expired, credit, debits>>

\* Any request may be refused, and an invoke may fail without a debit.
HubRefuse(c) ==
    /\ net[c] = "request"
    /\ Answer(c, "refused")
    /\ UNCHANGED <<caller, op, about, proof, agent, hub>>

HubFail(c) ==
    /\ Requested(c, "invoke")
    /\ Answer(c, "failed")
    /\ UNCHANGED <<caller, op, about, proof, agent, hub>>

Expire(ch) ==
    /\ status[ch] = "open" /\ ch \notin expired
    /\ Cardinality(expired) < MaxExpired
    /\ expired' = expired \cup {ch}
    /\ UNCHANGED <<caller, exchange, agent, status, terms, balance, credit, debits>>

-----------------------------------------------------------------------------
Operation(c) ==
    \/ \E k \in Keys, t \in SomeTx : OpenHit(c, k, t) \/ OpenMiss(c, k, t)
    \/ OpenWithoutHash(c) \/ OpenCapture(c) \/ OpenReturns(c) \/ OpenUndecodable(c)
    \/ \E ch \in SomeChannel : InvokeSend(c, ch)
    \/ InvokeWithoutRail(c) \/ InvokeReturns(c)
    \/ \E ch \in Channels : CloseSend(c, ch)
    \/ CloseReturns(c)
    \/ Refused(c) \/ TransportError(c)

Client(c) == Operation(c) \/ RunOnce(c)

Hub(c) ==
    \/ RequestLost(c)
    \/ \E ch \in Channels : HubOpen(c, ch)
    \/ HubDebitChannel(c) \/ HubDebitCredit(c) \/ HubClose(c)
    \/ HubRefuse(c) \/ HubFail(c)

Next ==
    \/ \E c \in Calls : Client(c) \/ Hub(c)
    \/ Dispose
    \/ \E ch \in Channels : Expire(ch)

Spec == Init /\ [][Next]_vars

-----------------------------------------------------------------------------
\* Properties

\* The type of every variable.
TypeOK ==
    /\ pc \in [Calls -> Stages]
    /\ api \in [Calls -> {"none", "open", "invoke", "close", "run_once"}]
    /\ asked \in [Calls -> Asks]
    /\ held \in [Calls -> SomeChannel]
    /\ result \in [Calls -> {"none", "paid", "failed", "refused"}]
    /\ net \in [Calls -> Nets]
    /\ op \in [Calls -> {"none", "open", "invoke", "close"}]
    /\ about \in [Calls -> SomeChannel]
    /\ proof \in [Calls -> SUBSET {"secret", "wallet"}]
    /\ cache \in [Keys -> Entries]
    /\ secrets \subseteq Channels
    /\ wallets \subseteq Channels
    /\ status \in [Channels -> {"none", "open", "closed"}]
    /\ terms \in [Channels -> Terms]
    /\ balance \in [Channels -> 0..Deposit]
    /\ expired \subseteq Channels
    /\ credit \in Nat \cup {NoAccount}
    /\ debits \in [Calls -> Nat]

\* The one-time secret of an open channel is unknown to the agent only while
\* the answer of channel/open is on its way or when that answer was lost: no
\* later failure (a channel that does not decode, a failed or lost close, a
\* concurrent close of another channel, dispose) loses it.
SecretLostOnlyWithAnswer ==
    \A ch \in Channels :
        status[ch] = "open" /\ terms[ch].secured /\ ch \notin secrets =>
            \E c \in Calls : op[c] = "open" /\ about[c] = ch /\ net[c] \in {"ok", "gone"}

\* Every request the agent makes on a channel that is still open carries the
\* proof the hub asks for: invoke the debit secret, close the secret and the
\* owner's wallet.  Without it the hub answers 402, or refuses to settle.
RequestsCarryProof ==
    \A c \in Calls :
        LET ch == about[c] IN
        net[c] = "request" /\ ch # NoChannel /\ status[ch] = "open" =>
            /\ terms[ch].secured => "secret" \in proof[c]
            /\ op[c] = "close" /\ terms[ch].tx # NoTx => "wallet" \in proof[c]

\* A close of the channel the call holds was sent, by close_channel or run_once.
CloseBegun(c) ==
    \/ api[c] = "close"
    \/ /\ api[c] = "run_once" /\ ~ApiKey
       /\ pc[c] # "invoked" /\ result[c] \in {"paid", "failed"}

\* From the moment a close of a channel is sent, answered or not, no
\* open_channel is answered with that channel again.
NotCachedOnceClosing ==
    \A c \in Calls, k \in Keys : CloseBegun(c) => cache[k].ch # held[c]

\* A caller that named a deposit never gets a channel another deposit opened,
\* and every caller gets a channel of the size, token and chain it asked for.
OpenAnswersItsCaller ==
    \A c \in Calls :
        api[c] \in {"open", "run_once"} /\ held[c] # NoChannel =>
            /\ terms[held[c]].key = asked[c].key
            /\ asked[c].tx # NoTx => terms[held[c]].tx = asked[c].tx

\* run_once that returns a bill of materials has settled the channel it opened,
\* whoever else used that channel meanwhile.
RunOnceSettles ==
    \A c \in Calls :
        api[c] = "run_once" /\ pc[c] = "ok" /\ ~ApiKey =>
            held[c] # NoChannel /\ status[held[c]] = "closed"

\* What the doc comment of open_channel says: asking again with the same
\* tx_hash returns the channel it opened instead of re-sending it.  Here: while
\* a channel a deposit opened is open, unexpired and not being closed, and the
\* agent not disposed of, no second channel/open is posted for that deposit.
DepositNotSentAgain ==
    [][\A c \in Calls : pc[c] = "idle" /\ pc'[c] = "opening" =>
          ~\E d \in Calls :
              /\ api[d] = "open" /\ pc[d] = "ok"
              /\ asked[d].tx # NoTx /\ asked[d] = asked'[c]
              /\ status[held[d]] = "open" /\ held[d] \notin expired
              /\ ~\E e \in Calls : CloseBegun(e) /\ held[e] = held[d]
              /\ cache[asked[d].key].ch # NoChannel]_vars

\* What the caller of a paid call was told, for PaidCalls: only the final
\* answer counts, so run_once whose close failed after a paid invoke has told
\* an error.
outcome == [c \in Calls |->
    CASE pc[c] = "ok" /\ result[c] # "none" -> result[c]
      [] pc[c] = "err" -> IF result[c] = "refused" THEN "refused" ELSE "error"
      [] OTHER -> "pending"]

Paid == INSTANCE PaidCalls

\* Whatever is lost, late or concurrent, the calls are paid as PaidCalls says:
\* at most one debit, none behind a refusal or a failure, one behind a result.
PaidAsPromised == Paid!Spec
=============================================================================
