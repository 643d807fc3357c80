---------------------------- MODULE AgentSession ----------------------------
(***************************************************************************)
(* AgentChannels with the calls of the Rust agent that only read the hub   *)
(* (rust/src/agent.rs): discover, get_channel_balance, well_known, and the *)
(* search run_once begins with.  They interleave with the paid calls and   *)
(* with dispose; well_known keeps what it read for good.                   *)
(*                                                                         *)
(* Every behaviour is one of AgentChannels: a call that asks is idle there *)
(* until it opens, invokes or closes.                                      *)
(***************************************************************************)
EXTENDS AgentChannels

CONSTANT MaxManifest   \* bound on the versions of the hub's manifest

ASSUME SessionAssumption ==
    /\ MaxManifest \in Nat \ {0}
    /\ IsFiniteSet(Calls)

VARIABLES
    query,      \* of each call: what it asks, about what, how far it is and what was said
    manifest,   \* well_known_cache: the version it holds, or NoManifest
    served,     \* the version of the manifest the hub serves
    \* history
    floor,      \* what was served at the last dispose that met no fetch, or at the start
    dropped     \* channels no caller was handed, and those dispose forgot

NoManifest == 0

queries     == <<query, manifest, served, floor, dropped>>
sessionVars == <<vars, queries>>

Kinds == {"none", "discover", "run_once", "well_known", "balance"}

Queries == [kind : Kinds, ch : SomeChannel, at : {"none", "sent", "answered", "ok", "err"},
            said : Nat]

NoQuery == [kind |-> "none", ch |-> NoChannel, at |-> "none", said |-> 0]

SessionInit ==
    /\ Init
    /\ query = [c \in Calls |-> NoQuery]
    /\ manifest = NoManifest
    /\ served = 1
    /\ floor = 1
    /\ dropped = {}

-----------------------------------------------------------------------------
\* The calls that ask

\* A call not made yet.
Fresh(c) == pc[c] = "idle" /\ query[c].at = "none"

Asked(c) == query[c].at \in {"sent", "answered"}

Send(c, kind, ch) ==
    /\ Fresh(c)
    /\ query' = [query EXCEPT ![c] = [kind |-> kind, ch |-> ch, at |-> "sent", said |-> 0]]
    /\ UNCHANGED <<vars, manifest, served, floor, dropped>>

\* discover, discover_product; run_once begins with the same search.
Discover(c) == \E kind \in {"discover", "run_once"} : Send(c, kind, NoChannel)

GetChannelBalance(c, ch) == ch \in HandedOut /\ Send(c, "balance", ch)

WellKnownMiss(c) == manifest = NoManifest /\ Send(c, "well_known", NoChannel)

WellKnownHit(c) ==
    /\ Fresh(c) /\ manifest # NoManifest
    /\ query' = [query EXCEPT ![c] = [kind |-> "well_known", ch |-> NoChannel, at |-> "ok",
                                      said |-> manifest]]
    /\ UNCHANGED <<vars, manifest, served, floor, dropped>>

Ends(c, at) == query' = [query EXCEPT ![c].at = at]

\* The manifest that was read is kept, whatever is there by now.
WellKnownReturns(c) ==
    /\ query[c].at = "answered" /\ query[c].kind = "well_known"
    /\ manifest' = query[c].said
    /\ Ends(c, "ok")
    /\ UNCHANGED <<vars, served, floor, dropped>>

DiscoverReturns(c) ==
    /\ query[c].at = "answered" /\ query[c].kind = "discover"
    /\ Ends(c, "ok")
    /\ UNCHANGED <<vars, manifest, served, floor, dropped>>

\* A body without the balance reads as 0.
GetChannelBalanceReturns(c) ==
    /\ query[c].at = "answered" /\ query[c].kind = "balance"
    /\ \E n \in {query[c].said, 0} :
           query' = [query EXCEPT ![c].at = "ok", ![c].said = n]
    /\ UNCHANGED <<vars, manifest, served, floor, dropped>>

\* run_once has its plan; an empty one is an error.
PlanReturns(c) ==
    /\ query[c].at = "answered" /\ query[c].kind = "run_once"
    /\ RunOnce(c)
    /\ pc'[c] = "err" <=> query[c].said = 0
    /\ Ends(c, IF query[c].said = 0 THEN "err" ELSE "ok")
    /\ UNCHANGED <<manifest, served, floor, dropped>>

\* The client's timeout, a broken connection, a status that is no success, a
\* body that does not decode (one match without its ids spoils the whole plan).
QueryFails(c) ==
    /\ Asked(c)
    /\ IF query[c].kind = "run_once" THEN RunOnce(c) /\ pc'[c] = "err" ELSE UNCHANGED vars
    /\ Ends(c, "err")
    /\ UNCHANGED <<manifest, served, floor, dropped>>

\* The hub answers with the manifest it serves, the balance, or a listing of
\* some or no capabilities.
HubAnswers(c) ==
    /\ query[c].at = "sent"
    /\ \E n \in CASE query[c].kind = "well_known" -> {served}
                  [] query[c].kind = "balance"    -> {balance[query[c].ch]}
                  [] OTHER                        -> {0, 1} :
           query' = [query EXCEPT ![c].at = "answered", ![c].said = n]
    /\ UNCHANGED <<vars, manifest, served, floor, dropped>>

\* Versions count from the first that is asked for.
Republish ==
    /\ served < MaxManifest
    /\ \E c \in Calls : query[c].kind = "well_known"
    /\ served' = served + 1
    /\ UNCHANGED <<vars, query, manifest, floor, dropped>>

-----------------------------------------------------------------------------
\* The calls that pay, and dispose

\* The call asks nothing: it pays from its first step on, or run_once has its plan.
Pays(c) == query[c].at = "none" \/ (query[c].kind = "run_once" /\ query[c].at = "ok")

SessionOperation(c) ==
    /\ Pays(c)
    /\ Operation(c)
    /\ dropped' = IF pc[c] = "captured" /\ pc'[c] = "err" THEN dropped \cup {held[c]} ELSE dropped
    /\ UNCHANGED <<query, manifest, served, floor>>

Fetching == \E c \in Calls : query[c].kind = "well_known" /\ Asked(c)

\* Mutant: the manifest stays.
SessionDisposeKeepsManifest ==
    /\ Dispose
    /\ floor' = IF Fetching THEN floor ELSE served
    /\ dropped' = dropped \cup {cache[k].ch : k \in Keys}
    /\ UNCHANGED <<query, manifest, served>>

SessionDispose ==
    /\ Dispose
    /\ manifest' = NoManifest
    /\ floor' = IF Fetching THEN floor ELSE served
    /\ dropped' = dropped \cup {cache[k].ch : k \in Keys}
    /\ UNCHANGED <<query, served>>

SessionClient(c) ==
    \/ SessionOperation(c)
    \/ Discover(c) \/ DiscoverReturns(c) \/ PlanReturns(c)
    \/ (\E ch \in Channels : GetChannelBalance(c, ch)) \/ GetChannelBalanceReturns(c)
    \/ WellKnownMiss(c) \/ WellKnownHit(c) \/ WellKnownReturns(c)
    \/ QueryFails(c)

SessionNext ==
    \/ \E c \in Calls : SessionClient(c) \/ (Hub(c) /\ UNCHANGED queries) \/ HubAnswers(c)
    \/ SessionDispose
    \/ \E ch \in Channels : Expire(ch) /\ UNCHANGED queries
    \/ Republish

SessionSpec == SessionInit /\ [][SessionNext]_sessionVars

-----------------------------------------------------------------------------
\* Fairness.  Once a call is made its own steps run, and reqwest's timeout
\* (with_config) ends every wait.  Nothing is assumed of the hub, and nothing
\* makes the application call.
FairSession ==
    SessionSpec /\ \A c \in Calls : WF_sessionVars(~Fresh(c) /\ SessionClient(c))

-----------------------------------------------------------------------------
\* Properties

\* The types, and which calls ask about a channel and which ask at all.
SessionTypeOK ==
    /\ TypeOK
    /\ query \in [Calls -> Queries]
    /\ manifest \in Nat /\ served \in Nat /\ floor \in Nat
    /\ dropped \subseteq SomeChannel
    /\ \A c \in Calls : Asked(c) => pc[c] = "idle"
    /\ \A c \in Calls : query[c].kind = "balance" => query[c].ch # NoChannel

\* The call has returned to its caller.
Over(c) == pc[c] \in {"ok", "err"} \/ (pc[c] = "idle" /\ query[c].at \in {"ok", "err"})

\* Every call returns, even when the hub answers nothing.
EveryCallReturns == \A c \in Calls : ~Fresh(c) ~> Over(c)

\* Once the agent has been disposed of while no manifest was being fetched, it
\* never again answers with a manifest the hub had replaced by then.
ManifestSinceDispose == manifest # NoManifest => manifest >= floor

\* What was debited from the channel, as its settlement tells.  A settlement that
\* does not name the spend would read as 0; the hub names it.
Used(ch) == terms[ch].balance - balance[ch]

\* Calls debited on the channel.
DebitedOn(ch) == {c \in Calls : held[c] = ch /\ debits[c] = 1}

\* The cached balance of a channel, and what get_channel_balance told of it, is
\* above what is left by the invokes of this agent and nothing else: a channel
\* handed out as ample has been drawn down only by calls made on it.
BalanceStaleByInvokes ==
    /\ \A k \in Keys :
           LET ch == cache[k].ch IN
           ch # NoChannel =>
               cache[k].balance - balance[ch] = Price * Cardinality(DebitedOn(ch))
    /\ \A c \in Calls :
           query[c].kind = "balance" /\ query[c].said # 0 =>
               query[c].said \in balance[query[c].ch]..terms[query[c].ch].balance

\* Mutant: the bill takes its price from the plan.
BillOfPlan(c) == Price

\* total_spent_usd of the bill of materials.
Bill(c) == IF result[c] = "paid" THEN Price ELSE 0

\* A bill of materials and its settlement agree: they differ by what other
\* calls spent on the same channel, and by nothing else.
BillMeetsSettlement ==
    \A c \in Calls :
        api[c] = "run_once" /\ pc[c] = "ok" /\ ~ApiKey =>
            Used(held[c]) = Bill(c) + Price * Cardinality(DebitedOn(held[c]) \ {c})

\* The answer of channel/open that names the channel has not been used yet, or
\* was lost.
AnswerUnused(ch) ==
    \E c \in Calls : \/ op[c] = "open" /\ about[c] = ch
                     \/ pc[c] = "captured" /\ held[c] = ch

\* The call has asked for a channel: open_channel, or run_once with its plan.
Opens(c) ==
    \/ api[c] = "open"
    \/ api[c] = "run_once" /\ query[c].at = "ok" /\ pc[c] # "planned" /\ ~ApiKey

\* An open was answered with another channel of the key, or asked for one on
\* behalf of another deposit.
Displaced(ch) ==
    \E c \in Calls :
        /\ Opens(c) /\ asked[c].key = terms[ch].key /\ held[c] # ch
        /\ asked[c].tx # terms[ch].tx \/ (held[c] # NoChannel /\ pc[c] # "captured")

\* A close of the channel was sent.
CloseSent(ch) == \E c \in Calls : CloseBegun(c) /\ held[c] = ch

Cached(ch) == \E k \in Keys : cache[k].ch = ch

\* A channel with money on it stays where the next open of its key finds it, also
\* behind a run_once whose invoke was refused, failed or timed out.  It is open
\* and out of reach only if its answer was lost or did not decode, a close of it was
\* sent, dispose forgot it, another open displaced it, or it came half empty.
LeftOnlyWithCause ==
    \A ch \in Channels :
        status[ch] = "open" /\ ch \notin expired /\ ~Cached(ch) =>
            \/ AnswerUnused(ch) \/ ch \in dropped \/ Displaced(ch) \/ CloseSent(ch)
            \/ 2 * terms[ch].balance <= Deposit
=============================================================================
