------------------------------ MODULE MarketRun ------------------------------
(***************************************************************************)
(* market.run of the TypeScript SDK (typescript/src/market.ts): search,    *)
(* choose an offer locally, invoke it once, have the receipt verified.     *)
(* Several runs share one account, while the hub reprices its offers and   *)
(* rotates its signing key between their requests.                         *)
(*                                                                         *)
(* Each of the three requests is awaited twice: until its headers, under a *)
(* timer, and then until its body.  The hub and the network are external.  *)
(***************************************************************************)
EXTENDS Integers, Sequences

CONSTANTS
    Runs,              \* calls of market.run
    Offers,
    Prices,            \* prices an offer may have, in units
    NoPrice, NoOffer,
    Listings,          \* what the hub may answer to a search
    Budget, MinTrust, MaxLatency,
    Policy,            \* receiptPolicy of each run
    Funds,             \* opening balance of the account
    MaxKeys            \* bound on key rotations

Matches == [offer : Offers, price : Prices \cup {NoPrice}, trust : Nat, latency : Nat]

ASSUME MarketAssumption ==
    /\ Prices \subseteq Nat
    /\ NoPrice \notin Prices
    /\ NoOffer \notin Offers
    /\ Listings \subseteq Seq(Matches)
    /\ Budget \in Nat /\ MinTrust \in Nat /\ MaxLatency \in Nat
    /\ Policy \in [Runs -> {"require", "verify-if-present", "off"}]
    /\ Funds \in Nat
    /\ MaxKeys \in Nat

VARIABLES
    \* a run
    pc,        \* what it awaits: "headers" or "body" of a request
    step,      \* the request: "search", "invoke" or "verify"
    selected,  \* the offer chosen
    told,      \* what its caller was told
    \* its request
    net,
    status,    \* of the answer
    maxPrice,  \* max_price_usd of the invoke
    listing,   \* the body of a search answer
    receipt,   \* the receipt in the body of an invoke answer
    verdict,   \* the body of a receipts/verify answer
    \* the hub
    price, funds, liveKey,
    debits, charged

run      == <<pc, step, selected, told>>
exchange == <<net, status, maxPrice, listing, receipt, verdict>>
hub      == <<price, funds, liveKey, debits, charged>>
vars     == <<run, exchange, hub>>

NoReceipt == [present |-> FALSE, genuine |-> FALSE, key |-> 0, pq |-> FALSE]
Receipts == [present : BOOLEAN, genuine : BOOLEAN, key : 0..MaxKeys, pq : BOOLEAN]
NoVerdict == [valid |-> FALSE, live |-> FALSE, requiresPq |-> FALSE, pqValid |-> FALSE]
Verdicts == [valid : BOOLEAN, live : BOOLEAN, requiresPq : BOOLEAN, pqValid : BOOLEAN]

Init ==
    /\ pc = [r \in Runs |-> "idle"]
    /\ step = [r \in Runs |-> "none"]
    /\ selected = [r \in Runs |-> NoOffer]
    /\ told = [r \in Runs |-> "nothing"]
    /\ net = [r \in Runs |-> "none"]
    /\ status = [r \in Runs |-> "none"]
    /\ maxPrice = [r \in Runs |-> 0]
    /\ listing = [r \in Runs |-> <<>>]
    /\ receipt = [r \in Runs |-> NoReceipt]
    /\ verdict = [r \in Runs |-> NoVerdict]
    /\ price \in [Offers -> Prices]
    /\ funds = Funds
    /\ liveKey = 0
    /\ debits = [r \in Runs |-> 0]
    /\ charged = [r \in Runs |-> 0]

-----------------------------------------------------------------------------
\* A run

Await(r, s) ==
    /\ pc' = [pc EXCEPT ![r] = "headers"]
    /\ step' = [step EXCEPT ![r] = s]
    /\ net' = [net EXCEPT ![r] = "request"]

Finish(r, what) ==
    /\ pc' = [pc EXCEPT ![r] = "done"]
    /\ told' = [told EXCEPT ![r] = what]
    /\ UNCHANGED <<step, selected>>

\* An option out of range is an error before anything is sent.
BadOptions(r) ==
    /\ pc[r] = "idle"
    /\ Finish(r, "error")
    /\ UNCHANGED <<exchange, hub>>

Search(r) ==
    /\ pc[r] = "idle"
    /\ Await(r, "search")
    /\ UNCHANGED <<selected, told, status, maxPrice, listing, receipt, verdict, hub>>

\* What a status outside 2xx tells the caller.
Meaning(s, code) ==
    CASE s = "invoke" /\ code = "402" -> "payment"
      [] s = "invoke" /\ code = "403" -> "safety"
      [] s = "invoke" /\ code = "409" -> "conflict"
      [] s = "verify"                 -> "safety"
      [] OTHER                        -> "error"

\* The headers stop the timer, whatever becomes of the body.
ReadHeaders(r) ==
    /\ pc[r] = "headers" /\ net[r] = "answered"
    /\ \/ /\ status[r] = "2xx"
          /\ pc' = [pc EXCEPT ![r] = "body"]
          /\ net' = [net EXCEPT ![r] = "body"]
          /\ UNCHANGED <<step, selected, told>>
       \/ /\ status[r] # "2xx"
          /\ Finish(r, Meaning(step[r], status[r]))
          /\ net' = [net EXCEPT ![r] = "none"]
    /\ UNCHANGED <<status, maxPrice, listing, receipt, verdict, hub>>

Abandon(r) ==
    net' = [net EXCEPT ![r] = IF step[r] = "invoke" /\ @ = "request" THEN @ ELSE "none"]

\* Mutant: an invoke that times out is sent again.
HeadersFailRetries(r) ==
    /\ pc[r] = "headers"
    /\ IF step[r] = "invoke"
       THEN /\ net' = [net EXCEPT ![r] = "request"]
            /\ UNCHANGED run
       ELSE Finish(r, "network") /\ Abandon(r)
    /\ UNCHANGED <<status, maxPrice, listing, receipt, verdict, hub>>

\* Mutant: the verify request has no timer.
HeadersFailNotOnVerify(r) ==
    /\ pc[r] = "headers" /\ step[r] # "verify"
    /\ Finish(r, "network")
    /\ Abandon(r)
    /\ UNCHANGED <<status, maxPrice, listing, receipt, verdict, hub>>

\* The timer, or a broken connection.  Nothing is sent again; an invoke that was
\* sent may still reach the hub.
HeadersFail(r) ==
    /\ pc[r] = "headers"
    /\ Finish(r, "network")
    /\ Abandon(r)
    /\ UNCHANGED <<status, maxPrice, listing, receipt, verdict, hub>>

\* jsonBody: a body that breaks off or is not JSON.
BodyBroken(r) ==
    /\ pc[r] = "body" /\ net[r] = "broken"
    /\ Finish(r, "error")
    /\ net' = [net EXCEPT ![r] = "none"]
    /\ UNCHANGED <<status, maxPrice, listing, receipt, verdict, hub>>

\* selectedPrice and the test in chooseOffer; NoPrice stands for a price that is
\* missing or not a number.
Eligible(m) ==
    /\ m.price # NoPrice /\ m.price <= Budget
    /\ m.trust >= MinTrust
    /\ m.latency <= MaxLatency

\* Mutant: the limit is rounded up.
InvokeFirstUncapped(r, i) ==
    /\ pc[r] = "body" /\ step[r] = "search" /\ net[r] = "arrived"
    /\ i \in DOMAIN listing[r]
    /\ Eligible(listing[r][i])
    /\ \A j \in 1..(i - 1) : ~Eligible(listing[r][j])
    /\ selected' = [selected EXCEPT ![r] = listing[r][i].offer]
    /\ maxPrice' = [maxPrice EXCEPT ![r] = Budget + 1]
    /\ listing' = [listing EXCEPT ![r] = <<>>]
    /\ Await(r, "invoke")
    /\ UNCHANGED <<told, status, receipt, verdict, hub>>

\* The first eligible match is invoked, up to the budget.
InvokeFirst(r, i) ==
    /\ pc[r] = "body" /\ step[r] = "search" /\ net[r] = "arrived"
    /\ i \in DOMAIN listing[r]
    /\ Eligible(listing[r][i])
    /\ \A j \in 1..(i - 1) : ~Eligible(listing[r][j])
    /\ selected' = [selected EXCEPT ![r] = listing[r][i].offer]
    /\ maxPrice' = [maxPrice EXCEPT ![r] = Budget]
    /\ listing' = [listing EXCEPT ![r] = <<>>]
    /\ Await(r, "invoke")
    /\ UNCHANGED <<told, status, receipt, verdict, hub>>

GiveUp(r) ==
    /\ pc[r] = "body" /\ step[r] = "search" /\ net[r] = "arrived"
    /\ listing' = [listing EXCEPT ![r] = <<>>]
    /\ Finish(r, "error")
    /\ net' = [net EXCEPT ![r] = "none"]
    /\ UNCHANGED <<status, maxPrice, receipt, verdict, hub>>

NoneEligible(r) ==
    /\ \A i \in DOMAIN listing[r] : ~Eligible(listing[r][i])
    /\ GiveUp(r)

\* An offer is chosen, and the credentials of the payment option are missing.
NoCredentials(r) ==
    /\ \E i \in DOMAIN listing[r] : Eligible(listing[r][i])
    /\ GiveUp(r)

VerifyReceipt(r) ==
    /\ pc[r] = "body" /\ step[r] = "invoke" /\ net[r] = "arrived"
    /\ Policy[r] # "off" /\ receipt[r].present
    /\ Await(r, "verify")
    /\ UNCHANGED <<selected, told, status, maxPrice, listing, receipt, verdict, hub>>

\* Mutant: a missing receipt is not insisted on.
ReturnAnyUnverified(r) ==
    /\ pc[r] = "body" /\ step[r] = "invoke" /\ net[r] = "arrived"
    /\ Policy[r] = "off" \/ ~receipt[r].present
    /\ Finish(r, "result")
    /\ net' = [net EXCEPT ![r] = "none"]
    /\ UNCHANGED <<status, maxPrice, listing, receipt, verdict, hub>>

\* Nothing to verify: not trusted, which "require" does not accept.
ReturnUnverified(r) ==
    /\ pc[r] = "body" /\ step[r] = "invoke" /\ net[r] = "arrived"
    /\ Policy[r] = "off" \/ ~receipt[r].present
    /\ Finish(r, IF Policy[r] = "require" THEN "safety" ELSE "result")
    /\ net' = [net EXCEPT ![r] = "none"]
    /\ UNCHANGED <<status, maxPrice, listing, receipt, verdict, hub>>

Trusted(v) == v.valid /\ v.live /\ (v.requiresPq => v.pqValid)

\* Mutant: a receipt that does not verify is refused whatever the policy.
ReturnVerifiedStrictly(r) ==
    /\ pc[r] = "body" /\ step[r] = "verify" /\ net[r] = "arrived"
    /\ Finish(r, IF Trusted(verdict[r]) THEN "result" ELSE "safety")
    /\ net' = [net EXCEPT ![r] = "none"]
    /\ verdict' = [verdict EXCEPT ![r] = NoVerdict]
    /\ UNCHANGED <<status, maxPrice, listing, receipt, hub>>

ReturnVerified(r) ==
    /\ pc[r] = "body" /\ step[r] = "verify" /\ net[r] = "arrived"
    /\ Finish(r, IF Policy[r] = "require" /\ ~Trusted(verdict[r]) THEN "safety" ELSE "result")
    /\ net' = [net EXCEPT ![r] = "none"]
    /\ verdict' = [verdict EXCEPT ![r] = NoVerdict]
    /\ UNCHANGED <<status, maxPrice, listing, receipt, hub>>

-----------------------------------------------------------------------------
\* The hub, and the network

Requested(r, s) == net[r] = "request" /\ step[r] = s

Answer(r, code) ==
    /\ net' = [net EXCEPT ![r] = "answered"]
    /\ status' = [status EXCEPT ![r] = code]

HubSearch(r) ==
    /\ Requested(r, "search")
    /\ Answer(r, "2xx")
    /\ \E l \in Listings : listing' = [listing EXCEPT ![r] = l]
    /\ UNCHANGED <<run, maxPrice, receipt, verdict, hub>>

\* The price is compared with the caller's maximum and debited in one step.
HubInvoke(r) ==
    LET p == price[selected[r]] IN
    /\ Requested(r, "invoke")
    /\ p <= maxPrice[r] /\ p <= funds
    /\ Answer(r, "2xx")
    /\ funds' = funds - p
    /\ debits' = [debits EXCEPT ![r] = @ + 1]
    /\ charged' = [charged EXCEPT ![r] = p]
    /\ \E present, genuine, pq \in BOOLEAN :
           receipt' = [receipt EXCEPT ![r] =
               IF present THEN [present |-> TRUE, genuine |-> genuine,
                                key |-> liveKey, pq |-> pq]
               ELSE NoReceipt]
    /\ UNCHANGED <<run, maxPrice, listing, verdict, price, liveKey>>

HubRefusesInvoke(r) ==
    LET p == price[selected[r]] IN
    /\ Requested(r, "invoke")
    /\ \/ p > maxPrice[r] /\ Answer(r, "409")
       \/ p > funds /\ Answer(r, "402")
       \/ Answer(r, "403")
       \/ Answer(r, "other")
    /\ UNCHANGED <<run, maxPrice, listing, receipt, verdict, hub>>

HubVerify(r) ==
    /\ Requested(r, "verify")
    /\ Answer(r, "2xx")
    /\ \E requires \in BOOLEAN :
           verdict' = [verdict EXCEPT ![r] =
               [valid |-> receipt[r].genuine, live |-> receipt[r].key = liveKey,
                requiresPq |-> requires, pqValid |-> receipt[r].pq]]
    /\ UNCHANGED <<run, maxPrice, listing, receipt, hub>>

HubFails(r) ==
    /\ Requested(r, "search") \/ Requested(r, "verify")
    /\ Answer(r, "other")
    /\ UNCHANGED <<run, maxPrice, listing, receipt, verdict, hub>>

\* A body arrives, or breaks off; a request is lost without a word.
Network(r) ==
    /\ \/ net[r] = "body" /\ \E n \in {"arrived", "broken"} : net' = [net EXCEPT ![r] = n]
       \/ net[r] = "request" /\ net' = [net EXCEPT ![r] = "none"]
    /\ UNCHANGED <<run, status, maxPrice, listing, receipt, verdict, hub>>

Reprice(o, p) ==
    /\ price' = [price EXCEPT ![o] = p]
    /\ UNCHANGED <<run, exchange, funds, liveKey, debits, charged>>

RotateKey ==
    /\ liveKey < MaxKeys
    /\ liveKey' = liveKey + 1
    /\ UNCHANGED <<run, exchange, price, funds, debits, charged>>

-----------------------------------------------------------------------------
Reads(r) ==
    \/ ReadHeaders(r) \/ BodyBroken(r)
    \/ \E i \in 1..Len(listing[r]) : InvokeFirst(r, i)
    \/ NoneEligible(r) \/ NoCredentials(r)
    \/ VerifyReceipt(r) \/ ReturnUnverified(r) \/ ReturnVerified(r)

Hub(r) ==
    HubSearch(r) \/ HubInvoke(r) \/ HubRefusesInvoke(r) \/ HubVerify(r) \/ HubFails(r)

Next ==
    \/ \E r \in Runs :
          BadOptions(r) \/ Search(r) \/ Reads(r) \/ HeadersFail(r) \/ Hub(r) \/ Network(r)
    \/ \E o \in Offers, p \in Prices : Reprice(o, p)
    \/ RotateKey

Spec == Init /\ [][Next]_vars

\* Fairness.  The event loop runs what is ready and fires the timer; nothing is
\* assumed of the hub and of the network.
FairSpec == Spec /\ \A r \in Runs : WF_vars(Reads(r) \/ HeadersFail(r))

-----------------------------------------------------------------------------
\* Properties

\* The type of every variable.
TypeOK ==
    /\ pc \in [Runs -> {"idle", "headers", "body", "done"}]
    /\ step \in [Runs -> {"none", "search", "invoke", "verify"}]
    /\ selected \in [Runs -> Offers \cup {NoOffer}]
    /\ told \in [Runs -> {"nothing", "result", "payment", "safety", "conflict",
                          "network", "error"}]
    /\ net \in [Runs -> {"none", "request", "answered", "body", "arrived", "broken"}]
    /\ status \in [Runs -> {"none", "2xx", "402", "403", "409", "other"}]
    /\ maxPrice \in [Runs -> Nat]
    /\ listing \in [Runs -> Seq(Matches)]
    /\ receipt \in [Runs -> Receipts]
    /\ verdict \in [Runs -> Verdicts]
    /\ price \in [Offers -> Prices]
    /\ funds \in 0..Funds
    /\ liveKey \in 0..MaxKeys
    /\ debits \in [Runs -> Nat]
    /\ charged \in [Runs -> Nat]

\* However often the hub reprices between search and invoke, a run is never
\* charged more than its budget.
ChargedWithinBudget == \A r \in Runs : charged[r] <= Budget

\* Under the policy "require", a result that reaches its caller was paid for and
\* carries a receipt the hub signed; in the default policy a run that cannot
\* show one ends in an error.
ResultHasReceipt ==
    \A r \in Runs : Policy[r] = "require" /\ told[r] = "result" =>
        debits[r] = 1 /\ receipt[r].present /\ receipt[r].genuine

\* A run never waits for ever on the headers of an answer.
HeadersEnd == \A r \in Runs : (pc[r] = "headers") ~> (pc[r] # "headers")

\* A safety error is documented as the gate's, which blocks an invocation
\* (errors.ts:28).  A run that was charged ends in one only because of its receipt:
\* the verification was answered by no verdict, or the policy "require" met a receipt
\* that is missing, not the hub's, signed with a key rotated since, or without a
\* post-quantum signature.
ChargedSafetyOnlyIf ==
    \A r \in Runs : told[r] = "safety" /\ debits[r] = 1 =>
        \/ step[r] = "verify" /\ status[r] # "2xx"
        \/ /\ Policy[r] = "require"
           /\ \/ ~receipt[r].present \/ ~receipt[r].genuine
              \/ receipt[r].key < liveKey \/ ~receipt[r].pq

\* What the caller of a run can tell, for PaidCalls, from the class and the status of
\* what was thrown: a payment error and a price conflict are refusals.  A safety error
\* is thrown by the gate and over a receipt alike, so it does not say whether the
\* run was charged.
outcome == [r \in Runs |->
    CASE told[r] = "nothing" -> "pending"
      [] told[r] = "result"  -> "paid"
      [] told[r] \in {"payment", "conflict"} -> "refused"
      [] OTHER -> "error"]

Paid == INSTANCE PaidCalls WITH Calls <- Runs

\* Whatever times out, breaks off or is refused, a run is debited at most once, and
\* never when its caller reads a payment error or a price conflict.
PaidAsPromised == Paid!Spec
=============================================================================
