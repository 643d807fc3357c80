--------------------------- MODULE MarketRunProofs ---------------------------
(***************************************************************************)
(* A run of MarketRun is charged at most once and within its budget, and   *)
(* under "require" its result carries a genuine receipt, for every set of  *)
(* runs and offers, every price, every listing and every policy.           *)
(***************************************************************************)
EXTENDS MarketRun, TLAPS

USE MarketAssumption

\* What the account of a run shows at each point of its exchange.
Account(r) ==
    /\ step[r] = "invoke" => selected[r] \in Offers
    /\ debits[r] \in 0..1
    /\ step[r] \in {"none", "search"} => debits[r] = 0
    /\ step[r] = "verify" => debits[r] = 1
    /\ step[r] = "invoke" /\ net[r] = "request" => debits[r] = 0
    /\ step[r] = "invoke" /\ net[r] = "answered" =>
          (IF status[r] = "2xx" THEN debits[r] = 1 ELSE debits[r] = 0)
    /\ step[r] = "invoke" /\ net[r] \in {"body", "arrived", "broken"} =>
          debits[r] = 1 /\ status[r] = "2xx"
    /\ charged[r] <= Budget /\ maxPrice[r] <= Budget

\* What its caller was told, and what is then still under way.
Ended(r) ==
    /\ pc[r] = "idle" => step[r] = "none" /\ net[r] = "none"
    /\ told[r] # "nothing" <=> pc[r] = "done"
    /\ told[r] \notin {"nothing", "network"} => net[r] = "none"
    /\ told[r] = "result" => debits[r] = 1
    /\ told[r] \in {"payment", "conflict"} => debits[r] = 0

\* A verdict is about the receipt of the one debited invoke.
Receipted(r) ==
    /\ receipt[r].genuine => receipt[r].present
    /\ receipt[r].present => step[r] \in {"invoke", "verify"} /\ debits[r] = 1
    /\ verdict[r].valid => step[r] = "verify" /\ receipt[r].genuine
    /\ Policy[r] = "require" /\ told[r] = "result" => receipt[r].genuine

IInv == TypeOK /\ \A r \in Runs : Account(r) /\ Ended(r) /\ Receipted(r)
-----------------------------------------------------------------------------
\* Types

\* What a caller may be told.
Said == {"nothing", "result", "payment", "safety", "conflict", "network", "error"}

LEMMA MeaningTypes == \A s, code : Meaning(s, code) \in {"payment", "safety", "conflict", "error"}
<1> QED
  BY DEF Meaning

\* An offer that is listed is an offer.
LEMMA ListedOffer ==
    ASSUME NEW l \in Seq(Matches), NEW i \in 1..Len(l)
    PROVE  l[i].offer \in Offers
<1>1. l[i] \in Matches
  OBVIOUS
<1> QED
  BY <1>1 DEF Matches

\* What ending a run leaves well typed.
LEMMA FinishTypes ==
    ASSUME TypeOK, NEW r \in Runs, NEW what \in Said, Finish(r, what)
    PROVE  /\ pc' \in [Runs -> {"idle", "headers", "body", "done"}]
           /\ told' \in [Runs -> Said]
           /\ step' = step /\ selected' = selected
<1> QED
  BY DEF TypeOK, Finish, Said

\* What sending a request leaves well typed.
LEMMA AwaitTypes ==
    ASSUME TypeOK, NEW r \in Runs, NEW s \in {"search", "invoke", "verify"}, Await(r, s)
    PROVE  /\ pc' \in [Runs -> {"idle", "headers", "body", "done"}]
           /\ step' \in [Runs -> {"none", "search", "invoke", "verify"}]
           /\ net' \in [Runs -> {"none", "request", "answered", "body", "arrived", "broken"}]
<1> QED
  BY DEF TypeOK, Await

\* Every step of the client keeps the types of the variables.
LEMMA ClientTypes ==
    ASSUME TypeOK, NEW r \in Runs,
           BadOptions(r) \/ Search(r) \/ Reads(r) \/ HeadersFail(r)
    PROVE  TypeOK'
<1> USE DEF exchange, hub, Said
<1>1. CASE BadOptions(r)
  BY <1>1, FinishTypes DEF BadOptions, TypeOK
<1>2. CASE Search(r)
  BY <1>2, AwaitTypes DEF Search, TypeOK
<1>3. CASE ReadHeaders(r)
  <2>1. CASE Finish(r, Meaning(step[r], status[r])) /\ net' = [net EXCEPT ![r] = "none"]
    <3>1. Meaning(step[r], status[r]) \in Said
      BY MeaningTypes
    <3> QED
      BY <1>3, <2>1, <3>1, FinishTypes DEF ReadHeaders, TypeOK
  <2>2. CASE /\ pc' = [pc EXCEPT ![r] = "body"] /\ net' = [net EXCEPT ![r] = "body"]
             /\ UNCHANGED <<step, selected, told>>
    BY <1>3, <2>2 DEF ReadHeaders, TypeOK
  <2> QED
    BY <1>3, <2>1, <2>2 DEF ReadHeaders
<1>4. CASE HeadersFail(r)
  BY <1>4, FinishTypes DEF HeadersFail, Abandon, TypeOK
<1>5. CASE BodyBroken(r)
  BY <1>5, FinishTypes DEF BodyBroken, TypeOK
<1>6. ASSUME NEW i \in 1..Len(listing[r]), InvokeFirst(r, i) PROVE TypeOK'
  <2>1. listing[r][i].offer \in Offers
    BY ListedOffer DEF TypeOK
  <2>2. /\ selected' \in [Runs -> Offers \cup {NoOffer}]
        /\ maxPrice' \in [Runs -> Nat]
        /\ listing' \in [Runs -> Seq(Matches)]
    BY <1>6, <2>1 DEF InvokeFirst, TypeOK
  <2> QED
    BY <1>6, <2>2, AwaitTypes DEF InvokeFirst, TypeOK
<1>7. CASE GiveUp(r)
  <2>1. listing' \in [Runs -> Seq(Matches)]
    BY <1>7 DEF GiveUp, TypeOK
  <2> QED
    BY <1>7, <2>1, FinishTypes DEF GiveUp, TypeOK
<1>8. CASE VerifyReceipt(r)
  BY <1>8, AwaitTypes DEF VerifyReceipt, TypeOK
<1>9. CASE ReturnUnverified(r)
  BY <1>9, FinishTypes DEF ReturnUnverified, TypeOK
<1>10. CASE ReturnVerified(r)
  <2>1. verdict' \in [Runs -> Verdicts]
    BY <1>10 DEF ReturnVerified, TypeOK, NoVerdict, Verdicts
  <2> QED
    BY <1>10, <2>1, FinishTypes DEF ReturnVerified, TypeOK
<1> QED
  BY <1>1, <1>2, <1>3, <1>4, <1>5, <1>6, <1>7, <1>8, <1>9, <1>10
     DEF Reads, NoneEligible, NoCredentials

\* Every step of the hub and of the network keeps the types of the variables.
LEMMA HubTypes ==
    ASSUME TypeOK, NEW r \in Runs, Account(r), Hub(r) \/ Network(r)
    PROVE  TypeOK'
<1> USE DEF run
<1>1. CASE HubSearch(r)
  <2>1. listing' \in [Runs -> Seq(Matches)]
    BY <1>1 DEF HubSearch, TypeOK
  <2> QED
    BY <1>1, <2>1 DEF HubSearch, Answer, hub, TypeOK
<1>2. CASE HubInvoke(r)
  <2>1. PICK genuine \in BOOLEAN, pq \in BOOLEAN, present \in BOOLEAN :
           receipt' = [receipt EXCEPT ![r] =
               IF present THEN [present |-> TRUE, genuine |-> genuine,
                                key |-> liveKey, pq |-> pq]
               ELSE NoReceipt]
    BY <1>2 DEF HubInvoke
  <2>2. receipt' \in [Runs -> Receipts]
    BY <2>1 DEF TypeOK, Receipts, NoReceipt
  <2>3. price[selected[r]] \in Nat
    BY <1>2 DEF HubInvoke, Requested, Account, TypeOK
  <2>4. /\ funds' \in 0..Funds
        /\ charged' \in [Runs -> Nat]
        /\ debits' \in [Runs -> Nat]
    BY <1>2, <2>3 DEF HubInvoke, TypeOK
  <2> QED
    BY <1>2, <2>2, <2>4 DEF HubInvoke, Answer, TypeOK
<1>3. CASE HubRefusesInvoke(r)
  BY <1>3 DEF HubRefusesInvoke, Answer, hub, TypeOK
<1>4. CASE HubVerify(r)
  <2>1. verdict' \in [Runs -> Verdicts]
    BY <1>4 DEF HubVerify, TypeOK, Verdicts, Receipts
  <2> QED
    BY <1>4, <2>1 DEF HubVerify, Answer, hub, TypeOK
<1>5. CASE HubFails(r)
  BY <1>5 DEF HubFails, Answer, hub, TypeOK
<1>6. CASE Network(r)
  <2>1. PICK n \in {"arrived", "broken", "none"} : net' = [net EXCEPT ![r] = n]
    BY <1>6 DEF Network
  <2> QED
    BY <1>6, <2>1 DEF Network, hub, TypeOK
<1> QED
  BY <1>1, <1>2, <1>3, <1>4, <1>5, <1>6 DEF Hub

-----------------------------------------------------------------------------
\* Accounts, outcomes and receipts

Run(r) == Account(r) /\ Ended(r) /\ Receipted(r)

\* Nothing of run r changed.
Untouched(r) ==
    /\ pc'[r] = pc[r] /\ step'[r] = step[r] /\ selected'[r] = selected[r]
    /\ told'[r] = told[r] /\ net'[r] = net[r] /\ status'[r] = status[r]
    /\ maxPrice'[r] = maxPrice[r] /\ receipt'[r] = receipt[r] /\ verdict'[r] = verdict[r]
    /\ debits'[r] = debits[r] /\ charged'[r] = charged[r]

LEMMA UntouchedKeeps ==
    ASSUME NEW r \in Runs, Run(r), Untouched(r)
    PROVE  Run(r)'
<1> QED
  BY DEF Run, Account, Ended, Receipted, Untouched

\* A run that sends, reads or returns stays consistent, and touches no other.
LEMMA ClientRun ==
    ASSUME TypeOK, NEW r \in Runs, Run(r),
           BadOptions(r) \/ Search(r) \/ Reads(r) \/ HeadersFail(r)
    PROVE  Run(r)' /\ \A q \in Runs \ {r} : Untouched(q)
<1> USE DEF exchange, hub, Untouched
<1>t. /\ pc \in [Runs -> {"idle", "headers", "body", "done"}]
      /\ step \in [Runs -> {"none", "search", "invoke", "verify"}]
      /\ selected \in [Runs -> Offers \cup {NoOffer}]
      /\ told \in [Runs -> Said]
      /\ net \in [Runs -> {"none", "request", "answered", "body", "arrived", "broken"}]
      /\ status \in [Runs -> {"none", "2xx", "402", "403", "409", "other"}]
      /\ maxPrice \in [Runs -> Nat]
      /\ receipt \in [Runs -> Receipts]
      /\ verdict \in [Runs -> Verdicts]
  BY DEF TypeOK, Said
<1>f. ASSUME NEW what, Finish(r, what)
      PROVE  /\ pc'[r] = "done" /\ told'[r] = what /\ step' = step /\ selected' = selected
             /\ \A q \in Runs \ {r} : pc'[q] = pc[q] /\ told'[q] = told[q]
  BY <1>f, <1>t DEF Finish
<1>a. ASSUME NEW s, Await(r, s)
      PROVE  /\ pc'[r] = "headers" /\ step'[r] = s /\ net'[r] = "request"
             /\ \A q \in Runs \ {r} : /\ pc'[q] = pc[q] /\ step'[q] = step[q]
                                      /\ net'[q] = net[q]
  BY <1>a, <1>t DEF Await
<1>1. CASE BadOptions(r)
  BY <1>1, <1>f, <1>t DEF BadOptions, Run, Account, Ended, Receipted
<1>2. CASE Search(r)
  BY <1>2, <1>a, <1>t DEF Search, Run, Account, Ended, Receipted
<1>3. CASE ReadHeaders(r)
  <2>1. CASE /\ status[r] # "2xx"
             /\ Finish(r, Meaning(step[r], status[r])) /\ net' = [net EXCEPT ![r] = "none"]
    <3>1. /\ Meaning(step[r], status[r]) \in {"payment", "safety", "conflict", "error"}
          /\ Meaning(step[r], status[r]) \in {"payment", "conflict"} => step[r] = "invoke"
      BY DEF Meaning
    <3> QED
      BY <1>3, <2>1, <3>1, <1>f, <1>t DEF ReadHeaders, Run, Account, Ended, Receipted
  <2>2. CASE /\ status[r] = "2xx"
             /\ pc' = [pc EXCEPT ![r] = "body"] /\ net' = [net EXCEPT ![r] = "body"]
             /\ UNCHANGED <<step, selected, told>>
    BY <1>3, <2>2, <1>t DEF ReadHeaders, Run, Account, Ended, Receipted
  <2> QED
    BY <1>3, <2>1, <2>2 DEF ReadHeaders
<1>4. CASE HeadersFail(r)
  BY <1>4, <1>f, <1>t DEF HeadersFail, Abandon, Run, Account, Ended, Receipted
<1>5. CASE BodyBroken(r)
  BY <1>5, <1>f, <1>t DEF BodyBroken, Run, Account, Ended, Receipted
<1>6. ASSUME NEW i \in 1..Len(listing[r]), InvokeFirst(r, i)
      PROVE  Run(r)' /\ \A q \in Runs \ {r} : Untouched(q)
  <2>1. listing[r][i].offer \in Offers
    BY ListedOffer DEF TypeOK
  <2>2. debits[r] = 0
    BY <1>6 DEF InvokeFirst, Run, Account
  <2>3. ~receipt[r].present /\ ~receipt[r].genuine /\ ~verdict[r].valid
    BY <2>2 DEF Run, Receipted
  <2>4. /\ selected'[r] \in Offers /\ maxPrice'[r] = Budget
        /\ \A q \in Runs \ {r} : selected'[q] = selected[q] /\ maxPrice'[q] = maxPrice[q]
    BY <1>6, <2>1, <1>t DEF InvokeFirst
  <2>5. told[r] = "nothing"
    BY <1>6, <1>t DEF InvokeFirst, Run, Ended
  <2> QED
    BY <1>6, <2>2, <2>3, <2>4, <2>5, <1>a, <1>t
       DEF InvokeFirst, Run, Account, Ended, Receipted
<1>7. CASE GiveUp(r)
  BY <1>7, <1>f, <1>t DEF GiveUp, Run, Account, Ended, Receipted
<1>8. CASE VerifyReceipt(r)
  BY <1>8, <1>a, <1>t DEF VerifyReceipt, Run, Account, Ended, Receipted
<1>9. CASE ReturnUnverified(r)
  BY <1>9, <1>f, <1>t DEF ReturnUnverified, Run, Account, Ended, Receipted
<1>10. CASE ReturnVerified(r)
  BY <1>10, <1>f, <1>t DEF ReturnVerified, Trusted, NoVerdict, Run, Account, Ended, Receipted
<1> QED
  BY <1>1, <1>2, <1>3, <1>4, <1>5, <1>6, <1>7, <1>8, <1>9, <1>10
     DEF Reads, NoneEligible, NoCredentials

\* So it does when the hub answers it, or the network does not.
LEMMA HubRun ==
    ASSUME TypeOK, NEW r \in Runs, Run(r), Hub(r) \/ Network(r)
    PROVE  Run(r)' /\ \A q \in Runs \ {r} : Untouched(q)
<1> USE DEF run, hub, Untouched
<1>t. /\ step \in [Runs -> {"none", "search", "invoke", "verify"}]
      /\ told \in [Runs -> Said]
      /\ net \in [Runs -> {"none", "request", "answered", "body", "arrived", "broken"}]
      /\ status \in [Runs -> {"none", "2xx", "402", "403", "409", "other"}]
      /\ receipt \in [Runs -> Receipts]
      /\ verdict \in [Runs -> Verdicts]
      /\ debits \in [Runs -> Nat]
      /\ charged \in [Runs -> Nat]
  BY DEF TypeOK, Said
<1>a. ASSUME NEW code, Answer(r, code)
      PROVE  /\ net'[r] = "answered" /\ status'[r] = code
             /\ \A q \in Runs \ {r} : net'[q] = net[q] /\ status'[q] = status[q]
  BY <1>a, <1>t DEF Answer
<1>n. net[r] = "request" => told[r] \in {"nothing", "network"}
  BY <1>t DEF Run, Ended
<1>1. CASE HubSearch(r)
  BY <1>1, <1>a, <1>t, <1>n DEF HubSearch, Requested, Run, Account, Ended, Receipted
<1>2. CASE HubInvoke(r)
  <2>1. PICK genuine \in BOOLEAN, pq \in BOOLEAN, present \in BOOLEAN :
           receipt' = [receipt EXCEPT ![r] =
               IF present THEN [present |-> TRUE, genuine |-> genuine,
                                key |-> liveKey, pq |-> pq]
               ELSE NoReceipt]
    BY <1>2 DEF HubInvoke
  <2>2. /\ receipt'[r].genuine => receipt'[r].present
        /\ \A q \in Runs \ {r} : receipt'[q] = receipt[q]
    BY <2>1, <1>t DEF NoReceipt
  <2>3. step[r] = "invoke" /\ debits[r] = 0 /\ ~receipt[r].genuine /\ ~verdict[r].valid
    BY <1>2 DEF HubInvoke, Requested, Run, Account, Receipted
  <2>p. selected[r] \in Offers
    BY <2>3 DEF Run, Account
  <2>q. price[selected[r]] \in Nat
    BY <2>p DEF TypeOK
  <2>4. /\ debits'[r] = 1 /\ charged'[r] = price[selected[r]] /\ charged'[r] <= maxPrice[r]
        /\ \A q \in Runs \ {r} : debits'[q] = debits[q] /\ charged'[q] = charged[q]
    BY <1>2, <2>3, <1>t DEF HubInvoke
  <2>5. charged'[r] <= Budget
    BY <2>4, <2>q DEF Run, Account, TypeOK
  <2>6. Answer(r, "2xx") /\ net[r] = "request" /\ UNCHANGED <<run, maxPrice, verdict>>
    BY <1>2 DEF HubInvoke, Requested
  <2>7. net'[r] = "answered" /\ status'[r] = "2xx"
    BY <2>6, <1>a
  <2> QED
    BY <2>2, <2>3, <2>4, <2>5, <2>6, <2>7, <1>a, <1>n DEF Run, Account, Ended, Receipted
<1>3. CASE HubRefusesInvoke(r)
  <2>1. PICK code \in {"402", "403", "409", "other"} : Answer(r, code)
    BY <1>3 DEF HubRefusesInvoke
  <2>2. step[r] = "invoke" /\ net[r] = "request"
    BY <1>3 DEF HubRefusesInvoke, Requested
  <2>3. debits[r] = 0
    BY <2>2 DEF Run, Account
  <2> QED
    BY <1>3, <2>1, <2>2, <2>3, <1>a, <1>n
       DEF HubRefusesInvoke, Run, Account, Ended, Receipted
<1>4. CASE HubVerify(r)
  <2>1. PICK requires \in BOOLEAN :
           verdict' = [verdict EXCEPT ![r] =
               [valid |-> receipt[r].genuine, live |-> receipt[r].key = liveKey,
                requiresPq |-> requires, pqValid |-> receipt[r].pq]]
    BY <1>4 DEF HubVerify
  <2>2. /\ verdict'[r].valid => receipt[r].genuine
        /\ \A q \in Runs \ {r} : verdict'[q] = verdict[q]
    BY <2>1, <1>t
  <2> QED
    BY <1>4, <2>2, <1>a, <1>t, <1>n DEF HubVerify, Requested, Run, Account, Ended, Receipted
<1>5. CASE HubFails(r)
  BY <1>5, <1>a, <1>t, <1>n DEF HubFails, Requested, Run, Account, Ended, Receipted
<1>6. CASE Network(r)
  BY <1>6, <1>t, <1>n DEF Network, Run, Account, Ended, Receipted
<1> QED
  BY <1>1, <1>2, <1>3, <1>4, <1>5, <1>6 DEF Hub

-----------------------------------------------------------------------------
\* The invariant

LEMMA MarketInit == Init => IInv
<1> SUFFICES ASSUME Init PROVE IInv
  OBVIOUS
<1>1. NoReceipt \in Receipts /\ NoVerdict \in Verdicts
  BY DEF NoReceipt, NoVerdict, Receipts, Verdicts
<1>2. /\ listing \in [Runs -> Seq(Matches)]
      /\ receipt \in [Runs -> Receipts] /\ verdict \in [Runs -> Verdicts]
  BY <1>1 DEF Init
<1>3. funds \in 0..Funds /\ liveKey \in 0..MaxKeys
  BY DEF Init
<1>4. TypeOK
  BY <1>2, <1>3 DEF Init, TypeOK
<1>5. \A r \in Runs : ~receipt[r].genuine /\ ~receipt[r].present /\ ~verdict[r].valid
  BY DEF Init, NoReceipt, NoVerdict
<1>6. ASSUME NEW r \in Runs PROVE Account(r) /\ Ended(r) /\ Receipted(r)
  BY <1>5 DEF Init, Account, Ended, Receipted
<1> QED
  BY <1>4, <1>6 DEF IInv

LEMMA MarketStep == IInv /\ [Next]_vars => IInv'
<1> SUFFICES ASSUME IInv, [Next]_vars PROVE IInv'
  OBVIOUS
<1>i. TypeOK /\ \A r \in Runs : Run(r)
  BY DEF IInv, Run
<1>0. ASSUME TypeOK', \A r \in Runs : Run(r)' PROVE IInv'
  BY <1>0 DEF IInv, Run
<1>1. ASSUME NEW r \in Runs,
             BadOptions(r) \/ Search(r) \/ Reads(r) \/ HeadersFail(r)
      PROVE  IInv'
  <2>1. TypeOK'
    BY <1>i, <1>1, ClientTypes
  <2>2. Run(r)' /\ \A q \in Runs \ {r} : Untouched(q)
    BY <1>i, <1>1, ClientRun
  <2> QED
    BY <1>i, <1>0, <2>1, <2>2, UntouchedKeeps
<1>2. ASSUME NEW r \in Runs, Hub(r) \/ Network(r) PROVE IInv'
  <2>1. TypeOK'
    BY <1>i, <1>2, HubTypes DEF Run
  <2>2. Run(r)' /\ \A q \in Runs \ {r} : Untouched(q)
    BY <1>i, <1>2, HubRun
  <2> QED
    BY <1>i, <1>0, <2>1, <2>2, UntouchedKeeps
<1>3. ASSUME NEW o \in Offers, NEW p \in Prices, Reprice(o, p) PROVE IInv'
  <2>1. TypeOK'
    BY <1>i, <1>3 DEF Reprice, run, exchange, TypeOK
  <2>2. \A q \in Runs : Untouched(q)
    BY <1>3 DEF Reprice, run, exchange, Untouched
  <2> QED
    BY <1>i, <1>0, <2>1, <2>2, UntouchedKeeps
<1>4. CASE RotateKey
  <2>1. TypeOK'
    BY <1>i, <1>4 DEF RotateKey, run, exchange, TypeOK
  <2>2. \A q \in Runs : Untouched(q)
    BY <1>4 DEF RotateKey, run, exchange, Untouched
  <2> QED
    BY <1>i, <1>0, <2>1, <2>2, UntouchedKeeps
<1>5. CASE UNCHANGED vars
  <2>1. TypeOK'
    BY <1>i, <1>5 DEF vars, run, exchange, hub, TypeOK
  <2>2. \A q \in Runs : Untouched(q)
    BY <1>5 DEF vars, run, exchange, hub, Untouched
  <2> QED
    BY <1>i, <1>0, <2>1, <2>2, UntouchedKeeps
<1> QED
  BY <1>1, <1>2, <1>3, <1>4, <1>5 DEF Next

\* Types, accounts, outcomes and receipts stay consistent.
THEOREM MarketInvariance == Spec => []IInv
<1> QED
  BY MarketInit, MarketStep, PTL DEF Spec

\* Every variable keeps its type.
THEOREM MarketTypes == Spec => []TypeOK
<1>1. IInv => TypeOK
  BY DEF IInv
<1> QED
  BY <1>1, MarketInvariance, PTL

\* Whatever the hub asks for by the time the invoke arrives, the run is charged
\* its budget at most.
THEOREM ChargesBounded == Spec => []ChargedWithinBudget
<1>1. IInv => ChargedWithinBudget
  BY DEF IInv, Account, ChargedWithinBudget
<1> QED
  BY <1>1, MarketInvariance, PTL

\* Under "require" a result was debited once and its receipt is genuine.
THEOREM ResultsReceipted == Spec => []ResultHasReceipt
<1>1. IInv => ResultHasReceipt
  BY DEF IInv, Ended, Receipted, ResultHasReceipt
<1> QED
  BY <1>1, MarketInvariance, PTL

-----------------------------------------------------------------------------
\* Safety errors

\* What a verdict says of the receipt while it is on its way, and what a run that was
\* charged and ended in a safety error has to show.
Blamed(r) ==
    /\ receipt[r].key <= liveKey
    /\ step[r] = "verify" /\ net[r] \in {"body", "arrived", "broken"} => status[r] = "2xx"
    /\ step[r] = "verify" /\ status[r] = "2xx" /\ net[r] \in {"answered", "body", "arrived"} =>
          /\ receipt[r].genuine => verdict[r].valid
          /\ ~verdict[r].live => receipt[r].key < liveKey
          /\ receipt[r].pq => verdict[r].pqValid
    /\ told[r] = "safety" /\ debits[r] = 1 =>
          \/ step[r] = "verify" /\ status[r] # "2xx"
          \/ /\ Policy[r] = "require"
             /\ \/ ~receipt[r].present \/ ~receipt[r].genuine
                \/ receipt[r].key < liveKey \/ ~receipt[r].pq

\* A run that nobody touches stays blamed as it was: keys are only ever rotated on.
LEMMA UntouchedBlame ==
    ASSUME IInv, IInv', NEW r \in Runs, Blamed(r), Untouched(r), liveKey' >= liveKey
    PROVE  Blamed(r)'
<1>1. liveKey \in Int /\ liveKey' \in Int /\ receipt[r].key \in Int
  BY DEF IInv, TypeOK, Receipts
<1> QED
  BY <1>1 DEF Blamed, Untouched

\* The steps of the client: a safety error after a charge has its reason.
LEMMA ClientBlame ==
    ASSUME IInv, IInv', NEW r \in Runs, Blamed(r),
           BadOptions(r) \/ Search(r) \/ Reads(r) \/ HeadersFail(r)
    PROVE  Blamed(r)'
<1> USE DEF exchange, hub
<1>t. /\ pc \in [Runs -> {"idle", "headers", "body", "done"}]
      /\ step \in [Runs -> {"none", "search", "invoke", "verify"}]
      /\ told \in [Runs -> Said]
      /\ net \in [Runs -> {"none", "request", "answered", "body", "arrived", "broken"}]
      /\ verdict \in [Runs -> Verdicts]
  BY DEF IInv, TypeOK, Said
<1>n. pc[r] # "done" => told[r] = "nothing"
  BY DEF IInv, Ended
<1>f. ASSUME NEW what, Finish(r, what)
      PROVE  told'[r] = what /\ step' = step
  BY <1>f, <1>t DEF Finish
<1>a. ASSUME NEW s, Await(r, s)
      PROVE  step'[r] = s /\ net'[r] = "request"
  BY <1>a, <1>t DEF Await
<1>1. CASE BadOptions(r)
  BY <1>1, <1>f DEF BadOptions, Blamed
<1>2. CASE Search(r)
  BY <1>2, <1>a, <1>n DEF Search, Blamed
<1>3. CASE ReadHeaders(r)
  <2>1. CASE /\ status[r] # "2xx"
             /\ Finish(r, Meaning(step[r], status[r])) /\ net' = [net EXCEPT ![r] = "none"]
    <3>1. told'[r] = "safety" => step[r] \in {"invoke", "verify"}
      BY <2>1, <1>f DEF Meaning
    <3>2. step[r] = "invoke" => debits[r] = 0
      BY <1>3, <2>1 DEF ReadHeaders, IInv, Account
    <3> QED
      BY <1>3, <2>1, <3>1, <3>2, <1>f, <1>t DEF ReadHeaders, Blamed
  <2>2. CASE /\ status[r] = "2xx"
             /\ net' = [net EXCEPT ![r] = "body"] /\ UNCHANGED <<step, selected, told>>
    BY <1>3, <2>2, <1>n, <1>t DEF ReadHeaders, Blamed
  <2> QED
    BY <1>3, <2>1, <2>2 DEF ReadHeaders
<1>4. CASE HeadersFail(r)
  BY <1>4, <1>f, <1>t DEF HeadersFail, Abandon, Blamed
<1>5. CASE BodyBroken(r)
  BY <1>5, <1>f, <1>t DEF BodyBroken, Blamed
<1>6. ASSUME NEW i \in 1..Len(listing[r]), InvokeFirst(r, i) PROVE Blamed(r)'
  BY <1>6, <1>a, <1>n DEF InvokeFirst, Blamed
<1>7. CASE GiveUp(r)
  BY <1>7, <1>f, <1>t DEF GiveUp, Blamed
<1>8. CASE VerifyReceipt(r)
  BY <1>8, <1>a, <1>n DEF VerifyReceipt, Blamed
<1>9. CASE ReturnUnverified(r)
  BY <1>9, <1>f, <1>t DEF ReturnUnverified, Blamed
<1>10. CASE ReturnVerified(r)
  <2>1. /\ step[r] = "verify" /\ net[r] = "arrived" /\ status[r] = "2xx"
        /\ receipt[r].genuine => verdict[r].valid
        /\ ~verdict[r].live => receipt[r].key < liveKey
        /\ receipt[r].pq => verdict[r].pqValid
    BY <1>10 DEF ReturnVerified, Blamed
  <2>2. told'[r] = "safety" => Policy[r] = "require" /\ ~Trusted(verdict[r])
    BY <1>10, <1>f DEF ReturnVerified
  <2>3. /\ step' = step /\ net'[r] = "none"
        /\ UNCHANGED <<status, receipt, liveKey, debits>>
    BY <1>10, <1>f, <1>t DEF ReturnVerified
  <2> QED
    BY <2>1, <2>2, <2>3 DEF Trusted, Blamed
<1> QED
  BY <1>1, <1>2, <1>3, <1>4, <1>5, <1>6, <1>7, <1>8, <1>9, <1>10
     DEF Reads, NoneEligible, NoCredentials

\* The hub signs with its live key, and its verdict is about the receipt and that key.
LEMMA HubBlame ==
    ASSUME IInv, IInv', NEW r \in Runs, Blamed(r), Hub(r) \/ Network(r)
    PROVE  Blamed(r)'
<1> USE DEF run, hub
<1>t. /\ net \in [Runs -> {"none", "request", "answered", "body", "arrived", "broken"}]
      /\ status \in [Runs -> {"none", "2xx", "402", "403", "409", "other"}]
      /\ receipt \in [Runs -> Receipts]
      /\ verdict \in [Runs -> Verdicts]
      /\ liveKey \in Int /\ receipt[r].key \in Int
  BY DEF IInv, TypeOK, Receipts
<1>a. ASSUME NEW code, Answer(r, code)
      PROVE  net'[r] = "answered" /\ status'[r] = code
  BY <1>a, <1>t DEF Answer
<1>n. net[r] = "request" => told[r] \in {"nothing", "network"}
  BY DEF IInv, Ended
<1>1. CASE HubSearch(r)
  BY <1>1, <1>a, <1>n DEF HubSearch, Requested, Blamed
<1>2. CASE HubInvoke(r)
  <2>1. receipt'[r].key \in {0, liveKey}
    BY <1>2, <1>t DEF HubInvoke, NoReceipt
  <2>2. step[r] = "invoke" /\ step' = step /\ told' = told /\ told[r] # "safety" /\ liveKey' = liveKey
    BY <1>2, <1>n DEF HubInvoke, Requested
  <2>3. 0 <= liveKey
    BY DEF IInv, TypeOK
  <2>4. receipt'[r].key <= liveKey'
    BY <2>1, <2>2, <2>3, <1>t
  <2>5. step'[r] = "invoke" /\ told'[r] # "safety"
    BY <2>2
  <2> QED
    BY <2>4, <2>5 DEF Blamed
<1>3. CASE HubRefusesInvoke(r)
  BY <1>3, <1>n DEF HubRefusesInvoke, Requested, Blamed
<1>4. CASE HubVerify(r)
  <2>v. PICK requires \in BOOLEAN :
           verdict' = [verdict EXCEPT ![r] =
               [valid |-> receipt[r].genuine, live |-> receipt[r].key = liveKey,
                requiresPq |-> requires, pqValid |-> receipt[r].pq]]
    BY <1>4 DEF HubVerify
  <2>w. verdict'[r] = [valid |-> receipt[r].genuine, live |-> receipt[r].key = liveKey,
                       requiresPq |-> requires, pqValid |-> receipt[r].pq]
    BY <2>v, <1>t
  <2>x. /\ verdict'[r].valid = receipt[r].genuine
        /\ verdict'[r].live = (receipt[r].key = liveKey)
        /\ verdict'[r].pqValid = receipt[r].pq
    BY <2>w
  <2>1. /\ receipt[r].genuine => verdict'[r].valid
        /\ ~verdict'[r].live => receipt[r].key # liveKey
        /\ receipt[r].pq => verdict'[r].pqValid
    BY <2>x, Zenon
  <2>2. /\ step' = step /\ told' = told /\ told[r] # "safety"
        /\ net'[r] = "answered" /\ UNCHANGED <<receipt, liveKey>>
    BY <1>4, <1>a, <1>n DEF HubVerify, Requested
  <2>3. receipt[r].key <= liveKey
    BY DEF Blamed
  <2>4. ~verdict'[r].live => receipt[r].key < liveKey
    BY <2>1, <2>3, <1>t
  <2>5. told'[r] # "safety" /\ net'[r] \notin {"body", "arrived", "broken"}
    BY <2>2
  <2> QED
    BY <2>1, <2>2, <2>3, <2>4, <2>5 DEF Blamed
<1>5. CASE HubFails(r)
  BY <1>5, <1>a, <1>n DEF HubFails, Requested, Blamed
<1>6. CASE Network(r)
  <2>1. told[r] = "safety" => net[r] = "none"
    BY DEF IInv, Ended
  <2> QED
    BY <1>6, <2>1, <1>t DEF Network, Blamed
<1> QED
  BY <1>1, <1>2, <1>3, <1>4, <1>5, <1>6 DEF Hub

\* Every step keeps every run blamed as it should be.
LEMMA BlameStep ==
    IInv /\ IInv' /\ (\A r \in Runs : Blamed(r)) /\ [Next]_vars => (\A r \in Runs : Blamed(r))'
<1> SUFFICES ASSUME IInv, IInv', \A r \in Runs : Blamed(r), [Next]_vars, NEW q \in Runs
             PROVE  Blamed(q)'
  OBVIOUS
<1>k. liveKey \in Int
  BY DEF IInv, TypeOK
<1>1. ASSUME NEW r \in Runs, BadOptions(r) \/ Search(r) \/ Reads(r) \/ HeadersFail(r)
      PROVE  Blamed(q)'
  <2>1. CASE q = r
    BY <1>1, <2>1, ClientBlame
  <2>2. CASE q # r
    <3>1. Untouched(q)
      BY <1>1, <2>2, ClientRun DEF IInv, Run
    <3>2. liveKey' = liveKey
      BY <1>1 DEF BadOptions, Search, Reads, HeadersFail, ReadHeaders, BodyBroken, InvokeFirst,
         GiveUp, NoneEligible, NoCredentials, VerifyReceipt, ReturnUnverified, ReturnVerified, hub
    <3> QED
      BY <3>1, <3>2, <1>k, UntouchedBlame
  <2> QED
    BY <2>1, <2>2
<1>2. ASSUME NEW r \in Runs, Hub(r) \/ Network(r) PROVE Blamed(q)'
  <2>1. CASE q = r
    BY <1>2, <2>1, HubBlame
  <2>2. CASE q # r
    <3>1. Untouched(q)
      BY <1>2, <2>2, HubRun DEF IInv, Run
    <3>2. liveKey' = liveKey
      BY <1>2 DEF Hub, HubSearch, HubInvoke, HubRefusesInvoke, HubVerify, HubFails, Network, hub
    <3> QED
      BY <3>1, <3>2, <1>k, UntouchedBlame
  <2> QED
    BY <2>1, <2>2
<1>3. CASE (\E o \in Offers, p \in Prices : Reprice(o, p)) \/ RotateKey \/ UNCHANGED vars
  <2>1. Untouched(q)
    BY <1>3 DEF Reprice, RotateKey, vars, run, exchange, hub, Untouched
  <2>2. liveKey' >= liveKey
    BY <1>3, <1>k DEF Reprice, RotateKey, vars, hub
  <2> QED
    BY <2>1, <2>2, UntouchedBlame
<1> QED
  BY <1>1, <1>2, <1>3 DEF Next

\* A run that was charged ends in a safety error only because of its receipt: none came,
\* it is not what the policy asks for, the key was rotated, or nobody would verify it.
THEOREM SafetyErrorsExplained == Spec => []ChargedSafetyOnlyIf
<1>1. Init => \A r \in Runs : Blamed(r)
  <2> SUFFICES ASSUME Init, NEW r \in Runs PROVE Blamed(r)
    OBVIOUS
  <2>1. /\ receipt[r].key = 0 /\ liveKey = 0 /\ step[r] = "none" /\ told[r] = "nothing"
    BY DEF Init, NoReceipt
  <2> QED
    BY <2>1 DEF Blamed
<1>2. (\A r \in Runs : Blamed(r)) => ChargedSafetyOnlyIf
  BY DEF Blamed, ChargedSafetyOnlyIf
<1> QED
  BY <1>1, <1>2, MarketInvariance, BlameStep, PTL DEF Spec

-----------------------------------------------------------------------------
\* MarketRun implements PaidCalls

LEMMA OutcomeOf ==
    ASSUME NEW r \in Runs
    PROVE  /\ (outcome[r] = "pending") <=> (told[r] = "nothing")
           /\ (outcome[r] = "paid") <=> (told[r] = "result")
           /\ (outcome[r] = "refused") <=> (told[r] \in {"payment", "conflict"})
           /\ outcome[r] \in {"pending", "paid", "refused", "error"}
<1> QED
  BY DEF outcome

\* A client's step tells one caller something, or nobody anything.
LEMMA ClientPays ==
    ASSUME IInv, IInv', NEW r \in Runs,
           BadOptions(r) \/ Search(r) \/ Reads(r) \/ HeadersFail(r)
    PROVE  [Paid!Next]_(Paid!vars)
<1>1. debits' = debits /\ pc[r] # "done"
  BY DEF BadOptions, Search, Reads, HeadersFail, ReadHeaders, BodyBroken, InvokeFirst, GiveUp,
     NoneEligible, NoCredentials, VerifyReceipt, ReturnUnverified, ReturnVerified, hub
<1>2. \A q \in Runs \ {r} : Untouched(q)
  BY ClientRun DEF IInv, Run
<1>3. told[r] = "nothing"
  BY <1>1 DEF IInv, Ended
<1>4. \A q \in Runs \ {r} : outcome'[q] = outcome[q]
  BY <1>2 DEF outcome, Untouched
<1>5. outcome' = [outcome EXCEPT ![r] = outcome'[r]]
  BY <1>4 DEF outcome
<1>6. CASE outcome'[r] = "pending"
  <2>1. outcome' = outcome
    BY <1>3, <1>5, <1>6, OutcomeOf DEF outcome
  <2> QED
    BY <1>1, <2>1 DEF Paid!vars
<1>7. CASE outcome'[r] # "pending"
  <2>0. outcome[r] = "pending"
    BY <1>3, OutcomeOf
  <2>1. outcome'[r] \in {"paid", "refused", "error"}
    BY <1>7 DEF outcome
  <2>2. outcome'[r] = "paid" => debits[r] = 1
    BY <1>1 DEF outcome, IInv, Ended
  <2>3. outcome'[r] = "refused" => debits[r] = 0
    BY <1>1 DEF outcome, IInv, Ended
  <2>4. Paid!Tell(r, outcome'[r])
    BY <1>1, <1>5, <2>0, <2>1, <2>2, <2>3 DEF Paid!Tell
  <2> QED
    BY <2>1, <2>4 DEF Paid!Next, Paid!Outcomes
<1> QED
  BY <1>6, <1>7

\* The hub debits an invoke that it has not debited and whose caller was told
\* nothing but a transport error; its other answers tell nobody anything.
LEMMA HubPays ==
    ASSUME IInv, IInv', NEW r \in Runs, Hub(r) \/ Network(r)
    PROVE  [Paid!Next]_(Paid!vars)
<1>1. told' = told /\ step' = step
  BY DEF Hub, HubSearch, HubInvoke, HubRefusesInvoke, HubVerify, HubFails, Network, run
<1>2. \A q \in Runs \ {r} : Untouched(q)
  BY HubRun DEF IInv, Run
<1>3. CASE net[r] = "body"
  <2>1. Network(r)
    BY <1>3 DEF Hub, HubSearch, HubInvoke, HubRefusesInvoke, HubVerify, HubFails, Requested
  <2> QED
    BY <1>1, <2>1 DEF Network, hub, outcome, Paid!vars
<1>4. CASE net[r] = "request"
  <2>1. told[r] \in {"nothing", "network"}
    BY <1>4 DEF IInv, Ended
  <2>2. outcome' = outcome
    BY <1>1, <1>2, <2>1 DEF outcome, Untouched
  <2>3. CASE HubInvoke(r)
    <3>0. debits[r] = 0
      BY <2>3 DEF HubInvoke, Requested, IInv, Account
    <3>1. debits' = [debits EXCEPT ![r] = 1]
      BY <2>3, <3>0 DEF HubInvoke
    <3>2. outcome[r] \in {"pending", "error"}
      BY <2>1 DEF outcome
    <3> QED
      BY <2>2, <3>0, <3>1, <3>2 DEF Paid!Next, Paid!Debit
  <2>4. CASE ~HubInvoke(r)
    <3>1. debits' = debits
      BY <2>4 DEF Hub, HubSearch, HubRefusesInvoke, HubVerify, HubFails, Network, hub
    <3> QED
      BY <2>2, <3>1 DEF Paid!vars
  <2> QED
    BY <2>3, <2>4
<1> QED
  BY <1>3, <1>4 DEF Hub, HubSearch, HubInvoke, HubRefusesInvoke, HubVerify, HubFails,
     Network, Requested

\* Every step of a run, the network or the hub is a step of PaidCalls or leaves
\* debits and outcomes alone.
LEMMA MarketPaysStep == IInv /\ IInv' /\ [Next]_vars => [Paid!Next]_(Paid!vars)
<1> SUFFICES ASSUME IInv, IInv', [Next]_vars PROVE [Paid!Next]_(Paid!vars)
  OBVIOUS
<1>1. CASE UNCHANGED <<told, debits>>
  BY <1>1 DEF outcome, Paid!vars
<1>2. CASE RotateKey \/ \E o \in Offers, p \in Prices : Reprice(o, p)
  BY <1>1, <1>2 DEF RotateKey, Reprice, run, exchange
<1>3. CASE UNCHANGED vars
  BY <1>1, <1>3 DEF vars, run, exchange, hub
<1> QED
  BY <1>2, <1>3, ClientPays, HubPays DEF Next

\* Every behaviour of the runs, the network and the hub pays as PaidCalls
\* promises: at most one debit per run, and none behind a payment error or a conflict.
THEOREM MarketPays == Spec => PaidAsPromised
<1>1. Init => Paid!Init
  BY DEF Init, outcome, Paid!Init
<1> QED
  BY <1>1, MarketPaysStep, MarketInvariance, PTL DEF Spec, PaidAsPromised, Paid!Spec
=============================================================================
