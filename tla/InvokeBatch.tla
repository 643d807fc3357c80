----------------------------- MODULE InvokeBatch -----------------------------
(***************************************************************************)
(* invoke_batch of the three SDKs: several invokes on one channel or one   *)
(* credit account.  Rust (agent.rs) sends them one after the other and     *)
(* stops at the first error; Dart (agent.dart) sends them at once and      *)
(* waits for all of them; TypeScript (agent.ts) sends them at once and     *)
(* throws at the first error.                                              *)
(*                                                                         *)
(* An invoke is as in AgentChannels: never sent again, and debited or not  *)
(* when its answer is lost.  The hub and the network are external.         *)
(***************************************************************************)
EXTENDS Integers

CONSTANTS
    Size,    \* how many invokes the batch has
    Styles,  \* "one by one": Rust; "wait for all": Dart; "first error": TypeScript
    Prices,  \* prices the hub may ask for an invoke
    Funds    \* opening balance

Items == 1..Size

ASSUME BatchAssumption ==
    /\ Size \in Nat
    /\ Styles \subseteq {"one by one", "wait for all", "first error"}
    /\ Prices \subseteq Nat
    /\ Funds \in Nat

VARIABLES
    style,   \* of the SDK
    pc,      \* of the batch: "idle", "running", "returned" or "threw"
    cause,   \* the first invoke that ended in an error, 0 for none
    item,    \* each invoke: "unsent", "sent", or what it brought
    net,     \* its HTTP exchange
    funds,   \* what is left to pay with
    debits   \* how often each invoke was debited

batch == <<style, pc, cause, item>>
hub   == <<funds, debits>>
vars  == <<batch, net, hub>>

Results == {"paid", "failed"}
Errors  == {"refused", "error"}

Init ==
    /\ style \in Styles
    /\ pc = "idle"
    /\ cause = 0
    /\ item = [i \in Items |-> "unsent"]
    /\ net = [i \in Items |-> "none"]
    /\ funds = Funds
    /\ debits = [i \in Items |-> 0]

-----------------------------------------------------------------------------
\* The batch

\* capability_ids and inputs of different lengths, or nothing to pay with: no
\* request is sent.
Rejected ==
    /\ pc = "idle"
    /\ pc' = "threw"
    /\ UNCHANGED <<style, cause, item, net, hub>>

\* Dart and TypeScript send every request before they await one.
Start ==
    /\ pc = "idle"
    /\ pc' = "running"
    /\ IF style = "one by one"
       THEN UNCHANGED <<item, net>>
       ELSE /\ item' = [i \in Items |-> "sent"]
            /\ net' = [i \in Items |-> "request"]
    /\ UNCHANGED <<style, cause, hub>>

\* Mutant: the next request is sent without awaiting the one before.
SendNextUnawaited(i) ==
    /\ pc = "running" /\ style = "one by one"
    /\ item[i] = "unsent"
    /\ \A j \in 1..(i - 1) : item[j] # "unsent"
    /\ item' = [item EXCEPT ![i] = "sent"]
    /\ net' = [net EXCEPT ![i] = "request"]
    /\ UNCHANGED <<style, pc, cause, hub>>

\* Rust sends the next one when all before it have brought a result.
SendNext(i) ==
    /\ pc = "running" /\ style = "one by one"
    /\ item[i] = "unsent"
    /\ \A j \in 1..(i - 1) : item[j] \in Results
    /\ item' = [item EXCEPT ![i] = "sent"]
    /\ net' = [net EXCEPT ![i] = "request"]
    /\ UNCHANGED <<style, pc, cause, hub>>

\* What the answer of invoke i brings: 402 and 403 throw.
Brings(i) ==
    CASE net[i] = "ok" -> "paid"
      [] net[i] = "failed" -> "failed"
      [] net[i] = "refused" -> "refused"
      [] OTHER -> "error"

Bring(i, what) ==
    /\ item' = [item EXCEPT ![i] = what]
    /\ cause' = IF what \in Errors /\ cause = 0 THEN i ELSE cause
    /\ UNCHANGED <<style, pc, hub>>

\* In TypeScript the other invokes go on after the batch has thrown.
InvokeEnds(i) ==
    /\ item[i] = "sent"
    /\ net[i] \in {"ok", "failed", "refused", "broken"}
    /\ Bring(i, Brings(i))
    /\ net' = [net EXCEPT ![i] = "none"]

\* Mutant: an invoke that timed out is sent again.
InvokeTimesOutResends(i) ==
    /\ item[i] = "sent"
    /\ net' = [net EXCEPT ![i] = "request"]
    /\ UNCHANGED <<batch, hub>>

\* Mutant: the timer starts with the answer.
InvokeTimesOutAnswered(i) ==
    /\ item[i] = "sent" /\ net[i] # "request"
    /\ Bring(i, "error")
    /\ net' = [net EXCEPT ![i] = "none"]

\* The request may still reach the hub.
InvokeTimesOut(i) ==
    /\ item[i] = "sent"
    /\ Bring(i, "error")
    /\ net' = [net EXCEPT ![i] = IF @ = "request" THEN @ ELSE "none"]

BatchReturns ==
    /\ pc = "running"
    /\ \A i \in Items : item[i] \in Results
    /\ pc' = "returned"
    /\ UNCHANGED <<style, cause, item, net, hub>>

\* Mutant: Future.wait with eagerError.
ReadyToThrowEagerly == TRUE

\* Future.wait throws when every future has ended; the others at once.
ReadyToThrow == style = "wait for all" => \A i \in Items : item[i] # "sent"

\* What is thrown is the first error there was.
BatchThrows ==
    /\ pc = "running"
    /\ cause # 0
    /\ ReadyToThrow
    /\ pc' = "threw"
    /\ UNCHANGED <<style, cause, item, net, hub>>

-----------------------------------------------------------------------------
\* The hub and the network

Answer(i, n) == net' = [net EXCEPT ![i] = n]

HubDebits(i) ==
    /\ net[i] = "request"
    /\ \E p \in Prices :
          /\ p <= funds
          /\ funds' = funds - p
    /\ debits' = [debits EXCEPT ![i] = @ + 1]
    /\ Answer(i, "ok")
    /\ UNCHANGED batch

HubRefuses(i) ==
    /\ net[i] = "request"
    /\ \E n \in {"refused", "failed"} : Answer(i, n)
    /\ UNCHANGED <<batch, hub>>

\* A request is lost, or the answer breaks off.
NetworkFails(i) ==
    /\ net[i] \in {"request", "ok", "failed", "refused"}
    /\ Answer(i, "broken")
    /\ UNCHANGED <<batch, hub>>

-----------------------------------------------------------------------------
Ends(i) == InvokeEnds(i) \/ InvokeTimesOut(i)

Batch ==
    \/ Rejected \/ Start \/ BatchReturns \/ BatchThrows
    \/ \E i \in Items : SendNext(i)

Next ==
    \/ Batch
    \/ \E i \in Items : Ends(i) \/ HubDebits(i) \/ HubRefuses(i) \/ NetworkFails(i)

Spec == Init /\ [][Next]_vars

\* Fairness.  The client runs what is ready, and its timer fires; TypeScript's is
\* stopped by the headers, so nothing ends an invoke there whose body never comes.
\* Nothing is assumed of the hub and of the network.
FairSpec ==
    /\ Spec
    /\ WF_vars(pc # "idle" /\ Batch)
    /\ \A i \in Items : /\ WF_vars(InvokeEnds(i))
                       /\ WF_vars(style # "first error" /\ InvokeTimesOut(i))

-----------------------------------------------------------------------------
\* Properties

\* The type of every variable.
TypeOK ==
    /\ style \in Styles
    /\ pc \in {"idle", "running", "returned", "threw"}
    /\ cause \in 0..Size
    /\ item \in [Items -> {"unsent", "sent"} \cup Results \cup Errors]
    /\ net \in [Items -> {"none", "request", "ok", "failed", "refused", "broken"}]
    /\ funds \in 0..Funds
    /\ debits \in [Items -> Nat]

\* In Rust an invoke is debited only when all invokes before it have brought a
\* result: behind an invoke that failed, even one that may still be debited
\* itself, nothing is spent.
DebitedInOrder ==
    style = "one by one" =>
        \A i \in Items : debits[i] # 0 => \A j \in 1..(i - 1) : item[j] \in Results

\* In Dart one failure does not cancel the others: when the batch throws it, every
\* other invoke was sent and has ended.
RemainingInvocationsEnd ==
    style = "wait for all" /\ pc = "threw" /\ cause # 0 =>
        \A i \in Items : item[i] \in Results \cup Errors

\* Whatever an invoke brought, the batch returns or throws; in TypeScript a body
\* that never comes may hold it for ever.
BatchEnds == (pc = "running" /\ style # "first error") ~> (pc \in {"returned", "threw"})

\* What each invoke told the batch, for PaidCalls.
outcome == [i \in Items |-> IF item[i] \in {"unsent", "sent"} THEN "pending" ELSE item[i]]

Paid == INSTANCE PaidCalls WITH Calls <- Items

\* Invokes that share one balance and go on after the batch has thrown are each
\* debited at most once, and never behind a refusal or a failed result.
PaidAsPromised == Paid!Spec
=============================================================================
