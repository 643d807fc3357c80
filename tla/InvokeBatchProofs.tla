-------------------------- MODULE InvokeBatchProofs --------------------------
(***************************************************************************)
(* What a batch spends and what it tells, for every number of invokes,     *)
(* every balance and every price, in the three SDKs.                       *)
(***************************************************************************)
EXTENDS InvokeBatch, TLAPS

\* What the proofs use of the constants.
LEMMA Numbers == Size \in Nat /\ Funds \in Nat /\ Prices \subseteq Nat
<1> QED
  BY BatchAssumption

\* What an invoke brought, its exchange and its debit agree.
Exchange(i) ==
    /\ debits[i] \in 0..1
    /\ item[i] = "unsent" => net[i] = "none" /\ debits[i] = 0
    /\ net[i] \in {"request", "failed", "refused"} => debits[i] = 0
    /\ net[i] # "none" => item[i] \in {"sent", "error"}
    /\ net[i] = "ok" => debits[i] = 1
    /\ item[i] = "paid" => debits[i] = 1
    /\ item[i] \in {"failed", "refused"} => debits[i] = 0

\* In Rust an invoke that was sent has only results before it.
SentInOrder ==
    style = "one by one" =>
        \A i \in Items : item[i] # "unsent" => \A j \in 1..(i - 1) : item[j] \in Results

\* In Dart and TypeScript all are sent or none is, and no error comes before that;
\* only a TypeScript batch that has thrown an error leaves invokes under way.
SentAtOnce ==
    style # "one by one" =>
        /\ pc = "running" \/ cause # 0 => \A i \in Items : item[i] # "unsent"
        /\ pc \in {"threw", "returned"} /\ (cause = 0 \/ style = "wait for all") =>
              \A i \in Items : item[i] # "sent"

IInv == /\ TypeOK
        /\ \A i \in Items : Exchange(i)
        /\ SentInOrder
        /\ SentAtOnce
        /\ pc = "idle" => \A i \in Items : item[i] = "unsent"
        /\ pc = "idle" => cause = 0

LEMMA BatchInit == Init => IInv
<1> SUFFICES ASSUME Init PROVE IInv
  OBVIOUS
<1>1. \A i \in Items : item[i] = "unsent" /\ net[i] = "none" /\ debits[i] = 0
  BY DEF Init
<1>2. /\ item \in [Items -> {"unsent", "sent"} \cup Results \cup Errors]
      /\ net \in [Items -> {"none", "request", "ok", "failed", "refused", "broken"}]
      /\ debits \in [Items -> Nat]
  BY DEF Init
<1>3. /\ style \in Styles /\ pc = "idle" /\ cause = 0
      /\ cause \in 0..Size /\ funds \in 0..Funds
  BY Numbers DEF Init
<1>4. TypeOK
  BY <1>2, <1>3 DEF TypeOK
<1>5. ASSUME NEW i \in Items PROVE Exchange(i)
  <2>1. item[i] = "unsent" /\ net[i] = "none" /\ debits[i] = 0
    BY <1>1
  <2> QED
    BY <2>1 DEF Exchange
<1>6. SentInOrder /\ SentAtOnce
  BY <1>1, <1>3 DEF SentInOrder, SentAtOnce
<1> QED
  BY <1>1, <1>3, <1>4, <1>5, <1>6 DEF IInv

LEMMA BatchStep == IInv /\ [Next]_vars => IInv'
<1> SUFFICES ASSUME IInv, [Next]_vars PROVE IInv'
  OBVIOUS
<1>t. /\ TypeOK
      /\ \A i \in Items : Exchange(i)
  BY DEF IInv
<1>e. \A i \in Items : \A j \in 1..(i - 1) : j \in Items /\ j # i
  BY Numbers DEF Items
<1>1. CASE Rejected \/ BatchReturns \/ BatchThrows
  <2>1. TypeOK' /\ UNCHANGED <<style, cause, item, net, debits>>
    BY <1>1, <1>t DEF Rejected, BatchReturns, BatchThrows, hub, TypeOK
  <2>2. \A i \in Items : Exchange(i)'
    BY <1>t, <2>1 DEF Exchange
  <2>3. SentInOrder'
    BY <2>1 DEF IInv, SentInOrder
  <2>4. SentAtOnce'
    BY <1>1, <2>1 DEF IInv, SentAtOnce, Rejected, BatchReturns, BatchThrows, ReadyToThrow, Results
  <2>5. pc' # "idle"
    BY <1>1 DEF Rejected, BatchReturns, BatchThrows
  <2> QED
    BY <2>1, <2>2, <2>3, <2>4, <2>5 DEF IInv
<1>2. CASE Start
  <2>1. TypeOK' /\ UNCHANGED <<style, cause, debits>> /\ pc = "idle" /\ pc' = "running"
    BY <1>2, <1>t DEF Start, hub, TypeOK
  <2>2. \A i \in Items : Exchange(i)'
    BY <1>2, <1>t, <2>1 DEF Start, Exchange, IInv
  <2>3. SentInOrder' /\ SentAtOnce'
    BY <1>2, <2>1 DEF Start, IInv, SentInOrder, SentAtOnce
  <2> QED
    BY <2>1, <2>2, <2>3 DEF IInv
<1>3. ASSUME NEW i \in Items, SendNext(i) PROVE IInv'
  <2>1. TypeOK' /\ UNCHANGED <<style, pc, cause, debits>>
    BY <1>3, <1>t DEF SendNext, hub, TypeOK
  <2>2. \A j \in Items : Exchange(j)'
    BY <1>3, <1>t DEF SendNext, Exchange, TypeOK, hub
  <2>3. item'[i] = "sent" /\ \A j \in Items \ {i} : item'[j] = item[j]
    BY <1>3, <1>t DEF SendNext, TypeOK
  <2>4. item[i] \notin Results /\ \A j \in 1..(i - 1) : item[j] \in Results
    BY <1>3 DEF SendNext, Results
  <2>5. SentInOrder'
    <3> SUFFICES ASSUME style = "one by one",
                        NEW k \in Items, item'[k] # "unsent", NEW j \in 1..(k - 1)
                 PROVE  item'[j] \in Results
      BY <2>1 DEF SentInOrder, Results
    <3>1. j \in Items /\ j # k
      BY <1>e
    <3>2. item[j] \in Results
      BY <2>3, <2>4 DEF IInv, SentInOrder
    <3> QED
      BY <2>3, <2>4, <3>1, <3>2
  <2>6. SentAtOnce' /\ pc' # "idle"
    BY <1>3 DEF SendNext, SentAtOnce
  <2> QED
    BY <2>1, <2>2, <2>5, <2>6 DEF IInv
<1>4. ASSUME NEW i \in Items, Ends(i) PROVE IInv'
  <2>1. PICK what :
           /\ Bring(i, what)
           /\ what \in Results \cup Errors
           /\ item[i] = "sent"
           /\ what = "paid" => debits[i] = 1
           /\ what \in {"failed", "refused"} => debits[i] = 0
           /\ \E n \in {"none", "request"} :
                 /\ net' = [net EXCEPT ![i] = n]
                 /\ n = "request" => net[i] = "request" /\ what = "error"
    <3>1. CASE InvokeEnds(i)
      <4>1. /\ Brings(i) \in Results \cup Errors
            /\ Brings(i) = "paid" => net[i] = "ok"
            /\ Brings(i) \in {"failed", "refused"} => net[i] \in {"failed", "refused"}
        BY DEF Brings, Results, Errors
      <4> QED
        BY <1>t, <3>1, <4>1 DEF InvokeEnds, Exchange
    <3>2. CASE InvokeTimesOut(i)
      BY <1>t, <3>2 DEF InvokeTimesOut, Errors, TypeOK
    <3> QED
      BY <1>4, <3>1, <3>2 DEF Ends
  <2>2. /\ item' = [item EXCEPT ![i] = what]
        /\ cause' \in {i, cause}
        /\ cause # 0 => cause' = cause
        /\ what \notin Errors => cause' = cause
        /\ UNCHANGED <<style, pc, debits, funds>>
    BY <2>1 DEF Bring, hub
  <2>3. item'[i] = what /\ \A j \in Items \ {i} : item'[j] = item[j]
    BY <1>t, <2>2 DEF TypeOK
  <2>4. \A j \in Items \ {i} : net'[j] = net[j]
    BY <1>t, <2>1 DEF TypeOK
  <2>5. TypeOK'
    <3>1. i \in 0..Size
      BY Numbers DEF Items
    <3>2. item' \in [Items -> {"unsent", "sent"} \cup Results \cup Errors]
      BY <1>t, <2>1, <2>2 DEF TypeOK
    <3>3. net' \in [Items -> {"none", "request", "ok", "failed", "refused", "broken"}]
      BY <1>t, <2>1 DEF TypeOK
    <3> QED
      BY <1>t, <2>2, <3>1, <3>2, <3>3 DEF TypeOK
  <2>6. Exchange(i)'
    <3>1. net'[i] # "none" => net'[i] = "request" /\ net[i] = "request" /\ what = "error"
      BY <1>t, <2>1 DEF TypeOK
    <3>2. debits'[i] = debits[i] /\ debits[i] \in 0..1 /\ what # "unsent"
      BY <1>t, <2>1, <2>2 DEF Exchange, Results, Errors
    <3> QED
      BY <1>t, <2>1, <2>3, <3>1, <3>2 DEF Exchange
  <2>7. \A j \in Items : Exchange(j)'
    BY <1>t, <2>2, <2>3, <2>4, <2>6 DEF Exchange
  <2>8. SentInOrder'
    <3> SUFFICES ASSUME style = "one by one",
                        NEW k \in Items, item'[k] # "unsent", NEW j \in 1..(k - 1)
                 PROVE  item'[j] \in Results
      BY <2>2 DEF SentInOrder, Results
    <3>1. j \in Items /\ item[k] # "unsent"
      BY <1>e, <2>1, <2>3
    <3>2. item[j] \in Results
      BY <3>1 DEF IInv, SentInOrder
    <3>3. j # i
      BY <2>1, <3>2 DEF Results
    <3> QED
      BY <2>3, <3>1, <3>2, <3>3
  <2>9. pc # "idle"
    BY <2>1 DEF IInv
  <2>10. SentAtOnce'
    <3> SUFFICES ASSUME style # "one by one" PROVE SentAtOnce'
      BY <2>2 DEF SentAtOnce
    <3>1. what \notin {"unsent", "sent"}
      BY <2>1 DEF Results, Errors
    <3>2. pc = "running" \/ (cause # 0 /\ style # "wait for all")
      BY <1>t, <2>1, <2>9 DEF IInv, SentAtOnce, TypeOK
    <3>3. \A j \in Items : item[j] # "unsent"
      BY <3>2 DEF IInv, SentAtOnce
    <3>4. \A j \in Items : item'[j] # "unsent"
      BY <2>3, <3>1, <3>3
    <3>5. ~(pc' \in {"threw", "returned"} /\ (cause' = 0 \/ style' = "wait for all"))
      BY <2>2, <3>2
    <3> QED
      BY <3>4, <3>5 DEF SentAtOnce
  <2> QED
    BY <2>2, <2>5, <2>7, <2>8, <2>9, <2>10 DEF IInv
<1>5. ASSUME NEW i \in Items, HubDebits(i) PROVE IInv'
  <2>1. UNCHANGED <<style, pc, cause, item>> /\ net[i] = "request"
    BY <1>5 DEF HubDebits, batch
  <2>2. debits[i] = 0 /\ debits' = [debits EXCEPT ![i] = 1]
    <3>1. debits[i] = 0
      BY <1>t, <2>1 DEF Exchange
    <3>2. debits' = [debits EXCEPT ![i] = @ + 1]
      BY <1>5 DEF HubDebits
    <3> QED
      BY <3>1, <3>2
  <2>3. net' = [net EXCEPT ![i] = "ok"]
    BY <1>5 DEF HubDebits, Answer
  <2>4. funds' \in 0..Funds
    <3>1. PICK p \in Prices : p <= funds /\ funds' = funds - p
      BY <1>5 DEF HubDebits
    <3>2. p \in Nat /\ funds \in 0..Funds
      BY <1>t, Numbers DEF TypeOK
    <3> QED
      BY <3>1, <3>2, Numbers
  <2>5. TypeOK'
    BY <1>t, <2>1, <2>2, <2>3, <2>4 DEF TypeOK
  <2>6. \A j \in Items : Exchange(j)'
    BY <1>t, <2>1, <2>2, <2>3 DEF Exchange, TypeOK
  <2> QED
    BY <2>1, <2>5, <2>6 DEF IInv, SentInOrder, SentAtOnce
<1>6. ASSUME NEW i \in Items, HubRefuses(i) \/ NetworkFails(i) PROVE IInv'
  <2>1. /\ UNCHANGED <<style, pc, cause, item, funds, debits>>
        /\ \E n \in {"refused", "failed", "broken"} : net' = [net EXCEPT ![i] = n]
        /\ net[i] # "none"
        /\ net[i] = "request" \/ net'[i] = "broken"
    BY <1>6, <1>t DEF HubRefuses, NetworkFails, Answer, batch, hub, TypeOK
  <2>2. TypeOK'
    BY <1>t, <2>1 DEF TypeOK
  <2>3. \A j \in Items : Exchange(j)'
    BY <1>t, <2>1 DEF Exchange, TypeOK
  <2> QED
    BY <2>1, <2>2, <2>3 DEF IInv, SentInOrder, SentAtOnce
<1>7. CASE UNCHANGED vars
  BY <1>7 DEF vars, batch, hub, IInv, TypeOK, Exchange, SentInOrder, SentAtOnce
<1> QED
  BY <1>1, <1>2, <1>3, <1>4, <1>5, <1>6, <1>7 DEF Next, Batch

\* Types, exchanges and the order of sending stay consistent.
THEOREM BatchInvariance == Spec => []IInv
<1> QED
  BY BatchInit, BatchStep, PTL DEF Spec

\* Every variable keeps its type.
THEOREM BatchTypes == Spec => []TypeOK
<1>1. IInv => TypeOK
  BY DEF IInv
<1> QED
  BY <1>1, BatchInvariance, PTL

\* Behind an invoke without a result, a Rust batch of any length spends nothing.
THEOREM SpendsInOrder == Spec => []DebitedInOrder
<1>1. IInv => DebitedInOrder
  BY DEF IInv, DebitedInOrder, SentInOrder, Exchange
<1> QED
  BY <1>1, BatchInvariance, PTL

\* A Dart batch that throws has let every invoke end.
THEOREM RemainingEnd == Spec => []RemainingInvocationsEnd
<1>1. IInv => RemainingInvocationsEnd
  BY DEF IInv, RemainingInvocationsEnd, SentAtOnce, TypeOK
<1> QED
  BY <1>1, BatchInvariance, PTL

\* Every step of the batch, the network or the hub is a step of PaidCalls or leaves
\* debits and outcomes alone.
LEMMA BatchPaysStep == IInv /\ IInv' /\ [Next]_vars => [Paid!Next]_(Paid!vars)
<1> SUFFICES ASSUME IInv, IInv', [Next]_vars PROVE [Paid!Next]_(Paid!vars)
  OBVIOUS
<1>1. ASSUME UNCHANGED <<item, debits>> PROVE [Paid!Next]_(Paid!vars)
  BY <1>1 DEF outcome, Paid!vars
<1>2. CASE Rejected \/ BatchReturns \/ BatchThrows
  BY <1>1, <1>2 DEF Rejected, BatchReturns, BatchThrows, hub
<1>3. ASSUME Start \/ \E i \in Items : SendNext(i) PROVE [Paid!Next]_(Paid!vars)
  <2>1. debits' = debits
    BY <1>3 DEF Start, SendNext, hub
  <2>2. \A j \in Items : outcome'[j] = outcome[j]
    BY <1>3 DEF outcome, Start, SendNext, IInv, TypeOK
  <2> QED
    BY <2>1, <2>2 DEF outcome, Paid!vars
<1>4. ASSUME NEW i \in Items, Ends(i) PROVE [Paid!Next]_(Paid!vars)
  <2>1. PICK what : Bring(i, what)
    BY <1>4 DEF Ends, InvokeEnds, InvokeTimesOut
  <2>2. what \in Results \cup Errors /\ item[i] = "sent"
    BY <1>4, <2>1 DEF Ends, InvokeEnds, InvokeTimesOut, Brings, Results, Errors, Bring, IInv, TypeOK
  <2>3. item' = [item EXCEPT ![i] = what] /\ debits' = debits
    BY <2>1 DEF Bring, hub
  <2>4. outcome[i] = "pending" /\ outcome' = [outcome EXCEPT ![i] = what]
    BY <2>2, <2>3 DEF outcome, IInv, TypeOK, Results, Errors
  <2>5. item'[i] = what
    BY <2>3 DEF IInv, TypeOK
  <2>6. /\ what = "paid" => debits[i] = 1
        /\ what \in {"failed", "refused"} => debits[i] = 0
    BY <2>3, <2>5 DEF IInv, Exchange
  <2>7. Paid!Tell(i, what) /\ what \in Paid!Outcomes \ {"pending"}
    BY <2>2, <2>3, <2>4, <2>6 DEF Paid!Tell, Paid!Outcomes, Results, Errors
  <2> QED
    BY <2>7 DEF Paid!Next
<1>5. ASSUME NEW i \in Items, HubDebits(i) PROVE [Paid!Next]_(Paid!vars)
  <2>1. debits[i] = 0 /\ item[i] \in {"sent", "error"}
    BY <1>5 DEF HubDebits, IInv, Exchange
  <2>2. outcome' = outcome /\ outcome[i] \in {"pending", "error"}
    BY <1>5, <2>1 DEF outcome, HubDebits, batch
  <2>3. debits' = [debits EXCEPT ![i] = @ + 1]
    BY <1>5 DEF HubDebits
  <2>4. debits' = [debits EXCEPT ![i] = 1]
    BY <2>1, <2>3
  <2> QED
    BY <2>1, <2>2, <2>3, <2>4 DEF Paid!Next, Paid!Debit
<1>6. ASSUME NEW i \in Items, HubRefuses(i) \/ NetworkFails(i) PROVE [Paid!Next]_(Paid!vars)
  BY <1>1, <1>6 DEF HubRefuses, NetworkFails, batch, hub
<1>7. CASE UNCHANGED vars
  BY <1>1, <1>7 DEF vars, batch, hub
<1> QED
  BY <1>2, <1>3, <1>4, <1>5, <1>6, <1>7 DEF Next, Batch

\* Every invoke of a batch is paid as PaidCalls promises, in the three SDKs.
THEOREM BatchPays == Spec => PaidAsPromised
<1>1. Init => Paid!Init
  BY DEF Init, outcome, Paid!Init
<1> QED
  BY <1>1, BatchPaysStep, BatchInvariance, PTL DEF Spec, PaidAsPromised, Paid!Spec
=============================================================================
