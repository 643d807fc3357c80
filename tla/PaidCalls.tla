------------------------------ MODULE PaidCalls ------------------------------
(***************************************************************************)
(* What a paid call of the consumer SDKs promises its caller, whatever     *)
(* the network and the hub do: the account is debited at most once, and    *)
(* the outcome the caller reads never contradicts the debit.               *)
(*                                                                         *)
(*   "paid"     a result was returned: the call was debited.               *)
(*   "failed"   a result with success = false and price 0: never debited.  *)
(*   "refused"  an error that says the call was not paid for, such as a    *)
(*              Payment error: never debited.                              *)
(*   "error"    a transport or decoding error: debited once or not at all, *)
(*              possibly after the caller was told.                        *)
(***************************************************************************)
EXTENDS Naturals

CONSTANT Calls            \* the API calls the application makes

VARIABLES debits,         \* how often the hub debited the call
          outcome         \* what the caller was told

vars == <<debits, outcome>>

Outcomes == {"pending", "paid", "failed", "refused", "error"}

Init == /\ debits = [c \in Calls |-> 0]
        /\ outcome = [c \in Calls |-> "pending"]

\* The hub debits a call it has not debited; a caller told of a result, a
\* failure or a refusal is never debited afterwards.
Debit(c) ==
    /\ debits[c] = 0
    /\ outcome[c] \in {"pending", "error"}
    /\ debits' = [debits EXCEPT ![c] = 1]
    /\ UNCHANGED outcome

Tell(c, o) ==
    /\ outcome[c] = "pending"
    /\ o = "paid" => debits[c] = 1
    /\ o \in {"failed", "refused"} => debits[c] = 0
    /\ outcome' = [outcome EXCEPT ![c] = o]
    /\ UNCHANGED debits

Next == \E c \in Calls : Debit(c) \/ \E o \in Outcomes \ {"pending"} : Tell(c, o)

Spec == Init /\ [][Next]_vars

\* A caller that reads a result was debited, and one that reads a failure or
\* a refusal was not: a refusal may be retried, an error may not.
OutcomeMatchesDebit ==
    \A c \in Calls :
        /\ outcome[c] = "paid" => debits[c] = 1
        /\ outcome[c] \in {"failed", "refused"} => debits[c] = 0
=============================================================================
