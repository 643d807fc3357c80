-------------------------- MODULE AgentChannelsInv --------------------------
(***************************************************************************)
(* The inductive invariant behind the safety of AgentChannels, in three    *)
(* parts: what a call and its exchange look like together (Shape), who can *)
(* know a channel and what the agent then keeps of it (Handles), and what  *)
(* a call's exchange says of its debit (Payment).                          *)
(***************************************************************************)
EXTENDS AgentChannels

\* The exchange each stage of a call waits on.
Awaiting(p) == CASE p = "opening"  -> "open"
                 [] p = "invoking" -> "invoke"
                 [] p = "closing"  -> "close"
                 [] OTHER          -> "none"

StageShape(c) ==
    /\ pc[c] = "idle" => api[c] = "none"
    /\ pc[c] \in {"planned", "holding", "invoked"} => api[c] = "run_once"
    /\ pc[c] \in {"opening", "captured"} => api[c] \in {"open", "run_once"}
    /\ pc[c] = "invoking" => api[c] \in {"invoke", "run_once"}
    /\ pc[c] = "closing" => CloseBegun(c)
    /\ pc[c] = "ok" /\ api[c] = "run_once" /\ ~ApiKey => CloseBegun(c)
    /\ CloseBegun(c) => pc[c] \in {"closing", "ok", "err"} /\ held[c] # NoChannel
    /\ pc[c] \in {"idle", "planned", "opening"} => held[c] = NoChannel
    /\ pc[c] \in {"captured", "invoked"} => held[c] # NoChannel
    /\ pc[c] \in {"holding", "invoking"} /\ ~ApiKey => held[c] # NoChannel
    /\ api[c] = "open" /\ pc[c] = "ok" => held[c] # NoChannel
    /\ pc[c] \in {"idle", "planned", "opening", "captured", "holding", "invoking"} =>
           result[c] = "none"
    /\ pc[c] = "invoked" => ~ApiKey /\ result[c] \in {"paid", "failed"}

NetShape(c) ==
    /\ pc[c] # "err" => op[c] = Awaiting(pc[c])
    /\ op[c] = "none" <=> net[c] = "none"
    /\ op[c] = "open" => /\ held[c] = NoChannel /\ net[c] # "failed"
                         /\ api[c] \in {"open", "run_once"} /\ result[c] = "none"
                         /\ net[c] \in {"request", "refused"} => about[c] = NoChannel
                         /\ net[c] = "ok" => about[c] # NoChannel
    /\ op[c] = "invoke" => about[c] = held[c] /\ result[c] = "none"
    /\ op[c] = "close" => /\ about[c] = held[c] /\ CloseBegun(c)
                          /\ net[c] # "failed"
    /\ op[c] = "none" => about[c] = NoChannel

Shape == \A c \in Calls : StageShape(c) /\ NetShape(c)

\* The agent or a caller can name the channel.
Known(ch) == (\E c \in Calls : held[c] = ch) \/ (\E k \in Keys : cache[k].ch = ch)

\* An answer of channel/open nobody has read: nobody else knows the channel.
UnreadIsFresh ==
    \A c \in Calls : op[c] = "open" /\ about[c] # NoChannel =>
        /\ ~Known(about[c])
        /\ status[about[c]] = "open"
        /\ terms[about[c]].key = asked[c].key /\ terms[about[c]].tx = asked[c].tx
        /\ \A d \in Calls \ {c} : about[d] # about[c]

\* A captured channel is held by the call that captured it and by nothing else.
CapturedIsPrivate ==
    \A c \in Calls : pc[c] = "captured" =>
        /\ status[held[c]] = "open"
        /\ terms[held[c]].key = asked[c].key /\ terms[held[c]].tx = asked[c].tx
        /\ \A d \in Calls \ {c} : held[d] # held[c]
        /\ \A k \in Keys : cache[k].ch # held[c]

KnownIsProvable ==
    \A ch \in Channels : Known(ch) =>
        /\ status[ch] # "none"
        /\ status[ch] = "open" => /\ terms[ch].secured => ch \in secrets
                                  /\ terms[ch].tx # NoTx => ch \in wallets

CacheAgreesWithHub ==
    \A k \in Keys : cache[k].ch # NoChannel =>
        terms[cache[k].ch].key = k /\ terms[cache[k].ch].tx = cache[k].tx

CloseAnswered ==
    \A c \in Calls :
        (op[c] = "close" /\ net[c] = "ok") \/ (pc[c] = "ok" /\ CloseBegun(c))
        => status[held[c]] = "closed"

Handles ==
    /\ UnreadIsFresh
    /\ CapturedIsPrivate
    /\ KnownIsProvable
    /\ CacheAgreesWithHub
    /\ CloseAnswered
    /\ NotCachedOnceClosing
    /\ OpenAnswersItsCaller
    /\ SecretLostOnlyWithAnswer
    /\ RequestsCarryProof

Payment ==
    \A c \in Calls :
        /\ debits[c] \in 0..1
        /\ debits[c] = 1 =>
               result[c] = "paid" \/ (op[c] = "invoke" /\ net[c] \in {"ok", "gone"})
        /\ result[c] = "paid" => debits[c] = 1
        /\ op[c] = "invoke" /\ net[c] = "ok" => debits[c] = 1

\* Inductive: holds initially, and every step from a state where it holds
\* keeps it.
IInv == TypeOK /\ Shape /\ Handles /\ Payment
=============================================================================
