----------------------- MODULE MCDebitAuthorization -----------------------
(* DebitAuthorization on a small instance. *)
EXTENDS DebitAuthorization

Hex(n) == [prefix |-> "0x", digits |-> "all", case |-> "lower", number |-> n]

Usual == [channelId |-> Hex(1), hub |-> Hex(32), token |-> Hex(33), amount |-> 2,
          receiptId |-> Hex(3), nonce |-> 0, deadline |-> 5, chainId |-> NotGiven,
          verifyingContract |-> Hex(7), key |-> Hex(9)]

Spelt(n) == [prefix : {"none", "0x", "0X"}, digits : {"all", "fewer", "odd", "extra"},
             case : {"lower", "checksum", "other"}, number : {n}]

With(f, values) == {[Usual EXCEPT ![f] = v] : v \in values}

\* The usual terms with one or two of them changed: in value, in spelling, or left out.
OneChanged ==
    UNION {With("channelId", Spelt(1)), With("hub", Spelt(32)), With("token", {Hex(32)}),
           With("amount", {-1, 0, 1, 300}), With("receiptId", {Hex(1)} \cup Spelt(3)),
           With("nonce", {-1, 5}), With("deadline", {-1, 0, 15}), With("chainId", {-1, 1, 10}),
           With("verifyingContract", {NotGiven} \cup Spelt(7)),
           With("key", {NotGiven, Hex(8)} \cup Spelt(9))}

AllGiven ==
    OneChanged \cup
    UNION {{[p EXCEPT !.deadline = 0, !.nonce = 5], [p EXCEPT !.hub = Hex(33)],
            [p EXCEPT !.chainId = 1], [p EXCEPT !.key = Hex(8)]} : p \in OneChanged}

Asked == [channelId |-> 1, hub |-> 32, token |-> 33, amount |-> 2, receiptId |-> 3,
          nonce |-> 0, deadline |-> 5, chainId |-> 10, verifyingContract |-> 7,
          depositor |-> 9]

\* The debit of the usual terms, and those a slip in the encoding could let pass for it.
AllAsked ==
    {Asked} \cup
    {[Asked EXCEPT !.channelId = c] : c \in {0, 16}} \cup
    {[Asked EXCEPT !.receiptId = c] : c \in {0, 48}} \cup
    {[Asked EXCEPT !.chainId = c] : c \in {0, 1}} \cup
    {[Asked EXCEPT !.hub = h] : h \in {2, 33}} \cup
    {[Asked EXCEPT !.nonce = 5, !.deadline = d] : d \in {0, 5}} \cup
    {[Asked EXCEPT !.deadline = d] : d \in {0, 15}} \cup
    {[Asked EXCEPT !.depositor = 8],
     [Asked EXCEPT !.channelId = 3, !.receiptId = 1],
     [Asked EXCEPT !.amount = 0], [Asked EXCEPT !.verifyingContract = 0]}
=============================================================================
