----------------------------- MODULE PayerProof -----------------------------
(***************************************************************************)
(* The payer proof of a channel that an on-chain deposit funds             *)
(* (rust/src/payer_proof.rs, typescript/src/payerProof.ts,                 *)
(* dart/lib/src/payer_proof.dart): the wallet signs a challenge the SDK    *)
(* makes of what the program says of the deposit, and the hub, which makes *)
(* one of what it finds on chain, asks who signed that.                    *)
(*                                                                         *)
(* A text is a word, written with or without a prefix, in lower case or    *)
(* not, and with white space around it or not.  An amount is what          *)
(* amount_usd * 100.0 comes to, in quarters of a cent.                     *)
(***************************************************************************)
EXTENDS Integers

CONSTANTS
    Sdks,        \* the SDKs a program may use
    Words,       \* what can be written
    HexWords,    \* the words of hex digits
    Addresses,   \* the hex words of 40 digits
    Chains,      \* texts a program gives for the chain
    Hashes,      \* and for the transaction
    Payers,      \* and for the payer
    Amounts,     \* what the amounts it gives come to
    Wallets,     \* the addresses of the wallets that sign
    Nobody,      \* no wallet's address
    Deposits,    \* what the hub may find on chain
    MaxCents     \* the largest number of cents an i64 holds; no deposit is as large

Texts == [pad : {"none", "space", "nel", "bom"}, prefix : {"none", "0x", "0X"},
          word : Words, case : {"lower", "mixed"}]

\* "overflow": a finite amount whose product is not.  "unusable": not finite.
Products == [kind : {"finite", "overflow", "unusable"}, quarters : Int]

\* A transaction as it is on chain.  The case of hex digits means nothing.
Names == {n \in [word : Words, case : {"lower", "mixed"}] :
              n.word \in HexWords => n.case = "lower"}

ASSUME PayerProofAssumption ==
    /\ Sdks \subseteq {"rust", "ts", "dart"}
    /\ HexWords \subseteq Words /\ Addresses \subseteq HexWords
    /\ Chains \subseteq {t \in Texts : t.prefix = "none"}
    /\ Hashes \subseteq {t \in Texts : t.prefix # "none" => t.word \in HexWords}
    /\ Payers \subseteq {t \in Texts : t.prefix # "none" => t.word \in HexWords}
    /\ Amounts \subseteq Products
    /\ Wallets \subseteq Addresses
    /\ Nobody \notin Addresses
    /\ Deposits \subseteq [chain : Words, tx : Names, payer : Addresses, cents : 0..(MaxCents - 1)]
    /\ MaxCents \in Nat

VARIABLES
    sdk,       \* the SDK of the program
    deposit,   \* the deposit the hub looks at
    params,    \* what the program says of it
    proof,     \* the signature: who signed, and which challenge
    answer     \* the hub's

vars == <<sdk, deposit, params, proof, answer>>

-----------------------------------------------------------------------------
\* Canonical texts.  Every trim takes white space.  Rust's takes U+0085, which JavaScript's
\* does not; JavaScript's takes U+FEFF, which Rust's does not; Dart's takes both.

Trim(t, pads) == IF t.pad \in pads THEN [t EXCEPT !.pad = "none"] ELSE t
RustTrim(t) == Trim(t, {"space", "nel"})
TsTrim(t) == Trim(t, {"space", "bom"})
DartTrim(t) == Trim(t, {"space", "nel", "bom"})

Lower(t) == [t EXCEPT !.case = "lower"]
Lower0x(t) == [pad |-> t.pad, prefix |-> "0x", word |-> t.word, case |-> "lower"]

IsHex(t) == t.pad = "none" /\ t.word \in HexWords
IsAddress(t) == IsHex(t) /\ t.prefix # "none" /\ t.word \in Addresses

RustTxHash(t) == LET tx == RustTrim(t) IN IF IsHex(tx) THEN Lower0x(tx) ELSE tx
TsTxHash(t) == LET tx == TsTrim(t) IN IF IsHex(tx) THEN Lower0x(tx) ELSE tx
DartTxHash(t) == LET tx == DartTrim(t) IN IF IsHex(tx) THEN Lower0x(tx) ELSE tx

RustPayer(t) ==
    LET addr == RustTrim(t) IN IF IsAddress(addr) THEN Lower0x(addr) ELSE addr
TsPayer(t) ==
    LET addr == TsTrim(t) IN IF IsAddress(addr) THEN Lower0x(addr) ELSE addr
DartPayer(t) ==
    LET addr == DartTrim(t) IN IF IsAddress(addr) THEN Lower0x(addr) ELSE addr

-----------------------------------------------------------------------------
\* Cents

\* Mutant: Math.round and f64::round.
HalfUp(n) ==
    LET floor == n \div 4 IN IF n - 4 * floor < 2 THEN floor ELSE floor + 1

HalfToEven(n) ==
    LET floor == n \div 4
        diff == n - 4 * floor
    IN CASE diff > 2 -> floor + 1
         [] diff < 2 -> floor
         [] diff = 2 -> IF floor = 2 * (floor \div 2) THEN floor ELSE floor + 1

Cents(k) == [text |-> "cents", value |-> k]
NotANumber(text) == [text |-> text, value |-> 0]

Saturated(k) == IF k > MaxCents THEN MaxCents
                ELSE IF k < -MaxCents - 1 THEN -MaxCents - 1 ELSE k

\* Rust saturates.  Of an infinite product the difference is no number and takes no
\* branch: the last one is left, which saturates too.
RustCents(p) ==
    CASE p.kind = "unusable" -> Cents(-1)
      [] p.kind = "overflow" -> Cents(IF p.quarters < 0 THEN -MaxCents - 1 ELSE MaxCents)
      [] p.kind = "finite"   -> Cents(Saturated(HalfToEven(p.quarters)))
TsCents(p) ==
    CASE p.kind = "unusable" -> Cents(-1)
      [] p.kind = "overflow" -> NotANumber("Infinity")
      [] p.kind = "finite"   -> Cents(HalfToEven(p.quarters))

\* Dart's floor() saturates, and 1 added to the largest integer wraps.  It throws if
\* there is none.
DartCents(p) ==
    CASE p.kind = "unusable" -> Cents(-1)
      [] p.kind = "overflow" -> NotANumber("throws")
      [] p.kind = "finite"   -> LET k == HalfToEven(p.quarters) IN
                                Cents(IF k > MaxCents + 1 THEN -MaxCents - 1 ELSE Saturated(k))

-----------------------------------------------------------------------------
\* The challenge and its signature

Params == [chain : Chains, tx : Hashes, payer : Payers, amount : Amounts]

RustMessage(p) == [chain |-> Lower(RustTrim(p.chain)), tx |-> RustTxHash(p.tx),
                   payer |-> RustPayer(p.payer), cents |-> RustCents(p.amount)]
TsMessage(p) == [chain |-> Lower(TsTrim(p.chain)), tx |-> TsTxHash(p.tx),
                 payer |-> TsPayer(p.payer), cents |-> TsCents(p.amount)]
DartMessage(p) == [chain |-> Lower(DartTrim(p.chain)), tx |-> DartTxHash(p.tx),
                   payer |-> DartPayer(p.payer), cents |-> DartCents(p.amount)]

Message(s, p) == CASE s = "rust" -> RustMessage(p)
                   [] s = "ts"   -> TsMessage(p)
                   [] s = "dart" -> DartMessage(p)

\* What the hub makes of a deposit, as the test vectors have it.
OnChain(word, case) == [pad |-> "none", prefix |-> IF word \in HexWords THEN "0x" ELSE "none",
                        word |-> word, case |-> case]
HubMessage(d) ==
    [chain |-> [pad |-> "none", prefix |-> "none", word |-> d.chain, case |-> "lower"],
     tx |-> OnChain(d.tx.word, d.tx.case), payer |-> OnChain(d.payer, "lower"),
     cents |-> Cents(d.cents)]

\* Under another challenge a signature recovers to nobody's address.
Recover(message, signature) ==
    IF signature.message = message THEN signature.signer ELSE Nobody

NoParams == [chain |-> "none"]
NoProof == [signer |-> Nobody]

Init ==
    /\ sdk \in Sdks
    /\ deposit \in Deposits
    /\ params = NoParams
    /\ proof = NoProof
    /\ answer = "none"

SignChannelOpenProof(p, w) ==
    /\ params = NoParams
    /\ params' = p
    /\ proof' = IF sdk = "dart" /\ p.amount.kind = "overflow" THEN NoProof
                ELSE [signer |-> w, message |-> Message(sdk, p)]
    /\ UNCHANGED <<sdk, deposit, answer>>

\* The hub credits the deposit to the wallet it came from.
HubChecks ==
    /\ proof # NoProof /\ answer = "none"
    /\ answer' = IF Recover(HubMessage(deposit), proof) = deposit.payer
                 THEN "credited" ELSE "refused"
    /\ UNCHANGED <<sdk, deposit, params, proof>>

Next == (\E p \in Params, w \in Wallets : SignChannelOpenProof(p, w)) \/ HubChecks

Spec == Init /\ [][Next]_vars

-----------------------------------------------------------------------------
\* Properties

\* k is n quarters of a cent to the nearest cent, a tie going to the even one.
IsNearest(k, n) ==
    /\ 4 * k - n \in -2..2
    /\ 4 * k - n \in {-2, 2} => k = 2 * (k \div 2)

\* What the program says is true of the deposit, however it writes it.
Describes(p, d) ==
    /\ p.chain.word = d.chain
    /\ p.tx.word = d.tx.word
    /\ p.tx.word \in HexWords \/ p.tx.case = d.tx.case
    /\ p.payer.word = d.payer
    /\ p.amount.kind = "finite" /\ IsNearest(d.cents, p.amount.quarters)

\* No white space the SDKs differ about, and an address with its prefix.
WellFormed(p) ==
    /\ \A t \in {p.chain, p.tx, p.payer} : t.pad \in {"none", "space"}
    /\ p.payer.prefix # "none"

\* A proof gets its deposit credited, and no other: two spellings of one
\* transaction, address or amount never lead to a refusal the user cannot
\* explain, and no spelling passes one deposit for another.
ProofNamesItsDeposit ==
    LET describes == Describes(params, deposit) /\ proof.signer = deposit.payer
    IN /\ answer = "credited" => describes
       /\ answer = "refused" => ~(describes /\ WellFormed(params))
=============================================================================
