------------------------ MODULE DebitAuthorization ------------------------
(***************************************************************************)
(* The authorization of an on-chain debit (rust/src/eip712.rs, signer.rs,  *)
(* typescript/src/eip712.ts, signer.ts, dart/lib/src/eip712.dart,          *)
(* signer.dart): the depositor's SDK turns the terms a program gives into  *)
(* words of 32 bytes, hashes and signs them; the hub takes the signature   *)
(* to the escrow contract, which makes its own words of the debit it is    *)
(* asked for and recovers who signed them.                                 *)
(*                                                                         *)
(* A hash is the sequence of the words under it.  A hexadecimal text is    *)
(* the number it means and how it is written; a key is the wallet whose    *)
(* signatures it makes.                                                    *)
(***************************************************************************)
EXTENDS Integers

CONSTANTS
    Sdks,          \* the SDKs the program may use
    Params,        \* what the program may give
    Debits,        \* what the hub may ask of the escrow
    NotGiven,      \* an optional parameter left out
    BaseChainId,   \* 8453
    TwoTo128,      \* the numbers of a u128 are below it
    TwoTo256       \* the numbers of a word are below it

\* A text has all its digits, lacks a leading pair of zeros or one leading zero, or
\* has one leading zero too many.
Texts == [prefix : {"none", "0x", "0X"}, digits : {"all", "fewer", "odd", "extra"},
          case : {"lower", "checksum", "other"}, number : Nat]

AllParams == [channelId : Texts, hub : Texts, token : Texts, amount : Int,
              receiptId : Texts, nonce : Int, deadline : Int,
              chainId : Int \cup {NotGiven}, verifyingContract : Texts \cup {NotGiven},
              key : Texts \cup {NotGiven}]

AllDebits == [channelId : Nat, hub : Nat, token : Nat, amount : Nat, receiptId : Nat,
              nonce : Nat, deadline : Nat, chainId : Nat, verifyingContract : Nat,
              depositor : Nat]

ASSUME DebitAssumption ==
    /\ Sdks \subseteq {"rust", "ts", "dart"}
    /\ \A p \in Params : p \in AllParams
    /\ \A d \in Debits : d \in AllDebits
    /\ TwoTo128 \in Nat \ {0}
    /\ TwoTo256 \in Nat /\ TwoTo128 <= TwoTo256
    /\ BaseChainId \in 0..(TwoTo128 - 1)
    /\ NotGiven \notin Int \cup Texts

VARIABLES
    sdk,         \* the SDK of the depositor
    debit,       \* what the hub asks of the escrow
    given,       \* what the program gave the SDK
    signature,   \* who signed, and which digest
    outcome      \* of the signing, then of the debit

vars == <<sdk, debit, given, signature, outcome>>

-----------------------------------------------------------------------------
\* Words.  Fail is the panic of Rust, the exception of the others.

Fail == -1

RustHex32(t) == IF t.prefix # "0X" /\ t.digits = "all" THEN t.number ELSE Fail
RustAddress(t) ==
    IF t.prefix # "0X" /\ t.digits \in {"all", "fewer"} THEN t.number ELSE Fail

\* `as u128` of an i64
RustU256(n) == n % TwoTo128

\* viem takes nothing without 0x.  It rounds the length of a bytes32 up to whole bytes,
\* so that one with a digit missing passes, and is filled with a zero at the right.
TsHex32(t) ==
    CASE t.prefix = "0x" /\ t.digits = "all" -> t.number
      [] t.prefix = "0x" /\ t.digits = "odd" -> 16 * t.number
      [] OTHER                               -> Fail

\* Of an address viem checks the length and the checksum.
TsAddress(t) ==
    IF t.prefix = "0x" /\ t.digits = "all" /\ t.case # "other" THEN t.number ELSE Fail
TsU256(n) == IF n \in 0..(TwoTo256 - 1) THEN n ELSE Fail

\* Dart reads pairs of digits from the left, so that an odd one is dropped at the right;
\* of a bytes32 it counts the pairs.
DartHex32(t) ==
    CASE t.prefix # "0X" /\ t.digits = "all"   -> t.number
      [] t.prefix # "0X" /\ t.digits = "extra" -> t.number \div 16
      [] OTHER                                 -> Fail
DartAddress(t) ==
    IF t.prefix = "0X" THEN Fail
    ELSE IF t.digits \in {"odd", "extra"} THEN t.number \div 16 ELSE t.number

\* The loop over the bytes of a negative number is never entered; more bytes than a
\* word has do not fit.
DartU256(n) == CASE n < 0               -> 0
                 [] n \in 0..(TwoTo256 - 1) -> n
                 [] OTHER               -> Fail

-----------------------------------------------------------------------------
\* Digests

ZeroAddress == [prefix |-> "0x", digits |-> "all", case |-> "lower", number |-> 0]

ChainId(p) == IF p.chainId = NotGiven THEN BaseChainId ELSE p.chainId
VerifyingContract(p) ==
    IF p.verifyingContract = NotGiven THEN ZeroAddress ELSE p.verifyingContract

RustDigest(p) ==
    << <<ChainId(p), RustAddress(VerifyingContract(p))>>,
       <<RustHex32(p.channelId), RustAddress(p.hub), RustAddress(p.token), p.amount,
         RustHex32(p.receiptId), p.nonce, RustU256(p.deadline)>> >>

\* Mutant: the last two words of the struct changed places.
DartDigestSwapped(p) ==
    << <<DartU256(ChainId(p)), DartAddress(VerifyingContract(p))>>,
       <<DartHex32(p.channelId), DartAddress(p.hub), DartAddress(p.token),
         DartU256(p.amount), DartHex32(p.receiptId), DartU256(p.deadline),
         DartU256(p.nonce)>> >>

DartDigest(p) ==
    << <<DartU256(ChainId(p)), DartAddress(VerifyingContract(p))>>,
       <<DartHex32(p.channelId), DartAddress(p.hub), DartAddress(p.token),
         DartU256(p.amount), DartHex32(p.receiptId), DartU256(p.nonce),
         DartU256(p.deadline)>> >>

TsDigest(p) ==
    << <<TsU256(ChainId(p)), TsAddress(VerifyingContract(p))>>,
       <<TsHex32(p.channelId), TsAddress(p.hub), TsAddress(p.token), TsU256(p.amount),
         TsHex32(p.receiptId), TsU256(p.nonce), TsU256(p.deadline)>> >>

ComputeDebitDigest(s, p) == CASE s = "rust" -> RustDigest(p)
                              [] s = "ts"   -> TsDigest(p)
                              [] s = "dart" -> DartDigest(p)

Computed(digest) ==
    /\ \A i \in 1..2 : digest[1][i] # Fail
    /\ \A i \in 1..7 : digest[2][i] # Fail

EscrowDigest(d) ==
    << <<d.chainId, d.verifyingContract>>,
       <<d.channelId, d.hub, d.token, d.amount, d.receiptId, d.nonce, d.deadline>> >>

-----------------------------------------------------------------------------
\* Keys

RustKey(t) == IF t.prefix # "0X" /\ t.digits = "all" THEN t.number ELSE Fail
TsKey(t) == IF t.digits = "all" THEN t.number ELSE Fail

\* Dart reads the key when it signs, and does not count its digits.
DartKey(t) == IF t.prefix # "0X" /\ t.digits \in {"all", "fewer"} THEN t.number ELSE Fail

Signer(s, p) ==
    IF p.key = NotGiven THEN Fail
    ELSE CASE s = "rust" -> RustKey(p.key)
           [] s = "ts"   -> TsKey(p.key)
           [] s = "dart" -> DartKey(p.key)

\* Under another digest a signature recovers to nobody's address.
Recover(digest, sig) == IF sig.digest = digest THEN sig.signer ELSE Fail

-----------------------------------------------------------------------------
\* Behaviour

NoSignature == [signer |-> Fail]

\* What the types of the Rust SDK hold: u128, u64 and an i64, the deadline.
RustTakes(p) ==
    /\ \A n \in {p.amount, p.nonce, ChainId(p)} : n \in 0..(TwoTo128 - 1)
    /\ p.deadline < TwoTo128

Init ==
    /\ sdk \in Sdks
    /\ debit \in Debits
    /\ given \in Params /\ (sdk = "rust" => RustTakes(given))
    /\ signature = NoSignature
    /\ outcome = "none"

SignDebitAuthorization ==
    LET signer == Signer(sdk, given)
        digest == ComputeDebitDigest(sdk, given)
    IN /\ outcome = "none"
       /\ \/ /\ signer # Fail /\ Computed(digest)
             /\ signature' = [signer |-> signer, digest |-> digest]
             /\ outcome' = "signed"
          \/ /\ signer = Fail \/ ~Computed(digest)
             /\ outcome' = "error"
             /\ UNCHANGED signature
       /\ UNCHANGED <<sdk, debit, given>>

\* The escrow debits the depositor of the channel if the depositor signed for it.
DebitChannel ==
    /\ outcome = "signed"
    /\ outcome' = IF Recover(EscrowDigest(debit), signature) = debit.depositor
                  THEN "debited" ELSE "refused"
    /\ UNCHANGED <<sdk, debit, given, signature>>

Next == SignDebitAuthorization \/ DebitChannel

Spec == Init /\ [][Next]_vars

-----------------------------------------------------------------------------
\* Properties

\* The debit is the one the program meant, for the depositor whose key it gave.
Authorises(p, d) ==
    /\ p.channelId.number = d.channelId /\ p.receiptId.number = d.receiptId
    /\ p.hub.number = d.hub /\ p.token.number = d.token
    /\ p.amount = d.amount /\ p.nonce = d.nonce /\ p.deadline = d.deadline
    /\ ChainId(p) = d.chainId /\ VerifyingContract(p).number = d.verifyingContract
    /\ p.key # NotGiven /\ p.key.number = d.depositor

\* The terms an SDK signs as others than the program meant, none of which it should
\* take: a negative deadline is a time that never comes in Rust and any negative number
\* 0 in Dart; a text with an odd number of digits has them shifted by a viem bytes32,
\* and loses the last one in Dart.
Misreads(s, p) ==
    CASE s = "rust" -> p.deadline < 0
      [] s = "ts"   -> \E t \in {p.channelId, p.receiptId} : t.digits = "odd"
      [] s = "dart" ->
            \/ \E n \in {p.amount, p.nonce, p.deadline, ChainId(p)} : n < 0
            \/ \E t \in {p.channelId, p.receiptId} : t.digits = "extra"
            \/ \E t \in {p.hub, p.token, VerifyingContract(p)} : t.digits \in {"odd", "extra"}

\* What all the SDKs take.
WellFormed(p) ==
    /\ \A t \in {p.channelId, p.hub, p.token, p.receiptId, VerifyingContract(p)} :
          t.prefix = "0x" /\ t.digits = "all" /\ t.case # "other"
    /\ \A n \in {p.amount, p.nonce, p.deadline, ChainId(p)} : n \in 0..(TwoTo128 - 1)
    /\ p.key # NotGiven /\ p.key.prefix # "0X" /\ p.key.digits = "all"

\* Whichever SDK signed, and however the terms were written, the escrow debits what the
\* program meant and nothing else, but for the terms an SDK is known to misread;
\* well-formed terms are always signed, and the debit they mean is not refused.
DebitsAsAuthorised ==
    /\ outcome = "debited" => Authorises(given, debit) \/ Misreads(sdk, given)
    /\ outcome = "refused" => ~(Authorises(given, debit) /\ WellFormed(given))
    /\ outcome = "error" => ~WellFormed(given)
=============================================================================
