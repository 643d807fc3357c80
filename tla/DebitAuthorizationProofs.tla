--------------------- MODULE DebitAuthorizationProofs ---------------------
(***************************************************************************)
(* What is proved of DebitAuthorization, for all the terms a program may   *)
(* give and all the debits a hub may ask for.                              *)
(***************************************************************************)
EXTENDS DebitAuthorization, TLAPS

\* What a program meant when it gave p, as the words of a debit.
Meant(p) ==
    << <<ChainId(p), VerifyingContract(p).number>>,
       <<p.channelId.number, p.hub.number, p.token.number, p.amount,
         p.receiptId.number, p.nonce, p.deadline>> >>

\* A parameter left out has its default, which is of the parameter's kind.
LEMMA Defaults ==
    ASSUME NEW p \in AllParams
    PROVE  ChainId(p) \in Int /\ VerifyingContract(p) \in Texts
<1>1. p.chainId \in Int \cup {NotGiven} /\ p.verifyingContract \in Texts \cup {NotGiven}
  BY DEF AllParams
<1>2. ZeroAddress \in Texts
  BY DEF ZeroAddress, Texts
<1>3. BaseChainId \in Int
  BY DebitAssumption
<1> QED
  BY <1>1, <1>2, <1>3 DEF ChainId, VerifyingContract

\* Each SDK encodes a number as itself or fails, but for a deadline below zero in Rust and
\* any number below zero in Dart.
LEMMA NumbersMean ==
    ASSUME NEW n \in Int
    PROVE  /\ n \in 0..(TwoTo128 - 1) => RustU256(n) = n
           /\ TsU256(n) \in {n, Fail}
           /\ n >= 0 => DartU256(n) \in {n, Fail}
<1>1. n \in 0..(TwoTo128 - 1) => RustU256(n) = n
  BY DebitAssumption DEF RustU256
<1>2. TsU256(n) \in {n, Fail}
  BY DEF TsU256
<1>3. n >= 0 => DartU256(n) \in {n, Fail}
  BY DEF DartU256
<1> QED
  BY <1>1, <1>2, <1>3

\* Each SDK reads a text as the number it means or fails, but for an odd number of digits.
LEMMA TextsMean ==
    ASSUME NEW t \in Texts
    PROVE  /\ RustHex32(t) \in {t.number, Fail}
           /\ RustAddress(t) \in {t.number, Fail}
           /\ t.digits # "odd" => TsHex32(t) \in {t.number, Fail}
           /\ TsAddress(t) \in {t.number, Fail}
           /\ t.digits # "extra" => DartHex32(t) \in {t.number, Fail}
           /\ t.digits \notin {"odd", "extra"} => DartAddress(t) \in {t.number, Fail}
<1>1. /\ RustHex32(t) \in {t.number, Fail} /\ RustAddress(t) \in {t.number, Fail}
      /\ TsAddress(t) \in {t.number, Fail}
  BY DEF RustHex32, RustAddress, TsAddress
<1>2. t.digits # "odd" => TsHex32(t) \in {t.number, Fail}
  BY DEF TsHex32
<1>3. t.digits # "extra" => DartHex32(t) \in {t.number, Fail}
  BY DEF DartHex32
<1>4. t.digits \notin {"odd", "extra"} => DartAddress(t) \in {t.number, Fail}
  BY DEF DartAddress
<1> QED
  BY <1>1, <1>2, <1>3, <1>4

\* What an SDK computed of terms it does not misread is what they mean, for every number
\* and every spelling its types let through.
THEOREM DigestMeans ==
    ASSUME NEW s \in {"rust", "ts", "dart"}, NEW p \in AllParams,
           s = "rust" => RustTakes(p), ~Misreads(s, p),
           Computed(ComputeDebitDigest(s, p))
    PROVE  ComputeDebitDigest(s, p) = Meant(p)
<1> DEFINE contract == VerifyingContract(p)
           chain == ChainId(p)
<1>1. /\ p.channelId \in Texts /\ p.hub \in Texts /\ p.token \in Texts
      /\ p.receiptId \in Texts /\ p.amount \in Int /\ p.nonce \in Int
      /\ p.deadline \in Int
  BY DEF AllParams
<1>2. contract \in Texts /\ chain \in Int
  BY Defaults
<1>5. CASE s = "rust"
  <2>1. ComputeDebitDigest(s, p) = RustDigest(p)
    BY <1>5 DEF ComputeDebitDigest
  <2>3. RustU256(p.deadline) = p.deadline
    <3>1. p.deadline < TwoTo128
      BY <1>5 DEF RustTakes
    <3>2. ~(p.deadline < 0)
      BY <1>5 DEF Misreads
    <3>3. p.deadline \in 0..(TwoTo128 - 1)
      BY <3>1, <3>2, <1>1, DebitAssumption
    <3> QED
      BY <3>3, <1>1, NumbersMean
  <2> HIDE DEF contract, chain
  <2>2. /\ RustAddress(contract) # Fail /\ RustHex32(p.channelId) # Fail
        /\ RustAddress(p.hub) # Fail /\ RustAddress(p.token) # Fail
        /\ RustHex32(p.receiptId) # Fail
    BY <2>1 DEF Computed, RustDigest, contract
  <2>4. /\ RustAddress(contract) = contract.number
        /\ RustHex32(p.channelId) = p.channelId.number
        /\ RustAddress(p.hub) = p.hub.number /\ RustAddress(p.token) = p.token.number
        /\ RustHex32(p.receiptId) = p.receiptId.number
    BY <1>1, <1>2, <2>2, TextsMean
  <2> QED
    BY <2>1, <2>3, <2>4 DEF RustDigest, Meant, contract
<1>6. CASE s = "ts"
  <2>1. ComputeDebitDigest(s, p) = TsDigest(p)
    BY <1>6 DEF ComputeDebitDigest
  <2>0. p.channelId.digits # "odd" /\ p.receiptId.digits # "odd"
    BY <1>6 DEF Misreads
  <2> HIDE DEF contract, chain
  <2>2. /\ TsAddress(contract) # Fail /\ TsHex32(p.channelId) # Fail
        /\ TsAddress(p.hub) # Fail /\ TsAddress(p.token) # Fail
        /\ TsHex32(p.receiptId) # Fail /\ TsU256(chain) # Fail
        /\ TsU256(p.amount) # Fail /\ TsU256(p.nonce) # Fail
        /\ TsU256(p.deadline) # Fail
    BY <2>1 DEF Computed, TsDigest, contract, chain
  <2>3. /\ TsU256(p.deadline) = p.deadline /\ TsU256(p.amount) = p.amount
        /\ TsU256(p.nonce) = p.nonce /\ TsU256(chain) = chain
    BY <1>1, <1>2, <2>2, NumbersMean
  <2>4. /\ TsAddress(contract) = contract.number
        /\ TsHex32(p.channelId) = p.channelId.number
        /\ TsAddress(p.hub) = p.hub.number /\ TsAddress(p.token) = p.token.number
        /\ TsHex32(p.receiptId) = p.receiptId.number
    BY <1>1, <1>2, <2>0, <2>2, TextsMean
  <2> QED
    BY <2>1, <2>3, <2>4 DEF TsDigest, Meant, contract, chain
<1>7. CASE s = "dart"
  <2>1. ComputeDebitDigest(s, p) = DartDigest(p)
    BY <1>7 DEF ComputeDebitDigest
  <2>0. /\ \A n \in {p.amount, p.nonce, p.deadline, chain} : ~(n < 0)
        /\ \A t \in {p.channelId, p.receiptId} : t.digits # "extra"
        /\ \A t \in {p.hub, p.token, contract} : t.digits \notin {"odd", "extra"}
    BY <1>7 DEF Misreads
  <2> HIDE DEF contract, chain
  <2>2. /\ DartAddress(contract) # Fail /\ DartHex32(p.channelId) # Fail
        /\ DartAddress(p.hub) # Fail /\ DartAddress(p.token) # Fail
        /\ DartHex32(p.receiptId) # Fail /\ DartU256(chain) # Fail
        /\ DartU256(p.amount) # Fail /\ DartU256(p.nonce) # Fail
        /\ DartU256(p.deadline) # Fail
    BY <2>1 DEF Computed, DartDigest, contract, chain
  <2>5. \A n \in {p.amount, p.nonce, p.deadline, chain} : n \in Int /\ n >= 0
    BY <1>1, <1>2, <2>0
  <2>3. /\ DartU256(p.deadline) = p.deadline /\ DartU256(p.amount) = p.amount
        /\ DartU256(p.nonce) = p.nonce /\ DartU256(chain) = chain
    BY <2>2, <2>5, NumbersMean
  <2>4. /\ DartAddress(contract) = contract.number
        /\ DartHex32(p.channelId) = p.channelId.number
        /\ DartAddress(p.hub) = p.hub.number /\ DartAddress(p.token) = p.token.number
        /\ DartHex32(p.receiptId) = p.receiptId.number
    BY <1>1, <1>2, <2>0, <2>2, TextsMean
  <2> QED
    BY <2>1, <2>3, <2>4 DEF DartDigest, Meant, contract, chain
<1> QED
  BY <1>5, <1>6, <1>7

\* Of well-formed terms every SDK computes a digest.
THEOREM WellFormedComputes ==
    ASSUME NEW s \in {"rust", "ts", "dart"}, NEW p \in AllParams, WellFormed(p)
    PROVE  Computed(ComputeDebitDigest(s, p))
<1> DEFINE contract == VerifyingContract(p)
           chain == ChainId(p)
<1>1. /\ p.channelId \in Texts /\ p.hub \in Texts /\ p.token \in Texts
      /\ p.receiptId \in Texts /\ contract \in Texts
  BY Defaults DEF AllParams
<1>2. \A t \in {p.channelId, p.hub, p.token, p.receiptId, contract} :
          t.prefix = "0x" /\ t.digits = "all" /\ t.case # "other" /\ t.number \in Nat
  BY <1>1 DEF WellFormed, Texts
<1>3. \A n \in {p.amount, p.nonce, p.deadline, chain} :
          n \in 0..(TwoTo128 - 1) /\ n \in 0..(TwoTo256 - 1) /\ n \in Int
  BY DebitAssumption DEF WellFormed
<1>4. Fail \notin Nat
  BY DEF Fail
<1> HIDE DEF contract, chain
<1>5. \A t \in {p.channelId, p.receiptId} :
          RustHex32(t) # Fail /\ TsHex32(t) # Fail /\ DartHex32(t) # Fail
  BY <1>2, <1>4 DEF RustHex32, TsHex32, DartHex32
<1>6. \A t \in {p.hub, p.token, contract} :
          RustAddress(t) # Fail /\ TsAddress(t) # Fail /\ DartAddress(t) # Fail
  BY <1>2, <1>4 DEF RustAddress, TsAddress, DartAddress
<1>7. \A n \in {p.amount, p.nonce, p.deadline, chain} :
          n # Fail /\ TsU256(n) # Fail /\ DartU256(n) # Fail
  BY <1>3 DEF TsU256, DartU256, Fail
<1>8. RustU256(p.deadline) # Fail
  BY <1>3, <1>7, NumbersMean
<1>9. CASE s = "rust"
  <2>1. ComputeDebitDigest(s, p) = RustDigest(p)
    BY <1>9 DEF ComputeDebitDigest
  <2> QED
    BY <2>1, <1>5, <1>6, <1>7, <1>8 DEF Computed, RustDigest, contract, chain
<1>10. CASE s = "ts"
  <2>1. ComputeDebitDigest(s, p) = TsDigest(p)
    BY <1>10 DEF ComputeDebitDigest
  <2> QED
    BY <2>1, <1>5, <1>6, <1>7 DEF Computed, TsDigest, contract, chain
<1>11. CASE s = "dart"
  <2>1. ComputeDebitDigest(s, p) = DartDigest(p)
    BY <1>11 DEF ComputeDebitDigest
  <2> QED
    BY <2>1, <1>5, <1>6, <1>7 DEF Computed, DartDigest, contract, chain
<1> QED
  BY <1>9, <1>10, <1>11

\* A digest that says what a program meant is the escrow's for the debit it meant.
LEMMA MeantForDebit ==
    ASSUME NEW p \in AllParams, NEW d \in AllDebits
    PROVE  Meant(p) = EscrowDigest(d) <=>
              /\ p.channelId.number = d.channelId /\ p.receiptId.number = d.receiptId
              /\ p.hub.number = d.hub /\ p.token.number = d.token
              /\ p.amount = d.amount /\ p.nonce = d.nonce /\ p.deadline = d.deadline
              /\ ChainId(p) = d.chainId
              /\ VerifyingContract(p).number = d.verifyingContract
BY DEF Meant, EscrowDigest

\* Whoever signs does so with the key the program gave.
LEMMA SignerMeans ==
    ASSUME NEW s \in {"rust", "ts", "dart"}, NEW p \in AllParams
    PROVE  /\ Signer(s, p) # Fail => p.key # NotGiven /\ Signer(s, p) = p.key.number
           /\ WellFormed(p) => Signer(s, p) # Fail
<1>1. CASE p.key = NotGiven
  BY <1>1 DEF Signer, WellFormed
<1>2. CASE p.key # NotGiven
  <2>1. p.key.number \in Nat
    BY <1>2 DEF AllParams, Texts
  <2>2. \A key \in {RustKey(p.key), TsKey(p.key), DartKey(p.key)} :
            key \in {p.key.number, Fail}
    BY DEF RustKey, TsKey, DartKey
  <2>3. WellFormed(p) => /\ RustKey(p.key) = p.key.number
                         /\ TsKey(p.key) = p.key.number
                         /\ DartKey(p.key) = p.key.number
    BY DEF WellFormed, RustKey, TsKey, DartKey
  <2>4. Signer(s, p) = CASE s = "rust" -> RustKey(p.key)
                         [] s = "ts"   -> TsKey(p.key)
                         [] s = "dart" -> DartKey(p.key)
    BY <1>2 DEF Signer
  <2>5. /\ s = "rust" => Signer(s, p) = RustKey(p.key)
        /\ s = "ts" => Signer(s, p) = TsKey(p.key)
        /\ s = "dart" => Signer(s, p) = DartKey(p.key)
    BY <2>4
  <2> QED
    BY <1>2, <2>1, <2>2, <2>3, <2>5 DEF Fail
<1> QED
  BY <1>1, <1>2

\* What a signature can be, before the debit and after.
Signed ==
    /\ sdk \in {"rust", "ts", "dart"} /\ debit \in AllDebits /\ given \in AllParams
    /\ sdk = "rust" => RustTakes(given)
    /\ outcome \in {"none", "signed", "error", "debited", "refused"}
    /\ outcome = "signed" =>
          /\ signature = [signer |-> Signer(sdk, given),
                          digest |-> ComputeDebitDigest(sdk, given)]
          /\ Signer(sdk, given) # Fail
          /\ Computed(ComputeDebitDigest(sdk, given))

\* Whatever the terms, however they are written and whichever SDK signs: the escrow
\* debits what they mean and nothing else, unless they are terms the SDK misreads.
THEOREM AuthorisationIsSound == Spec => []DebitsAsAuthorised
<1> DEFINE Inv == Signed /\ DebitsAsAuthorised
<1>1. Init => Inv
  BY DebitAssumption DEF Init, Signed, DebitsAsAuthorised
<1>2. Inv /\ [Next]_vars => Inv'
  <2> SUFFICES ASSUME Inv, [Next]_vars PROVE Inv'
    OBVIOUS
  <2>1. CASE SignDebitAuthorization
    <3>1. UNCHANGED <<sdk, debit, given>>
      BY <2>1 DEF SignDebitAuthorization
    <3>2. CASE outcome' = "signed"
      BY <2>1, <3>1, <3>2 DEF SignDebitAuthorization, Signed, DebitsAsAuthorised
    <3>3. CASE outcome' = "error"
      <4>1. Signer(sdk, given) = Fail \/ ~Computed(ComputeDebitDigest(sdk, given))
        BY <2>1, <3>3 DEF SignDebitAuthorization
      <4>2. ~WellFormed(given)
        BY <4>1, SignerMeans, WellFormedComputes DEF Signed
      <4> QED
        BY <3>1, <3>3, <4>2 DEF Signed, DebitsAsAuthorised, WellFormed, VerifyingContract
    <3> QED
      BY <2>1, <3>2, <3>3 DEF SignDebitAuthorization
  <2>2. CASE DebitChannel
    <3>1. UNCHANGED <<sdk, debit, given, signature>> /\ outcome = "signed"
      BY <2>2 DEF DebitChannel
    <3> DEFINE digest == ComputeDebitDigest(sdk, given)
               signer == Signer(sdk, given)
    <3>2. /\ signature = [signer |-> signer, digest |-> digest]
          /\ signer # Fail /\ Computed(digest)
          /\ sdk \in {"rust", "ts", "dart"} /\ debit \in AllDebits /\ given \in AllParams
      BY <3>1 DEF Signed
    <3>3. given.key # NotGiven /\ signer = given.key.number
      BY <3>2, SignerMeans
    <3> HIDE DEF digest, signer
    <3>4. debit.depositor \in Nat /\ debit.depositor # Fail
      BY <3>2 DEF AllDebits, Fail
    <3>5. Recover(EscrowDigest(debit), signature) = debit.depositor <=>
             digest = EscrowDigest(debit) /\ signer = debit.depositor
      BY <3>2, <3>4 DEF Recover
    <3>6. WellFormed(given) => ~Misreads(sdk, given)
      <4> SUFFICES ASSUME WellFormed(given) PROVE ~Misreads(sdk, given)
        OBVIOUS
      <4>1. \A n \in {given.amount, given.nonce, given.deadline, ChainId(given)} :
               n \in 0..(TwoTo128 - 1)
        BY DEF WellFormed
      <4>2. given.deadline >= 0 /\ given.amount >= 0 /\ given.nonce >= 0
               /\ ChainId(given) >= 0
        BY <4>1
      <4>3. \A t \in {given.channelId, given.receiptId, given.hub, given.token,
                      VerifyingContract(given)} : t.digits = "all"
        BY DEF WellFormed
      <4>4. CASE sdk = "rust"
        <5>1. Misreads(sdk, given) <=> given.deadline < 0
          BY <4>4 DEF Misreads
        <5> QED
          BY <3>2, <4>2, <5>1 DEF AllParams
      <4>5. CASE sdk = "ts"
        <5>1. Misreads(sdk, given) <=>
                 \E t \in {given.channelId, given.receiptId} : t.digits = "odd"
          BY <4>5, Zenon DEF Misreads
        <5> QED
          BY <4>3, <5>1
      <4>6. CASE sdk = "dart"
        <5>1. Misreads(sdk, given) <=>
                 \/ \E n \in {given.amount, given.nonce, given.deadline, ChainId(given)} :
                       n < 0
                 \/ \E t \in {given.channelId, given.receiptId} : t.digits = "extra"
                 \/ \E t \in {given.hub, given.token, VerifyingContract(given)} :
                       t.digits \in {"odd", "extra"}
          BY <4>6, Zenon DEF Misreads
        <5>2. ChainId(given) \in Int
          BY <3>2, DebitAssumption DEF AllParams, ChainId
        <5> QED
          BY <3>2, <4>2, <4>3, <5>1, <5>2 DEF AllParams
      <4> QED
        BY <3>2, <4>4, <4>5, <4>6
    <3>7. ~Misreads(sdk, given) => digest = Meant(given)
      BY <3>2, DigestMeans DEF digest, Signed
    <3>8. ~Misreads(sdk, given) =>
             (Recover(EscrowDigest(debit), signature) = debit.depositor
                <=> Authorises(given, debit))
      BY <3>2, <3>3, <3>5, <3>7, MeantForDebit DEF Authorises
    <3>9. outcome' = IF Recover(EscrowDigest(debit), signature) = debit.depositor
                     THEN "debited" ELSE "refused"
      BY <2>2 DEF DebitChannel
    <3>10. Signed'
      BY <3>1, <3>9 DEF Signed
    <3>11. DebitsAsAuthorised'
      <4>1. /\ Misreads(sdk, given)' <=> Misreads(sdk, given)
            /\ WellFormed(given)' <=> WellFormed(given)
            /\ Authorises(given, debit)' <=> Authorises(given, debit)
        BY <3>1 DEF Misreads, WellFormed, Authorises, VerifyingContract, ChainId
      <4> QED
        BY <3>6, <3>8, <3>9, <4>1 DEF DebitsAsAuthorised
    <3> QED
      BY <3>10, <3>11
  <2>3. CASE UNCHANGED vars
    BY <2>3 DEF vars, Signed, DebitsAsAuthorised, Misreads, WellFormed, Authorises,
                VerifyingContract, ChainId
  <2> QED
    BY <2>1, <2>2, <2>3 DEF Next
<1> QED
  BY <1>1, <1>2, PTL DEF Spec
=============================================================================
