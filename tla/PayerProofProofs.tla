-------------------------- MODULE PayerProofProofs --------------------------
(***************************************************************************)
(* A payer proof gets its deposit credited and no other, for every set of  *)
(* texts, amounts, wallets and deposits.                                   *)
(***************************************************************************)
EXTENDS PayerProof, TLAPS

USE PayerProofAssumption

\* The rounding of the SDKs finds the nearest cent, the even one of two, and
\* there is no other.
THEOREM RoundsToNearest ==
    ASSUME NEW n \in Int, NEW k \in Int
    PROVE  /\ HalfToEven(n) \in Int
           /\ IsNearest(k, n) <=> k = HalfToEven(n)
<1> DEFINE floor == n \div 4
<1>1. floor \in Int /\ n - 4 * floor \in 0..3
  OBVIOUS
<1>2. CASE n - 4 * floor > 2
  <2>1. HalfToEven(n) = floor + 1
    BY <1>1, <1>2 DEF HalfToEven
  <2> QED
    BY <1>1, <1>2, <2>1 DEF IsNearest
<1>3. CASE n - 4 * floor < 2
  <2>1. HalfToEven(n) = floor
    BY <1>1, <1>3 DEF HalfToEven
  <2> QED
    BY <1>1, <1>3, <2>1 DEF IsNearest
<1>4. CASE n - 4 * floor = 2
  <2>1. HalfToEven(n) = IF floor = 2 * (floor \div 2) THEN floor ELSE floor + 1
    BY <1>1, <1>4 DEF HalfToEven
  <2>2. IsNearest(k, n) <=> k \in {floor, floor + 1} /\ k = 2 * (k \div 2)
    BY <1>1, <1>4 DEF IsNearest
  <2>3. floor = 2 * (floor \div 2) <=> ~(floor + 1 = 2 * ((floor + 1) \div 2))
    BY <1>1
  <2> QED
    BY <1>1, <2>1, <2>2, <2>3
<1> QED
  BY <1>1, <1>2, <1>3, <1>4

-----------------------------------------------------------------------------
\* Texts

\* A transaction, as each SDK writes it for its trim.
TxHash(t, pads) ==
    LET tx == Trim(t, pads) IN IF IsHex(tx) THEN Lower0x(tx) ELSE tx

\* A canonical hash is that of its transaction and of no other.
LEMMA HashNamesTransaction ==
    ASSUME NEW t \in Hashes, NEW n \in Names, NEW pads, "space" \in pads
    PROVE  LET same == /\ t.word = n.word
                       /\ t.word \in HexWords \/ t.case = n.case
           IN  /\ TxHash(t, pads) = OnChain(n.word, n.case) => same
               /\ same /\ t.pad \in {"none", "space"}
                    => TxHash(t, pads) = OnChain(n.word, n.case)
<1> DEFINE tx == Trim(t, pads)
<1>1. t \in Texts /\ (t.prefix # "none" => t.word \in HexWords)
  OBVIOUS
<1>2. /\ tx = [pad |-> tx.pad, prefix |-> t.prefix, word |-> t.word, case |-> t.case]
      /\ t.pad \in {"none", "space"} => tx.pad = "none"
  BY <1>1 DEF Trim, Texts
<1>3. n.word \in HexWords => n.case = "lower"
  BY DEF Names
<1> HIDE DEF tx
<1>4. CASE IsHex(tx)
  <2>1. TxHash(t, pads) = [pad |-> "none", prefix |-> "0x", word |-> t.word, case |-> "lower"]
    <3>1. TxHash(t, pads) = Lower0x(tx) /\ tx.pad = "none"
      BY <1>4 DEF TxHash, IsHex, tx
    <3>2. Lower0x(tx) = [pad |-> tx.pad, prefix |-> "0x", word |-> t.word, case |-> "lower"]
      BY <1>2 DEF Lower0x
    <3> QED
      BY <3>1, <3>2
  <2>2. t.word \in HexWords
    BY <1>2, <1>4 DEF IsHex
  <2> QED
    BY <1>3, <2>1, <2>2 DEF OnChain
<1>5. CASE ~IsHex(tx)
  <2>1. TxHash(t, pads) = tx
    BY <1>5 DEF TxHash, tx
  <2>2. tx = OnChain(n.word, n.case) => t.word = n.word /\ t.case = n.case
    BY <1>2 DEF OnChain
  <2>3. ASSUME t.word = n.word, t.word \in HexWords \/ t.case = n.case,
               t.pad \in {"none", "space"}
        PROVE  tx = OnChain(n.word, n.case)
    <3>1. tx.pad = "none" /\ t.word \notin HexWords
      BY <1>2, <1>5, <2>3 DEF IsHex
    <3>2. t.prefix = "none"
      BY <1>1, <3>1
    <3> QED
      BY <1>2, <2>3, <3>1, <3>2 DEF OnChain
  <2> QED
    BY <2>1, <2>2, <2>3
<1> QED
  BY <1>4, <1>5

\* A payer, as each SDK writes it for its trim.
Payer(t, pads) ==
    LET addr == Trim(t, pads) IN IF IsAddress(addr) THEN Lower0x(addr) ELSE addr

\* A canonical payer is its address and no other.
LEMMA PayerNamesAddress ==
    ASSUME NEW t \in Payers, NEW a \in Addresses, NEW pads, "space" \in pads
    PROVE  /\ Payer(t, pads) = OnChain(a, "lower") => t.word = a
           /\ t.word = a /\ t.pad \in {"none", "space"} /\ t.prefix # "none"
                => Payer(t, pads) = OnChain(a, "lower")
<1> DEFINE addr == Trim(t, pads)
<1>1. /\ addr = [pad |-> addr.pad, prefix |-> t.prefix, word |-> t.word, case |-> t.case]
      /\ t.pad \in {"none", "space"} => addr.pad = "none"
  BY DEF Trim, Texts
<1> HIDE DEF addr
<1>2. IsAddress(addr) => Payer(t, pads) = [pad |-> addr.pad, prefix |-> "0x",
                                           word |-> t.word, case |-> "lower"]
  <2>1. Lower0x(addr) = [pad |-> addr.pad, prefix |-> "0x", word |-> t.word, case |-> "lower"]
    BY <1>1 DEF Lower0x
  <2> QED
    BY <2>1 DEF Payer, addr
<1>3. ~IsAddress(addr) => Payer(t, pads) = addr
  BY DEF Payer, addr
<1>4. t.word = a /\ t.pad \in {"none", "space"} /\ t.prefix # "none"
         => IsAddress(addr) /\ addr.pad = "none"
  BY <1>1 DEF IsAddress, IsHex
<1> QED
  BY <1>1, <1>2, <1>3, <1>4 DEF OnChain

\* The same of a chain.
LEMMA ChainNames ==
    ASSUME NEW t \in Chains, NEW word \in Words, NEW pads, "space" \in pads
    PROVE  LET chain == [pad |-> "none", prefix |-> "none", word |-> word, case |-> "lower"]
           IN  /\ Lower(Trim(t, pads)) = chain => t.word = word
               /\ t.word = word /\ t.pad \in {"none", "space"}
                    => Lower(Trim(t, pads)) = chain
<1>1. t \in Texts /\ t.prefix = "none"
  OBVIOUS
<1>2. /\ Lower(Trim(t, pads)) = [pad |-> Trim(t, pads).pad, prefix |-> "none",
                                 word |-> t.word, case |-> "lower"]
      /\ t.pad \in {"none", "space"} => Trim(t, pads).pad = "none"
  BY <1>1 DEF Lower, Trim, Texts
<1> QED
  BY <1>2

\* An amount is written as the cents of the deposit just when they are the
\* nearest to it: one that is not a number never is.
LEMMA CentsName ==
    ASSUME NEW p \in Amounts, NEW k \in 0..(MaxCents - 1)
    PROVE  LET same == p.kind = "finite" /\ IsNearest(k, p.quarters)
           IN  /\ RustCents(p) = Cents(k) <=> same
               /\ TsCents(p) = Cents(k) <=> same
               /\ DartCents(p) = Cents(k) <=> same
<1>1. p.kind \in {"finite", "overflow", "unusable"} /\ p.quarters \in Int
  BY DEF Products
<1>2. CASE p.kind = "finite"
  <2> DEFINE n == HalfToEven(p.quarters)
             dart == IF n > MaxCents + 1 THEN -MaxCents - 1 ELSE Saturated(n)
  <2>1. n \in Int
    BY <1>1 DEF HalfToEven
  <2>2. n = k <=> IsNearest(k, p.quarters)
    BY <1>1, RoundsToNearest
  <2>3. /\ RustCents(p) = Cents(Saturated(n))
        /\ TsCents(p) = Cents(n)
        /\ DartCents(p) = Cents(dart)
    BY <1>2 DEF RustCents, TsCents, DartCents
  <2> HIDE DEF n
  <2>4. (Saturated(n) = k <=> n = k) /\ (dart = k <=> n = k)
    BY <2>1 DEF Saturated
  <2> QED
    BY <1>2, <2>2, <2>3, <2>4 DEF Cents
<1>3. CASE p.kind # "finite"
  BY <1>1, <1>3 DEF RustCents, TsCents, DartCents, Cents, NotANumber
<1> QED
  BY <1>2, <1>3

\* The challenge of an SDK is the hub's only for the deposit the program
\* describes, and for that one always if it is well written.
THEOREM ChallengeNamesDeposit ==
    ASSUME NEW s \in Sdks, NEW p \in Params, NEW d \in Deposits
    PROVE  /\ Message(s, p) = HubMessage(d) => Describes(p, d)
           /\ Describes(p, d) /\ WellFormed(p) => Message(s, p) = HubMessage(d)
<1> DEFINE pads == CASE s = "rust" -> {"space", "nel"}
                     [] s = "ts"   -> {"space", "bom"}
                     [] s = "dart" -> {"space", "nel", "bom"}
           cents == CASE s = "rust" -> RustCents(p.amount)
                      [] s = "ts"   -> TsCents(p.amount)
                      [] s = "dart" -> DartCents(p.amount)
           chain == [pad |-> "none", prefix |-> "none", word |-> d.chain, case |-> "lower"]
<1>0. s \in {"rust", "ts", "dart"}
  OBVIOUS
<1>1. /\ p.chain \in Chains /\ p.tx \in Hashes /\ p.payer \in Payers /\ p.amount \in Amounts
      /\ d.chain \in Words /\ d.tx \in Names /\ d.payer \in Addresses /\ d.cents \in Nat
  BY DEF Params
<1>2. "space" \in pads
  BY <1>0
<1>3. Message(s, p) = [chain |-> Lower(Trim(p.chain, pads)), tx |-> TxHash(p.tx, pads),
                       payer |-> Payer(p.payer, pads), cents |-> cents]
  <2>1. CASE s = "rust"
    BY <2>1 DEF Message, RustMessage, RustTrim, RustTxHash, RustPayer, TxHash, Payer
  <2>2. CASE s = "ts"
    BY <2>2 DEF Message, TsMessage, TsTrim, TsTxHash, TsPayer, TxHash, Payer
  <2>3. CASE s = "dart"
    BY <2>3 DEF Message, DartMessage, DartTrim, DartTxHash, DartPayer, TxHash, Payer
  <2> QED
    BY <1>0, <2>1, <2>2, <2>3
<1>4. cents = Cents(d.cents) <=> p.amount.kind = "finite" /\ IsNearest(d.cents, p.amount.quarters)
  BY <1>0, <1>1, CentsName
<1> HIDE DEF pads, cents
<1>5. Message(s, p) = HubMessage(d) <=>
         /\ Lower(Trim(p.chain, pads)) = chain
         /\ TxHash(p.tx, pads) = OnChain(d.tx.word, d.tx.case)
         /\ Payer(p.payer, pads) = OnChain(d.payer, "lower")
         /\ cents = Cents(d.cents)
  BY <1>3 DEF HubMessage
<1>6. /\ Lower(Trim(p.chain, pads)) = chain => p.chain.word = d.chain
      /\ p.chain.word = d.chain /\ p.chain.pad \in {"none", "space"}
           => Lower(Trim(p.chain, pads)) = chain
  BY <1>1, <1>2, ChainNames
<1>7. LET same == p.tx.word = d.tx.word /\ (p.tx.word \in HexWords \/ p.tx.case = d.tx.case)
      IN  /\ TxHash(p.tx, pads) = OnChain(d.tx.word, d.tx.case) => same
          /\ same /\ p.tx.pad \in {"none", "space"}
               => TxHash(p.tx, pads) = OnChain(d.tx.word, d.tx.case)
  BY <1>1, <1>2, HashNamesTransaction
<1>8. /\ Payer(p.payer, pads) = OnChain(d.payer, "lower") => p.payer.word = d.payer
      /\ p.payer.word = d.payer /\ p.payer.pad \in {"none", "space"} /\ p.payer.prefix # "none"
           => Payer(p.payer, pads) = OnChain(d.payer, "lower")
  BY <1>1, <1>2, PayerNamesAddress
<1> QED
  BY <1>4, <1>5, <1>6, <1>7, <1>8 DEF Describes, WellFormed

-----------------------------------------------------------------------------
\* The invariant

\* What has been signed is the challenge of what the program said.
Signed ==
    /\ sdk \in Sdks /\ deposit \in Deposits
    /\ answer \in {"none", "credited", "refused"}
    /\ proof = NoProof => answer = "none"
    /\ proof # NoProof => /\ params \in Params
                          /\ proof.signer \in Wallets
                          /\ proof.message = Message(sdk, params)

\* A proof gets its deposit credited and no other, whatever the texts and
\* amounts, in each SDK.
THEOREM ProofIsSound == Spec => []ProofNamesItsDeposit
<1> DEFINE Inv == Signed /\ ProofNamesItsDeposit
<1>1. Init => Inv
  BY DEF Init, Signed, ProofNamesItsDeposit
<1>2. Inv /\ [Next]_vars => Inv'
  <2> SUFFICES ASSUME Inv, [Next]_vars PROVE Inv'
    OBVIOUS
  <2>1. ASSUME NEW p \in Params, NEW w \in Wallets, SignChannelOpenProof(p, w) PROVE Inv'
    <3>1. answer = "none"
      <4>1. NoParams \notin Params
        BY DEF NoParams, Params
      <4> QED
        BY <2>1, <4>1 DEF Signed, SignChannelOpenProof
    <3>2. proof' # NoProof => proof' = [signer |-> w, message |-> Message(sdk, p)]
      BY <2>1 DEF SignChannelOpenProof
    <3> QED
      BY <2>1, <3>1, <3>2 DEF Signed, SignChannelOpenProof, ProofNamesItsDeposit
  <2>2. ASSUME HubChecks PROVE Inv'
    <3>1. /\ params \in Params /\ deposit \in Deposits /\ sdk \in Sdks
          /\ proof.signer \in Addresses /\ proof.message = Message(sdk, params)
          /\ deposit.payer \in Addresses
      BY <2>2 DEF Signed, HubChecks
    <3>2. Recover(HubMessage(deposit), proof) = deposit.payer <=>
             Message(sdk, params) = HubMessage(deposit) /\ proof.signer = deposit.payer
      BY <3>1 DEF Recover
    <3>3. /\ Message(sdk, params) = HubMessage(deposit) => Describes(params, deposit)
          /\ Describes(params, deposit) /\ WellFormed(params)
               => Message(sdk, params) = HubMessage(deposit)
      BY <3>1, ChallengeNamesDeposit
    <3>4. UNCHANGED <<sdk, deposit, params, proof>>
      BY <2>2 DEF HubChecks
    <3>5. Signed'
      BY <2>2, <3>4 DEF Signed, HubChecks
    <3>6. answer' = IF Recover(HubMessage(deposit), proof) = deposit.payer
                    THEN "credited" ELSE "refused"
      BY <2>2 DEF HubChecks
    <3>7. ProofNamesItsDeposit'
      BY <3>2, <3>3, <3>4, <3>6 DEF ProofNamesItsDeposit, Describes, WellFormed
    <3> QED
      BY <3>5, <3>7
  <2>3. CASE UNCHANGED vars
    BY <2>3 DEF vars, Signed, ProofNamesItsDeposit, Describes, WellFormed
  <2> QED
    BY <2>1, <2>2, <2>3 DEF Next
<1> QED
  BY <1>1, <1>2, PTL DEF Spec
=============================================================================
