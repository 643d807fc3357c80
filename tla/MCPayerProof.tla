----------------------------- MODULE MCPayerProof -----------------------------
(* PayerProof on a small instance. *)
EXTENDS PayerProof

CONSTANTS base, hash, base58, alice, bob

AllWords == {base, hash, base58, alice, bob}
Hex == {hash, alice, bob}
Wallet == {alice, bob}

Spelt(word, pads, prefixes, cases) ==
    [pad : pads, prefix : prefixes, word : {word}, case : cases]

ChainTexts == Spelt(base, {"none", "space"}, {"none"}, {"mixed"})
HashTexts == Spelt(hash, {"none"}, {"none", "0x", "0X"}, {"lower", "mixed"})
             \cup Spelt(hash, {"space", "nel", "bom"}, {"0x"}, {"lower"})
             \cup Spelt(base58, {"none"}, {"none"}, {"lower", "mixed"})
PayerTexts == Spelt(alice, {"none"}, {"none", "0x", "0X"}, {"mixed"})

\* Below zero, two ties that go down and up, the quarters next to one, and what no i64
\* holds, on both sides.
Some == [kind : {"finite"}, quarters : {-24, -2, 1, 2, 3, 6, 16, 20}]
        \cup [kind : {"overflow", "unusable"}, quarters : {-1, 0}]

OnChains == [chain : {base}, tx : {[word |-> hash, case |-> "lower"],
                                   [word |-> base58, case |-> "mixed"]},
             payer : Wallet, cents : 0..2]
=============================================================================
