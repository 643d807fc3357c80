---------------------------- MODULE MCAttestation ----------------------------
(* Attestation on a small instance. *)
EXTENDS Attestation, TLC

CodeSymmetry == Permutations(Codes)

Protocol == [zone : {"Z"}, offset : {0}, frac : BOOLEAN]
Zoneless == [zone : {"none"}, offset : {0}, frac : {TRUE}]
Zoned    == [zone : {"offset"}, offset : {1}, frac : BOOLEAN]
SomeForms == Protocol \cup Zoneless \cup Zoned
West == -1
=============================================================================
