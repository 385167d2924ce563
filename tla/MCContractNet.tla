--------------------------- MODULE MCContractNet ---------------------------
(* Instances of ContractNet for TLC.                                       *)
EXTENDS ContractNet, TLC

SessionSymmetry == Permutations(Bidder) \union Permutations(Awarder)
=============================================================================
