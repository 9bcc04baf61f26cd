----------------------------- MODULE MCProofVault -----------------------------
(* ProofVault on small sets of proofs, payments and mintings. *)
EXTENDS ProofVault, TLC

Symmetry == Permutations(Proofs \ InitialProofs) \cup Permutations(InitialProofs)
            \cup Permutations(Payers)
=============================================================================
