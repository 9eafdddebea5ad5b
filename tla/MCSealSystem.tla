----------------------------- MODULE MCSealSystem -----------------------------
(* Instances of SealSystem for TLC; pods and documents are interchangeable. *)
EXTENDS SealSystem, TLC

Symmetry ==
  Permutations(Docs) \cup Permutations(Signers) \cup Permutations(Workers \ Signers)
    \cup Permutations(Replicas)

=============================================================================
