----------------------------- MODULE MCSealWorker -----------------------------
(* Instances of SealWorker for TLC: the pods and the documents are         *)
(* interchangeable unless one of them is malformed or unsigned.            *)
EXTENDS SealWorker, TLC

Symmetry ==
  Permutations(Signers) \cup Permutations(Workers \ Signers)
    \cup Permutations(Malformed) \cup Permutations(Docs \ Malformed)

=============================================================================
