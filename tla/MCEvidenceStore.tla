-------------------------- MODULE MCEvidenceStore --------------------------
(* Instances of EvidenceStore for TLC.                                     *)
EXTENDS EvidenceStore, TLC

(* The constants are model values that only equality tells apart, and no   *)
(* liveness property is checked: permuting them is sound.                  *)
Symmetry ==
    Permutations(Workers) \cup Permutations(Urls) \cup Permutations(Hashes)
      \cup Permutations(Companies) \cup Permutations(Proposals)
=============================================================================
