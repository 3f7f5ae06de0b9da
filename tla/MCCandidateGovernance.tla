------------------------ MODULE MCCandidateGovernance ------------------------
(* Few proposals and bundles, which the model checker may exchange. *)
EXTENDS CandidateGovernance, TLC

Symmetry == Permutations(Proposals) \cup Permutations(Bundles)
===============================================================================
