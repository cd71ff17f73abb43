-------------------------- MODULE MCProposalStore --------------------------
(* Instances of ProposalStore for TLC. *)
EXTENDS ProposalStore, TLC

\* Proposals and instances are interchangeable.
Symmetry == Permutations(Proposals) \cup Permutations(Instances)
=============================================================================
