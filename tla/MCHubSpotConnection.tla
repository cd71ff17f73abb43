------------------------- MODULE MCHubSpotConnection -------------------------
(* Instances of HubSpotConnection for TLC. *)
EXTENDS HubSpotConnection, TLC

\* Instances are interchangeable, and so are callbacks.
Symmetry == Permutations(Refreshers) \cup Permutations(Callbacks)
=============================================================================
