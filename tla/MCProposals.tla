---------------------------- MODULE MCProposals ----------------------------
EXTENDS ProposalsProps, TLC

CONSTANTS v1, v2
OneHit   == [t \in Texts |-> {v1}]
Symmetry == Permutations(Calls) \cup Permutations(Entities)
=============================================================================
