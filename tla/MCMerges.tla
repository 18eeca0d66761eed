------------------------------ MODULE MCMerges ------------------------------
EXTENDS MergesProps, TLC

AnyPair   == {p \in Nodes \X Nodes : p[1] # p[2]}
OneKind   == [e \in Ties |-> "vouch"]
Symmetry  == Permutations(Nodes) \cup Permutations(Ties) \cup Permutations(Merges)
               \cup Permutations(Calls)
=============================================================================
