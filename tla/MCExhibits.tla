----------------------------- MODULE MCExhibits -----------------------------
EXTENDS ExhibitsProps, TLC

OneCase   == [x \in Exhibits |-> CHOOSE k \in Cases : TRUE]
\* Exhibit 3 is the bytes of exhibit 2.
TwoAlike  == [x \in Exhibits |-> IF x = 3 THEN 2 ELSE x]
Symmetry  == Permutations(Calls) \cup Permutations(Requests)
Both      == [r \in Requests |-> {1, 2}]
=============================================================================
