--------------------------- MODULE MCPersonaActs ---------------------------
EXTENDS PersonaActsProps, TLC

\* Every key's act is carried out as the one persona of the instance.
OnePersona == [k \in Keys |-> CHOOSE x \in Personas : TRUE]

Symmetry == Permutations(Acts) \cup Permutations(Clients) \cup Permutations(Collectors)
=============================================================================
