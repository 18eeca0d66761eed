------------------------------ MODULE MCLedger ------------------------------
EXTENDS LedgerProps, TLC

Symmetry == Permutations(Writers)
=============================================================================
