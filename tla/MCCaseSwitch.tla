---------------------------- MODULE MCCaseSwitch ----------------------------
EXTENDS CaseSwitchProps, TLC

Symmetry == Permutations(Requests) \cup Permutations(Users) \cup Permutations(Calls)
=============================================================================
