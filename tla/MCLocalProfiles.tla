-------------------------- MODULE MCLocalProfiles --------------------------
EXTENDS LocalProfiles, TLC
Symmetry == Permutations(Switches) \cup Permutations(Edits)
=============================================================================
