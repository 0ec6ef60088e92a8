-------------------------------- MODULE MCServer --------------------------------
EXTENDS Server, TLC

Symmetry == Permutations(Client) \cup Permutations(FD)
=================================================================================
