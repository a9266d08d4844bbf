------------------------------ MODULE MCResultsApi ----------------------------
EXTENDS ResultsApi, TLC

Symmetry == Permutations(Clients) \cup Permutations(Jobs)
===============================================================================
