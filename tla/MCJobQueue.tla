------------------------------ MODULE MCJobQueue ------------------------------
EXTENDS JobQueue, TLC

\* Pods are interchangeable, and so are the jobs of one kind of payload.
PodSymmetry == Permutations(Pods)
Symmetry == PodSymmetry \cup Permutations(Unreliable) \cup Permutations(Jobs \ Unreliable)
===============================================================================
