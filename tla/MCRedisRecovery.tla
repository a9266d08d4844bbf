---------------------------- MODULE MCRedisRecovery ---------------------------
EXTENDS RedisRecovery, TLC

Symmetry == Permutations(Pods) \cup Permutations(Jobs)
===============================================================================
