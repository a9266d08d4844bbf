-------------------------- MODULE BatchOutcome_proofs --------------------------
(***************************************************************************)
(* Lemmas about the index bookkeeping of a batch.                          *)
(***************************************************************************)
EXTENDS BatchOutcome, FiniteSetTheorems, TLAPS

-------------------------------------------------------------------------------
LEMMA UpTo == \A n \in Nat : IsFiniteSet(1..n) /\ Cardinality(1..n) = n
BY FS_Interval

(***************************************************************************)
(* The batch bookkeeping (model_service.py:190-211).  When the compressed  *)
(* list is not indexed out of range, the valid positions are exactly the   *)
(* first ones, and each position gets the result of its own payload: the   *)
(* indexing can stop a worker but never mixes up two jobs.                 *)
(***************************************************************************)
LEMMA ValidPrefix ==
  ASSUME NEW n \in Nat, NEW V \in SUBSET (1..n), ~Misindexed(V)
  PROVE  V = 1..Cardinality(V) /\ Cardinality(V) \in Nat /\ IsFiniteSet(V)
<1>1. IsFiniteSet(V) /\ Cardinality(V) \in Nat
  <2>1. IsFiniteSet(1..n)
    BY UpTo
  <2>2. IsFiniteSet(V)
    BY <2>1, FS_Subset
  <2> QED
    BY <2>2, FS_CardinalityType
<1> DEFINE c == Cardinality(V)
<1>2. V \subseteq 1..c
  BY <1>1 DEF Misindexed
<1>3. IsFiniteSet(1..c) /\ Cardinality(1..c) = c
  BY <1>1, UpTo
<1>4. V = 1..c
  BY <1>2, <1>3, FS_Subset
<1> QED
  BY <1>1, <1>4

LEMMA SourceIsOwnPosition ==
  ASSUME NEW n \in Nat, NEW V \in SUBSET (1..n), ~Misindexed(V), NEW i \in 1..n
  PROVE  Source(V, i) = IF i \in V THEN i ELSE 0
<1>1. V = 1..Cardinality(V) /\ Cardinality(V) \in Nat
  BY ValidPrefix
<1>2. ASSUME NEW k \in V
      PROVE  Cardinality({m \in V : m <= k}) = k
  <2>1. {m \in V : m <= k} = 1..k
    BY <1>1
  <2>2. Cardinality(1..k) = k
    BY UpTo
  <2> QED
    BY <2>1, <2>2
<1>3. CASE i \in V
  <2>1. Source(V, i) = CHOOSE j \in V : Cardinality({m \in V : m <= j}) = i
    BY <1>3 DEF Source, ResolvedAt
  <2>2. i \in V /\ Cardinality({m \in V : m <= i}) = i
    BY <1>2, <1>3
  <2>3. \A j \in V : Cardinality({m \in V : m <= j}) = i => j = i
    BY <1>2
  <2> QED
    BY <2>1, <2>2, <2>3, <1>3
<1>4. CASE i \notin V
  BY <1>4 DEF Source
<1> QED
  BY <1>3, <1>4
===============================================================================
