----------------------------- MODULE BatchOutcome -----------------------------
(***************************************************************************)
(* The bookkeeping of BaseAsyncModelService._process_job_batch: which      *)
(* input the inference call sees at a batch position, and when that        *)
(* bookkeeping raises.  Positions are those of the batch (1-based here,    *)
(* 0-based in the code); V is valid_indices, the positions whose payload   *)
(* was deserialised without an exception.                                  *)
(***************************************************************************)
EXTENDS Integers, FiniteSets

(***************************************************************************)
(* resolved_inputs[k]: the loop appends on success only, so the k-th entry *)
(* is the input of the k-th valid position.                                *)
(***************************************************************************)
ResolvedAt(V, k) == CHOOSE i \in V : Cardinality({m \in V : m <= i}) = k

(***************************************************************************)
(* `[resolved_inputs[i] for i in valid_indices]` indexes the compressed    *)
(* list with batch positions and is outside every try: it raises           *)
(* IndexError when a valid position is beyond the number of valid inputs,  *)
(* that is, when a failed payload comes before a valid one.                *)
(***************************************************************************)
Misindexed(V) == \E i \in V : i > Cardinality(V)

(***************************************************************************)
(* The position whose payload produced the result stored at position i,    *)
(* 0 where the job is to be marked failed.                                 *)
(***************************************************************************)
\* A plausible repair that stops the exception but shifts the results.
SourceShifted(V, i) == IF i \in V THEN ResolvedAt(V, 1) ELSE 0

Source(V, i) == IF i \in V THEN ResolvedAt(V, i) ELSE 0
===============================================================================
