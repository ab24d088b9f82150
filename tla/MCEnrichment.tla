------------------------------- MODULE MCEnrichment -------------------------------
(* Instances of Enrichment for TLC.  Post-process deliveries are symmetric. *)
EXTENDS Enrichment, TLC

Symmetry == Permutations(Posts)

\* The safety properties say nothing after a sweep that missed a task: not
\* explored any further.
Seen == ~sweep.blind

\* One of the subtasks is retried (bound).
Retries == Cardinality({k \in Posts \X Slots : sub[k[1]][k[2]].retried > 0}) <= 1
=============================================================================
