----------------------------- MODULE MCGCSQueue -----------------------------
(***************************************************************************)
(* Small instances of GCSQueue for TLC.                                    *)
(***************************************************************************)
EXTENDS GCSQueue, TLC

CONSTANTS e1, e2, w1, w2, o1

\* Enqueues that all look alike: what matters is who does what when.
PlainEnqueue == {[prio |-> 0, nb |-> 0, floor |-> FALSE]}

\* Three urgencies, so that a deduplicated enqueue has something to update.
ThreePriorities == {[prio |-> p, nb |-> 0, floor |-> FALSE] : p \in {0, 5, 7}}

NoPlans == {}
DelayedRevisit == {DelayPlan(1, FALSE)}
FlooredRevisit == {DelayPlan(3, TRUE)}

Symmetry == Permutations(Workers) \cup Permutations(Enqueuers)

=============================================================================
