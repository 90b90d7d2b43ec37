----------------------------- MODULE MCRunStore -----------------------------
(* Model values and bounds for TLC. *)
EXTENDS RunStore, TLC

CONSTANTS r1, r2, r3, w1, w2, c1, c2, plain, gpu

\* A plain request, and one of higher priority that needs a gpu worker.
MCRequired == [q \in Requests |-> IF q = plain THEN {} ELSE {"gpu"}]
MCPriority == [q \in Requests |-> IF q = plain THEN 0 ELSE 5]
MCLabelSets == {{}, {"gpu"}}
NoLabels == {{}}
Fifo == {"fifo"}
Affinity == {"affinity"}

StoreSymmetry == Permutations(Runs) \cup Permutations(Workers) \cup Permutations(Callers)
=============================================================================
