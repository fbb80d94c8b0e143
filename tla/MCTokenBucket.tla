--------------------------- MODULE MCTokenBucket ---------------------------
(* Two workflows that do not fit together, and two executions that run     *)
(* either both of them or one of them twice.                               *)
EXTENDS TokenBucket, TLC

CONSTANTS w1, w2, e1, e2, p1

MCWorkflows == {w1, w2}
MCExecutions == {e1, e2}
MCAttempts == [w \in Workflows |-> IF w = w2 THEN 2 ELSE 1]
MCMaxHolds == [w \in Workflows |-> IF w = w1 THEN 2 ELSE 1]
MCCancellable == {w2}
MCWeight == [w \in Workflows |-> IF w = w2 THEN 2 ELSE 1]
Symmetry == Permutations(MCExecutions)
MCWorkers == {p1}
OneExecution == {e1}
MCContribution == [p \in Workers |-> 1]

=============================================================================
