--------------------------- MODULE MCVibecheckJob ---------------------------
(* Instances of VibecheckJob for TLC. *)
EXTENDS VibecheckJob, TLC

CONSTANTS dedup, trends, video, w1, w2, c1, c2

\* One section of each kind: the one others depend on, a dependent, a polled one.
AllSlugs       == {dedup, trends, video}
DependentSlugs == {trends}
PolledSlugs    == {video}
OneWorker      == {w1}
TwoWorkers     == {w1, w2}
OneClicker     == {c1}
TwoClickers    == {c1, c2}

\* Workers and clickers are interchangeable; sound for safety properties only.
Symmetry == Permutations(Workers) \union Permutations(Clickers)
=============================================================================
