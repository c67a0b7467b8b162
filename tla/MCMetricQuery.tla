--------------------------- MODULE MCMetricQuery ---------------------------
(* Model values and symmetry for the runs of MetricQuery. *)
EXTENDS MetricQuery, TLC

CONSTANTS t1, t2, w1, j1

OneThread == {t1}
TwoThreads == {t1, t2}
OneWorkflow == {w1}
OneJob == {j1}
ThreadSymmetry == Permutations(Threads)
=============================================================================
