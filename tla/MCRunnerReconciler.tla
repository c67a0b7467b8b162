------------------------- MODULE MCRunnerReconciler -------------------------
(* A runner that is plain, one that has everything in its default form, and *)
(* one whose claim template leaves out what the API server fills in.        *)
EXTENDS RunnerReconciler

Plain == [image |-> "a", env |-> {}, form |-> "stored", server |-> "s", scaling |-> None]

Rich == [image |-> "b", env |-> {"LABELS"}, form |-> "raw", server |-> "t", scaling |-> "fast"]

Short == [image |-> "a", env |-> {"LABELS"}, form |-> "short", server |-> "s", scaling |-> "slow"]

AllSpecs == {Plain, Rich, Short}
=============================================================================
