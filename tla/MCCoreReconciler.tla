-------------------------- MODULE MCCoreReconciler --------------------------
(* The selections of objects of the run of CoreReconciler. *)
EXTENDS CoreReconciler

\* Everything, or an API server that is given somebody else's memcached.
AllOrWithoutMemcached == {Kinds, Kinds \ {"memcached"}}

=============================================================================
