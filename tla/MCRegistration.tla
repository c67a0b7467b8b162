--------------------------- MODULE MCRegistration ---------------------------
(***************************************************************************)
(* Two requests that share a name and not a repository, one of which says  *)
(* it twice, a dry run that shares another name, and add-runner.           *)
(***************************************************************************)
EXTENDS Registration

TheRequests == {"two", "elsewhere", "dry"}
TheRepos == [r \in TheRequests |-> IF r = "elsewhere" THEN "q" ELSE "p"]
TheNames ==
  [r \in TheRequests |->
     CASE r = "two" -> <<"x-0", "x-1">>
       [] r = "elsewhere" -> <<"x-1", "x-1">>
       [] r = "dry" -> <<"x-0">>]
TheToolRepo == [t \in {"tool"} |-> "p"]
TheIndexed == [t \in {"tool"} |-> <<"x-0", "x-1">>]
ThePlaces == {"p", "q"} \X {"x-0", "x-1"}

=============================================================================
