---------------------------- MODULE DesiredState ----------------------------
(***************************************************************************)
(* What the parts of the system that follow the cluster promise of what    *)
(* they manage for its users: the operator of the objects it deploys       *)
(* (operator/controllers), the API server of the workflows it knows        *)
(* (apiserver/pkg/config).  Objects come and go, but none is ever anything *)
(* it has not been asked to be, and once nothing else is asked for each    *)
(* becomes, and stays, what was asked for.  How they get there is left     *)
(* open.                                                                   *)
(***************************************************************************)
CONSTANTS
  Objects,      \* the objects by name
  Wants,        \* what an object may be asked to be
  Batches,      \* the sets of objects that may change together
  None,         \* no object
  Unspecified   \* nothing in particular is asked for, or what cannot be

VARIABLES
  wanted,    \* wanted[o]: what o is asked to be now
  asked,     \* asked[o]: everything o has been asked to be
  deployed   \* deployed[o]: what o is

vars == <<wanted, asked, deployed>>

Asked ==
  /\ asked \in [Objects -> SUBSET Wants]
  /\ wanted \in [Objects -> Wants \union {None, Unspecified}]
  /\ \A o \in Objects : wanted[o] \in asked[o] \union {None, Unspecified}

Init ==
  /\ Asked
  /\ deployed = [o \in Objects |-> None]

\* The users change their minds, which may make an object impossible.
Ask ==
  /\ Asked'
  /\ \A o \in Objects : asked[o] \subseteq asked'[o]
  /\ UNCHANGED deployed

\* Who follows may be late, but does not make things up.
Deploy(batch) ==
  /\ UNCHANGED <<wanted, asked>>
  /\ deployed' \in [Objects -> Wants \union {None}]
  /\ \A o \in Objects :
       deployed'[o] \in IF o \in batch THEN asked[o] \union {None} ELSE {deployed[o]}

Next == (\E batch \in Batches : Deploy(batch)) \/ Ask

\* Unless the users keep changing their minds, the objects are as asked.
Follows ==
  []<><<TRUE>>_wanted \/ <>[](\A o \in Objects : wanted[o] \in {deployed[o], Unspecified})

Spec == Init /\ [][Next]_vars /\ Follows

=============================================================================
