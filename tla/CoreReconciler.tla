--------------------------- MODULE CoreReconciler ---------------------------
(***************************************************************************)
(* The operator's controller of the ScaledActionRunnerCores                *)
(* (operator/controllers/scaledactionrunnercore_controller.go,             *)
(* coregenerator): from a core it deploys the API server, memcached and    *)
(* what they need, one object after the other, prerequisites first.  An    *)
(* object carries the key of the core it was made from; one with another   *)
(* key is updated, and what cannot be updated is deleted and created       *)
(* again.  The objects have the same names whichever core they come from,  *)
(* and nobody watches them.                                                *)
(*                                                                         *)
(* A single worker makes one call per step.  It reads the objects from the *)
(* API server, and the cores from its cache: a core changes when the cache *)
(* learns of it.  Cores and objects are changed MaxChanges times by        *)
(* others; MaxFaults calls fail or the operator dies.                      *)
(***************************************************************************)
EXTENDS Naturals

CONSTANTS
  Cores,        \* the names of the cores
  Kinds,        \* the objects a core may ask for
  PreReqs,      \* those that are a Secret or a ServiceAccount
  KindSets,     \* what the switches of a core's spec may select
  MaxChanges,   \* bound: changes by others
  MaxFaults,    \* bound: failed calls and crashes
  None,         \* no object, no core being reconciled
  Unspecified   \* nothing in particular is asked of an object

ASSUME CoreAssumption ==
  /\ PreReqs \subseteq Kinds
  /\ KindSets \subseteq SUBSET Kinds
  /\ MaxChanges \in Nat
  /\ MaxFaults \in Nat

VARIABLES
  cores,    \* the cores; a change gives a core a new, unique version
  live,     \* live[k]: the core an object was made from, as it was then
  queue,    \* the work queue
  \* The worker:
  pc,       \* what it does next
  job,      \* the core it read
  todo,     \* the objects it has yet to look at
  kind,     \* the object it is working on
  changed,  \* it has modified something
  \* The bounds, and history for the properties:
  changes, faults,
  asked,    \* every version of every core
  removed   \* what was taken away since it was last deployed: an object, and a
            \* core that is not told

users == <<cores, asked>>
cluster == <<live, removed>>
worker == <<pc, job, todo, kind, changed>>
vars == <<users, cluster, queue, worker, changes, faults>>

Versions == 0..MaxChanges
CoreOf == [core : Cores, uid : Versions, version : Versions, kinds : KindSets]

ASSUME NoneAssumption == None \notin Kinds /\ None \notin CoreOf

Existing == {c \in Cores : cores[c] # None}

\* A slip a run must notice: the key is that of the name.
SameKeyOfName(o) == o.core = job.core

\* A slip a run must notice: the key is a new one each time.
SameKeyNever(o) == FALSE

\* getKey hashes the whole core, its resource version included; also when the
\* operator was built, which is the same for as long as this is one operator.
SameKey(o) == o = job

\* A slip a run must notice: the order of the generators.
EligibleAsListed == todo

\* deploy(objs, true) before deploy(objs, false).
Eligible == IF todo \intersect PreReqs # {} THEN todo \intersect PreReqs ELSE todo

-----------------------------------------------------------------------------
Init ==
  /\ \E c \in Cores, s \in KindSets :
       /\ cores = [d \in Cores |->
            IF d = c THEN [core |-> c, uid |-> 0, version |-> 0, kinds |-> s] ELSE None]
       /\ asked = {cores[c]}
       /\ queue = {c}
  /\ live = [k \in Kinds |-> None]
  /\ removed = {}
  /\ pc = "idle"
  /\ job = None
  /\ todo = {}
  /\ kind = None
  /\ changed = FALSE
  /\ changes = 0
  /\ faults = 0

Change == changes < MaxChanges /\ changes' = changes + 1
Fault == faults < MaxFaults /\ faults' = faults + 1

(***************************************************************************)
(* The cluster's users and controllers.                                    *)
(***************************************************************************)
PutCore(c) ==
  /\ Change
  /\ \E s \in KindSets :
       cores' = [cores EXCEPT ![c] =
         [core |-> c, version |-> changes', kinds |-> s,
          uid |-> IF cores[c] = None THEN changes' ELSE cores[c].uid]]
  /\ asked' = asked \union {cores'[c]}
  /\ queue' = queue \union {c}
  /\ UNCHANGED <<cluster, worker, faults>>

DeleteCore(c) ==
  /\ Change
  /\ cores[c] # None
  /\ cores' = [cores EXCEPT ![c] = None]
  /\ queue' = queue \union {c}
  /\ UNCHANGED <<asked, cluster, worker, faults>>

\* An object goes, and nobody tells the operator.
TakeAway(k) ==
  /\ live' = [live EXCEPT ![k] = None]
  /\ removed' = removed \union ({k} \X Cores)
  /\ UNCHANGED <<users, queue, worker, faults>>

DeleteObject(k) == Change /\ live[k] # None /\ TakeAway(k)

\* The cluster's garbage collector, for an object whose owner is gone.
Orphaned(o) == \A c \in Existing : o.core = c => o.uid # cores[c].uid

Collect(k) ==
  /\ live[k] # None
  /\ Orphaned(live[k])
  /\ TakeAway(k)
  /\ UNCHANGED changes

\* controller-runtime goes through its cache again every ten hours.
Resync(c) ==
  /\ c \in Existing \ queue
  /\ queue' = queue \union {c}
  /\ UNCHANGED <<users, cluster, worker, changes, faults>>

-----------------------------------------------------------------------------
(* Reconcile. *)

\* A pass begins; a core that is gone leaves nothing to do.
Begin(c) ==
  /\ pc = "idle"
  /\ c \in queue
  /\ queue' = queue \ {c}
  /\ IF c \in Existing
       THEN pc' = "next" /\ job' = cores[c] /\ todo' = cores[c].kinds
       ELSE UNCHANGED <<pc, job, todo>>
  /\ UNCHANGED <<users, cluster, kind, changed, changes, faults>>

\* A slip a run must notice: an error ends it.
RequeuedNever(due) == queue

Requeued(due) == IF due THEN queue \union {job.core} ELSE queue

\* The pass is over: its key goes back if it changed or missed something.
End(due) ==
  /\ queue' = Requeued(due)
  /\ pc' = "idle"
  /\ job' = None
  /\ todo' = {}
  /\ kind' = None
  /\ changed' = FALSE

\* A slip a run must notice: the object is kept.
DoneKeepingKind(modified) ==
  /\ pc' = "next"
  /\ changed' = (changed \/ modified)
  /\ UNCHANGED <<job, todo, kind, queue>>

\* An object is done with.
Done(modified) ==
  /\ pc' = "next"
  /\ kind' = None
  /\ changed' = (changed \/ modified)
  /\ UNCHANGED <<job, todo, queue>>

\* The call that follows for this object.
Go(call) == pc' = call /\ UNCHANGED <<job, todo, kind, changed, queue>>

Deployed == live' = [live EXCEPT ![kind] = job] /\ removed' = removed \ ({kind} \X Cores)

\* CreateUpdateOrReplace reads the object and compares the keys.
Find(k) ==
  /\ pc = "next"
  /\ k \in Eligible
  /\ todo' = todo \ {k}
  /\ IF live[k] # None /\ SameKey(live[k])
       THEN UNCHANGED <<pc, kind>>
       ELSE kind' = k /\ pc' = IF live[k] = None THEN "create" ELSE "update"
  /\ UNCHANGED <<users, cluster, queue, job, changed, changes, faults>>

\* An object that cannot be read ends the pass.
FailToFind ==
  /\ pc = "next"
  /\ todo # {}
  /\ Fault
  /\ End(TRUE)
  /\ UNCHANGED <<users, cluster, changes>>

\* The update names the version that was read.
Update ==
  /\ pc = "update"
  /\ live[kind] # None
  /\ Deployed
  /\ Done(TRUE)
  /\ UNCHANGED <<users, changes, faults>>

\* It is refused: a field that is immutable, or the object has gone; or its
\* answer is lost.
FailToUpdate ==
  /\ pc = "update"
  /\ \/ UNCHANGED <<cluster, faults>>
     \/ Fault /\ live[kind] # None /\ Deployed
  /\ Go("delete")
  /\ UNCHANGED <<users, changes>>

\* The error of the delete is ignored.
Delete ==
  /\ pc = "delete"
  /\ \/ live' = [live EXCEPT ![kind] = None] /\ UNCHANGED faults
     \/ UNCHANGED live /\ Fault
  /\ removed' = removed \union ({kind} \X (Cores \ {job.core}))
  /\ Go("create")
  /\ UNCHANGED <<users, changes>>

Create ==
  /\ pc = "create"
  /\ live[kind] = None
  /\ Deployed
  /\ Done(TRUE)
  /\ UNCHANGED <<users, changes, faults>>

\* The object still exists, or the call fails, perhaps after its effect.
FailToCreate ==
  /\ pc = "create"
  /\ \/ live[kind] # None /\ UNCHANGED <<cluster, faults>>
     \/ live[kind] = None /\ Fault /\ (Deployed \/ UNCHANGED cluster)
  /\ End(TRUE)
  /\ UNCHANGED <<users, changes>>

EndPass ==
  /\ pc = "next"
  /\ todo = {}
  /\ End(changed)
  /\ UNCHANGED <<users, cluster, changes, faults>>

\* The operator dies and starts again: it lists the cores afresh.
Restart ==
  /\ Fault
  /\ queue' = Existing
  /\ pc' = "idle"
  /\ job' = None
  /\ todo' = {}
  /\ kind' = None
  /\ changed' = FALSE
  /\ UNCHANGED <<users, cluster, changes>>

Reconcile ==
  \/ \E c \in Cores : Begin(c)
  \/ \E k \in Kinds : Find(k)
  \/ FailToFind \/ Update \/ FailToUpdate \/ Delete \/ Create \/ FailToCreate
  \/ EndPass

Users ==
  \/ \E c \in Cores : PutCore(c) \/ DeleteCore(c)
  \/ \E k \in Kinds : DeleteObject(k)

Next ==
  \/ Users
  \/ \E k \in Kinds : Collect(k)
  \/ \E c \in Cores : Resync(c)
  \/ Reconcile
  \/ Restart

\* The worker runs; the resync and the garbage collector come round.
Fairness ==
  /\ WF_vars(Reconcile)
  /\ \A c \in Cores : WF_vars(Resync(c))
  /\ \A k \in Kinds : WF_vars(Collect(k))

Spec == Init /\ [][Next]_vars /\ Fairness

-----------------------------------------------------------------------------
(* Properties. *)

\* Every variable holds what the code can put there: the worker has a core
\* during a pass, and an object of that core while it writes.
TypeOK ==
  /\ cores \in [Cores -> CoreOf \union {None}]
  /\ live \in [Kinds -> CoreOf \union {None}]
  /\ queue \in SUBSET Cores
  /\ pc \in {"idle", "next", "update", "delete", "create"}
  /\ job \in CoreOf \union {None}
  /\ todo \in SUBSET Kinds
  /\ kind \in Kinds \union {None}
  /\ changed \in BOOLEAN
  /\ job = None <=> pc = "idle"
  /\ kind = None <=> pc \in {"idle", "next"}
  /\ kind # None => kind \in job.kinds \ todo
  /\ pc = "idle" => ~changed
  /\ changes \in Versions
  /\ faults \in 0..MaxFaults
  /\ asked \in SUBSET CoreOf
  /\ removed \in SUBSET (Kinds \X Cores)

(***************************************************************************)
(* The controller does not come to rest before everything a core asks for  *)
(* has been deployed, and its own objects are those of the core as it is;  *)
(* what is missing, somebody else took away after that.                    *)
(***************************************************************************)
RestsOnCurrent ==
  pc = "idle" /\ queue = {} =>
    \A c \in Existing : \A k \in cores[c].kinds :
      IF live[k] = None THEN <<k, c>> \in removed
                        ELSE live[k].core = c => live[k] = cores[c]

(***************************************************************************)
(* What needs the secret and the service account of its core is deployed   *)
(* after them, also when it is replaced and whatever fails.                *)
(***************************************************************************)
PrereqsFirst ==
  [][\A k \in Kinds \ PreReqs :
       live'[k] \notin {live[k], None} =>
         \A p \in PreReqs \intersect live'[k].kinds :
           live[p] = live'[k] \/ <<p, live'[k].core>> \in removed]_vars

\* With no rival a core's objects are left alone in the end: the controller
\* recognises what it has deployed.
SettlesWithoutRival ==
  <>[](\A c, d \in Existing : c = d) => <>[][UNCHANGED live]_live

(***************************************************************************)
(* Once the objects of the only core are as it asks and none of them is in *)
(* hand, they stay as they are until a user changes something, whatever    *)
(* fails: the controller recognises each of them every time.               *)
(***************************************************************************)
Settled ==
  /\ \E c \in Existing :
       /\ Existing = {c}
       /\ \A k \in cores[c].kinds : live[k] = cores[c]
       /\ job \in {None, cores[c]}
  /\ pc \in {"idle", "next"}

StaysSettled ==
  [][Settled /\ UNCHANGED changes =>
       /\ \A c \in Existing : \A k \in cores[c].kinds : live'[k] = live[k]
       /\ Settled']_vars

(***************************************************************************)
(* The objects are what the only core of the cluster wants.  Of an object  *)
(* the core no longer asks for nothing is promised: it stays (the TODO at  *)
(* Create...).  Of two cores neither gets what it asks for.                 *)
(***************************************************************************)
Wanted(k) ==
  IF Existing = {} THEN None
  ELSE IF \E c \in Existing : Existing = {c} /\ k \in cores[c].kinds
    THEN cores[CHOOSE c \in Existing : TRUE]
    ELSE Unspecified

Desired == INSTANCE DesiredState WITH
  Objects <- Kinds,
  Wants <- CoreOf,
  Batches <- {{k} : k \in Kinds},
  wanted <- [k \in Kinds |-> Wanted(k)],
  asked <- [k \in Kinds |-> {c \in asked : k \in c.kinds}],
  deployed <- live

DeploysWhatIsAsked == Desired!Spec

=============================================================================
