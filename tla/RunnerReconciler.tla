-------------------------- MODULE RunnerReconciler --------------------------
(***************************************************************************)
(* The operator's controller of one ScaledActionRunner                     *)
(* (operator/controllers/scaledactionrunner_controller.go, sargenerator):  *)
(* it keeps a StatefulSet of runners and a KEDA ScaledObject in step with  *)
(* the runner and its secrets.  A StatefulSet is never edited: it is       *)
(* deleted and created again, in two calls, between which the operator may *)
(* die.  What the operator reads are its informers' caches, which lag      *)
(* behind what it has just written itself.                                 *)
(*                                                                         *)
(* Every write of the operator is a step, with the reads of the caches     *)
(* that decide it: any time between the two is in the lag of the caches.   *)
(* The runner and the secrets, which the operator does not write, change   *)
(* when its caches learn of it.  They and the objects are changed          *)
(* MaxChanges times by others; MaxFaults calls fail or the operator dies.  *)
(***************************************************************************)
EXTENDS Naturals

CONSTANTS
  \* What a ScaledActionRunner says, by how the operator looks at it:
  Images,           \* what is compared and copied: image, volumes, tolerations...
  Variables,        \* the environment; LABELS of the runnerLabels is one of it
  Servers,          \* the API server whose metric KEDA is to ask for
  Scalings,         \* the behavior of the HPA
  Specs,            \* the specs users write
  Patches,          \* what its JSON patch replaces: "none", or a field that is
                    \* "compared" with the runner, or one that is not; or it is
                    \* "broken" and cannot be applied
  PatchVaries,      \* the user may set, change and remove the patch
  SecretVersions,   \* the contents of the secrets, 0 for a missing one
  MaxChanges,       \* bound: changes by users
  MaxFaults,        \* bound: failed calls and crashes
  None,             \* no object, or nothing said
  Unspecified       \* what cannot be had, or is not seen to

Missing == 0
NoOwner == 0

(***************************************************************************)
(* How a spec is written: as the API server "stored" it; with "raw"        *)
(* resources, which are the same quantity in other words (as the default   *)
(* limit of 2000m); or with a claim template that is "short" of its        *)
(* volumeMode, which the API server fills in.                              *)
(***************************************************************************)
Forms == {"stored", "raw", "short"}

RunnerSpec == [image : Images, env : SUBSET Variables, form : Forms,
               server : Servers, scaling : Scalings \union {None}]

ASSUME ReconcilerAssumption ==
  /\ Specs \subseteq RunnerSpec
  /\ "patched" \notin Images
  /\ Variables \intersect {"image", "extra", "url", "auth", "scaling"} = {}
  /\ Patches \subseteq {"none", "compared", "uncompared", "broken"}
  /\ PatchVaries \in BOOLEAN
  /\ SecretVersions \subseteq Nat \ {Missing}
  /\ MaxChanges \in Nat
  /\ MaxFaults \in Nat

VARIABLES
  runner,     \* the ScaledActionRunner; uid counts its incarnations
  secret,     \* the contents of the secrets it refers to
  ss, so,     \* the StatefulSet and the ScaledObject
  cachedSs, cachedSo,  \* as the operator's informers know them
  queued,     \* the runner's key is in the work queue
  \* The worker, which handles one key at a time:
  pc,         \* the call it is about to make
  config,     \* the runner it read
  planned,    \* updatedSs: what it creates in place of what it deleted
  again,      \* something was modified or failed: the key goes back
  \* The bounds, and history for the properties:
  changes, faults,
  asked       \* asked[o]: what the runner has asked a part of its objects to be

users == <<runner, secret, asked>>
objects == <<ss, so>>
caches == <<cachedSs, cachedSo>>
worker == <<pc, config, planned, again>>
vars == <<users, objects, caches, queued, worker, changes, faults>>

Runner == [exists : BOOLEAN, uid : Nat, spec : Specs, patch : Patches]
Template == [image : Images \union {"patched"}, env : SUBSET Variables,
             extra : {"default", "patched"}, form : Forms \union {"generated"}]
StatefulSet == [template : Template, secrets : SecretVersions \union {Missing},
                patchHash : Template \union {None}, owner : Nat]
ScaledObject == [url : Servers, auth : Servers, scaling : Scalings \union {None}, owner : Nat]

ASSUME NoneAssumption ==
  /\ None \notin StatefulSet /\ None \notin ScaledObject /\ None \notin Runner
  /\ None \notin Template /\ None \notin Scalings

-----------------------------------------------------------------------------
(* What is generated, and what is compared. *)

\* A slip a run must notice: the text of the patch for its result.
PatchedWithText(t, patch) ==
  [t EXCEPT !.image = IF patch = "compared" THEN patch ELSE @]

\* PatchStatefulSet, for a patch that replaces.
Patched(t, patch) ==
  [t EXCEPT !.image = IF patch = "compared" THEN "patched" ELSE @,
            !.extra = IF patch = "uncompared" THEN "patched" ELSE @]

\* Nothing the API server fills in is in what is generated.
TemplateOf(r) ==
  Patched([image |-> r.spec.image, env |-> r.spec.env, extra |-> "default", form |-> "generated"],
          r.patch)

\* The hash of a patched template is that of its whole text, form included.
GenerateStatefulSet(r, secrets) ==
  [template |-> TemplateOf(r), secrets |-> secrets,
   patchHash |-> IF r.patch = "none" THEN None ELSE TemplateOf(r),
   owner |-> r.uid]

\* The API server fills in what is left out and rewrites quantities.
Stored(s) == [s EXCEPT !.template.form = "stored"]

\* A slip a run must notice: the hash of the secrets is left out.
ScaledSetUpdatesOfSpec(s, r, secrets) ==
  LET updated == [s EXCEPT !.template.image = r.spec.image,
                           !.template.env = @ \union r.spec.env,
                           !.template.form = r.spec.form]
  IN  IF r.spec.form # "short" /\ Stored(updated) = s THEN None ELSE updated

(***************************************************************************)
(* getScaledSetUpdates, None if there are none.  SetEnvVars adds variables *)
(* and overwrites them; one the runner no longer has it does not remove,   *)
(* nor miss.  A claim template without volumeMode differs from any stored  *)
(* one.  Resources are compared by their value, but copied as written into *)
(* whatever is updated.                                                    *)
(***************************************************************************)
ScaledSetUpdates(s, r, secrets) ==
  LET updated == [s EXCEPT !.template.image = r.spec.image,
                           !.template.env = @ \union r.spec.env,
                           !.template.form = r.spec.form,
                           !.secrets = secrets]
  IN  IF r.spec.form # "short" /\ Stored(updated) = s THEN None ELSE updated

\* What a patch is applied to.
PatchBase(s, r, secrets) ==
  LET updated == ScaledSetUpdates(s, r, secrets)
  IN  IF updated = None THEN s ELSE updated

\* Slips runs must notice: the hash is not recorded, or not what it is of, or
\* what is recorded is not what it is compared with.
ReplacementUnhashed(s, r, secrets) ==
  LET base == PatchBase(s, r, secrets)
      patched == Patched(base.template, r.patch)
  IN  CASE r.patch = "none" -> ScaledSetUpdates(s, r, secrets)
        [] r.patch # "none" /\ s.patchHash = patched -> None
        [] OTHER -> [base EXCEPT !.template = patched]

ReplacementUnpatched(s, r, secrets) ==
  LET base == PatchBase(s, r, secrets)
      patched == Patched(base.template, r.patch)
  IN  CASE r.patch = "none" -> ScaledSetUpdates(s, r, secrets)
        [] r.patch # "none" /\ s.patchHash = patched -> None
        [] OTHER -> [base EXCEPT !.patchHash = patched]

ReplacementOfGenerated(s, r, secrets) ==
  LET base == PatchBase(s, r, secrets)
      patched == Patched(base.template, r.patch)
  IN  CASE r.patch = "none" -> ScaledSetUpdates(s, r, secrets)
        [] r.patch # "none" /\ s.patchHash = [patched EXCEPT !.form = "generated"] -> None
        [] OTHER -> [base EXCEPT !.template = patched, !.patchHash = patched]

(***************************************************************************)
(* What a StatefulSet is to be replaced with, None if it can stay.  With a *)
(* patch nothing but the patched template decides.                         *)
(***************************************************************************)
Replacement(s, r, secrets) ==
  LET base == PatchBase(s, r, secrets)
      patched == Patched(base.template, r.patch)
  IN  CASE r.patch = "none" -> ScaledSetUpdates(s, r, secrets)
        [] r.patch # "none" /\ s.patchHash = patched -> None
        [] OTHER -> [base EXCEPT !.template = patched, !.patchHash = patched]

\* A slip a run must notice: the ScaledObject has no owner.
GenerateScaledObjectUnowned(r) ==
  [url |-> r.spec.server, auth |-> r.spec.server, scaling |-> r.spec.scaling, owner |-> NoOwner]

GenerateScaledObject(r) ==
  [url |-> r.spec.server, auth |-> r.spec.server, scaling |-> r.spec.scaling, owner |-> r.uid]

\* A slip a run must notice: a behavior is set once.
ScaledObjectUpdatesOnce(s, r) ==
  [s EXCEPT !.url = r.spec.server,
            !.scaling = IF @ = None THEN r.spec.scaling ELSE @]

(***************************************************************************)
(* assignScaledObjectPropsFromRunner: the limits and the url follow the    *)
(* runner, a behavior only while there is one, the authentication never.   *)
(***************************************************************************)
ScaledObjectUpdates(s, r) ==
  [s EXCEPT !.url = r.spec.server,
            !.scaling = IF r.spec.scaling = None THEN @ ELSE r.spec.scaling]

-----------------------------------------------------------------------------
(* What a runner asks its objects to be, part by part. *)

PodParts == {"image", "extra"} \union Variables
Parts == PodParts \union {"url", "auth", "scaling"}

PodPart(t, o) ==
  IF o \in Variables THEN IF o \in t.env THEN "set" ELSE None
  ELSE IF o = "image" THEN t.image ELSE t.extra

ScalingPart(s, o) ==
  IF o = "url" THEN s.url ELSE IF o = "auth" THEN s.auth ELSE s.scaling

RequestOf(r) ==
  [o \in Parts |-> IF o \in PodParts THEN PodPart(TemplateOf(r), o)
                                     ELSE ScalingPart(GenerateScaledObject(r), o)]

Contents == Images \union Servers \union Scalings \union {"patched", "default", "set", None}

-----------------------------------------------------------------------------
Init ==
  /\ \E s \in Specs, p \in Patches :
       /\ runner = [exists |-> TRUE, uid |-> 1, spec |-> s, patch |-> p]
       /\ asked = [o \in Parts |-> {RequestOf(runner)[o]}]
  /\ secret \in SecretVersions \union {Missing}
  /\ ss = None
  /\ so = None
  /\ cachedSs = None
  /\ cachedSo = None
  /\ queued = TRUE
  /\ pc = "idle"
  /\ config = None
  /\ planned = None
  /\ again = FALSE
  /\ changes = 0
  /\ faults = 0

Change == changes < MaxChanges /\ changes' = changes + 1
Fault == faults < MaxFaults /\ faults' = faults + 1

(***************************************************************************)
(* The cluster's users and controllers.                                    *)
(***************************************************************************)
\* A runner is created or edited; it is watched.
PutRunner ==
  /\ Change
  /\ \E s \in Specs, p \in Patches :
       /\ PatchVaries \/ p = runner.patch
       /\ runner' = [exists |-> TRUE, spec |-> s, patch |-> p,
                     uid |-> IF runner.exists THEN runner.uid ELSE runner.uid + 1]
  /\ runner' # runner
  /\ asked' = [o \in Parts |-> asked[o] \union {RequestOf(runner')[o]}]
  /\ queued' = TRUE
  /\ UNCHANGED <<secret, objects, caches, worker, faults>>

DeleteRunner ==
  /\ Change
  /\ runner.exists
  /\ runner' = [runner EXCEPT !.exists = FALSE]
  /\ queued' = TRUE
  /\ UNCHANGED <<secret, asked, objects, caches, worker, faults>>

(***************************************************************************)
(* A secret is edited, deleted or created.  Nothing wakes this controller: *)
(* the secret controller writes a status through Update, which the API     *)
(* server drops because status is a subresource.                           *)
(***************************************************************************)
PutSecret ==
  /\ Change
  /\ secret' \in (SecretVersions \union {Missing}) \ {secret}
  /\ UNCHANGED <<runner, asked, objects, caches, queued, worker, faults>>

\* Somebody else deletes an object.
DeleteObject ==
  /\ Change
  /\ \/ ss # None /\ ss' = None /\ UNCHANGED so
     \/ so # None /\ so' = None /\ UNCHANGED ss
  /\ UNCHANGED <<users, caches, queued, worker, faults>>

\* The cluster's garbage collector, for an object whose owner is gone.
Orphaned(o) ==
  /\ o # None
  /\ o.owner # NoOwner
  /\ runner.exists => o.owner # runner.uid

Collect ==
  /\ \/ Orphaned(ss) /\ ss' = None /\ UNCHANGED so
     \/ Orphaned(so) /\ so' = None /\ UNCHANGED ss
  /\ UNCHANGED <<users, caches, queued, worker, changes, faults>>

\* The informer of the StatefulSets catches up; their owner is woken.
SeeStatefulSet ==
  /\ cachedSs # ss
  /\ cachedSs' = ss
  /\ queued' = TRUE
  /\ UNCHANGED <<users, objects, cachedSo, worker, changes, faults>>

\* The informer of the ScaledObjects catches up; nobody watches them.
SeeScaledObject ==
  /\ cachedSo # so
  /\ cachedSo' = so
  /\ UNCHANGED <<users, objects, cachedSs, queued, worker, changes, faults>>

\* A slip a run must notice: nothing is looked at again after a restart.
WokenByNothing == FALSE

\* What the first listing after a start, and every resync after it, finds.
WokenByListing == runner.exists \/ ss # None

\* controller-runtime goes through its caches again every ten hours.
Resync ==
  /\ ~queued
  /\ WokenByListing
  /\ queued' = TRUE
  /\ UNCHANGED <<users, objects, caches, worker, changes, faults>>

-----------------------------------------------------------------------------
(* Reconcile. *)

(***************************************************************************)
(* A key is taken, the runner is read and validated.  Without the secrets  *)
(* it names, as when the core cannot be read, the key goes straight back.  *)
(***************************************************************************)
Begin ==
  /\ pc = "idle"
  /\ queued
  /\ runner.exists => secret # Missing
  /\ queued' = FALSE
  /\ config' = runner
  /\ pc' = IF runner.exists THEN "statefulset" ELSE "delete scaledobject"
  /\ UNCHANGED <<users, objects, caches, planned, again, changes, faults>>

\* The worker's bookkeeping between two calls.
Proceed(step, due) == pc' = step /\ again' = (again \/ due) /\ UNCHANGED <<config, queued>>

\* The last call: the key goes back if anything was modified or failed.
Finish(due) ==
  /\ queued' = (queued \/ again \/ due)
  /\ pc' = "idle"
  /\ config' = None
  /\ planned' = None
  /\ again' = FALSE

\* A write has its effect, or fails, which may still have had it.
Call(effect, none) == (effect /\ UNCHANGED faults) \/ (Fault /\ (effect \/ none))

\* The hash of the secrets cannot be had, as the token is gone since, or the
\* patch cannot be applied; the ScaledObject is synced all the same.
FailStatefulSet ==
  /\ pc = "statefulset"
  /\ secret = Missing \/ config.patch = "broken"
  /\ Proceed("scaledobject", TRUE)
  /\ UNCHANGED <<users, objects, caches, planned, changes, faults>>

\* The statefulset's turn.  If it is the secret of a runner that is gone since,
\* this is logged and the hash is that of the others.
SyncStatefulSet == pc = "statefulset" /\ config.patch # "broken"

\* What is created already exists if the cache was late: an error.
CreateStatefulSet ==
  /\ SyncStatefulSet
  /\ cachedSs = None
  /\ Call(ss' = IF ss = None THEN Stored(GenerateStatefulSet(config, secret)) ELSE ss, ss' = ss)
  /\ Proceed("scaledobject", TRUE)
  /\ UNCHANGED <<users, so, caches, planned, changes>>

KeepStatefulSet ==
  /\ SyncStatefulSet
  /\ cachedSs # None
  /\ Replacement(cachedSs, config, secret) = None
  /\ Proceed("scaledobject", FALSE)
  /\ UNCHANGED <<users, objects, caches, planned, changes, faults>>

\* The delete is by name; its error is only logged.
DeleteStatefulSet ==
  /\ SyncStatefulSet
  /\ cachedSs # None
  /\ planned' = Replacement(cachedSs, config, secret)
  /\ planned' # None
  /\ Call(ss' = None, ss' = ss)
  /\ Proceed("recreate", TRUE)
  /\ UNCHANGED <<users, so, caches, changes>>

\* After the cache has seen the delete, or after 60 looks at it; the error
\* of the create is only logged as well.
RecreateStatefulSet ==
  /\ pc = "recreate"
  /\ Call(ss' = IF ss = None THEN Stored(planned) ELSE ss, ss' = ss)
  /\ planned' = None
  /\ Proceed("scaledobject", TRUE)
  /\ UNCHANGED <<users, so, caches, changes>>

CreateScaledObject ==
  /\ pc = "scaledobject"
  /\ cachedSo = None
  /\ Call(so' = IF so = None THEN GenerateScaledObject(config) ELSE so, so' = so)
  /\ Finish(TRUE)
  /\ UNCHANGED <<users, ss, caches, changes>>

\* The update names the version in the cache: a late cache is a conflict.
UpdateScaledObject ==
  /\ pc = "scaledobject"
  /\ cachedSo # None
  /\ ScaledObjectUpdates(cachedSo, config) # cachedSo
  /\ Call(so' = IF so = cachedSo THEN ScaledObjectUpdates(so, config) ELSE so, so' = so)
  /\ Finish(TRUE)
  /\ UNCHANGED <<users, ss, caches, changes>>

KeepScaledObject ==
  /\ pc = "scaledobject"
  /\ cachedSo # None
  /\ ScaledObjectUpdates(cachedSo, config) = cachedSo
  /\ Finish(FALSE)
  /\ UNCHANGED <<users, objects, caches, changes, faults>>

(***************************************************************************)
(* deleteDependant, for each of the objects of a runner that is gone: what *)
(* the cache does not know is left alone, what is gone already is an error.*)
(***************************************************************************)
CleanUpScaledObject ==
  /\ pc = "delete scaledobject"
  /\ \/ cachedSo = None /\ UNCHANGED <<so, faults>>
     \/ cachedSo # None /\ Call(so' = None, so' = so)
  /\ Proceed("delete statefulset", (cachedSo # None /\ so = None) \/ faults' # faults)
  /\ UNCHANGED <<users, ss, caches, planned, changes>>

CleanUpStatefulSet ==
  /\ pc = "delete statefulset"
  /\ \/ cachedSs = None /\ UNCHANGED <<ss, faults>>
     \/ cachedSs # None /\ Call(ss' = None, ss' = ss)
  /\ Finish((cachedSs # None /\ ss = None) \/ faults' # faults)
  /\ UNCHANGED <<users, so, caches, changes>>

\* The operator dies and starts again: it lists everything afresh.
Restart ==
  /\ Fault
  /\ cachedSs' = ss
  /\ cachedSo' = so
  /\ queued' = WokenByListing
  /\ pc' = "idle"
  /\ config' = None
  /\ planned' = None
  /\ again' = FALSE
  /\ UNCHANGED <<users, objects, changes>>

Reconcile ==
  \/ Begin
  \/ FailStatefulSet \/ CreateStatefulSet \/ KeepStatefulSet
  \/ DeleteStatefulSet \/ RecreateStatefulSet
  \/ CreateScaledObject \/ UpdateScaledObject \/ KeepScaledObject
  \/ CleanUpScaledObject \/ CleanUpStatefulSet

Users == PutRunner \/ DeleteRunner \/ PutSecret \/ DeleteObject

Next == Users \/ Collect \/ SeeStatefulSet \/ SeeScaledObject \/ Resync \/ Reconcile \/ Restart

\* The worker runs, watches deliver, the resync and the garbage collector
\* come round; none of them is this code, all of them are what it runs on.
Fairness ==
  /\ WF_vars(Reconcile)
  /\ WF_vars(SeeStatefulSet)
  /\ WF_vars(SeeScaledObject)
  /\ WF_vars(Resync)
  /\ WF_vars(Collect)

Spec == Init /\ [][Next]_vars /\ Fairness

-----------------------------------------------------------------------------
(* Properties. *)

\* Every variable holds what the code can put there.
TypeOK ==
  /\ runner \in Runner
  /\ secret \in SecretVersions \union {Missing}
  /\ ss \in StatefulSet \union {None}
  /\ so \in ScaledObject \union {None}
  /\ cachedSs \in StatefulSet \union {None}
  /\ cachedSo \in ScaledObject \union {None}
  /\ queued \in BOOLEAN
  /\ pc \in {"idle", "statefulset", "recreate", "scaledobject",
             "delete scaledobject", "delete statefulset"}
  /\ config \in Runner \union {None}
  /\ planned \in StatefulSet \union {None}
  /\ again \in BOOLEAN
  /\ changes \in 0..MaxChanges
  /\ faults \in 0..MaxFaults
  /\ asked \in [Parts -> SUBSET Contents]

\* There is nothing the operator knows of that it has yet to do.
AtRest == pc = "idle" /\ ~queued /\ cachedSs = ss

\* A template has all that a runner asks for.
Meets(t, r) ==
  /\ t.image = TemplateOf(r).image
  /\ t.extra = TemplateOf(r).extra
  /\ r.spec.env \subseteq t.env

(***************************************************************************)
(* Whatever was interrupted, missed or raced with, the operator does not   *)
(* come to rest before the StatefulSet exists and has all that the runner  *)
(* asks for.  It may have variables the runner used to have besides.       *)
(***************************************************************************)
RestsOnCurrent ==
  AtRest /\ runner.exists => ss # None /\ Meets(ss.template, runner)

\* At rest, a patch the runner has is in the StatefulSet.
PatchApplied ==
  AtRest /\ runner.exists /\ ss # None =>
    ss.template = Patched(ss.template, runner.patch)

\* A StatefulSet that never looks like the one that is asked for: it is
\* deleted and created again at every pass.
Churns == runner.exists /\ runner.spec.form = "short" /\ runner.patch = "none"

\* A changed secret reaches the pods in the end, although the operator is
\* not told of it; with a patch it need not.
RotationReachesPods ==
  \A v \in SecretVersions :
    <>[](runner.exists /\ runner.patch = "none" /\ ~Churns /\ secret = v)
      => <>[](ss # None /\ ss.secrets = v)

\* The ScaledObject is restored and follows the runner, unwatched as it is,
\* but for a behavior that is no longer asked for.
ScaledObjectFollows ==
  \A s \in Specs :
    <>[](runner.exists /\ runner.spec = s /\ secret # Missing)
      => <>[](so # None /\ so.url = s.server /\ s.scaling \in {None, so.scaling})

\* Of a runner that is gone nothing is left, whatever the caches missed.
NothingLeftBehind == <>[](~runner.exists) => <>[](ss = None /\ so = None)

\* The operator and the cluster come to terms: the objects are left alone,
\* and a patch does not make a StatefulSet look changed for ever; but a claim
\* template without volumeMode does.
Settles == <>[](~Churns) => <>[][UNCHANGED objects]_objects

\* The annotation, or without a patch the rest of the StatefulSet, is what the
\* next pass will compare it with.
Agrees(s, r, secrets) ==
  CASE r.patch = "none" -> r.spec.form # "short" /\ s.secrets = secrets
    [] r.patch # "none" ->
         LET form == IF r.spec.form = "short" \/ r.patch = "compared" \/ s.secrets # secrets
                     THEN r.spec.form ELSE "stored"
         IN  s.patchHash = [s.template EXCEPT !.form = form]

(***************************************************************************)
(* Once both objects have what the runner asks for, the caches know it and *)
(* no replacement is under way, the operator leaves the objects alone      *)
(* until a user changes something: no call that fails, no restart and no   *)
(* resync makes it delete the pods.  Of a patched StatefulSet it must have *)
(* seen the one it has created itself in place of the first; one with a    *)
(* short claim template it must have patched.                              *)
(***************************************************************************)
Settled ==
  /\ runner.exists /\ secret # Missing
  /\ cachedSs = ss /\ cachedSo = so
  /\ ss # None /\ ss.owner = runner.uid
  /\ Meets(ss.template, runner) /\ Agrees(ss, runner, secret)
  /\ so # None /\ so.owner = runner.uid
  /\ so.url = runner.spec.server /\ runner.spec.scaling \in {None, so.scaling}
  /\ pc \in {"idle", "statefulset", "scaledobject"}
  /\ config \in {None, runner}

StaysSettled == [][Settled /\ UNCHANGED changes => UNCHANGED objects /\ Settled']_vars

(***************************************************************************)
(* The StatefulSet and the ScaledObject are what their user wants, part by *)
(* part: no part is ever anything it was not asked to be, all parts of one *)
(* object come and go together, and in the end each is what is asked for.  *)
(* What the operator does not see to is unspecified: a variable or a       *)
(* behavior that is asked for no more, another server's authentication,    *)
(* and a StatefulSet that cannot be made or is never left alone.           *)
(***************************************************************************)
Unattended(o) ==
  \/ secret = Missing
  \/ o \in PodParts /\ (Churns \/ runner.patch = "broken")
  \/ o \in Variables \union {"scaling"} /\ RequestOf(runner)[o] = None /\ asked[o] # {None}
  \/ o = "auth" /\ asked[o] # {runner.spec.server}

Wanted(o) ==
  IF ~runner.exists THEN None
  ELSE IF Unattended(o) THEN Unspecified ELSE RequestOf(runner)[o]

Deployed(o) ==
  IF o \in PodParts THEN IF ss = None THEN None ELSE PodPart(ss.template, o)
                    ELSE IF so = None THEN None ELSE ScalingPart(so, o)

Desired == INSTANCE DesiredState WITH
  Objects <- Parts,
  Wants <- Contents,
  Batches <- {PodParts, Parts \ PodParts},
  wanted <- [o \in Parts |-> Wanted(o)],
  asked <- asked,
  deployed <- [o \in Parts |-> Deployed(o)]

DeploysWhatIsAsked == Desired!Spec

=============================================================================
