------------------------ MODULE RunnerReconcilerProofs ------------------------
(* Theorems about the reconciler of one ScaledActionRunner.                  *)
EXTENDS RunnerReconciler, TLAPS

-----------------------------------------------------------------------------
LEMMA Bounds == MaxChanges \in Nat /\ MaxFaults \in Nat
  BY ReconcilerAssumption

Versions == SecretVersions \union {Missing}

LEMMA RunnerHas ==
  ASSUME NEW r \in Runner
  PROVE  /\ r.spec \in Specs /\ r.uid \in Nat
         /\ r.spec.image \in Images /\ r.spec.env \in SUBSET Variables
         /\ r.spec.form \in Forms /\ r.spec.server \in Servers
         /\ r.spec.scaling \in Scalings \union {None}
  <1>1. r.spec \in Specs /\ r.uid \in Nat
    BY DEF Runner
  <1>2. r.spec \in RunnerSpec
    BY <1>1, ReconcilerAssumption
  <1> QED
    BY <1>1, <1>2 DEF RunnerSpec

(* What is generated. *)

LEMMA SameTemplate ==
  ASSUME NEW s \in Template, NEW t \in Template,
         s.image = t.image, s.env = t.env, s.extra = t.extra, s.form = t.form
  PROVE  s = t
  BY DEF Template

LEMMA PatchedIs ==
  ASSUME NEW t \in Template, NEW p
  PROVE  /\ Patched(t, p) \in Template
         /\ Patched(t, p).image = IF p = "compared" THEN "patched" ELSE t.image
         /\ Patched(t, p).env = t.env
         /\ Patched(t, p).extra = IF p = "uncompared" THEN "patched" ELSE t.extra
         /\ Patched(t, p).form = t.form
  BY DEF Patched, Template

LEMMA TemplateOfIs ==
  ASSUME NEW r \in Runner
  PROVE  /\ TemplateOf(r) \in Template
         /\ TemplateOf(r).image = IF r.patch = "compared" THEN "patched" ELSE r.spec.image
         /\ TemplateOf(r).env = r.spec.env
         /\ TemplateOf(r).extra = IF r.patch = "uncompared" THEN "patched" ELSE "default"
  <1> DEFINE t == [image |-> r.spec.image, env |-> r.spec.env,
                   extra |-> "default", form |-> "generated"]
  <1>1. t \in Template
    BY RunnerHas DEF Template
  <1> QED
    BY <1>1, PatchedIs DEF TemplateOf

LEMMA GeneratedType ==
  ASSUME NEW r \in Runner, NEW v \in Versions
  PROVE  /\ GenerateStatefulSet(r, v) \in StatefulSet
         /\ GenerateStatefulSet(r, v).template = TemplateOf(r)
         /\ r.patch # "none" => GenerateStatefulSet(r, v).patchHash = TemplateOf(r)
         /\ GenerateScaledObject(r) \in ScaledObject
  BY RunnerHas, TemplateOfIs
  DEF GenerateStatefulSet, GenerateScaledObject, StatefulSet, ScaledObject, Versions

\* The API server only changes the form.
LEMMA StoredIs ==
  ASSUME NEW s \in StatefulSet
  PROVE  /\ Stored(s) \in StatefulSet
         /\ Stored(s).template.image = s.template.image
         /\ Stored(s).template.env = s.template.env
         /\ Stored(s).template.extra = s.template.extra
         /\ Stored(s).template.form = "stored"
         /\ Stored(s).secrets = s.secrets
         /\ Stored(s).patchHash = s.patchHash
         /\ Stored(s).owner = s.owner
  BY DEF Stored, StatefulSet, Template, Forms

\* A StatefulSet with what a runner says merged into it.
Merged(s, r, v) == [s EXCEPT !.template.image = r.spec.image,
                             !.template.env = @ \union r.spec.env,
                             !.template.form = r.spec.form,
                             !.secrets = v]

LEMMA MergedIs ==
  ASSUME NEW s \in StatefulSet, NEW r \in Runner, NEW v \in Versions
  PROVE  /\ Merged(s, r, v) \in StatefulSet
         /\ Merged(s, r, v).template.image = r.spec.image
         /\ Merged(s, r, v).template.env = s.template.env \union r.spec.env
         /\ Merged(s, r, v).template.extra = s.template.extra
         /\ Merged(s, r, v).template.form = r.spec.form
         /\ Merged(s, r, v).secrets = v
         /\ Merged(s, r, v).patchHash = s.patchHash
         /\ Merged(s, r, v).owner = s.owner
  BY RunnerHas DEF Merged, StatefulSet, Template, Versions

LEMMA UpdatesAre ==
  ASSUME NEW s \in StatefulSet, NEW r \in Runner, NEW v \in Versions
  PROVE  /\ ScaledSetUpdates(s, r, v) = IF r.spec.form # "short" /\ Stored(Merged(s, r, v)) = s
                                        THEN None ELSE Merged(s, r, v)
         /\ ScaledSetUpdates(s, r, v) = None <=>
              r.spec.form # "short" /\ Stored(Merged(s, r, v)) = s
  <1>1. Merged(s, r, v) # None
    BY MergedIs, NoneAssumption
  <1> QED
    BY <1>1 DEF ScaledSetUpdates, Merged

\* What a patch is applied to has all a runner says.
LEMMA PatchBaseIs ==
  ASSUME NEW s \in StatefulSet, NEW r \in Runner, NEW v \in Versions
  PROVE  LET b == PatchBase(s, r, v)
         IN  /\ b \in StatefulSet
             /\ b.template.image = r.spec.image
             /\ b.template.env = s.template.env \union r.spec.env
             /\ b.template.extra = s.template.extra
             /\ b.template.form = IF ScaledSetUpdates(s, r, v) = None THEN "stored" ELSE r.spec.form
  <1> DEFINE m == Merged(s, r, v)
  <1>1. CASE ScaledSetUpdates(s, r, v) = None
    <2>1. s = Stored(m) /\ PatchBase(s, r, v) = s
      BY <1>1, UpdatesAre DEF PatchBase
    <2> QED
      BY <1>1, <2>1, MergedIs, StoredIs
  <1>2. CASE ScaledSetUpdates(s, r, v) # None
    <2>1. PatchBase(s, r, v) = m
      BY <1>2, UpdatesAre DEF PatchBase
    <2> QED
      BY <1>2, <2>1, MergedIs
  <1> QED
    BY <1>1, <1>2

\* A replacement is the StatefulSet with what its runner says merged into it,
\* and with its template patched.
LEMMA ReplacementIs ==
  ASSUME NEW s \in StatefulSet, NEW r \in Runner, NEW v \in Versions,
         Replacement(s, r, v) # None
  PROVE  LET n == Replacement(s, r, v)
         IN  /\ n \in StatefulSet
             /\ n.template.image = TemplateOf(r).image
             /\ n.template.env = s.template.env \union r.spec.env
             /\ n.template.extra = IF r.patch = "uncompared" THEN "patched" ELSE s.template.extra
             /\ r.patch # "none" => n.patchHash = n.template
  <1> DEFINE b == PatchBase(s, r, v)
             p == Patched(b.template, r.patch)
  <1>1. /\ b \in StatefulSet
        /\ b.template.image = r.spec.image
        /\ b.template.env = s.template.env \union r.spec.env
        /\ b.template.extra = s.template.extra
    BY PatchBaseIs
  <1>2. b.template \in Template
    BY <1>1 DEF StatefulSet
  <1>3. /\ p \in Template
        /\ p.image = TemplateOf(r).image
        /\ p.env = b.template.env
        /\ p.extra = IF r.patch = "uncompared" THEN "patched" ELSE b.template.extra
    BY <1>1, <1>2, PatchedIs, TemplateOfIs
  <1>4. CASE r.patch = "none"
    <2>1. Replacement(s, r, v) = ScaledSetUpdates(s, r, v)
      BY <1>4 DEF Replacement
    <2>2. Replacement(s, r, v) = b
      BY <2>1 DEF PatchBase
    <2>3. TemplateOf(r).image = r.spec.image
      BY <1>4, TemplateOfIs
    <2> QED
      BY <1>1, <1>4, <2>2, <2>3
  <1>5. CASE r.patch # "none"
    <2> DEFINE n == [b EXCEPT !.template = p, !.patchHash = p]
    <2>1. Replacement(s, r, v) = n
      BY <1>5 DEF Replacement
    <2>2. n \in StatefulSet /\ n.template = p /\ n.patchHash = p
      BY <1>1, <1>3 DEF StatefulSet
    <2> QED
      BY <1>1, <1>3, <1>5, <2>1, <2>2
  <1> QED
    BY <1>4, <1>5

LEMMA ScaledObjectUpdatesAre ==
  ASSUME NEW s \in ScaledObject, NEW r \in Runner
  PROVE  LET n == ScaledObjectUpdates(s, r)
         IN  /\ n \in ScaledObject
             /\ n.url = r.spec.server
             /\ n.auth = s.auth
             /\ n.scaling = IF r.spec.scaling = None THEN s.scaling ELSE r.spec.scaling
  BY RunnerHas DEF ScaledObjectUpdates, ScaledObject

(* Part by part. *)

LEMMA PodPartIs ==
  ASSUME NEW t \in Template
  PROVE  /\ PodPart(t, "image") = t.image
         /\ PodPart(t, "extra") = t.extra
         /\ \A o \in Variables : PodPart(t, o) = IF o \in t.env THEN "set" ELSE None
         /\ \A o \in PodParts : PodPart(t, o) \in Contents
  <1>1. "image" \notin Variables /\ "extra" \notin Variables
    BY ReconcilerAssumption
  <1> QED
    BY <1>1 DEF PodPart, PodParts, Contents, Template

LEMMA ScalingPartIs ==
  ASSUME NEW s \in ScaledObject
  PROVE  /\ ScalingPart(s, "url") = s.url
         /\ ScalingPart(s, "auth") = s.auth
         /\ ScalingPart(s, "scaling") = s.scaling
         /\ \A o \in Parts \ PodParts : ScalingPart(s, o) \in Contents
  BY DEF ScalingPart, PodParts, Parts, Contents, ScaledObject

LEMMA RequestOfType ==
  ASSUME NEW r \in Runner
  PROVE  RequestOf(r) \in [Parts -> Contents]
  <1>1. TemplateOf(r) \in Template /\ GenerateScaledObject(r) \in ScaledObject
    BY TemplateOfIs, GeneratedType DEF Versions
  <1>2. ASSUME NEW o \in Parts
        PROVE  (IF o \in PodParts THEN PodPart(TemplateOf(r), o)
                                  ELSE ScalingPart(GenerateScaledObject(r), o)) \in Contents
    BY <1>1, PodPartIs, ScalingPartIs
  <1> QED
    BY <1>2 DEF RequestOf

LEMMA RequestOfSame ==
  ASSUME NEW q, NEW r, q.spec = r.spec, q.patch = r.patch
  PROVE  RequestOf(q) = RequestOf(r)
  BY DEF RequestOf, TemplateOf, GenerateScaledObject, ScalingPart

-----------------------------------------------------------------------------
(* Types. *)

\* TypeOK and what makes it inductive: the worker has a runner during a pass,
\* and a replacement between the delete and the create.  What there is, is in
\* the form the API server has stored it in.
StepInv ==
  /\ TypeOK
  /\ \A s \in {ss, cachedSs} : s # None => s.template.form = "stored"
  /\ config = None <=> pc = "idle"
  /\ pc = "idle" => ~again
  /\ pc = "recreate" => again /\ planned # None

LEMMA NextIncarnation ==
  ASSUME NEW r \in Runner, NEW s \in Specs, NEW p \in Patches
  PROVE  [exists |-> TRUE, spec |-> s, patch |-> p,
          uid |-> IF r.exists THEN r.uid ELSE r.uid + 1] \in Runner
  <1>1. r.uid \in Nat
    BY DEF Runner
  <1>2. r.uid + 1 \in Nat
    BY <1>1
  <1> QED
    BY <1>1, <1>2 DEF Runner

LEMMA StepInit == Init => StepInv
  <1> SUFFICES ASSUME Init PROVE StepInv
    OBVIOUS
  <1>1. PICK s \in Specs, p \in Patches :
          /\ runner = [exists |-> TRUE, uid |-> 1, spec |-> s, patch |-> p]
          /\ asked = [o \in Parts |-> {RequestOf(runner)[o]}]
    BY DEF Init
  <1>2. runner \in Runner
    BY <1>1 DEF Runner
  <1>3. RequestOf(runner) \in [Parts -> Contents]
    BY <1>2, RequestOfType
  <1>4. asked \in [Parts -> SUBSET Contents]
    BY <1>1, <1>3
  <1>5. changes \in 0..MaxChanges /\ faults \in 0..MaxFaults
    BY Bounds DEF Init
  <1>6. /\ secret \in SecretVersions \union {Missing}
        /\ ss = None /\ so = None /\ cachedSs = None /\ cachedSo = None
        /\ queued = TRUE /\ pc = "idle" /\ config = None /\ planned = None /\ again = FALSE
    BY DEF Init
  <1> QED
    BY <1>2, <1>4, <1>5, <1>6 DEF StepInv, TypeOK

\* What more is asked for.
LEMMA AskedMore ==
  ASSUME PutRunner, asked \in [Parts -> SUBSET Contents], runner \in Runner
  PROVE  /\ runner' \in Runner
         /\ asked' \in [Parts -> SUBSET Contents]
         /\ \A o \in Parts : asked'[o] = asked[o] \union {RequestOf(runner')[o]}
  <1>1. runner' \in Runner
    BY NextIncarnation DEF PutRunner
  <1>2. RequestOf(runner') \in [Parts -> Contents]
    BY <1>1, RequestOfType
  <1>3. asked' = [o \in Parts |-> asked[o] \union {RequestOf(runner')[o]}]
    BY DEF PutRunner
  <1>4. ASSUME NEW o \in Parts PROVE asked[o] \union {RequestOf(runner')[o]} \in SUBSET Contents
    BY <1>2
  <1> QED
    BY <1>1, <1>3, <1>4

LEMMA StepOthers ==
  ASSUME StepInv, Users \/ Collect \/ SeeStatefulSet \/ SeeScaledObject \/ Resync
  PROVE  StepInv'
  <1>b. changes \in 0..MaxChanges
    BY DEF StepInv, TypeOK
  <1>c. Change => changes' \in 0..MaxChanges
    BY <1>b, Bounds DEF Change
  <1> USE DEF StepInv, TypeOK
  <1>1. CASE PutRunner
    <2>1. runner' \in Runner /\ asked' \in [Parts -> SUBSET Contents]
      BY <1>1, AskedMore
    <2> QED
      BY <1>1, <1>c, <2>1 DEF PutRunner, objects, caches, worker
  <1>2. CASE DeleteRunner
    <2>1. runner' \in Runner
      BY <1>2 DEF DeleteRunner, Runner
    <2> QED
      BY <1>2, <1>c, <2>1 DEF DeleteRunner, objects, caches, worker
  <1>3. CASE PutSecret
    BY <1>3, <1>c DEF PutSecret, objects, caches, worker
  <1>4. CASE DeleteObject
    BY <1>4, <1>c DEF DeleteObject, users, caches, worker
  <1>5. CASE Collect
    BY <1>5 DEF Collect, users, caches, worker
  <1>6. CASE SeeStatefulSet
    BY <1>6 DEF SeeStatefulSet, users, objects, worker
  <1>7. CASE SeeScaledObject
    BY <1>7 DEF SeeScaledObject, users, objects, worker
  <1>8. CASE Resync
    BY <1>8 DEF Resync, users, objects, caches, worker
  <1> QED
    BY <1>1, <1>2, <1>3, <1>4, <1>5, <1>6, <1>7, <1>8 DEF Users

LEMMA StepReconcile ==
  ASSUME StepInv, Reconcile
  PROVE  StepInv'
  <1>a. (faults' = faults \/ Fault) /\ UNCHANGED <<users, changes>>
    BY DEF Reconcile, Begin, FailStatefulSet, CreateStatefulSet, KeepStatefulSet,
           DeleteStatefulSet, RecreateStatefulSet, CreateScaledObject, UpdateScaledObject,
           KeepScaledObject, CleanUpScaledObject, CleanUpStatefulSet, Call
  <1>b. faults \in 0..MaxFaults
    BY DEF StepInv, TypeOK
  <1>f. faults' \in 0..MaxFaults /\ UNCHANGED <<users, changes>>
    BY <1>a, <1>b, Bounds DEF Fault
  <1> USE DEF StepInv, TypeOK
  <1>v. secret \in Versions
    BY DEF Versions
  <1>r. pc # "idle" => config \in Runner
    OBVIOUS
  <1>1. CASE Begin
    BY <1>1, <1>f, NoneAssumption DEF Begin, users, objects, caches
  <1>2. CASE FailStatefulSet \/ KeepStatefulSet
    BY <1>2, <1>f
    DEF FailStatefulSet, KeepStatefulSet, SyncStatefulSet, Proceed, users, objects, caches
  <1>3. CASE CreateStatefulSet
    <2> DEFINE n == Stored(GenerateStatefulSet(config, secret))
    <2>1. n \in StatefulSet /\ n.template.form = "stored"
      BY <1>3, <1>v, <1>r, GeneratedType, StoredIs DEF CreateStatefulSet, SyncStatefulSet
    <2>2. ss' \in {ss, n}
      BY <1>3 DEF CreateStatefulSet, Call
    <2>3. /\ pc' = "scaledobject" /\ again' \in BOOLEAN
          /\ UNCHANGED <<config, queued, so, caches, planned>>
      BY <1>3 DEF CreateStatefulSet, Proceed
    <2>4. pc # "idle"
      BY <1>3 DEF CreateStatefulSet, SyncStatefulSet
    <2> HIDE DEF n
    <2> QED
      BY <1>f, <2>1, <2>2, <2>3, <2>4 DEF users, caches
  <1>4. CASE DeleteStatefulSet
    <2>1. planned' \in StatefulSet /\ planned' # None
      BY <1>4, <1>v, <1>r, ReplacementIs DEF DeleteStatefulSet, SyncStatefulSet
    <2>2. ss' \in {ss, None}
      BY <1>4 DEF DeleteStatefulSet, Call
    <2> QED
      BY <1>4, <1>f, <2>1, <2>2 DEF DeleteStatefulSet, SyncStatefulSet, Proceed, users, caches
  <1>5. CASE RecreateStatefulSet
    <2> DEFINE n == Stored(planned)
    <2>1. n \in StatefulSet /\ n.template.form = "stored"
      BY <1>5, StoredIs DEF RecreateStatefulSet
    <2>2. ss' \in {ss, n}
      BY <1>5 DEF RecreateStatefulSet, Call
    <2> HIDE DEF n
    <2> QED
      BY <1>5, <1>f, <2>1, <2>2 DEF RecreateStatefulSet, Proceed, users, caches
  <1>6. CASE CreateScaledObject \/ UpdateScaledObject \/ KeepScaledObject
    <2>1. GenerateScaledObject(config) \in ScaledObject
      BY <1>6, <1>r, GeneratedType
      DEF CreateScaledObject, UpdateScaledObject, KeepScaledObject, Versions
    <2>2. so # None => ScaledObjectUpdates(so, config) \in ScaledObject
      BY <1>6, <1>r, ScaledObjectUpdatesAre
      DEF CreateScaledObject, UpdateScaledObject, KeepScaledObject
    <2>3. so' \in ScaledObject \union {None}
      BY <1>6, <2>1, <2>2
      DEF CreateScaledObject, UpdateScaledObject, KeepScaledObject, Call, objects
    <2>4. /\ UNCHANGED <<ss, caches>>
          /\ \E due \in BOOLEAN : Finish(due)
      BY <1>6 DEF CreateScaledObject, UpdateScaledObject, KeepScaledObject, objects
    <2> QED
      BY <1>f, <2>3, <2>4 DEF Finish, users, caches
  <1>7. CASE CleanUpScaledObject
    <2>1. so' \in {so, None} /\ \E due \in BOOLEAN : Proceed("delete statefulset", due)
      BY <1>7 DEF CleanUpScaledObject, Call
    <2> QED
      BY <1>7, <1>f, <2>1 DEF CleanUpScaledObject, Proceed, users, caches
  <1>8. CASE CleanUpStatefulSet
    <2>1. ss' \in {ss, None} /\ \E due \in BOOLEAN : Finish(due)
      BY <1>8 DEF CleanUpStatefulSet, Call
    <2> QED
      BY <1>8, <1>f, <2>1 DEF CleanUpStatefulSet, Finish, users, caches
  <1> QED
    BY <1>1, <1>2, <1>3, <1>4, <1>5, <1>6, <1>7, <1>8 DEF Reconcile

LEMMA StepNext == StepInv /\ [Next]_vars => StepInv'
  <1> SUFFICES ASSUME StepInv, [Next]_vars PROVE StepInv'
    OBVIOUS
  <1>1. CASE Users \/ Collect \/ SeeStatefulSet \/ SeeScaledObject \/ Resync
    BY <1>1, StepOthers
  <1>2. CASE Reconcile
    BY <1>2, StepReconcile
  <1>3. CASE Restart
    <2>1. faults \in 0..MaxFaults
      BY DEF StepInv, TypeOK
    <2>2. faults' \in 0..MaxFaults
      BY <1>3, <2>1, Bounds DEF Restart, Fault
    <2>3. runner.exists \in BOOLEAN
      BY DEF StepInv, TypeOK, Runner
    <2>4. queued' \in BOOLEAN
      BY <1>3, <2>3 DEF Restart, WokenByListing
    <2> QED
      BY <1>3, <2>2, <2>4 DEF Restart, StepInv, TypeOK, users, objects
  <1>4. CASE UNCHANGED vars
    BY <1>4 DEF vars, users, objects, caches, worker, StepInv, TypeOK
  <1> QED
    BY <1>1, <1>2, <1>3, <1>4 DEF Next

(***************************************************************************)
(* Every reachable state of the runner reconciler, for any specs, patches, *)
(* secrets and number of changes and faults, is well typed.                *)
(***************************************************************************)
THEOREM TypeCorrect == Spec => []TypeOK
  <1>1. StepInv => TypeOK
    BY DEF StepInv
  <1> QED
    BY <1>1, StepInit, StepNext, PTL DEF Spec

-----------------------------------------------------------------------------
(* At rest on the current runner, if its patch stays what it is. *)

\* A StatefulSet that was made for the patch p and no other.
MadeFor(p, s) ==
  /\ p # "broken"
  /\ s.template.extra = IF p = "uncompared" THEN "patched" ELSE "default"
  /\ p = "compared" => s.template.image = "patched"
  /\ p # "none" => /\ s.patchHash # None
                   /\ s.patchHash.image = s.template.image
                   /\ s.patchHash.env = s.template.env
                   /\ s.patchHash.extra = s.template.extra

LEMMA StoredMadeFor ==
  ASSUME NEW s \in StatefulSet, NEW p, MadeFor(p, s)
  PROVE  MadeFor(p, Stored(s))
  BY StoredIs DEF MadeFor

LEMMA GeneratedMadeFor ==
  ASSUME NEW r \in Runner, NEW v \in Versions, r.patch # "broken"
  PROVE  MadeFor(r.patch, GenerateStatefulSet(r, v))
  BY GeneratedType, TemplateOfIs, NoneAssumption DEF MadeFor

\* What replaces a StatefulSet that was made for the same patch is so as well...
LEMMA ReplacementMadeFor ==
  ASSUME NEW s \in StatefulSet, NEW r \in Runner, NEW v \in Versions,
         MadeFor(r.patch, s), Replacement(s, r, v) # None
  PROVE  MadeFor(r.patch, Replacement(s, r, v))
  <1> DEFINE n == Replacement(s, r, v)
  <1>1. /\ n \in StatefulSet
        /\ n.template.image = TemplateOf(r).image
        /\ n.template.extra = IF r.patch = "uncompared" THEN "patched" ELSE s.template.extra
        /\ r.patch # "none" => n.patchHash = n.template
    BY ReplacementIs
  <1>2. n.template \in Template
    BY <1>1 DEF StatefulSet
  <1>3. r.patch = "compared" => n.template.image = "patched"
    BY <1>1, TemplateOfIs
  <1>4. n.template # None
    BY <1>2, NoneAssumption
  <1> QED
    BY <1>1, <1>3, <1>4 DEF MadeFor

\* ... and if there is none, the StatefulSet has all the runner asks for.
LEMMA KeptCurrent ==
  ASSUME NEW s \in StatefulSet, NEW r \in Runner, NEW v \in Versions,
         MadeFor(r.patch, s), Replacement(s, r, v) = None
  PROVE  Meets(s.template, r)
  <1> DEFINE b == PatchBase(s, r, v)
             p == Patched(b.template, r.patch)
  <1>1. /\ b \in StatefulSet
        /\ b.template.image = r.spec.image
        /\ b.template.env = s.template.env \union r.spec.env
    BY PatchBaseIs
  <1>2. b.template \in Template
    BY <1>1 DEF StatefulSet
  <1>3. p \in Template /\ p.image = TemplateOf(r).image /\ p.env = b.template.env
    BY <1>1, <1>2, PatchedIs, TemplateOfIs
  <1>4. s.template.extra = TemplateOf(r).extra
    BY TemplateOfIs DEF MadeFor
  <1>5. CASE r.patch = "none"
    <2>1. ScaledSetUpdates(s, r, v) = None
      BY <1>5 DEF Replacement
    <2>2. b = s
      BY <2>1 DEF PatchBase
    <2>3. TemplateOf(r).image = r.spec.image
      BY <1>5, TemplateOfIs
    <2> QED
      BY <1>1, <1>4, <2>2, <2>3 DEF Meets
  <1>6. CASE r.patch # "none"
    <2>1. [b EXCEPT !.template = p, !.patchHash = p] # None
      <3>1. [b EXCEPT !.template = p, !.patchHash = p] \in StatefulSet
        BY <1>1, <1>3 DEF StatefulSet
      <3> QED
        BY <3>1, NoneAssumption
    <2>2. s.patchHash = p
      BY <1>6, <2>1 DEF Replacement
    <2>3. s.template.image = p.image /\ s.template.env = p.env
      BY <1>6, <2>2 DEF MadeFor
    <2> QED
      BY <1>1, <1>3, <1>4, <2>3 DEF Meets
  <1> QED
    BY <1>5, <1>6

\* There is a StatefulSet in the cache, and it has what the runner asks for.
KnownCurrent == cachedSs # None /\ Meets(cachedSs.template, runner)

\* Every StatefulSet was made for the patch of the runner, the runner of a pass
\* is the current one or the key is queued, and with nothing queued and nothing
\* modified the cache was found as it should be.
CurrentInv ==
  /\ StepInv
  /\ \A s \in {ss, cachedSs, planned} : s # None => MadeFor(runner.patch, s)
  /\ config # None => /\ config.patch = runner.patch
                      /\ queued \/ config = runner
  /\ pc \in {"delete scaledobject", "delete statefulset"} => ~config.exists
  /\ runner.exists /\ ~queued /\ ~again /\ pc \in {"idle", "scaledobject"} => KnownCurrent

LEMMA CurrentInit == Init => CurrentInv
  BY StepInit DEF Init, CurrentInv

LEMMA CurrentNext ==
  ASSUME ~PatchVaries
  PROVE  CurrentInv /\ [Next]_vars => CurrentInv'
  <1> SUFFICES ASSUME CurrentInv, [Next]_vars PROVE CurrentInv'
    OBVIOUS
  <1> USE DEF CurrentInv
  <1>w. StepInv'
    BY StepNext
  <1>t. /\ runner \in Runner
        /\ \A s \in {ss, cachedSs, planned} : s # None => s \in StatefulSet
        /\ config # None => config \in Runner
        /\ secret \in Versions
        /\ config = None <=> pc = "idle"
        /\ pc = "idle" => ~again
        /\ pc = "recreate" => again
    BY DEF StepInv, TypeOK, Versions
  \* Whatever makes no new StatefulSet and leaves the pass as it is.
  <1>1. ASSUME runner'.patch = runner.patch, runner' = runner \/ queued',
               ss' \in {ss, None}, cachedSs' \in {cachedSs, ss},
               cachedSs' = cachedSs \/ queued', queued => queued', UNCHANGED worker
        PROVE  CurrentInv'
    <2>1. \A s \in {ss', cachedSs', planned'} : s # None => MadeFor(runner'.patch, s)
      BY <1>1 DEF worker
    <2>2. config' # None => config'.patch = runner'.patch /\ (queued' \/ config' = runner')
      BY <1>1 DEF worker
    <2>3. ~queued' => ~queued /\ KnownCurrent' = KnownCurrent /\ runner' = runner
      BY <1>1 DEF KnownCurrent
    <2> QED
      BY <1>1, <1>w, <2>1, <2>2, <2>3 DEF worker
  <1>2. CASE Users
    <2>1. ASSUME PutRunner PROVE runner'.patch = runner.patch
      <3>1. PICK s \in Specs, p \in Patches :
              /\ PatchVaries \/ p = runner.patch
              /\ runner' = [exists |-> TRUE, spec |-> s, patch |-> p,
                            uid |-> IF runner.exists THEN runner.uid ELSE runner.uid + 1]
        BY <2>1 DEF PutRunner
      <3> QED
        BY <3>1
    <2>2. DeleteRunner => runner'.patch = runner.patch
      BY <1>t DEF DeleteRunner, Runner
    <2> QED
      BY <1>1, <1>2, <2>1, <2>2
      DEF Users, PutRunner, DeleteRunner, PutSecret, DeleteObject, users, objects, caches
  <1>3. CASE Collect \/ SeeStatefulSet \/ SeeScaledObject \/ Resync
    BY <1>1, <1>3
    DEF Collect, SeeStatefulSet, SeeScaledObject, Resync, users, objects, caches
  <1>4. CASE Begin
    <2>1. UNCHANGED <<runner, ss, cachedSs, planned, again>> /\ config' = runner
      BY <1>4 DEF Begin, users, objects, caches
    <2>2. pc' = IF runner.exists THEN "statefulset" ELSE "delete scaledobject"
      BY <1>4 DEF Begin
    <2> QED
      BY <1>w, <2>1, <2>2
  \* A step of a pass that modifies or misses something.
  <1>5. ASSUME UNCHANGED <<runner, cachedSs>>, config # None,
               \A s \in {ss', planned'} : s # None => MadeFor(runner.patch, s),
               \E step \in {"recreate", "scaledobject"} : Proceed(step, TRUE)
        PROVE  CurrentInv'
    <2>1. /\ again' = TRUE /\ pc' \in {"recreate", "scaledobject"}
          /\ UNCHANGED <<config, queued>>
      BY <1>5 DEF Proceed
    <2>2. \A s \in {ss', cachedSs', planned'} : s # None => MadeFor(runner'.patch, s)
      BY <1>5
    <2> QED
      BY <1>5, <1>w, <2>1, <2>2
  <1>6. CASE FailStatefulSet
    BY <1>t, <1>5, <1>6 DEF FailStatefulSet, users, objects, caches
  <1>7. CASE CreateStatefulSet
    <2> DEFINE g == GenerateStatefulSet(config, secret)
    <2>0. config # None /\ config \in Runner /\ config.patch = runner.patch
      BY <1>t, <1>7 DEF CreateStatefulSet, SyncStatefulSet
    <2>1. g \in StatefulSet /\ MadeFor(runner.patch, g)
      BY <1>t, <1>7, <2>0, GeneratedMadeFor, GeneratedType DEF CreateStatefulSet, SyncStatefulSet
    <2>2. MadeFor(runner.patch, Stored(g))
      BY <2>1, StoredMadeFor
    <2>3. ss' \in {ss, Stored(g)} /\ Proceed("scaledobject", TRUE)
          /\ UNCHANGED <<runner, cachedSs, planned>>
      BY <1>7 DEF CreateStatefulSet, Call, users, caches
    <2> HIDE DEF g
    <2>4. \A s \in {ss', planned'} : s # None => MadeFor(runner.patch, s)
      BY <2>2, <2>3
    <2> QED
      BY <1>5, <2>0, <2>3, <2>4
  <1>8. CASE DeleteStatefulSet
    <2>0. config # None /\ config \in Runner /\ config.patch = runner.patch
      BY <1>t, <1>8 DEF DeleteStatefulSet, SyncStatefulSet
    <2>1. MadeFor(runner.patch, planned')
      BY <1>t, <1>8, <2>0, ReplacementMadeFor DEF DeleteStatefulSet
    <2>2. \A s \in {ss', planned'} : s # None => MadeFor(runner.patch, s)
      BY <1>8, <2>1 DEF DeleteStatefulSet, Call
    <2> QED
      BY <1>5, <1>8, <2>0, <2>2 DEF DeleteStatefulSet, users, caches
  <1>9. CASE RecreateStatefulSet
    <2>0. planned # None /\ config # None
      BY <1>t, <1>9 DEF RecreateStatefulSet, StepInv
    <2>1. MadeFor(runner.patch, Stored(planned))
      BY <1>t, <2>0, StoredMadeFor
    <2>2. ss' \in {ss, Stored(planned)} /\ planned' = None /\ Proceed("scaledobject", TRUE)
          /\ UNCHANGED <<runner, cachedSs>>
      BY <1>9 DEF RecreateStatefulSet, Call, users, caches
    <2>3. \A s \in {ss', planned'} : s # None => MadeFor(runner.patch, s)
      BY <2>1, <2>2
    <2> QED
      BY <1>5, <2>0, <2>2, <2>3
  <1>10. CASE KeepStatefulSet
    <2>1. UNCHANGED <<runner, ss, cachedSs, planned, config, queued, again>> /\ pc' = "scaledobject"
      BY <1>10, <1>w DEF KeepStatefulSet, Proceed, users, objects, caches, StepInv, TypeOK
    <2>2. config # None /\ config \in Runner /\ config.patch = runner.patch
      BY <1>t, <1>10 DEF KeepStatefulSet, SyncStatefulSet
    <2>3. cachedSs # None /\ Meets(cachedSs.template, config)
      BY <1>t, <1>10, <2>2, KeptCurrent DEF KeepStatefulSet
    <2> QED
      BY <1>w, <2>1, <2>2, <2>3 DEF KnownCurrent
  \* The end of a pass.
  <1>11. ASSUME UNCHANGED <<runner, cachedSs>>, ss' \in {ss, None}, config # None,
                pc \in {"scaledobject", "delete statefulset"},
                \E due \in BOOLEAN : Finish(due)
         PROVE  CurrentInv'
    <2>1. /\ pc' = "idle" /\ config' = None /\ planned' = None
          /\ ~queued' => ~queued /\ ~again
      BY <1>11 DEF Finish
    <2>2. ~queued' /\ runner.exists => KnownCurrent
      BY <1>11, <2>1
    <2> QED
      BY <1>11, <1>w, <2>1, <2>2 DEF KnownCurrent
  <1>12. CASE CreateScaledObject \/ UpdateScaledObject \/ KeepScaledObject
    BY <1>t, <1>11, <1>12
    DEF CreateScaledObject, UpdateScaledObject, KeepScaledObject, users, objects, caches
  <1>13. CASE CleanUpStatefulSet
    <2>1. ss' \in {ss, None} /\ \E due \in BOOLEAN : Finish(due)
      BY <1>13 DEF CleanUpStatefulSet, Call
    <2> QED
      BY <1>t, <1>11, <1>13, <2>1 DEF CleanUpStatefulSet, users, caches
  <1>14. CASE CleanUpScaledObject
    <2>1. UNCHANGED <<runner, ss, cachedSs, planned, config, queued>> /\ pc' = "delete statefulset"
      BY <1>14 DEF CleanUpScaledObject, Proceed, users, caches
    <2>2. pc = "delete scaledobject"
      BY <1>14 DEF CleanUpScaledObject
    <2> QED
      BY <1>w, <2>1, <2>2
  <1>15. CASE Restart
    <2>1. /\ UNCHANGED <<runner, ss>> /\ cachedSs' = ss /\ planned' = None /\ config' = None
          /\ pc' = "idle" /\ (runner.exists => queued')
      BY <1>15 DEF Restart, WokenByListing, users, objects
    <2> QED
      BY <1>w, <2>1
  <1>16. CASE UNCHANGED vars
    BY <1>1, <1>16 DEF vars, users, objects, caches
  <1> QED
    BY <1>2, <1>3, <1>4, <1>6, <1>7, <1>8, <1>9, <1>10, <1>12, <1>13, <1>14, <1>15, <1>16
    DEF Next, Reconcile

(***************************************************************************)
(* A runner whose patch stays what it is: the operator does not come to    *)
(* rest before there is a StatefulSet with everything the runner asks for, *)
(* wherever it died, whatever call failed and however late its caches are. *)
(* If the patch cannot be applied, it never comes to rest.                 *)
(***************************************************************************)
THEOREM AtRestOnCurrent ==
  ASSUME ~PatchVaries
  PROVE  Spec => []RestsOnCurrent
  <1>1. CurrentInv => RestsOnCurrent
    BY DEF CurrentInv, StepInv, KnownCurrent, RestsOnCurrent, AtRest
  <1>2. CurrentInv /\ [Next]_vars => CurrentInv'
    BY CurrentNext
  <1> QED
    BY <1>1, <1>2, CurrentInit, PTL DEF Spec

-----------------------------------------------------------------------------
(* Left alone once settled. *)

\* What has all its runner asks for, and agrees with it, is not replaced.
LEMMA SettledIsKept ==
  ASSUME NEW s \in StatefulSet, NEW r \in Runner, NEW v \in Versions,
         s.template.form = "stored", Meets(s.template, r), Agrees(s, r, v)
  PROVE  Replacement(s, r, v) = None
  <1> DEFINE m == Merged(s, r, v)
             b == PatchBase(s, r, v)
  <1>1. s.template \in Template
    BY DEF StatefulSet
  <1>2. /\ s.template.env \union r.spec.env = s.template.env
        /\ s.template.image = IF r.patch = "compared" THEN "patched" ELSE r.spec.image
        /\ s.template.extra = IF r.patch = "uncompared" THEN "patched" ELSE "default"
    BY TemplateOfIs DEF Meets
  \* What is merged into it changes nothing that is stored.
  <1>3. ASSUME r.patch # "compared", s.secrets = v PROVE Stored(m) = s
    <2>1. Stored(m).template = s.template
      <3>1. Stored(m).template \in Template
        BY MergedIs, StoredIs DEF StatefulSet
      <3>2. /\ Stored(m).template.image = s.template.image
            /\ Stored(m).template.env = s.template.env
            /\ Stored(m).template.extra = s.template.extra
            /\ Stored(m).template.form = s.template.form
        <4>1. /\ m \in StatefulSet
              /\ m.template.image = s.template.image
              /\ m.template.env = s.template.env
              /\ m.template.extra = s.template.extra
          <5>1. /\ m \in StatefulSet
                /\ m.template.image = r.spec.image
                /\ m.template.env = s.template.env \union r.spec.env
                /\ m.template.extra = s.template.extra
            BY MergedIs
          <5> HIDE DEF m
          <5> QED
            BY <1>2, <1>3, <5>1
        <4> HIDE DEF m
        <4> QED
          BY <4>1, StoredIs
      <3> QED
        BY <1>1, <3>1, <3>2, SameTemplate
    <2>2. Stored(m) \in StatefulSet /\ Stored(m).secrets = s.secrets
          /\ Stored(m).patchHash = s.patchHash /\ Stored(m).owner = s.owner
      BY <1>3, MergedIs, StoredIs
    <2> HIDE DEF m
    <2> QED
      BY <2>1, <2>2 DEF StatefulSet
  <1>4. CASE r.patch = "none"
    <2>1. r.spec.form # "short" /\ Stored(m) = s
      BY <1>3, <1>4 DEF Agrees
    <2> QED
      BY <1>4, <2>1, UpdatesAre DEF Replacement
  <1>5. CASE r.patch # "none"
    <2> DEFINE p == Patched(b.template, r.patch)
               form == IF r.spec.form = "short" \/ r.patch = "compared" \/ s.secrets # v
                       THEN r.spec.form ELSE "stored"
               h == [s.template EXCEPT !.form = form]
    <2>1. s.patchHash = h
      BY <1>5 DEF Agrees
    <2>2. /\ b \in StatefulSet
          /\ b.template.image = r.spec.image
          /\ b.template.env = s.template.env
          /\ b.template.extra = s.template.extra
          /\ b.template.form = IF ScaledSetUpdates(s, r, v) = None THEN "stored" ELSE r.spec.form
      BY <1>2, PatchBaseIs
    <2>3. b.template.form = form
      <3>1. ASSUME r.patch = "compared" PROVE Stored(m) # s
        <4>1. Stored(m).template.image \in Images
          BY RunnerHas, MergedIs, StoredIs
        <4> QED
          BY <1>2, <3>1, <4>1, ReconcilerAssumption
      <3>2. ASSUME s.secrets # v PROVE Stored(m) # s
        BY <3>2, MergedIs, StoredIs
      <3>3. ScaledSetUpdates(s, r, v) = None <=> r.spec.form # "short" /\ Stored(m) = s
        BY UpdatesAre
      <3> HIDE DEF m, b
      <3> QED
        BY <1>3, <2>2, <3>1, <3>2, <3>3
    <2>4. b.template \in Template
      BY <2>2 DEF StatefulSet
    <2>5. /\ p \in Template /\ p.image = s.template.image /\ p.env = s.template.env
          /\ p.extra = s.template.extra /\ p.form = form
      BY <1>2, <2>2, <2>3, <2>4, PatchedIs
    <2>6. /\ h \in Template /\ h.image = s.template.image /\ h.env = s.template.env
          /\ h.extra = s.template.extra /\ h.form = form
      <3>1. form \in Forms
        BY RunnerHas DEF Forms
      <3> HIDE DEF form
      <3> QED
        BY <1>1, <3>1 DEF Template
    <2>7. p = h
      <3> HIDE DEF p, h, form
      <3> QED
        BY <2>5, <2>6, SameTemplate
    <2> QED
      BY <1>5, <2>1, <2>7 DEF Replacement
  <1> QED
    BY <1>4, <1>5

LEMMA SettledNext ==
  StepInv /\ [Next]_vars => (Settled /\ UNCHANGED changes => UNCHANGED objects /\ Settled')
  <1> SUFFICES ASSUME StepInv, [Next]_vars, Settled, UNCHANGED changes
               PROVE  UNCHANGED objects /\ Settled'
    OBVIOUS
  <1>t. /\ runner \in Runner /\ secret \in Versions
        /\ ss \in StatefulSet /\ so \in ScaledObject /\ ss.template.form = "stored"
        /\ config = None <=> pc = "idle"
        /\ None \notin Runner
    BY NoneAssumption DEF StepInv, TypeOK, Settled, Versions
  <1>1. ASSUME UNCHANGED <<runner, secret, objects>>, cachedSs' \in {cachedSs, ss},
               cachedSo' \in {cachedSo, so}, config' \in {config, None, runner},
               pc' \in {"idle", "statefulset", "scaledobject"}
        PROVE  UNCHANGED objects /\ Settled'
    BY <1>1 DEF Settled, objects
  <1>2. CASE Users
    <2>1. changes \in Nat
      <3>1. changes \in 0..MaxChanges
        BY DEF StepInv, TypeOK
      <3> QED
        BY <3>1, Bounds
    <2>2. Change
      BY <1>2 DEF Users, PutRunner, DeleteRunner, PutSecret, DeleteObject
    <2> QED
      BY <2>1, <2>2 DEF Change
  <1>3. ~Orphaned(ss) /\ ~Orphaned(so)
    BY DEF Orphaned, Settled
  <1>4. CASE Collect \/ SeeStatefulSet \/ SeeScaledObject \/ Resync \/ UNCHANGED vars
    BY <1>1, <1>3, <1>4
    DEF Collect, SeeStatefulSet, SeeScaledObject, Resync, vars, users, caches, worker, Settled
  <1>5. CASE Begin
    BY <1>1, <1>5 DEF Begin, users, objects, caches, Settled
  <1>6. CASE Restart
    BY <1>1, <1>6 DEF Restart, users, Settled
  <1>7. pc = "statefulset" => Replacement(cachedSs, config, secret) = None
    BY <1>t, SettledIsKept DEF Settled
  <1>8. pc = "scaledobject" => ScaledObjectUpdates(cachedSo, config) = cachedSo
    BY <1>t DEF Settled, ScaledObjectUpdates, ScaledObject
  <1>9. CASE FailStatefulSet \/ KeepStatefulSet \/ KeepScaledObject
    BY <1>1, <1>9
    DEF FailStatefulSet, KeepStatefulSet, KeepScaledObject, Proceed, Finish, users, caches, Settled
  <1>10. CASE Reconcile
    BY <1>5, <1>7, <1>8, <1>9, <1>10
    DEF Reconcile, SyncStatefulSet, CreateStatefulSet, DeleteStatefulSet, RecreateStatefulSet,
        CreateScaledObject, UpdateScaledObject, CleanUpScaledObject, CleanUpStatefulSet, Settled
  <1> QED
    BY <1>2, <1>4, <1>6, <1>10 DEF Next

(***************************************************************************)
(* What has all its runner asks for, with an annotation that agrees with   *)
(* it, is left alone: however late the events, and whatever fails or is    *)
(* restarted, the pods are not deleted again.                              *)
(***************************************************************************)
THEOREM SettledStays == Spec => StaysSettled
  <1> DEFINE Step == Settled /\ UNCHANGED changes => UNCHANGED objects /\ Settled'
  <1>1. StepInv /\ [Next]_vars => [Step]_vars
    BY SettledNext
  <1> HIDE DEF Step
  <1>2. Spec => [][Step]_vars
    BY <1>1, StepInit, StepNext, PTL DEF Spec
  <1> QED
    BY <1>2 DEF StaysSettled, Step

-----------------------------------------------------------------------------
(* The refinement of DesiredState. *)

\* Each part of a template, or of a ScaledObject, is as it was asked to be.
PodsAsked(s) == \A o \in PodParts : PodPart(s.template, o) \in asked[o] \union {None}
ScalingAsked(s) == \A o \in Parts \ PodParts : ScalingPart(s, o) \in asked[o] \union {None}

RunnerAsked(r) == \A o \in Parts : RequestOf(r)[o] \in asked[o]

\* What there is to deploy, what there is and what the caches remember have
\* been asked for.
AskedInv ==
  /\ StepInv
  /\ RunnerAsked(runner)
  /\ config # None => RunnerAsked(config)
  /\ \A s \in {ss, cachedSs, planned} : s # None => PodsAsked(s)
  /\ \A s \in {so, cachedSo} : s # None => ScalingAsked(s)

LEMMA RequestsArePods ==
  ASSUME NEW r \in Runner
  PROVE  /\ \A o \in PodParts : RequestOf(r)[o] = PodPart(TemplateOf(r), o)
         /\ \A o \in Parts \ PodParts : RequestOf(r)[o] = ScalingPart(GenerateScaledObject(r), o)
  BY DEF RequestOf, Parts

LEMMA StoredAsked ==
  ASSUME NEW s \in StatefulSet, PodsAsked(s)
  PROVE  PodsAsked(Stored(s))
  BY StoredIs DEF PodsAsked, PodPart

LEMMA GeneratedAsked ==
  ASSUME NEW r \in Runner, NEW v \in Versions, RunnerAsked(r)
  PROVE  PodsAsked(GenerateStatefulSet(r, v)) /\ ScalingAsked(GenerateScaledObject(r))
  BY GeneratedType, RequestsArePods DEF PodsAsked, ScalingAsked, RunnerAsked, Parts

\* A replacement mixes what there was with what is asked for.
LEMMA ReplacementAsked ==
  ASSUME NEW s \in StatefulSet, NEW r \in Runner, NEW v \in Versions,
         PodsAsked(s), RunnerAsked(r), Replacement(s, r, v) # None
  PROVE  PodsAsked(Replacement(s, r, v))
  <1> DEFINE n == Replacement(s, r, v)
  <1>1. /\ n \in StatefulSet
        /\ n.template.image = TemplateOf(r).image
        /\ n.template.env = s.template.env \union r.spec.env
        /\ n.template.extra = IF r.patch = "uncompared" THEN "patched" ELSE s.template.extra
    BY ReplacementIs
  <1>2. /\ s.template \in Template /\ n.template \in Template /\ TemplateOf(r) \in Template
        /\ TemplateOf(r).env = r.spec.env
        /\ r.patch = "uncompared" => TemplateOf(r).extra = "patched"
    BY <1>1, TemplateOfIs DEF StatefulSet
  <1> HIDE DEF n
  <1>3. ASSUME NEW o \in PodParts PROVE PodPart(n.template, o) \in asked[o] \union {None}
    <2>1. /\ PodPart(s.template, o) \in asked[o] \union {None}
          /\ PodPart(TemplateOf(r), o) \in asked[o]
      BY RequestsArePods DEF PodsAsked, RunnerAsked, Parts
    <2>2. PodPart(n.template, o) \in {PodPart(s.template, o), PodPart(TemplateOf(r), o)}
      <3>1. CASE o \in Variables
        BY <1>1, <1>2, <3>1, PodPartIs
      <3>2. CASE o = "image"
        BY <1>1, <1>2, <3>2, PodPartIs
      <3>3. CASE o = "extra"
        BY <1>1, <1>2, <3>3, PodPartIs
      <3> QED
        BY <3>1, <3>2, <3>3 DEF PodParts
    <2> QED
      BY <2>1, <2>2
  <1> QED
    BY <1>3 DEF PodsAsked, n

LEMMA UpdatesAsked ==
  ASSUME NEW s \in ScaledObject, NEW r \in Runner, ScalingAsked(s), RunnerAsked(r)
  PROVE  ScalingAsked(ScaledObjectUpdates(s, r))
  <1> DEFINE n == ScaledObjectUpdates(s, r)
             g == GenerateScaledObject(r)
  <1>1. /\ n \in ScaledObject /\ g \in ScaledObject
        /\ n.url = g.url /\ n.auth = s.auth /\ n.scaling \in {s.scaling, g.scaling}
    BY ScaledObjectUpdatesAre, GeneratedType DEF GenerateScaledObject, Versions
  <1>2. ASSUME NEW o \in Parts \ PodParts PROVE ScalingPart(n, o) \in asked[o] \union {None}
    <2>1. /\ ScalingPart(s, o) \in asked[o] \union {None}
          /\ ScalingPart(g, o) \in asked[o]
      BY RequestsArePods DEF ScalingAsked, RunnerAsked
    <2>2. ScalingPart(n, o) \in {ScalingPart(s, o), ScalingPart(g, o)}
      <3> HIDE DEF n, g
      <3> QED
        BY <1>1 DEF ScalingPart
    <2> QED
      BY <2>1, <2>2
  <1> QED
    BY <1>2 DEF ScalingAsked

LEMMA AskedInit == Init => AskedInv
  <1> SUFFICES ASSUME Init PROVE AskedInv
    OBVIOUS
  <1>1. asked = [o \in Parts |-> {RequestOf(runner)[o]}]
    BY DEF Init
  <1> QED
    BY <1>1, StepInit DEF Init, AskedInv, RunnerAsked

LEMMA AskedNext == AskedInv /\ [Next]_vars => AskedInv'
  <1> SUFFICES ASSUME AskedInv, [Next]_vars PROVE AskedInv'
    OBVIOUS
  <1> USE DEF AskedInv
  <1>w. StepInv'
    BY StepNext
  <1>t. /\ runner \in Runner
        /\ config # None => config \in Runner
        /\ secret \in Versions
        /\ \A s \in {ss, cachedSs, planned} : s # None => s \in StatefulSet
        /\ \A s \in {so, cachedSo} : s # None => s \in ScaledObject
        /\ asked \in [Parts -> SUBSET Contents]
        /\ config = None <=> pc = "idle"
    BY DEF StepInv, TypeOK, Versions
  \* Whatever asks for nothing more and makes nothing new.
  <1>1. ASSUME asked' = asked, RunnerAsked(runner'), config' \in {config, None, runner},
               \A s \in {ss', cachedSs', planned'} : s # None => PodsAsked(s),
               \A s \in {so', cachedSo'} : s # None => ScalingAsked(s)
        PROVE  AskedInv'
    BY <1>1, <1>w DEF PodsAsked, ScalingAsked, RunnerAsked
  <1>2. CASE PutRunner
    <2>1. \A o \in Parts : asked'[o] = asked[o] \union {RequestOf(runner')[o]}
      BY <1>2, <1>t, AskedMore
    <2>2. RunnerAsked(runner)'
      BY <2>1 DEF RunnerAsked
    <2>3. UNCHANGED <<objects, caches, worker>>
      BY <1>2 DEF PutRunner
    <2>4. \A o \in Parts : asked[o] \subseteq asked'[o]
      BY <2>1
    <2>5. (config # None => RunnerAsked(config))'
      BY <2>3, <2>4 DEF RunnerAsked, worker
    <2>6. (\A s \in {ss, cachedSs, planned} : s # None => PodsAsked(s))'
      BY <2>3, <2>4 DEF PodsAsked, objects, caches, worker, Parts
    <2>7. (\A s \in {so, cachedSo} : s # None => ScalingAsked(s))'
      BY <2>3, <2>4 DEF ScalingAsked, objects, caches
    <2> QED
      BY <1>w, <2>2, <2>5, <2>6, <2>7
  <1>3. CASE DeleteRunner
    <2>1. runner'.spec = runner.spec /\ runner'.patch = runner.patch
      BY <1>3, <1>t DEF DeleteRunner, Runner
    <2>2. RunnerAsked(runner')
      BY <2>1, RequestOfSame DEF RunnerAsked
    <2> QED
      BY <1>1, <1>3, <2>2 DEF DeleteRunner, objects, caches, worker
  <1>4. CASE PutSecret \/ DeleteObject \/ Collect \/ SeeStatefulSet \/ SeeScaledObject \/ Resync
             \/ Begin \/ FailStatefulSet \/ KeepStatefulSet \/ KeepScaledObject
             \/ CleanUpScaledObject \/ CleanUpStatefulSet \/ Restart \/ UNCHANGED vars
    BY <1>1, <1>4
    DEF PutSecret, DeleteObject, Collect, SeeStatefulSet, SeeScaledObject, Resync, Begin,
        FailStatefulSet, KeepStatefulSet, KeepScaledObject, CleanUpScaledObject,
        CleanUpStatefulSet, Restart, Proceed, Finish, Call, vars, users, objects, caches, worker
  <1>5. CASE CreateStatefulSet
    <2> DEFINE n == Stored(GenerateStatefulSet(config, secret))
    <2>1. config \in Runner /\ RunnerAsked(config)
      BY <1>5, <1>t DEF CreateStatefulSet, SyncStatefulSet
    <2>2. PodsAsked(n)
      BY <1>t, <2>1, GeneratedAsked, GeneratedType, StoredAsked
    <2>3. ss' \in {ss, n}
      BY <1>5 DEF CreateStatefulSet, Call
    <2> HIDE DEF n
    <2> QED
      BY <1>1, <1>5, <2>2, <2>3 DEF CreateStatefulSet, Proceed, users, caches
  <1>6. CASE DeleteStatefulSet
    <2>1. config \in Runner /\ RunnerAsked(config)
      BY <1>6, <1>t DEF DeleteStatefulSet, SyncStatefulSet
    <2>2. PodsAsked(planned')
      BY <1>6, <1>t, <2>1, ReplacementAsked DEF DeleteStatefulSet
    <2>3. ss' \in {ss, None}
      BY <1>6 DEF DeleteStatefulSet, Call
    <2> QED
      BY <1>1, <1>6, <2>2, <2>3 DEF DeleteStatefulSet, Proceed, users, caches
  <1>7. CASE RecreateStatefulSet
    <2>1. planned # None
      BY <1>7 DEF RecreateStatefulSet, StepInv
    <2>2. PodsAsked(Stored(planned))
      BY <1>t, <2>1, StoredAsked
    <2>3. ss' \in {ss, Stored(planned)}
      BY <1>7 DEF RecreateStatefulSet, Call
    <2> QED
      BY <1>1, <1>7, <2>2, <2>3 DEF RecreateStatefulSet, Proceed, users, caches
  <1>8. CASE CreateScaledObject \/ UpdateScaledObject
    <2>1. config \in Runner /\ RunnerAsked(config)
      BY <1>8, <1>t DEF CreateScaledObject, UpdateScaledObject
    <2>2. ScalingAsked(GenerateScaledObject(config))
      BY <1>t, <2>1, GeneratedAsked
    <2>3. so # None => ScalingAsked(ScaledObjectUpdates(so, config))
      BY <1>t, <2>1, UpdatesAsked
    <2>4. so' # None => ScalingAsked(so')
      BY <1>8, <2>2, <2>3 DEF CreateScaledObject, UpdateScaledObject, Call
    <2> QED
      BY <1>1, <1>8, <2>4 DEF CreateScaledObject, UpdateScaledObject, Finish, users, caches
  <1> QED
    BY <1>2, <1>3, <1>4, <1>5, <1>6, <1>7, <1>8 DEF Next, Users, Reconcile

\* What is asked of each part, as DesiredState has it.
LEMMA WantedAsked ==
  ASSUME AskedInv
  PROVE  Desired!Asked
  <1>1. asked \in [Parts -> SUBSET Contents] /\ runner \in Runner /\ RunnerAsked(runner)
    BY DEF AskedInv, StepInv, TypeOK
  <1>2. ASSUME NEW o \in Parts
        PROVE  /\ Wanted(o) \in asked[o] \union {None, Unspecified}
               /\ Wanted(o) \in Contents \union {None, Unspecified}
    BY <1>1 DEF Wanted, RunnerAsked
  <1> QED
    BY <1>1, <1>2 DEF Desired!Asked

\* What is deployed, part by part.
LEMMA DeployedAsked ==
  ASSUME AskedInv
  PROVE  \A o \in Parts : Deployed(o) \in asked[o] \union {None} /\ Deployed(o) \in Contents
  <1>1. asked \in [Parts -> SUBSET Contents] /\ None \in Contents
    BY DEF AskedInv, StepInv, TypeOK, Contents
  <1>2. ASSUME NEW o \in Parts PROVE Deployed(o) \in asked[o] \union {None}
    BY DEF AskedInv, Deployed, PodsAsked, ScalingAsked
  <1> QED
    BY <1>1, <1>2

LEMMA InitRefines == Init => Desired!Init
  <1> SUFFICES ASSUME Init PROVE Desired!Init
    OBVIOUS
  <1>1. Desired!Asked
    BY AskedInit, WantedAsked
  <1> QED
    BY <1>1 DEF Desired!Init, Init, Deployed

LEMMA NextRefines == AskedInv /\ [Next]_vars => [Desired!Next]_(Desired!vars)
  <1> SUFFICES ASSUME AskedInv, [Next]_vars PROVE [Desired!Next]_(Desired!vars)
    OBVIOUS
  <1>i. AskedInv'
    BY AskedNext
  <1>d. (\A o \in Parts : Deployed(o) \in asked[o] \union {None} /\ Deployed(o) \in Contents)'
    BY <1>i, DeployedAsked, PTL
  <1>1. ASSUME UNCHANGED <<runner, secret, asked, ss, so>> PROVE UNCHANGED Desired!vars
    BY <1>1 DEF Desired!vars, Wanted, Unattended, Churns, Deployed
  \* A step of one object, whose parts change together.
  <1>2. ASSUME UNCHANGED <<runner, secret, asked>>, NEW batch \in {PodParts, Parts \ PodParts},
               \A o \in Parts \ batch : Deployed(o)' = Deployed(o)
        PROVE  Desired!Next
    <2>1. \A o \in Parts : Wanted(o)' = Wanted(o)
      BY <1>2 DEF Wanted, Unattended, Churns
    <2>2. Desired!Deploy(batch)
      BY <1>2, <1>d, <2>1 DEF Desired!Deploy
    <2> QED
      BY <2>2 DEF Desired!Next
  <1>3. ASSUME UNCHANGED <<runner, secret, asked, so>> PROVE Desired!Next
    <2>1. \A o \in Parts \ PodParts : Deployed(o)' = Deployed(o)
      BY <1>3 DEF Deployed
    <2> QED
      BY <1>2, <1>3, <2>1
  <1>4. ASSUME UNCHANGED <<runner, secret, asked, ss>> PROVE Desired!Next
    <2>1. \A o \in Parts \ (Parts \ PodParts) : Deployed(o)' = Deployed(o)
      BY <1>4 DEF Deployed
    <2> QED
      BY <1>2, <1>4, <2>1
  <1>5. ASSUME UNCHANGED <<ss, so>>, \A o \in Parts : asked[o] \subseteq asked'[o]
        PROVE  Desired!Next
    <2>1. Desired!Asked'
      BY <1>i, WantedAsked, PTL
    <2>2. UNCHANGED [o \in Parts |-> Deployed(o)]
      BY <1>5 DEF Deployed
    <2> QED
      BY <1>5, <2>1, <2>2 DEF Desired!Next, Desired!Ask
  <1>6. CASE Users
    <2>1. ASSUME PutRunner PROVE \A o \in Parts : asked[o] \subseteq asked'[o]
      BY <2>1, AskedMore DEF AskedInv, StepInv, TypeOK
    <2> QED
      BY <1>3, <1>4, <1>5, <1>6, <2>1
      DEF Users, PutRunner, DeleteRunner, PutSecret, DeleteObject, users, objects
  <1>7. CASE Collect \/ SeeStatefulSet \/ SeeScaledObject \/ Resync \/ Restart \/ UNCHANGED vars
    BY <1>1, <1>3, <1>4, <1>7
    DEF Collect, SeeStatefulSet, SeeScaledObject, Resync, Restart, vars, users, objects
  <1>8. CASE Reconcile
    BY <1>1, <1>3, <1>4, <1>8
    DEF Reconcile, Begin, FailStatefulSet, CreateStatefulSet, KeepStatefulSet, DeleteStatefulSet,
        RecreateStatefulSet, CreateScaledObject, UpdateScaledObject, KeepScaledObject,
        CleanUpScaledObject, CleanUpStatefulSet, users, objects
  <1> QED
    BY <1>6, <1>7, <1>8 DEF Next

(***************************************************************************)
(* No part of the StatefulSet or the ScaledObject is ever anything its     *)
(* user has not asked it to be, though the objects may mix what was asked  *)
(* for at different times: each step of the reconciler, the cluster and a  *)
(* crash is one DesiredState allows.                                       *)
(***************************************************************************)
THEOREM NeverMakesThingsUp ==
  Spec => Desired!Init /\ [][Desired!Next]_(Desired!vars)
  <1>1. AskedInv /\ [Next]_vars => AskedInv'
    BY AskedNext
  <1>2. AskedInv /\ [Next]_vars => [Desired!Next]_(Desired!vars)
    BY NextRefines
  <1> QED
    BY <1>1, <1>2, AskedInit, InitRefines, PTL DEF Spec

=============================================================================
