------------------------- MODULE CoreReconcilerProofs -------------------------
(* Theorems about the core reconciler.                                       *)
EXTENDS CoreReconciler, TLAPS

\* TypeOK and what makes it inductive: a core is known by its own name, and
\* what the worker has yet to look at belongs to the core it read.
WorkerInv ==
  /\ TypeOK
  /\ \A c \in Existing : cores[c].core = c
  /\ todo \subseteq (IF job = None THEN {} ELSE job.kinds)

\* The records of cores and their fields.
LEMMA CoreFields ==
  \A o \in CoreOf :
    /\ o # None
    /\ o.core \in Cores
    /\ o.kinds \in KindSets
    /\ o.kinds \subseteq Kinds
  BY CoreAssumption, NoneAssumption DEF CoreOf

LEMMA WorkerInit == Init => WorkerInv
  <1> SUFFICES ASSUME Init PROVE WorkerInv
    OBVIOUS
  <1>1. PICK c \in Cores, s \in KindSets :
          /\ cores = [d \in Cores |->
               IF d = c THEN [core |-> c, uid |-> 0, version |-> 0, kinds |-> s] ELSE None]
          /\ asked = {cores[c]}
          /\ queue = {c}
    BY DEF Init
  <1>2. [core |-> c, uid |-> 0, version |-> 0, kinds |-> s] \in CoreOf
    BY CoreAssumption DEF CoreOf, Versions
  <1>3. cores \in [Cores -> CoreOf \union {None}]
    BY <1>1, <1>2
  <1>a. asked \in SUBSET CoreOf
    <2>1. cores[c] = [core |-> c, uid |-> 0, version |-> 0, kinds |-> s]
      BY <1>1
    <2> QED
      BY <1>1, <1>2, <2>1
  <1>4. \A d \in Existing : cores[d].core = d
    BY <1>1 DEF Existing
  <1>5. TypeOK
    <2>1. /\ live \in [Kinds -> CoreOf \union {None}]
          /\ queue \in SUBSET Cores
      BY <1>1 DEF Init
    <2>2. changes \in Versions /\ faults \in 0..MaxFaults
      BY CoreAssumption DEF Init, Versions
    <2> QED
      BY <1>3, <1>a, <2>1, <2>2 DEF Init, TypeOK
  <1> QED
    BY <1>4, <1>5 DEF Init, WorkerInv

\* What the cluster does leaves the worker alone.
LEMMA WorkerOthers ==
  ASSUME WorkerInv,
         Users \/ (\E k \in Kinds : Collect(k)) \/ (\E c \in Cores : Resync(c))
  PROVE  WorkerInv'
  <1> USE DEF WorkerInv, TypeOK
  <1>1. ASSUME NEW c \in Cores, PutCore(c) PROVE WorkerInv'
    <2>1. changes' \in Versions
      BY <1>1, CoreAssumption DEF PutCore, Change, Versions
    <2>2. PICK s \in KindSets :
            cores' = [cores EXCEPT ![c] =
              [core |-> c, version |-> changes', kinds |-> s,
               uid |-> IF cores[c] = None THEN changes' ELSE cores[c].uid]]
      BY <1>1 DEF PutCore
    <2>3. cores[c] # None => cores[c].uid \in Versions
      BY DEF CoreOf
    <2>4. cores'[c] \in CoreOf /\ cores'[c].core = c
      BY <2>1, <2>2, <2>3 DEF CoreOf
    <2>5. cores' \in [Cores -> CoreOf \union {None}]
      BY <2>2, <2>4
    <2>6. \A d \in Existing' : cores'[d].core = d
      BY <2>2, <2>4 DEF Existing
    <2>7. /\ asked' = asked \union {cores'[c]}
          /\ queue' = queue \union {c}
          /\ UNCHANGED <<live, removed, pc, job, todo, kind, changed, faults>>
      BY <1>1 DEF PutCore, cluster, worker
    <2> QED
      BY <2>1, <2>4, <2>5, <2>6, <2>7
  <1>2. ASSUME NEW c \in Cores, DeleteCore(c) PROVE WorkerInv'
    BY <1>2, CoreAssumption DEF DeleteCore, Change, Versions, cluster, worker, Existing
  <1>3. ASSUME NEW k \in Kinds, DeleteObject(k) PROVE WorkerInv'
    BY <1>3, CoreAssumption DEF DeleteObject, TakeAway, Change, Versions, users, worker, Existing
  <1>4. ASSUME NEW k \in Kinds, Collect(k) PROVE WorkerInv'
    BY <1>4 DEF Collect, TakeAway, users, worker, Existing
  <1>5. ASSUME NEW c \in Cores, Resync(c) PROVE WorkerInv'
    BY <1>5 DEF Resync, users, cluster, worker, Existing
  <1> QED
    BY <1>1, <1>2, <1>3, <1>4, <1>5 DEF Users

\* What the worker writes is the core it read.
LEMMA WorkerWrites ==
  ASSUME WorkerInv, kind # None
  PROVE  /\ job \in CoreOf
         /\ kind \in Kinds
         /\ Deployed =>
              /\ live' \in [Kinds -> CoreOf \union {None}]
              /\ removed' \in SUBSET (Kinds \X Cores)
  BY DEF WorkerInv, TypeOK, Deployed

LEMMA WorkerEnd ==
  ASSUME WorkerInv, job # None, NEW due, End(due),
         UNCHANGED <<users, changes>>,
         live' \in [Kinds -> CoreOf \union {None}],
         removed' \in SUBSET (Kinds \X Cores),
         faults' \in 0..MaxFaults
  PROVE  WorkerInv'
  <1>1. job.core \in Cores
    BY CoreFields DEF WorkerInv, TypeOK
  <1>2. queue' \in SUBSET Cores
    BY <1>1 DEF End, Requeued, WorkerInv, TypeOK
  <1> QED
    BY <1>2 DEF End, WorkerInv, TypeOK, users, Existing

LEMMA WorkerReconcile ==
  ASSUME WorkerInv, Reconcile
  PROVE  WorkerInv'
  <1> USE DEF WorkerInv, TypeOK
  <1>f. Fault => faults' \in 0..MaxFaults
    BY CoreAssumption DEF Fault
  <1>1. ASSUME NEW c \in Cores, Begin(c) PROVE WorkerInv'
    <2>1. CASE c \in Existing
      <3>1. cores[c] \in CoreOf /\ cores[c] # None
        BY <2>1 DEF Existing
      <3>2. cores[c].kinds \subseteq Kinds
        BY <3>1, CoreFields
      <3> QED
        BY <1>1, <2>1, <3>1, <3>2 DEF Begin, users, cluster, Existing
    <2>2. CASE c \notin Existing
      BY <1>1, <2>2 DEF Begin, users, cluster, Existing
    <2> QED
      BY <2>1, <2>2
  <1>2. ASSUME NEW k \in Kinds, Find(k) PROVE WorkerInv'
    <2>1. k \in todo /\ job # None /\ k \in job.kinds
      BY <1>2 DEF Find, Eligible
    <2> QED
      BY <1>2, <2>1, NoneAssumption DEF Find, users, cluster, Existing
  <1>3. ASSUME FailToFind PROVE WorkerInv'
    BY <1>3, <1>f, WorkerEnd DEF FailToFind, users, cluster
  <1>4. ASSUME Update PROVE WorkerInv'
    BY <1>4, WorkerWrites DEF Update, Done, users, Existing
  <1>5. ASSUME FailToUpdate PROVE WorkerInv'
    BY <1>5, <1>f, WorkerWrites DEF FailToUpdate, Go, users, cluster, Existing
  <1>6. ASSUME Delete PROVE WorkerInv'
    BY <1>6, <1>f, WorkerWrites DEF Delete, Go, users, Existing
  <1>7. ASSUME Create PROVE WorkerInv'
    BY <1>7, WorkerWrites DEF Create, Done, users, Existing
  <1>8. ASSUME FailToCreate PROVE WorkerInv'
    <2>1. kind # None /\ job # None
      BY <1>8 DEF FailToCreate
    <2>2. /\ live' \in [Kinds -> CoreOf \union {None}]
          /\ removed' \in SUBSET (Kinds \X Cores)
          /\ faults' \in 0..MaxFaults
      BY <1>8, <1>f, <2>1, WorkerWrites DEF FailToCreate, cluster
    <2> QED
      BY <1>8, <2>1, <2>2, WorkerEnd DEF FailToCreate
  <1>9. ASSUME EndPass PROVE WorkerInv'
    BY <1>9, WorkerEnd DEF EndPass, users, cluster
  <1> QED
    BY <1>1, <1>2, <1>3, <1>4, <1>5, <1>6, <1>7, <1>8, <1>9 DEF Reconcile

LEMMA WorkerNext == WorkerInv /\ [Next]_vars => WorkerInv'
  <1> SUFFICES ASSUME WorkerInv, [Next]_vars PROVE WorkerInv'
    OBVIOUS
  <1>1. CASE Users \/ (\E k \in Kinds : Collect(k)) \/ (\E c \in Cores : Resync(c))
    BY <1>1, WorkerOthers
  <1>2. CASE Reconcile
    BY <1>2, WorkerReconcile
  <1>3. CASE Restart
    <2>1. faults' \in 0..MaxFaults
      BY <1>3, CoreAssumption DEF Restart, Fault, WorkerInv, TypeOK
    <2>2. UNCHANGED <<cores, asked, live, removed, changes, Existing>>
      BY <1>3 DEF Restart, users, cluster, Existing
    <2>3. queue' \in SUBSET Cores
      BY <1>3 DEF Restart, Existing
    <2>4. /\ pc' = "idle" /\ job' = None /\ todo' = {}
          /\ kind' = None /\ changed' = FALSE
      BY <1>3 DEF Restart
    <2> QED
      BY <2>1, <2>2, <2>3, <2>4 DEF WorkerInv, TypeOK
  <1>4. CASE UNCHANGED vars
    BY <1>4 DEF vars, users, cluster, worker, WorkerInv, TypeOK, Existing
  <1> QED
    BY <1>1, <1>2, <1>3, <1>4 DEF Next

(***************************************************************************)
(* Every reachable state of the core reconciler, for any cores, objects    *)
(* and number of changes and faults, is well typed.                        *)
(***************************************************************************)
THEOREM TypeCorrect == Spec => []TypeOK
  <1>1. WorkerInv => TypeOK
    BY DEF WorkerInv
  <1> QED
    BY <1>1, WorkerInit, WorkerNext, PTL DEF Spec

-----------------------------------------------------------------------------
(* Prerequisites first. *)

\* What the pass has looked at was deployed by it, or found deployed.
Dealt(p) == live[p] = job \/ <<p, job.core>> \in removed

\* During a pass a prerequisite is still to come, in hand, or dealt with; and
\* none is still to come once something else is in hand.
OrderInv ==
  /\ WorkerInv
  /\ job # None =>
       \A p \in PreReqs \intersect job.kinds : p \in todo \/ p = kind \/ Dealt(p)
  /\ kind # None /\ kind \notin PreReqs => todo \intersect PreReqs = {}

LEMMA OrderInit == Init => OrderInv
  BY WorkerInit DEF Init, OrderInv

LEMMA OrderNext == OrderInv /\ [Next]_vars => OrderInv'
  <1> SUFFICES ASSUME OrderInv, [Next]_vars PROVE OrderInv'
    OBVIOUS
  <1> USE DEF OrderInv
  <1>w. WorkerInv'
    BY WorkerNext
  <1>j. job # None => job \in CoreOf /\ job.core \in Cores /\ job.kinds \subseteq Kinds
    BY CoreFields DEF WorkerInv, TypeOK
  <1>p. PreReqs \subseteq Kinds /\ live \in [Kinds -> CoreOf \union {None}]
    BY CoreAssumption DEF WorkerInv, TypeOK
  <1>1. ASSUME NEW k \in Kinds, TakeAway(k) PROVE OrderInv'
    BY <1>1, <1>w, <1>j, <1>p DEF TakeAway, worker, Dealt
  <1>2. ASSUME UNCHANGED <<cluster, worker>> PROVE OrderInv'
    BY <1>2, <1>w DEF cluster, worker, Dealt
  <1>3. ASSUME NEW c \in Cores, Begin(c) PROVE OrderInv'
    <2>1. kind = None /\ job = None
      BY <1>3 DEF Begin, WorkerInv, TypeOK
    <2> QED
      BY <1>3, <1>w, <2>1 DEF Begin, Dealt
  <1>4. ASSUME NEW k \in Kinds, Find(k) PROVE OrderInv'
    <2>1. job # None /\ kind = None
      BY <1>4 DEF Find, WorkerInv, TypeOK
    <2>2. k \notin PreReqs => todo \intersect PreReqs = {}
      BY <1>4 DEF Find, Eligible
    <2>3. /\ UNCHANGED <<live, removed, job>>
          /\ (todo' = todo \ {k})
          /\ kind' = k \/ (kind' = None /\ live[k] = job)
      BY <1>4, <2>1 DEF Find, SameKey, cluster
    <2>4. ASSUME NEW p \in PreReqs \intersect job.kinds
          PROVE  p \in todo' \/ p = kind' \/ Dealt(p)'
      <3>1. p # None
        BY <1>p, NoneAssumption
      <3> QED
        BY <2>1, <2>3, <2>4, <3>1 DEF Dealt
    <2>5. kind' # None /\ kind' \notin PreReqs => todo' \intersect PreReqs = {}
      BY <2>2, <2>3
    <2> QED
      BY <1>w, <2>3, <2>4, <2>5
  <1>5. ASSUME NEW due, End(due) PROVE OrderInv'
    BY <1>5, <1>w DEF End
  <1>6. ASSUME Deployed, Done(TRUE), kind # None PROVE OrderInv'
    BY <1>6, <1>w, <1>p, NoneAssumption DEF Deployed, Done, Dealt, WorkerInv, TypeOK
  <1>7. ASSUME NEW call, Go(call), (UNCHANGED cluster) \/ Deployed PROVE OrderInv'
    BY <1>7, <1>w, <1>p DEF Deployed, Go, Dealt, cluster
  <1>8. ASSUME Delete PROVE OrderInv'
    BY <1>8, <1>w, <1>p DEF Delete, Go, Dealt
  <1>9. ASSUME Restart PROVE OrderInv'
    BY <1>9, <1>w DEF Restart
  <1>10. CASE Users
    BY <1>10, <1>1, <1>2 DEF Users, PutCore, DeleteCore, DeleteObject
  <1>11. CASE Reconcile
    <2>1. pc \in {"update", "create"} => kind # None
      BY DEF WorkerInv, TypeOK
    <2> QED
      BY <1>11, <2>1, <1>3, <1>4, <1>5, <1>6, <1>7, <1>8
      DEF Reconcile, FailToFind, Update, FailToUpdate, Create, FailToCreate, EndPass
  <1>12. CASE \E k \in Kinds : Collect(k)
    BY <1>12, <1>1 DEF Collect
  <1>13. CASE (\E c \in Cores : Resync(c)) \/ UNCHANGED vars
    BY <1>13, <1>2 DEF Resync, vars
  <1> QED
    BY <1>9, <1>10, <1>11, <1>12, <1>13 DEF Next

\* What a step deploys is the object in hand, made from the core that was read.
LEMMA OnlyDeployed ==
  ASSUME WorkerInv, [Next]_vars, NEW k \in Kinds, live'[k] \notin {live[k], None}
  PROVE  k = kind /\ kind # None /\ live'[k] = job
  <1>1. live \in [Kinds -> CoreOf \union {None}]
    BY DEF WorkerInv, TypeOK
  <1>2. live' # live
    OBVIOUS
  <1>3. ASSUME NEW j \in Kinds, TakeAway(j) PROVE FALSE
    BY <1>1, <1>3 DEF TakeAway
  <1>4. ASSUME Delete PROVE FALSE
    BY <1>1, <1>4 DEF Delete
  <1>5. Update \/ FailToUpdate \/ Create \/ FailToCreate
    BY <1>2, <1>3, <1>4
    DEF Next, vars, Users, PutCore, DeleteCore, DeleteObject, Collect, Resync, Reconcile,
        Begin, Find, FailToFind, EndPass, Restart, cluster
  <1>6. Deployed
    BY <1>2, <1>5 DEF Update, FailToUpdate, Create, FailToCreate, cluster
  <1>7. pc \in {"update", "create"}
    BY <1>5 DEF Update, FailToUpdate, Create, FailToCreate
  <1> QED
    BY <1>1, <1>6, <1>7 DEF Deployed, WorkerInv, TypeOK

(***************************************************************************)
(* Whatever fails and whoever interferes, what needs the secret and the    *)
(* service account of its core is deployed after them.                     *)
(***************************************************************************)
THEOREM InOrder == Spec => PrereqsFirst
  <1> DEFINE Step ==
        \A k \in Kinds \ PreReqs :
          live'[k] \notin {live[k], None} =>
            \A p \in PreReqs \intersect live'[k].kinds :
              live[p] = live'[k] \/ <<p, live'[k].core>> \in removed
  <1>1. OrderInv /\ [Next]_vars => Step
    <2> SUFFICES ASSUME OrderInv, [Next]_vars,
                        NEW k \in Kinds \ PreReqs, live'[k] \notin {live[k], None},
                        NEW p \in PreReqs \intersect live'[k].kinds
                 PROVE  live[p] = live'[k] \/ <<p, live'[k].core>> \in removed
      OBVIOUS
    <2>1. k = kind /\ kind # None /\ live'[k] = job
      BY OnlyDeployed DEF OrderInv
    <2>2. job # None
      BY <2>1 DEF OrderInv, WorkerInv, TypeOK
    <2> QED
      BY <2>1, <2>2 DEF OrderInv, Dealt
  <1>2. OrderInv /\ [Next]_vars => [Step]_vars
    BY <1>1
  <1> HIDE DEF Step
  <1>3. Spec => [][Step]_vars
    BY <1>2, OrderInit, OrderNext, PTL DEF Spec
  <1> QED
    BY <1>3 DEF PrereqsFirst, Step

-----------------------------------------------------------------------------
(* At rest on the current core. *)

\* The object is as the core asks, or taken away since.
AsAsked(c, k) ==
  IF live[k] = None THEN <<k, c>> \in removed
                    ELSE live[k].core = c => live[k] = cores[c]

\* A core whose key is not queued has everything as it asks, but for what the
\* pass over this very version has not come to; and a pass is over the version
\* that is current, or the key is queued.
RestInv ==
  /\ WorkerInv
  /\ \A c \in Existing \ queue :
       /\ job # None /\ job.core = c => job = cores[c]
       /\ \A k \in cores[c].kinds :
            AsAsked(c, k) \/ (job = cores[c] /\ (k \in todo \/ k = kind))

LEMMA RestInit == Init => RestInv
  <1> SUFFICES ASSUME Init PROVE RestInv
    OBVIOUS
  <1>1. Existing \ queue = {}
    BY DEF Init, Existing
  <1> QED
    BY <1>1, WorkerInit DEF RestInv

LEMMA RestNext == RestInv /\ [Next]_vars => RestInv'
  <1> SUFFICES ASSUME RestInv, [Next]_vars PROVE RestInv'
    OBVIOUS
  <1> USE DEF RestInv
  <1>w. WorkerInv'
    BY WorkerNext
  <1>t. /\ cores \in [Cores -> CoreOf \union {None}]
        /\ live \in [Kinds -> CoreOf \union {None}]
        /\ \A c \in Existing : c \in Cores /\ cores[c] # None /\ cores[c].core = c
    BY DEF WorkerInv, TypeOK, Existing
  <1>k. \A c \in Existing : cores[c].kinds \subseteq Kinds
    BY <1>t, CoreFields DEF Existing
  <1>j. job # None => job \in CoreOf /\ job.core \in Cores
    BY CoreFields DEF WorkerInv, TypeOK
  <1>1. ASSUME NEW c \in Cores, UNCHANGED <<cluster, worker>>,
               cores' = cores \/ (\E o : cores' = [cores EXCEPT ![c] = o]),
               queue' = queue \union {c}
        PROVE  RestInv'
    <2> SUFFICES ASSUME NEW d \in Existing' \ queue'
                 PROVE  /\ job # None /\ job.core = d => job = cores'[d]
                        /\ \A k \in cores'[d].kinds :
                             \/ AsAsked(d, k)'
                             \/ job = cores'[d] /\ (k \in todo \/ k = kind)
      BY <1>1, <1>w DEF worker
    <2>1. d # c /\ d \in Existing \ queue /\ cores'[d] = cores[d]
      BY <1>1, <1>t DEF Existing
    <2> QED
      BY <1>1, <2>1 DEF AsAsked, cluster
  <1>2. ASSUME NEW k \in Kinds, TakeAway(k) PROVE RestInv'
    <2>1. \A c \in Existing, j \in Kinds : AsAsked(c, j) => AsAsked(c, j)'
      BY <1>2, <1>t DEF TakeAway, AsAsked, users
    <2>2. UNCHANGED <<Existing, cores, queue, job, todo, kind>>
      BY <1>2 DEF TakeAway, users, worker, Existing
    <2> QED
      BY <1>w, <1>k, <2>1, <2>2
  <1>3. ASSUME NEW c \in Cores, Begin(c) PROVE RestInv'
    <2>1. job = None
      BY <1>3 DEF Begin, WorkerInv, TypeOK
    <2>2. UNCHANGED <<Existing, cores, live, removed>> /\ queue' = queue \ {c}
      BY <1>3 DEF Begin, users, cluster, Existing
    <2>3. CASE c \in Existing
      <3>1. job' = cores[c] /\ todo' = cores[c].kinds
        BY <1>3, <2>3 DEF Begin
      <3>2. ASSUME NEW d \in Existing \ queue', d # c
            PROVE  job'.core # d /\ \A k \in cores[d].kinds : AsAsked(d, k)
        BY <1>t, <2>1, <2>2, <2>3, <3>1, <3>2
      <3> QED
        BY <1>w, <2>2, <3>1, <3>2 DEF AsAsked
    <2>4. CASE c \notin Existing
      BY <1>3, <1>w, <2>2, <2>4 DEF Begin, AsAsked
    <2> QED
      BY <2>3, <2>4
  <1>4. ASSUME NEW k \in Kinds, Find(k) PROVE RestInv'
    <2>1. kind = None
      BY <1>4 DEF Find, WorkerInv, TypeOK
    <2>2. UNCHANGED <<Existing, cores, live, removed, queue, job>> /\ (todo' = todo \ {k})
      BY <1>4 DEF Find, users, cluster, Existing
    <2>3. kind' = k \/ (live[k] = job /\ live[k] # None)
      BY <1>4 DEF Find, SameKey
    <2>4. \A c \in Existing : None \notin cores[c].kinds
      BY <1>k, NoneAssumption
    <2> QED
      BY <1>w, <2>1, <2>2, <2>3, <2>4 DEF AsAsked
  <1>5. ASSUME Deployed, kind # None, UNCHANGED users
        PROVE  \A c \in Existing \ queue : \A k \in cores[c].kinds :
                 /\ AsAsked(c, k) => AsAsked(c, k)'
                 /\ k = kind => AsAsked(c, k)'
    <2>1. job # None /\ kind \in Kinds
      BY <1>5 DEF WorkerInv, TypeOK
    <2>2. live' = [live EXCEPT ![kind] = job] /\ removed' = removed \ ({kind} \X Cores)
      BY <1>5 DEF Deployed
    <2>3. cores' = cores
      BY <1>5 DEF users
    <2> TAKE c \in Existing \ queue
    <2> TAKE k \in cores[c].kinds
    <2>4. k \in Kinds
      BY <1>k
    <2>5. CASE k = kind
      BY <1>t, <2>1, <2>2, <2>3, <2>5 DEF AsAsked
    <2>6. CASE k # kind
      BY <1>t, <2>2, <2>3, <2>4, <2>6 DEF AsAsked
    <2> QED
      BY <2>5, <2>6
  <1>6. ASSUME End(TRUE), job # None, UNCHANGED users, (UNCHANGED cluster) \/ (Deployed /\ kind # None)
        PROVE  RestInv'
    <2>1. UNCHANGED <<Existing, cores>> /\ queue' = queue \union {job.core} /\ job' = None
      BY <1>6 DEF End, Requeued, users, Existing
    <2>2. ASSUME NEW c \in Existing \ queue', NEW k \in cores[c].kinds
          PROVE  AsAsked(c, k)'
      <3>1. c \in Existing \ queue /\ job # cores[c]
        BY <1>t, <2>1, <2>2
      <3>2. AsAsked(c, k)
        BY <3>1
      <3> QED
        BY <1>5, <1>6, <2>1, <3>1, <3>2 DEF cluster, AsAsked
    <2> QED
      BY <1>w, <2>1, <2>2
  <1>7. ASSUME Deployed, Done(TRUE), kind # None, UNCHANGED users PROVE RestInv'
    <2>1. UNCHANGED <<Existing, cores, queue, job, todo>>
      BY <1>7 DEF Done, users, Existing
    <2> QED
      BY <1>5, <1>7, <1>w, <2>1
  <1>8. ASSUME NEW call, Go(call), kind # None, UNCHANGED users, (UNCHANGED cluster) \/ Deployed
        PROVE  RestInv'
    <2>1. UNCHANGED <<Existing, cores, queue, job, todo, kind>>
      BY <1>8 DEF Go, users, Existing
    <2>2. \A c \in Existing \ queue : \A k \in cores[c].kinds : AsAsked(c, k) => AsAsked(c, k)'
      BY <1>5, <1>8, <2>1 DEF cluster, AsAsked
    <2> QED
      BY <1>w, <2>1, <2>2
  <1>9. ASSUME Delete PROVE RestInv'
    <2>1. UNCHANGED <<Existing, cores, queue, job, todo, kind>>
      BY <1>9 DEF Delete, Go, users, Existing
    <2>2. job # None /\ kind \in Kinds
      BY <1>9 DEF Delete, WorkerInv, TypeOK
    <2>3. ASSUME NEW c \in Existing \ queue, NEW k \in cores[c].kinds, AsAsked(c, k)
          PROVE  AsAsked(c, k)' \/ (job = cores[c] /\ k = kind)
      <3>1. k \in Kinds
        BY <1>k
      <3>2. CASE k = kind /\ job.core # c
        BY <1>9, <1>t, <2>1, <2>2, <2>3, <3>1, <3>2 DEF Delete, AsAsked
      <3>3. CASE k # kind
        BY <1>9, <1>t, <2>1, <2>2, <2>3, <3>1, <3>3 DEF Delete, AsAsked
      <3>4. CASE k = kind /\ job.core = c
        BY <2>2, <3>4
      <3> QED
        BY <3>2, <3>3, <3>4
    <2> QED
      BY <1>w, <2>1, <2>3
  <1>10. ASSUME EndPass PROVE RestInv'
    <2>1. job # None /\ kind = None /\ todo = {}
      BY <1>10 DEF EndPass, WorkerInv, TypeOK
    <2>2. /\ UNCHANGED <<Existing, cores, live, removed>>
          /\ queue \subseteq queue' /\ job' = None
      BY <1>10 DEF EndPass, End, Requeued, users, cluster, Existing
    <2>3. \A c \in Existing : None \notin cores[c].kinds
      BY <1>k, NoneAssumption
    <2> QED
      BY <1>w, <2>1, <2>2, <2>3 DEF AsAsked
  <1>11. ASSUME Restart PROVE RestInv'
    <2>1. Existing' \ queue' = {}
      BY <1>11 DEF Restart, users, Existing
    <2> QED
      BY <1>w, <2>1
  <1>12. CASE Users
    <2>1. ASSUME NEW c \in Cores, PutCore(c) PROVE RestInv'
      BY <1>1, <2>1 DEF PutCore
    <2>2. ASSUME NEW c \in Cores, DeleteCore(c) PROVE RestInv'
      BY <1>1, <2>2 DEF DeleteCore
    <2> QED
      BY <1>2, <1>12, <2>1, <2>2 DEF Users, DeleteObject
  <1>13. CASE Reconcile
    <2>1. pc # "idle" => job # None
      BY DEF WorkerInv, TypeOK
    <2>2. pc \in {"update", "create"} => kind # None
      BY DEF WorkerInv, TypeOK
    <2>3. CASE FailToFind \/ FailToCreate
      BY <1>6, <2>1, <2>2, <2>3 DEF FailToFind, FailToCreate
    <2>4. CASE Update \/ Create
      BY <1>7, <2>2, <2>4 DEF Update, Create
    <2>5. CASE FailToUpdate
      BY <1>8, <2>2, <2>5 DEF FailToUpdate
    <2> QED
      BY <1>3, <1>4, <1>9, <1>10, <1>13, <2>3, <2>4, <2>5 DEF Reconcile
  <1>14. CASE \E k \in Kinds : Collect(k)
    BY <1>2, <1>14 DEF Collect
  <1>15. CASE \E c \in Cores : Resync(c)
    BY <1>1, <1>15 DEF Resync, users
  <1>16. CASE UNCHANGED vars
    BY <1>16, <1>w DEF vars, users, cluster, worker, Existing, AsAsked
  <1> QED
    BY <1>11, <1>12, <1>13, <1>14, <1>15, <1>16 DEF Next

(***************************************************************************)
(* The controller never rests on an object of its own that is not as the   *)
(* core asks, nor without one that nobody took away: whatever call failed, *)
(* wherever the operator died, and whichever core took the object over.    *)
(***************************************************************************)
THEOREM AtRest == Spec => []RestsOnCurrent
  <1>1. RestInv => RestsOnCurrent
    <2> SUFFICES ASSUME RestInv, pc = "idle", queue = {},
                        NEW c \in Existing, NEW k \in cores[c].kinds
                 PROVE  AsAsked(c, k)
      BY DEF RestsOnCurrent, AsAsked
    <2>1. job = None /\ job # cores[c]
      BY DEF RestInv, WorkerInv, TypeOK, Existing
    <2> QED
      BY <2>1 DEF RestInv
  <1> QED
    BY <1>1, RestInit, RestNext, PTL DEF Spec

-----------------------------------------------------------------------------
(* Left alone once settled. *)

LEMMA SettledNext ==
  WorkerInv /\ [Next]_vars =>
    (Settled /\ UNCHANGED changes =>
       /\ \A c \in Existing : \A k \in cores[c].kinds : live'[k] = live[k]
       /\ Settled')
  <1> SUFFICES ASSUME WorkerInv, [Next]_vars, Settled, UNCHANGED changes
               PROVE  /\ \A d \in Existing : \A k \in cores[d].kinds : live'[k] = live[k]
                      /\ Settled'
    OBVIOUS
  <1>c. PICK c \in Existing :
          /\ Existing = {c}
          /\ \A k \in cores[c].kinds : live[k] = cores[c]
          /\ job \in {None, cores[c]}
    BY DEF Settled
  <1>t. /\ cores[c] \in CoreOf /\ cores[c] # None /\ cores[c].core = c
        /\ cores[c].kinds \subseteq Kinds
        /\ live \in [Kinds -> CoreOf \union {None}]
        /\ job = None <=> pc = "idle"
        /\ todo \subseteq (IF job = None THEN {} ELSE job.kinds)
        /\ pc \in {"idle", "next"}
    BY <1>c, CoreFields DEF WorkerInv, TypeOK, Existing, Settled
  <1>1. ASSUME UNCHANGED users, \A k \in cores[c].kinds : live'[k] = live[k],
               job' \in {None, job, cores[c]}, pc' \in {"idle", "next"}
        PROVE  /\ \A d \in Existing : \A k \in cores[d].kinds : live'[k] = live[k]
               /\ Settled'
    <2>1. Existing' = Existing /\ cores' = cores
      BY <1>1 DEF users, Existing
    <2> QED
      BY <1>1, <1>c, <2>1 DEF Settled
  <1>2. CASE Users
    <2>1. changes \in Nat
      BY CoreAssumption DEF WorkerInv, TypeOK, Versions
    <2>2. Change
      BY <1>2 DEF Users, PutCore, DeleteCore, DeleteObject
    <2> QED
      BY <2>1, <2>2 DEF Change
  <1>3. ASSUME NEW k \in Kinds, Collect(k)
        PROVE  UNCHANGED users /\ UNCHANGED worker /\ \A j \in cores[c].kinds : live'[j] = live[j]
    <2>1. k \notin cores[c].kinds
      BY <1>3, <1>c, <1>t DEF Collect, Orphaned
    <2> QED
      BY <1>3, <1>t, <2>1 DEF Collect, TakeAway
  <1>4. CASE \E k \in Kinds : Collect(k)
    BY <1>1, <1>3, <1>4, <1>t DEF worker
  <1>5. CASE (\E d \in Cores : Resync(d)) \/ UNCHANGED vars
    BY <1>1, <1>5, <1>t DEF Resync, vars, cluster, worker
  <1>6. ASSUME NEW d \in Cores, Begin(d)
        PROVE  UNCHANGED users /\ UNCHANGED live /\ job' \in {job, cores[c]} /\ pc' \in {"idle", "next"}
    BY <1>6, <1>c DEF Begin, cluster
  <1>7. ASSUME NEW k \in Kinds, Find(k)
        PROVE  UNCHANGED <<users, live, job, pc>>
    <2>1. k \in todo /\ job = cores[c]
      BY <1>7, <1>c, <1>t DEF Find, Eligible
    <2>2. live[k] = job /\ live[k] # None
      BY <1>c, <1>t, <2>1
    <2> QED
      BY <1>7, <2>2 DEF Find, SameKey, cluster
  <1>8. CASE FailToFind \/ EndPass \/ Restart
    BY <1>1, <1>8 DEF FailToFind, EndPass, Restart, End, cluster
  <1>9. CASE Reconcile
    <2>1. CASE \E d \in Cores : Begin(d)
      BY <1>1, <1>6, <2>1
    <2>2. CASE \E k \in Kinds : Find(k)
      BY <1>1, <1>7, <1>t, <2>2
    <2> QED
      BY <1>8, <1>9, <1>t, <2>1, <2>2
      DEF Reconcile, Update, FailToUpdate, Delete, Create, FailToCreate
  <1> QED
    BY <1>2, <1>4, <1>5, <1>8, <1>9 DEF Next

(***************************************************************************)
(* The objects of the only core, once they are as it asks, are left alone: *)
(* no pass over them, cut short or not, makes a call that changes one.     *)
(***************************************************************************)
THEOREM SettledStays == Spec => StaysSettled
  <1> DEFINE Step ==
        Settled /\ UNCHANGED changes =>
          /\ \A c \in Existing : \A k \in cores[c].kinds : live'[k] = live[k]
          /\ Settled'
  <1>1. WorkerInv /\ [Next]_vars => [Step]_vars
    BY SettledNext
  <1> HIDE DEF Step
  <1>2. Spec => [][Step]_vars
    BY <1>1, WorkerInit, WorkerNext, PTL DEF Spec
  <1> QED
    BY <1>2 DEF StaysSettled, Step

\* What the controller rests on is settled: when there is one core, nothing has
\* been taken away from it and the garbage collector is through, coming to rest
\* is for good.
COROLLARY AtRestSettled ==
  Spec => []( /\ pc = "idle" /\ queue = {} /\ removed = {}
              /\ \E c \in Existing : Existing = {c}
              /\ \A k \in Kinds : live[k] = None \/ ~Orphaned(live[k])
              => Settled)
  <1> DEFINE Rested == /\ pc = "idle" /\ queue = {} /\ removed = {}
                       /\ \E c \in Existing : Existing = {c}
                       /\ \A k \in Kinds : live[k] = None \/ ~Orphaned(live[k])
  <1>1. WorkerInv /\ RestsOnCurrent => (Rested => Settled)
    <2> SUFFICES ASSUME WorkerInv, RestsOnCurrent, Rested PROVE Settled
      OBVIOUS
    <2>1. PICK c \in Existing : Existing = {c}
      OBVIOUS
    <2>2. job = None /\ cores[c].kinds \subseteq Kinds
      BY CoreFields DEF WorkerInv, TypeOK, Existing
    <2>3. ASSUME NEW k \in cores[c].kinds PROVE live[k] = cores[c]
      <3>1. live[k] # None /\ (live[k].core = c => live[k] = cores[c])
        BY <2>3 DEF RestsOnCurrent
      <3>2. live[k].core = c
        BY <2>1, <2>2, <3>1 DEF Orphaned
      <3> QED
        BY <3>1, <3>2
    <2> QED
      BY <2>1, <2>2, <2>3 DEF Settled
  <1> HIDE DEF Rested
  <1>2. Spec => []WorkerInv
    BY WorkerInit, WorkerNext, PTL DEF Spec
  <1>3. Spec => [](Rested => Settled)
    BY <1>1, <1>2, AtRest, PTL
  <1> QED
    BY <1>3 DEF Rested

-----------------------------------------------------------------------------
(* The refinement of DesiredState. *)

\* What there is to deploy has been asked for.
AskedInv ==
  /\ WorkerInv
  /\ \A c \in Existing : cores[c] \in asked
  /\ job # None => job \in asked

LEMMA AskedInit == Init => AskedInv
  <1> SUFFICES ASSUME Init PROVE AskedInv
    OBVIOUS
  <1>1. \A c \in Existing : cores[c] \in asked
    BY DEF Init, Existing
  <1> QED
    BY <1>1, WorkerInit DEF AskedInv, Init

LEMMA AskedNext == AskedInv /\ [Next]_vars => AskedInv'
  <1> SUFFICES ASSUME AskedInv, [Next]_vars PROVE AskedInv'
    OBVIOUS
  <1> USE DEF AskedInv
  <1>w. WorkerInv'
    BY WorkerNext
  <1>t. cores \in [Cores -> CoreOf \union {None}]
    BY DEF WorkerInv, TypeOK
  <1>1. ASSUME UNCHANGED users, job' \in {job, None} PROVE AskedInv'
    BY <1>1, <1>w DEF users, Existing
  <1>2. ASSUME NEW c \in Cores, PutCore(c) PROVE AskedInv'
    <2>1. /\ \A d \in Existing' : d # c => d \in Existing /\ cores'[d] = cores[d]
          /\ asked' = asked \union {cores'[c]}
          /\ job' = job
      BY <1>2, <1>t DEF PutCore, worker, Existing
    <2> QED
      BY <1>w, <2>1
  <1>3. ASSUME NEW c \in Cores, DeleteCore(c) PROVE AskedInv'
    BY <1>3, <1>w, <1>t DEF DeleteCore, worker, Existing
  <1>4. ASSUME NEW c \in Cores, Begin(c) PROVE AskedInv'
    BY <1>4, <1>w DEF Begin, users, Existing
  <1>5. CASE Users
    BY <1>1, <1>2, <1>3, <1>5 DEF Users, DeleteObject, TakeAway, worker
  <1>6. CASE Reconcile
    BY <1>1, <1>4, <1>6
    DEF Reconcile, Find, FailToFind, Update, FailToUpdate, Delete, Create, FailToCreate,
        EndPass, End, Done, Go
  <1>7. CASE (\E k \in Kinds : Collect(k)) \/ (\E c \in Cores : Resync(c)) \/ Restart \/ UNCHANGED vars
    BY <1>1, <1>7 DEF Collect, TakeAway, Resync, Restart, worker, vars
  <1> QED
    BY <1>5, <1>6, <1>7 DEF Next

\* What is asked of the objects, as DesiredState has it.
LEMMA WantedAsked ==
  ASSUME AskedInv
  PROVE  Desired!Asked
  <1>1. asked \in SUBSET CoreOf
    BY DEF AskedInv, WorkerInv, TypeOK
  <1>2. ASSUME NEW k \in Kinds
        PROVE  Wanted(k) \in {c \in asked : k \in c.kinds} \union {None, Unspecified}
    <2>1. CASE \E c \in Existing : Existing = {c} /\ k \in cores[c].kinds
      <3>1. PICK c \in Existing : Existing = {c} /\ k \in cores[c].kinds
        BY <2>1
      <3>2. (CHOOSE d \in Existing : TRUE) = c
        BY <3>1
      <3>3. Wanted(k) = cores[c]
        BY <2>1, <3>1, <3>2 DEF Wanted
      <3> QED
        BY <3>1, <3>3 DEF AskedInv
    <2>2. CASE ~(\E c \in Existing : Existing = {c} /\ k \in cores[c].kinds)
      BY <2>2 DEF Wanted
    <2> QED
      BY <2>1, <2>2
  <1> QED
    BY <1>1, <1>2 DEF Desired!Asked

LEMMA InitRefines == Init => Desired!Init
  <1> SUFFICES ASSUME Init PROVE Desired!Init
    OBVIOUS
  <1>1. Desired!Asked
    BY AskedInit, WantedAsked
  <1> QED
    BY <1>1 DEF Desired!Init, Init

LEMMA NextRefines == AskedInv /\ [Next]_vars => [Desired!Next]_(Desired!vars)
  <1> SUFFICES ASSUME AskedInv, [Next]_vars PROVE [Desired!Next]_(Desired!vars)
    OBVIOUS
  <1>i. AskedInv'
    BY AskedNext
  <1>t. /\ live \in [Kinds -> CoreOf \union {None}]
        /\ live' \in [Kinds -> CoreOf \union {None}]
        /\ asked \in SUBSET CoreOf
    BY <1>i DEF AskedInv, WorkerInv, TypeOK
  <1>u. UNCHANGED cores => UNCHANGED [k \in Kinds |-> Wanted(k)]
    BY DEF Wanted, Existing
  <1>1. ASSUME UNCHANGED <<users, live>> PROVE UNCHANGED Desired!vars
    BY <1>1, <1>u DEF Desired!vars, users
  <1>d. ASSUME NEW k \in Kinds, NEW o \in {c \in asked : k \in c.kinds} \union {None},
               live' = [live EXCEPT ![k] = o], UNCHANGED users
        PROVE  Desired!Next
    <2>1. Desired!Deploy({k})
      BY <1>d, <1>t, <1>u DEF Desired!Deploy, users
    <2> QED
      BY <2>1 DEF Desired!Next
  <1>2. ASSUME NEW k \in Kinds, live' = [live EXCEPT ![k] = None], UNCHANGED users
        PROVE  Desired!Next
    BY <1>2, <1>d
  <1>3. ASSUME Deployed, kind # None, UNCHANGED users PROVE Desired!Next
    <2>1. kind \in Kinds /\ job \in asked /\ kind \in job.kinds
      BY <1>3 DEF AskedInv, WorkerInv, TypeOK
    <2> QED
      BY <1>3, <1>d, <2>1 DEF Deployed
  <1>4. ASSUME NEW c \in Cores, PutCore(c) \/ DeleteCore(c) PROVE Desired!Next
    <2>1. live' = live /\ asked \subseteq asked'
      BY <1>4 DEF PutCore, DeleteCore, cluster
    <2>2. Desired!Asked'
      BY <1>i, WantedAsked, PTL
    <2> QED
      BY <2>1, <2>2 DEF Desired!Next, Desired!Ask
  <1>5. CASE Users
    BY <1>2, <1>4, <1>5 DEF Users, DeleteObject, TakeAway
  <1>6. CASE Reconcile
    <2>1. pc \in {"update", "delete", "create"} => kind \in Kinds /\ kind # None
      BY DEF AskedInv, WorkerInv, TypeOK
    <2> QED
      BY <1>1, <1>2, <1>3, <1>6, <2>1
      DEF Reconcile, Begin, Find, FailToFind, Update, FailToUpdate, Delete, Create,
          FailToCreate, EndPass, cluster
  <1>7. CASE (\E k \in Kinds : Collect(k)) \/ (\E c \in Cores : Resync(c)) \/ Restart \/ UNCHANGED vars
    BY <1>1, <1>2, <1>7 DEF Collect, TakeAway, Resync, Restart, vars, cluster
  <1> QED
    BY <1>5, <1>6, <1>7 DEF Next

(***************************************************************************)
(* Whatever the cluster's users, the core reconciler never deploys what    *)
(* no core has asked for: each of its steps is one DesiredState allows.    *)
(***************************************************************************)
THEOREM NeverMakesThingsUp == Spec => Desired!Init /\ [][Desired!Next]_(Desired!vars)
  BY AskedInit, AskedNext, InitRefines, NextRefines, PTL DEF Spec

=============================================================================
