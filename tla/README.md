# A verification of github-runner-autoscaler

TLA+ modules of the autoscaler, configurations that model-check them with TLC, and proofs that
TLAPS checks. Source paths are relative to the root of the repository; `pkg/` is `apiserver/pkg/`.

## The system

The autoscaler keeps self-hosted GitHub runners on Kubernetes. A user creates one
ScaledActionRunner per repository; an **operator** turns it into a StatefulSet of runners and a KEDA
ScaledObject; KEDA polls an **API server** for a metric, the number of runners a repository wants;
the API server asks GitHub how many jobs are queued.

    user ──> ScaledActionRunner ──> operator ──> StatefulSet, ScaledObject
                    │                                        │
                    └─ list, watch ─> API server <── poll ── KEDA ──> replicas of the StatefulSet
                                       │      │
                          memcached <──┘      └──> GitHub

### Components

| Component | State it keeps | Operations | Interacts with | What makes it correct |
|---|---|---|---|---|
| Scaling decisions, `pkg/scaling` | none | `GetOutput`, `CalculateForcedScale` | called by a metric query | the metric stays within its limits, a queue gets a runner, a longer queue never fewer |
| Metric query and cache, `pkg/host`, `pkg/gitclient/client.go`, `pkg/state` | one `ClientState` per workflow: last queue, its stamp, status, next forced scaling; one record of workflow files per repository | `QueryMetric`, `GetQueuedJobs`, `GetWorkflowInfo`, the warm-up of `NewHost` | memcached shared by all replicas, GitHub | what is served is a queue GitHub had, young enough; GitHub is not asked more than needed; forced scaling comes back and ends |
| Workflow store, `pkg/config/workflows.go`, `pkg/runnerclient` | a map from a runner's name to its workflow and token | initial copy, resync every interval, one watcher per namespace | Kubernetes API: runners and secrets | the map follows the cluster; a failure does not empty it |
| Metrics API provider, `pkg/k8sprovider` | none | `GetMetricByName`, `GetMetricBySelector`, `ListAllMetrics` | queries, labels | the value that is served |
| Label selection, `pkg/labeling` | none | `FilterBySelector` and helpers | runs and workflow files | a job counts if and only if it matches; a job that is queued ends up with a runner |
| GitHub client, `pkg/gitclient/github_client.go` | none | list runs, read workflow files | GitHub | a file that cannot be read does not cost the others |
| ScaledActionRunner reconciler, `operator/controllers`, `operator/sargenerator` | StatefulSet and ScaledObject in the cluster | `Reconcile`: validate, create, delete and create again, clean up | Kubernetes API through informers, secrets | one StatefulSet that has what the runner asks for, also after a crash; the operator comes to rest |
| Secret reconciler | status of the runner | `Reconcile` | the runner reconciler | a changed secret reaches the pods |
| Core reconciler, `operator/coregenerator` | API server, memcached and their objects | `Reconcile`, `CreateUpdateOrReplace` | Kubernetes API | prerequisites first; the deployment converges and settles |
| Registration service, `GithubRunnerRegistration` | files below the temporary path | register runners | GitHub's runner binary | each runner gets its own credentials; nothing is left behind |
| `add-runner` | what it has collected so far | register name-0, name-1..., generate manifests | runner image, GitHub | the i-th secret is that of the i-th pod |
| `runner` image, charts, examples | none | start a runner | | |

### Hard behaviours

* **Concurrency.** Every poll is a goroutine on some replica. Two of them read a `ClientState`,
  call GitHub and write the whole record back, without a lock or a compare-and-swap. The resync
  goroutine and the watchers write the workflow store, each with copies they made earlier.
* **Failure.** GitHub, memcached and the Kubernetes API fail at any call; a replica dies between
  two of them; memcached forgets.
* **Ordering.** Watch events are lost while no watch is open, dropped when a token cannot be read,
  and applied after a newer resync.
* **Two calls for one change.** The operator never edits a StatefulSet and replaces what it cannot
  update: it deletes and creates, and may die in between. It decides on caches that lag behind its own
  writes, and nobody tells it when a ScaledObject, a secret or an object of a core changes.
* **Shared names.** Two registrations of one name use one directory and replace each other at GitHub;
  two cores deploy objects of the same names.
* **Time.** Cache windows, the lifetime of a record in memcached and the forced scaling schedule all
  run at once; the schedule lives in a record that expires.

`PROJECT.json` lists these as hazards, each at its line.

## Modules

| Module | Models | Extends or instantiates |
|---|---|---|
| `Scaling` | `pkg/scaling`: the curve, its clamps and rounding, the forced scaling decision | |
| `ScalingCurve` | the metric served as a queue changes (`valueFor`) | `Scaling` |
| `MetricServed`, `MCMetricServed` | the queue itself: runs, workflow files, labels, selectors | `ScalingCurve` |
| `FreshAnswers` | what an answer of the API server means to KEDA; abstract | |
| `MetricQuery`, `MCMetricQuery` | queries, the shared state store, GitHub, faults | `Scaling`; refines `FreshAnswers` |
| `ForcedScale` | forced scaling over unbounded time, with the record's expiry | `Scaling` |
| `DesiredState` | what those who follow the cluster promise of what they manage; abstract | |
| `WorkflowStore`, `MCWorkflowStore` | the cache of runners, its resync and its watchers | refines `DesiredState` |
| `RunnerReconciler`, `MCRunnerReconciler` | the controller of a ScaledActionRunner, secrets included | refines `DesiredState` |
| `CoreReconciler`, `MCCoreReconciler` | the controller of the cores | refines `DesiredState` |
| `RegisterService` | the registration service | |
| `AddRunner` | an execution of `add-runner` | |
| `Registration`, `MCRegistration` | the two at one GitHub | `RegisterService`, `AddRunner` |
| `ScalingProofs`, `ScalingCurveProofs`, `MetricQueryProofs`, `ForcedScaleProofs`, `WorkflowStoreProofs`, `RunnerReconcilerProofs`, `CoreReconcilerProofs`, `RegistrationProofs` | theorems about the modules they extend | |

### Scaling

A float is an exact fraction. The logistic curve only uses the scale factor k through e^(-kx), so a
configuration carries a table of that decay; the proofs assume of it what a k of at least 0
guarantees: positive, at most 1, never growing. `CalculateForcedScale` returns the two results of
the code. One case is easy to misread: when a window has ended the code adds
`time.Duration(rndSecs)`, that many nanoseconds, so the new schedule has no random delay to speak of.

### MetricQuery

| Model | Code |
|---|---|
| `store[w]`, `ClientState` | the record under a workflow's name in memcached or in `InMemoryStateProvider` |
| `pc[t]`, `local[t]`, `reply[t]` | where a goroutine stands, the copy of the record it holds, what it will answer |
| `ReadQueue` | `GetQueuedJobs` up to the cache decision |
| `AskGitHub`, `SaveQueue` | the call to GitHub; the write back and the return |
| `GetWorkflowInfo` | the read of the workflow information, for its failures only |
| `ReadForced`, `SaveForced` | `CalculateForcedScale` on a second read; the second write, whose result is ignored |
| `Start(t, w, "warmup")` | the loop over all workflows in `NewHost` |
| `StoreDown`, `StoreUp`, `Forget`, `Crash` | memcached and the replicas fail |

Each read, write and call is a step, so every interleaving of two goroutines is there. A write to a
store that does not answer may or may not land. `saved`, `lastForced` and `sawStore` are history for
the properties and guard nothing. Abstractions: all replicas share one clock; the stamp is taken in
the step in which GitHub answers; the jobs are a set, and the labels that filter them are left out;
the in-memory provider is the case `StoreCanFail = FALSE` with a `Crash` and a `Forget` as restart.

`FreshAnswers` knows neither store nor calls. Who has asked is answered once, with what GitHub had
queued at one tick, recent enough for that queue when the question came, or fails, or leaves.
`LooksOnce` says that `MetricQuery` implements it: the question is that of a goroutine whose query is
not a warm-up, the answer what it holds when it is done. Every step in between is a stutter.

### ForcedScale

`MetricQuery` has a bounded clock. To say that forced scaling recurs, `ForcedScale` makes a query one
step and keeps every time relative to the present: a tick makes a schedule one tick older, down to the
age at which its window is over anyhow. `kept` counts down to the record's expiry and is renewed by each
write, `served` counts down the cache window.

### WorkflowStore

| Model | Code |
|---|---|
| `store` | `Config.store`, keyed by the name alone |
| `List`, `ReadToken`, `Replace`, `KeepOld`, `Update` | `copyAllWorkflows` in its order: all lists, all tokens, then the cache |
| `Resync` | the ticker of `syncWorkflows` |
| `OpenWatch`, `Receive`, `Apply`, `CloseWatch` | `setupWatcher` and the client's `Watch` |
| `PutRunner`, `DeleteRunner`, `PutSecret` | the cluster |

`Watch` of the client sends the watch request twice, first as a Get that reads the stream until the API
server ends it and throws the result away. The watcher therefore stands in `opening` for as long as the
API server likes, and nothing is assumed about when it leaves. Scopes, tokens and entries are taken in
the order of the listing, and of two entries with one name the last listed wins (`FromEnd`). A stream
that is given up takes its unread events with it.

`since` and `ever` are history for the properties and guard nothing: what a runner has been, and the
tokens its secret has held, since the resync that is under way began, and ever. The cache under a name
is an object of `DesiredState`: asked for is whatever a runner of the name has been with any token it
has had, wanted what the last listed of them is now. Nothing in particular is wanted while some runner
has no readable token, or its secret several.

### ScalingCurve and MetricServed

`Ask` asks for the metric of any queue. Scale factors are quarters, so that all powers of e come from
one table; the tables of `scaling_test.go` are the expectation. `TestLogistic` leaves its loop after
the first match; `ConformsToTests` compares every entry.

`MetricServed` says where the queue's length comes from. `queue[w]` are the queued runs of a workflow,
`info` is the record `WorkflowInfo` of the state store, `getLabels` the labels of a run and `Filtered`
the length of the list `FilterBySelector` returns. A selector is a set of labels a run must have
(`wf_name=main`, `wf_runs_on_deploy` and `*` of README.md). A label is a pair of its key's prefix and
its value. A queued run is a workflow and a number. `PollKnown` and `PollFetch` are a poll that finds
the record and one that makes it; `FailToPoll` writes it and fails later. `processWorkflow` gives a file
whose job has a scalar `runs-on` no labels, because `RunsOn` is a list and the file does not unmarshal.
A poll is one step here: what may come between its steps is the subject of `MetricQuery`.

### RunnerReconciler and DesiredState

| Model | Code |
|---|---|
| `ss`, `so`, `cachedSs`, `cachedSo` | the two objects, and the informers' idea of them, which `Get` of the manager's client reads |
| `Begin` | the key is taken, the runner read and validated |
| `FailStatefulSet`, `CreateStatefulSet`, `KeepStatefulSet`, `DeleteStatefulSet`, `RecreateStatefulSet` | `syncStatefulSet` up to each of its returns |
| `CreateScaledObject`, `UpdateScaledObject`, `KeepScaledObject` | `syncScaledObject` |
| `CleanUpScaledObject`, `CleanUpStatefulSet` | `deleteDependant` for each object of a runner that is gone |
| `Finish` | the requeue when something was modified or failed |
| `ScaledSetUpdates`, `Patched`, `Replacement` | `getScaledSetUpdates` with `SetEnvVars`, `PatchStatefulSet`, and the comparison of hashes between them |
| `ScaledObjectUpdates` | `assignScaledObjectPropsFromRunner` |
| `Stored`, `Forms` | what the API server fills in or rewrites, and what there is to fill in or rewrite |
| `PutSecret` | a secret changes; of the secret reconciler's `Update` the API server drops the status, the only field it changes |
| `Restart`, `Call` | the operator dies; a call fails, before or after its effect |

A runner's spec has one field for each way in which the code treats a field, and no more. `image` stands
for what is compared with the StatefulSet and copied into it (image, volumes, tolerations, limits,
service account). `env` is merged: `SetEnvVars` adds and overwrites variables, and neither removes one
nor notices that it should; the `runnerLabels` are the variable `LABELS`. `server` is what the URL of
the metric is made of; the URL of a ScaledObject follows it, the name of its authentication is written
once. `scaling` is the behavior, copied while the runner has one and kept when it has none any more.
`form` is how things are written. What the API server hands back need not be what was sent, and the code
compares both in different ways: resources by their value, so that "raw" ones (the default limit of
`2000m` is stored as `2`) make no difference until they are part of a hash; the claim template as a
whole, so that one "short" of its `volumeMode`, which the API server adds, differs from every
StatefulSet there ever is.

A patch replaces a field the operator compares or one it does not, or cannot be applied. A hash is the
template it is of, `form` included: one of the template as "generated" is not that of the same read
back. A pass of the worker reads the caches when it makes its next call; the lag of the caches stands
for the time in between. The contents of the secrets are a number; that of a secret that is gone since
it was validated is 0, because the error is logged and the rest is hashed, unless it is the token, which
is an error.

`DesiredState` is the promise: an object is at all times none or something its user has asked for, and
once the user stops asking for something else it becomes and stays that. Its `Follows` is the promise's
second half. `Batches` says which objects may change in one step: one at a time for the operator, any of
them for a resync that replaces the workflow store.

For the runner reconciler an object of `DesiredState` is a *part* of the StatefulSet or of the
ScaledObject, because the two objects as wholes are not what was asked for: an update mixes what is
there with what is asked for now. The parts of one object change together. `Unattended` lists where the
second half of the promise ends: a variable or a behavior that is asked for no more, the authentication
once the server has changed, and the pods while the patch cannot be applied or the claim template keeps
the StatefulSet from ever staying; while a secret is missing nothing in particular is wanted of any
part.

### CoreReconciler

| Model | Code |
|---|---|
| `live[k]` | an object of a core: the core it was made from, its hashed key |
| `Begin`, `EndPass`, `Eligible` | `Reconcile` with `deploy(objs, true)` before `deploy(objs, false)` |
| `Find`, `Update`, `FailToUpdate`, `Delete`, `Create`, `FailToCreate` | `CreateUpdateOrReplace`, call by call; the errors of the update and of the delete only choose the next call |
| `Collect`, `Resync`, `Restart` | the garbage collector, the resync of the cache of cores, a crash |

The content of an object is the core it was made from, which is what `getKey` hashes. `removed` is
history: what was taken away behind the back of a core, which its controller cannot know. It guards
nothing. The generators' choice of objects is `KindSets`. An object a core no longer asks for stays
(the code has a TODO), and of two cores each takes the objects back from the other at every resync;
`Wanted` therefore promises nothing in these two cases.

### Registration

`RegisterService` follows `Post`, `Setup`, `RegisterRunner` and `GetCredentials`; `AddRunner` follows
`index.ts` through `config.ts`, `runner.ts` and `resources.ts`. A file is the registration it comes from
(who made it, for which of its runners), so credentials of one piece are three equal values. `DirOf` is
the name alone, as in the code. A request is at a runner from `Prepare` to the `finally` (`CleanUp`,
`GiveUp`); `disturbed` remembers which requests shared a directory meanwhile, and `abandoned` which
directories have nobody to delete them. GitHub keeps one registration per repository and name and the
newest replaces the older (`--replace`).

## Runs

| Run | Instance | Checks |
|---|---|---|
| `metric_query_sequential` | 1 goroutine, 1 workflow, 1 job, 6 ticks, windows of 1 and 2 ticks; store and GitHub fail | `TypeOK`, `ServedFresh`, `NoRequestWithoutStore`, `WindowHonoured`, `ForcedWindowsApart` |
| `metric_query_concurrent` | 2 goroutines, 2 ticks, windows of 0 and 1; everything fails, crashes and is forgotten; goroutines symmetric | `StoredGenuine`, `LooksOnce` |
| `metric_query_contended` | 2 goroutines, no fault | `WindowHonoured` is violated |
| `metric_query_forced_off` | forced scaling window 0 | `NoPanic` is violated |
| `forced_scale` | a poll every 2 ticks, windows of 1 and 3, record kept for 6 | `ScheduleSurvives`, `ForcedAgain`, `ForcingEnds` |
| `scaling_curve` | the runners of the tests, and limits 0..2 to 2 and 4 with two curves each; two workflows, one label of which comes, goes or is unreadable; queues to 21 | `WithinLimits`, `QueueIsServed`, `ConformsToTests`, `NeverFewer`, `MatchesAlone`, `JobsFindRunners` |
| `workflow_store` | 2 runners of 2 namespaces, 2 specs, 2 changes or failed calls | `TypeOK`, `ResyncRecent`, `FailedLoadKeepsOld`, `FollowsCluster` |
| `workflow_store_list_error` | the same, listings may fail | `FailedLoadKeepsOld` is violated |
| `runner_reconciler` | 1 runner, 3 specs (a plain one; one with variable and behavior at another server and raw quantities; one with a short claim template), 4 kinds of patch that stay, 2 versions of the secrets or none, 2 changes, 1 failed call or crash | `TypeOK`, `RestsOnCurrent`, `RotationReachesPods`, `ScaledObjectFollows`, `NothingLeftBehind`, `Settles`, `StaysSettled`, `DeploysWhatIsAsked` |
| `runner_reconciler_patched` | the patch changes, no fault | `PatchApplied` is violated |
| `core_reconciler` | 2 cores, 3 objects of which one is a prerequisite, 2 changes, 1 failed call or crash | `TypeOK`, `RestsOnCurrent`, `PrereqsFirst`, `SettlesWithoutRival`, `StaysSettled`, `DeploysWhatIsAsked` |
| `registration` | 3 requests (two names; a name twice in another repository; a dry run) and one execution of `add-runner`; failures at every call, restarts | `TypeOK`, `CredentialsOwn`, `CleanedUp`, `SecretsMatchPods` |

**Why the bounds are enough.** Workflows share nothing but GitHub's credits, so `MetricQuery` needs one.
One job tells an empty queue from one that is not, which is all the code looks at before it counts. Six
ticks hold a forced window, the frequency after it and the next window; two hold an answer that lasts no
longer than its tick, a second one, and the first written over the second. Two goroutines are what a
lost update needs. In the store, two changes or failed calls reach a deletion missed by a watch, a stale
copy written over a newer entry, a runner that changes after it was listed and whose token changes
before it is read, and a token that fails in the middle of a copy next to a change. A queue of 21 is the
longest `scaling_test.go` lists, and two workflows tell a selector that filters from one that does not.
For the operator, two changes delete a runner and create it again, or edit it during the pass that
handles an edit, or take an object away meanwhile; one fault then hits any call of it, or is the crash
between delete and create. Its three specs add and remove a variable and a behavior, change the image
and the server, and come in every form. Two cores are one rival. The requests meet in a directory of
each other's repository, within a request, and with a dry run, and the tool registers over two of them.
The proofs remove the bounds for what they cover.

**Fairness.** `MetricQuery`, `ScalingCurve` and `Registration` have only safety properties and no
fairness. `MetricServed` assumes that polls are answered again and again. `ForcedScale` assumes the
same, within `PollGap`, and that time passes; queries may fail any number of times in between.
`WorkflowStore` assumes that the resync goroutine makes progress: its ticker fires (`--resync-interval`
above 0, as by default) and calls to the Kubernetes API return. Of the watchers nothing is assumed, so
`FollowsCluster` holds with all of them hung. The reconcilers assume what controller-runtime and the
cluster give them: a worker takes a queued key and goes on with its pass, informers deliver, the resync
comes round (every ten hours by default, and that is what restores a ScaledObject and carries a secret
to the pods) and the garbage collector does. No user and no fault is fair. Faults and changes are
bounded, so the liveness properties speak of what happens after the last.

**What `JobsFindRunners` cannot say.** A queued run whose file matches the selector ends up with a
runner if, from some time on, the files stay as they are and can be downloaded *and what is known of
them at that time is nothing or what they say*: at the start, after the record was lost, or when it was
made of these files. It does not say so after an edit, or after a download that failed when the record
was made, while KEDA polls: `GetWorkflowInfo` writes the record back with a new time to live on every
hit (`pkg/gitclient/client.go:52`), so that it may never be made again. Nothing in the code sees to it,
and no fairness is assumed of `Forget`.

### What the violations show

* **Two requests per window** (`pkg/gitclient/client.go:73`). README.md:329 describes the cache windows
  as how often GitHub is asked. A query decides on what it read and nothing marks the request as under
  way, so a second replica (the default is two) asks again until the answer is saved. The windows
  bound the age of a metric, which is `ServedFresh`, and not the credits spent. With one query at a
  time `WindowHonoured` holds.
* **Window 0 panics** (`pkg/scaling/scaling.go:80`). README.md:381: "Setting this to 0 disables the
  forced scaling up." The code dereferences the schedule before it tests it for nil, and a workflow
  never scheduled has none.
* **A failed listing purges** (`pkg/config/workflows.go:90`). A token that cannot be read keeps the old
  entries ("Some workflows failed to load - not purging old config"); a namespace that cannot be listed
  is skipped with `purgeOld` still true, so its workflows go.
* **A patch set again is not applied** (`operator/controllers/scaledactionrunner_controller.go:362`).
  README.md:378: "Runner.Patch accepts a RFC6092 JSON patch which gets applied to the stateful set". A
  StatefulSet that is made again after its patch was removed keeps the annotation with the patch's hash.
  When the same patch is set again, the hash is found and the StatefulSet left without the patch. This
  is why `runner_reconciler` and the theorems about `RestsOnCurrent` are about patches that stay.

### Observed while modelling

Disagreements that no run is spent on, because they are plain to see or outside of the models:

* README.md:150 says that a core not named `core` is ignored. The core reconciler deploys any core.
* `cacheWindow`, `cacheWindowWhenEmpty` and `resyncInterval` of a core are not passed to the API server.
* The password of memcached is drawn anew (`coregenerator.go:117`) whenever the key of a core changes.
* `add-runner` writes `runner.labels` and `selector` (`resources.ts:47`, `48`); the fields of the custom
  resource are `runnerLabels` and `metricsSelector` (`scaledactionrunner_types.go:58`, `50`).
* The rotation of a secret does not reach the pods of a runner with a patch: the patched template alone
  decides (`RotationReachesPods` says `patch = "none"`).
* A variable, or the `runnerLabels`, that is removed from a runner stays in its StatefulSet and triggers
  nothing (`sargenerator.go:219`, `229`); a `scaling` or a `behavior` that is removed stays in the
  ScaledObject, and the name of the `ClusterTriggerAuthentication` is never compared
  (`scaledactionrunner_controller.go:229`, `256`). `RestsOnCurrent` says `Meets`, and `Unattended` says
  the rest.
* A `workVolumeClaimTemplate` without `volumeMode` never equals what the API server makes of it
  (`scaledactionrunner_controller.go:422`): without a patch the StatefulSet is deleted and created again
  in every pass, each of which asks for the next. This is `Churns`, which `Settles` and
  `RotationReachesPods` exclude.
* A StatefulSet with a patch is created twice, because the first hash is of what was generated and the
  next of what the API server stored. A patch that removes the claim template makes the next pass panic
  (`:424`).
* Requests that meet in a directory may be answered with each other's credentials, and a dry run deletes
  the directory of a real request of the same name (`CredentialsOwn` excludes `disturbed`).
* `add-runner` does not wait for the pull of its image (`runner.ts:23`), looks at no exit code and takes
  an empty PEM (`runner.ts:61`).
* Only the newest 100 runs and the first page of workflows of a repository are looked at.

## Proofs

What TLAPS checks, for every value of the constants that satisfies the named assumptions:

| Theorem | States | By |
|---|---|---|
| `MetricQueryProofs!TypeCorrect` | `Spec => []TypeOK` | one lemma per helper, one step per action |
| `StoreStaysGenuine`, `MetricsAreFresh` | `[]StoredGenuine`, `[]ServedFresh` | the invariant `QueryInv` |
| `QueriesLookOnce` | `LooksOnce`, all of `Answers!Spec` | `QueryInv`: a step up to the answer is a stutter, the answer a look |
| `OutageStopsRequests` | `[]NoRequestWithoutStore` | the invariant `OutageInv` |
| `WindowsAreHonoured`, `ForcedWindowsKeepApart` | `WindowHonoured`, `ForcedWindowsApart`, for one query at a time and a store that forgets nothing | the invariant `AloneInv` |
| `ForcedScaleProofs!ScheduleIsNeverLost` | `ScheduleSurvives` | the invariant `RecordOutlivesGap` |
| `WorkflowStoreProofs!TypeCorrect` | `[]TypeOK` | |
| `ResyncIsRecent`, and its corollary `ResyncIsExact` | `ResyncRecent`; a resync nothing disturbed leaves the cache as the cluster is | the invariant `CopyInv` |
| `NeverMakesThingsUp` | the safety half of `Desired!Spec` | the invariant `KnownInv` |
| `TokenFailureKeepsOld` | `FailedLoadKeepsOld`, if listings do not fail | `~ListCanFail` makes a failed load imply `~purgeOld` |
| `ScalingProofs!OutputInBounds`, `QueueGetsARunner`, `OutputMonotone` | the output lies in the limits, is positive for a queue, and grows with it | arithmetic of fractions and rounding |
| `ScalingCurveProofs!ProperIsSensible` | a scale factor of at least 0 gives a curve that rises with the queue | `PowerDecays`, the least counterexample |
| `StaysWithinLimits`, `EveryQueueIsServed`, `LongerIsNeverFewer` | `[]WithinLimits`, `[]QueueIsServed`, `NeverFewer`, if runners are `Proper` | `MetricInv` and the four above |
| `TestsAreMet` | `[]ConformsToTests`, if runners are `Proper` | the entries of `Power` the tables need |
| `ServedIsCurve`, `ServedWithinLimits` | `ServedSpec => Spec`, and with it the limits for metrics that come of labels | a step of `MetricServed` is an `Ask` or a stutter |
| `OnlyMatchesCount` | `MatchesAlone`, if runners are `Proper` | the runs that match are a finite set, empty or not |
| `RunnerReconcilerProofs!TypeCorrect` | `[]TypeOK` | `StepInv` |
| `AtRestOnCurrent` | `[]RestsOnCurrent` (all that is asked for is there), if the patch stays | `CurrentInv` |
| `SettledStays` | `StaysSettled` | `Settled` is closed under every step but the user's |
| `NeverMakesThingsUp` | the safety half of `Desired!Spec` for each part of both objects | `AskedInv` |
| `CoreReconcilerProofs!TypeCorrect` | `[]TypeOK` | `WorkerInv` |
| `InOrder` | `PrereqsFirst` | `OrderInv` |
| `AtRest` | `[]RestsOnCurrent` | `RestInv` |
| `SettledStays`, `AtRestSettled` | `StaysSettled`; at rest, a core without a rival is settled | `WorkerInv`; `RestInv` |
| `NeverMakesThingsUp` | the safety half of `Desired!Spec` | `AskedInv` |
| `RegistrationProofs!TypeCorrect` | `[]TypeOK` | `TypeInv` |
| `NothingLeft` | `[]CleanedUp` | `KeptBySomebody` |
| `SecretsMatch` | `[]SecretsMatchPods` | `ToolInv` |
| `OwnCredentials` | `[]CredentialsOwn` | `CredentialsInv` |

*QueryInv.* `StoredGenuine` is not inductive: a goroutine writes back a copy it made before others
wrote, so the copy must be genuine as well. `ThreadInv` says so for the copy in every step that may
write, and adds that what a query has gathered was fresh when the query arrived. The age is counted from
the arrival: a query may take any time after it. Two writers can exchange whole genuine records, never
parts of them, and that is why the lost updates do no harm here.

*OutageInv.* A query that stands at GitHub has seen the store up, because the read that sent it there
succeeded; a query during whose life the store came up has seen it too.

*AloneInv.* When one query runs at a time its copy is the record as it still is (`CopyInv` of
`MetricQueryProofs`), so what it writes is a younger answer, no answer, or a later window, and nothing
is undone. `RecordInv` follows from that: the record has the stamp of the youngest answer that was ever
saved; if it is Errored that answer's window is over already, since nobody asked before, and stays over.
Its schedule is the one that last forced a query or lies a window and the frequency behind it, and a
write that is lost only leaves the older of the two. Two queries break `CopyInv` first, which is the
violation above.

*RecordOutlivesGap.* The schedule lives as long as its record. While an answer is served nobody
writes, and the record must outlast the rest of the window and one more gap between polls; when the
answer is stale the next poll writes, and the record must outlast what is left of the gap. With
`CacheTimeAssumption`, a cache window plus a poll gap below memcached's hour, both survive every step.
A `--cacheWindow` of an hour or more breaks the assumption, and the schedule is then lost each time.

*Answers.* `LooksOnce` adds to `ServedFresh` that a query is answered once and in one step: the
invariant already has what a query has gathered in every step that may answer, so `StepIsLook` proves
all six kinds of step at once. It needs that a query came at a tick (`since` in `ThreadInv`), which
tells a question from none.

*CopyInv.* A resync reads the cluster in many steps while it changes, so what it holds need not be what
is, or ever was, at one moment. `since` collects what each runner and its secret have been while it
runs; the invariant says that the present is in it, and so is every item still to be read and every
entry loaded, and that a runner which is in no scope still to be listed, no item and no entry was absent
at some time, or something failed to load. At `Replace` the first two are empty. So an entry that is
written is no older than the resync, a runner that is left out was absent in it, and of several of one
name only those listed before can have been overridden; the choice among entries uses that `FromEnd` is
well founded. If nothing changed, `since` is the present, and `ResyncIsExact` follows. The watchers do
not occur in the argument, because a `Replace` overwrites what they wrote.

*KnownInv.* Items, entries, events under way, events about to be applied and the cache itself have a
spec their runner has been and a token it has had (`ever`). Each step only moves them on, and every
change puts the new value into `ever` first. The watcher of a runner may combine an old spec with a
newer token; that is asked for, and it is all that the races of the two goroutines can produce.

*Proper.* The theorems about the curve hold for runners it was meant for: no more runners at least than
at most, room for one, and a scale factor of at least 0. That the powers of e then decay is not assumed.
`Power` is defined by recursion, so that it exists is proved first, from its beginnings (`UptoExists`,
`UptoUnique`); then that it never grows and never is 0, and each of these by its least counterexample,
because induction over an operator is out of the prover's reach. `TestsAreMet` computes the entries of
the table that the tests need and compares the curve at them with the expected numbers.

*Settled.* An object that is as asked must not be touched: a StatefulSet that is replaced loses its
pods. `Settled` names the states in which that is decided rightly, with the caches in step and the
worker holding nothing but the present runner, and the proof goes through every step but the user's. Of
the runner reconciler it takes more than `Meets`: `Agrees` says what the annotation has to be for the
next pass to find it again. It is the hash of the template in the form in which that pass will patch it:
the stored one when nothing is to be updated, the runner's own when something always is, as with a short
claim template or a patched image. Without a patch there is no such form for a short claim template, and
no state is settled. `SettledIsKept` shows that `Replacement` is then none, for which everything there
must be in stored form (`StepInv`). In the core reconciler the same holds by the key of each object, and
rest leads there (`AtRestSettled`).

*CurrentInv.* `RestsOnCurrent` speaks of the moment nothing is queued; what makes it so is spread over
the pass. The runner a pass has read is the current one, or its key is queued again. Every StatefulSet
there is, in the cluster, in the cache or planned, was made for the patch the runner has (`MadeFor`):
that is what the hash is trusted for, and what fails when a patch changes. And if the pass has modified
nothing so far, it found the cache as it should be (`KnownCurrent`); variables it found besides do no
harm to that. Any modification sets `again`, and with it the key goes back, as it does for ever if the
patch cannot be applied. The crash needs no case of its own: a restart lists every runner.

*AskedInv.* For the runner reconciler: every part of what the runner, and the one a pass has read, ask
for is among what the user has asked of that part, and so is every part of the StatefulSets and
ScaledObjects there are, in the cluster, in the caches and in hand. It has to speak of the caches,
because what is written is made of what they show (`ReplacementAsked`, `UpdatesAsked`); a merge of two
templates has no part that neither had. For the core reconciler the objects are wholes, and the core a
pass works for being among what was asked is enough.

*OrderInv.* During a pass a prerequisite of its core is still to come, in hand, or dealt with: deployed
for this very version or taken away since. Nothing else is in hand while one is still to come.

*RestInv.* A core whose key is not queued has every object as it asks, but for those the pass over this
version of it has not come to. Each failure ends the pass with the key requeued, so the invariant does
not have to say what was left undone. An object of a rival satisfies it: the rival's pass overwrote it,
and the core is not told.

*KeptBySomebody.* A directory belongs to somebody who is at its name and whose `finally` will delete it.
Two requests in one directory are no exception: it is enough that one is left, and the last deletes it.

*CredentialsInv.* `Met` says that two requests at the same name know of it. A request that met nobody is
then the only one to write in its directory, and `RequestInv` follows its files step by step to what it
holds and answers. That a registration counts must survive later runners of the same request: a name
that occurs twice replaces the first, and the request does not survive it, because the names are keys.

*ToolInv.* What an execution has collected is its own and counts, unless another client replaced it;
the three loops agree because they index the same sequence. It assumes that the names of one execution
are distinct, which `name-i` makes them.

**Only model-checked:** the liveness properties (`ForcedAgain`, `ForcingEnds`, `JobsFindRunners`,
`RotationReachesPods`, `ScaledObjectFollows`, `NothingLeftBehind`, `Settles`, `SettlesWithoutRival` and
the `Follows` of the three refinements of `DesiredState`), which are beyond the prover. Every invariant
and every action property of the passing runs has its theorem, under the hypotheses of the table.

## Plan

What is built came in this order: the metric query and the curve, the workflow store, the reconcilers
with their refinements, registration, labels, the abstract specifications of queries and of the store.
What is left:

1. **Lists.** `GetMetricBySelector` over the names `GetAllMetricNames` returns.
2. **End to end.** Store, query and reconciler composed on one runner.
3. **Forced scaling of many.** The spread of the windows of runners registered together.

## Not modelled

* *Configuration, start-up, health endpoint, `operator/main.go`, charts, examples.* They keep no state,
  or only build clients and objects.
* *`GetMetricBySelector`, `ListAllMetrics`.* Read-only loops over the query that is modelled; no
  ScaledObject of the operator asks for a list.
* *The runner image* but for the branch `add-runner` executes, which registers and prints.
* *The rest of the secret reconciler.* It writes a status that the API server drops, and its requeues
  change nothing.
* *`examples/add-runner.js` and `add-runner/src/k8sResources.ts`.* The first is the generated bundle of
  `add-runner/src` with all of its libraries, 55480 of the repository's 56190 lines of JavaScript and
  TypeScript; what is the repository's own in it is modelled where it is written. The second declares
  types only. Most of what is modelled is Go and C#.
* *Of the modelled parts:* memcached's limit on the size of an item, the gauges, the loop that connects
  to memcached at start-up, clocks that differ between replicas, selectors that exclude labels, the
  characters a label cannot hold, and patches that add to what they find at every pass.
* *Of the runner reconciler:* the limits of the replicas, which are copied at every difference; labels,
  which are written once; resources other than CPU and memory, which are copied when something else
  differs; the annotation that `getSecretsHash` writes on the secrets
  (`scaledactionrunner_controller.go:281`), which only the secret reconciler reads; and errors of reads
  other than "not found" (`:317`), which a cache does not have.
* *Of the core reconciler:* the key an object is known by also hashes the time the operator's binary was
  built (`coregenerator.go:420`). A new operator therefore deploys every object once more, which
  `SameKey` leaves out.
* *Of the registration service:* names like `""`, `.` or `..`, which `validateString` lets through and
  which are no directories of their own, and a deletion in the `finally` that fails by itself
  (`Register.cs:96`).
