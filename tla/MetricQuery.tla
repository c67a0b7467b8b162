---------------------------- MODULE MetricQuery ----------------------------
(***************************************************************************)
(* A metric query, from the moment a goroutine of some API server replica  *)
(* looks a workflow up to the moment it answers (host.QueryMetric), and    *)
(* the warm-up query every replica makes for every workflow when it starts *)
(* (host.NewHost).  Queries share one ClientState per workflow, kept in    *)
(* memcached by all replicas or in the memory of the only one.  They read  *)
(* it, call GitHub when it has gone stale, and write the WHOLE record back *)
(* without a lock and without memcached's compare-and-swap, twice: once    *)
(* for the queue, once for the forced scaling schedule.  Every read, every *)
(* call and every write is a step of its own here.  The in-memory provider *)
(* is the case of a store that cannot fail; a restart of its only replica  *)
(* is a Crash of every query and a Forget of every key.                    *)
(*                                                                         *)
(* Time is a bounded number of ticks.  The queue GitHub holds is whatever  *)
(* queueAt says; the stamp LastRequest is taken in the step in which the   *)
(* answer arrives, so the transit time of the answer is not modelled.      *)
(***************************************************************************)
EXTENDS Scaling, FiniteSets

CONSTANTS
  Workflows,              \* the workflows of the config store, by state key (the name)
  Threads,                \* goroutines answering queries, on all replicas
  Jobs,                   \* queued jobs GitHub may report
  CacheWindow,            \* --cacheWindow, in ticks
  CacheWindowWhenEmpty,   \* --cacheWindowWhenEmpty, in ticks
  ForceScaleUpWindow,     \* spec.forceScaleUpWindow, in ticks
  ForceScaleUpFrequency,  \* spec.forceScaleUpFrequency, in ticks
  MaxDelay,               \* the 24 hours rand.Intn draws from, in ticks
  StoreCanFail,           \* memcached may become unreachable
  StoreCanForget,         \* memcached may evict, expire or restart
  GitHubCanFail,          \* the GitHub API may answer with an error
  MaxTime                 \* bound: the last tick of a behaviour

ASSUME WindowsAssumption ==
  /\ CacheWindow \in Nat
  /\ CacheWindowWhenEmpty \in Nat
  /\ ForceScaleUpWindow \in Nat
  /\ ForceScaleUpFrequency \in Nat
  /\ MaxDelay \in Nat
  /\ MaxTime \in Nat \ {0}

ASSUME WorkflowsAssumption == Workflows # {}

ASSUME FaultsAssumption ==
  /\ StoreCanFail \in BOOLEAN
  /\ StoreCanForget \in BOOLEAN
  /\ GitHubCanFail \in BOOLEAN

VARIABLES
  now,            \* the clock all replicas share
  queueAt,        \* queueAt[w][n]: the jobs GitHub has queued for w at tick n
  up,             \* the state store answers
  store,          \* store[w]: the ClientState under key w
  pc,             \* pc[t]: where the goroutine stands
  query,          \* query[t]: the workflow asked for, why, and since when
  local,          \* local[t]: the ClientState the goroutine read and may write back
  reply,          \* reply[t]: what the query has gathered, and how it ended
  \* History, for the properties only:
  saved,          \* saved[w]: stamp of the youngest answer that reached the store
  lastForced,     \* lastForced[w]: the schedule that last forced a query
  sawStore        \* sawStore[t]: the store was up at some point of the query

vars == <<now, queueAt, up, store, pc, query, local, reply, saved, lastForced, sawStore>>
history == <<saved, lastForced, sawStore>>

Times == 1..MaxTime
Queues == SUBSET Jobs

-----------------------------------------------------------------------------
ClientState ==
  [lastValue : Queues, lastRequest : Nat, status : {"Unset", "Valid", "Errored"}, next : Nat]

\* A slip a run must notice: the status is left unset.
NewClientStateNoStatus ==
  [lastValue |-> {}, lastRequest |-> NoTime, status |-> "", next |-> NoTime]

\* NewClientState, which is also what a key that is not in the store reads as.
NewClientState == [lastValue |-> {}, lastRequest |-> NoTime, status |-> "Unset", next |-> NoTime]

Reply == [outcome : {"none", "ok", "error", "panic"}, jobs : Queues, at : Nat, forced : BOOLEAN]
NoReply == [outcome |-> "none", jobs |-> {}, at |-> NoTime, forced |-> FALSE]

\* since, the tick at which the query arrived, is for the properties only.
Query == [workflow : Workflows, kind : {"metric", "warmup"}, since : Nat]
NoQuery == [workflow |-> CHOOSE w \in Workflows : TRUE, kind |-> "metric", since |-> NoTime]
Steps == {"idle", "readQueue", "askGitHub", "saveQueue", "info", "readForced", "saveForced", "done"}

\* How long an answer may be served from the store.
WindowFor(jobs) == IF jobs = {} THEN CacheWindowWhenEmpty ELSE CacheWindow

\* Slips a run must notice: no look at the age, and an off-by-one window.
ExpiredByStatusOnly(s, at) == s.status # "Valid"
ExpiredOnTheDot(s, at) == s.status # "Valid" \/ at >= s.lastRequest + WindowFor(s.lastValue)

Expired(s, at) == s.status # "Valid" \/ at > s.lastRequest + WindowFor(s.lastValue)

-----------------------------------------------------------------------------
Init ==
  /\ now = 1
  /\ queueAt \in [Workflows -> [Times -> Queues]]
  /\ up = TRUE
  /\ store = [w \in Workflows |-> NewClientState]
  /\ pc = [t \in Threads |-> "idle"]
  /\ query = [t \in Threads |-> NoQuery]
  /\ local = [t \in Threads |-> NewClientState]
  /\ reply = [t \in Threads |-> NoReply]
  /\ saved = [w \in Workflows |-> NoTime]
  /\ lastForced = [w \in Workflows |-> NoTime]
  /\ sawStore = [t \in Threads |-> FALSE]

\* The query of t is over, one way or the other; an error carries no metric.
Finish(t, outcome) ==
  /\ pc' = [pc EXCEPT ![t] = "done"]
  /\ reply' = [reply EXCEPT ![t] = IF outcome = "ok" THEN [@ EXCEPT !.outcome = "ok"]
                                    ELSE [NoReply EXCEPT !.outcome = outcome]]
  /\ local' = [local EXCEPT ![t] = NewClientState]

Goto(t, step) == pc' = [pc EXCEPT ![t] = step]

\* A slip a run must notice: an unreachable store passes for an empty one.
GetStateNeverFails == FALSE

\* The Get of a state; the caller gives up when it fails.
GetStateFails == ~up

\* A Set on the store.  When the store does not answer the caller sees an
\* error, and the write may or may not have landed.
Landing == IF up THEN {TRUE} ELSE BOOLEAN
Write(w, s, landed) == store' = IF landed THEN [store EXCEPT ![w] = s] ELSE store

(***************************************************************************)
(* A poll of KEDA arrives, or a replica starts and warms a workflow up.    *)
(***************************************************************************)
Start(t, w, kind) ==
  /\ pc[t] = "idle"
  /\ Goto(t, "readQueue")
  /\ query' = [query EXCEPT ![t] = [workflow |-> w, kind |-> kind, since |-> now]]
  /\ sawStore' = [sawStore EXCEPT ![t] = up]
  /\ UNCHANGED <<now, queueAt, up, store, local, reply, saved, lastForced>>

(***************************************************************************)
(* The first half of client.GetQueuedJobs: read the state, serve it while  *)
(* it is valid and young, go to GitHub otherwise.  The warm-up formats the *)
(* nil retrieval time of a failed read before it looks at the error.       *)
(***************************************************************************)
\* A slip a run must notice: the metric is stamped when it is served.
GatheredNow(s) ==
  [outcome |-> "none", jobs |-> s.lastValue, at |-> now, forced |-> FALSE]

Gathered(s) ==
  [outcome |-> "none", jobs |-> s.lastValue, at |-> s.lastRequest, forced |-> FALSE]

QueueKnown(t, s) ==
  IF query[t].kind = "warmup"
  THEN /\ Finish(t, "ok")
  ELSE /\ Goto(t, "info")
       /\ reply' = [reply EXCEPT ![t] = Gathered(s)]
       /\ local' = [local EXCEPT ![t] = NewClientState]

ReadQueue(t) ==
  LET s == store[query[t].workflow]
  IN  /\ pc[t] = "readQueue"
      /\ \/ /\ GetStateFails
            /\ Finish(t, IF query[t].kind = "warmup" THEN "panic" ELSE "error")
         \/ /\ ~GetStateFails
            /\ ~Expired(s, now)
            /\ QueueKnown(t, s)
         \/ /\ ~GetStateFails
            /\ Expired(s, now)
            /\ Goto(t, "askGitHub")
            /\ local' = [local EXCEPT ![t] = s]
            /\ UNCHANGED reply
      /\ UNCHANGED <<now, queueAt, up, store, query, history>>

\* A slip a run must notice: a failure that stamps the record all the same.
GitHubFailureStamped(s, at) == [s EXCEPT !.status = "Errored", !.lastRequest = at]

\* A failure keeps the old value and its stamp and changes the status, so that
\* the next query tries again.
GitHubFailure(s, at) == [s EXCEPT !.status = "Errored"]
GitHubAnswer(s, jobs, at) ==
  [s EXCEPT !.lastValue = jobs, !.lastRequest = at, !.status = "Valid"]

AskGitHub(t) ==
  LET jobs == queueAt[query[t].workflow][now]
  IN  /\ pc[t] = "askGitHub"
      /\ \/ local' = [local EXCEPT ![t] = GitHubAnswer(@, jobs, now)]
         \/ GitHubCanFail /\ local' = [local EXCEPT ![t] = GitHubFailure(@, now)]
      /\ Goto(t, "saveQueue")
      /\ UNCHANGED <<now, queueAt, up, store, query, reply, history>>

\* The record goes back as it was read, but for the queue: the schedule in it
\* is the one of the read.  An error of GitHub or of the store ends the query.
SaveQueue(t) ==
  LET w == query[t].workflow
      s == local[t]
  IN  /\ pc[t] = "saveQueue"
      /\ \E landed \in Landing :
           /\ Write(w, s, landed)
           /\ saved' = [saved EXCEPT ![w] =
                          IF landed /\ s.status = "Valid" /\ s.lastRequest > @
                          THEN s.lastRequest ELSE @]
      /\ \/ /\ up
            /\ s.status = "Valid"
            /\ QueueKnown(t, s)
         \/ /\ ~(up /\ s.status = "Valid")
            /\ Finish(t, "error")
      /\ UNCHANGED <<now, queueAt, up, query, lastForced, sawStore>>

\* client.GetWorkflowInfo: a read of the store, a call to GitHub when it has
\* nothing, a write of the store.  Its contents do not matter here, its
\* failures do.
GetWorkflowInfo(t) ==
  /\ pc[t] = "info"
  /\ \/ up /\ Goto(t, "readForced") /\ UNCHANGED <<reply, local>>
     \/ (~up \/ GitHubCanFail) /\ Finish(t, "error")
  /\ UNCHANGED <<now, queueAt, up, store, query, history>>

\* The answer is complete; a new schedule is still to be written.
Decide(t, s, c) ==
  /\ reply' = [reply EXCEPT ![t] =
                 [outcome |-> IF c.next = s.next THEN "ok" ELSE "none",
                  jobs |-> @.jobs, at |-> @.at, forced |-> c.forced]]
  /\ Goto(t, IF c.next = s.next THEN "done" ELSE "saveForced")
  /\ local' = [local EXCEPT ![t] = IF c.next = s.next THEN NewClientState
                                   ELSE [s EXCEPT !.next = c.next]]

(***************************************************************************)
(* The second half of QueryMetric: read the state again and decide whether *)
(* this answer is forced; write the state back when the schedule is new.   *)
(***************************************************************************)
ReadForced(t) ==
  LET w == query[t].workflow
      s == store[w]
  IN  /\ pc[t] = "readForced"
      /\ \/ /\ GetStateFails
            /\ Finish(t, "error")
            /\ UNCHANGED lastForced
         \/ /\ ~GetStateFails
            /\ ForcedScalePanics(s.next, ForceScaleUpWindow)
            /\ Finish(t, "panic")
            /\ UNCHANGED lastForced
         \/ /\ ~GetStateFails
            /\ ~ForcedScalePanics(s.next, ForceScaleUpWindow)
            /\ \E rnd \in 0..MaxDelay :
                 LET c == CalculateForcedScale(s.next, ForceScaleUpWindow,
                                               ForceScaleUpFrequency, now, rnd)
                 IN  /\ Decide(t, s, c)
                     /\ lastForced' = [lastForced EXCEPT ![w] = IF c.forced THEN s.next ELSE @]
      /\ UNCHANGED <<now, queueAt, up, store, query, saved, sawStore>>

\* The result of this write is not looked at.
SaveForced(t) ==
  /\ pc[t] = "saveForced"
  /\ \E landed \in Landing : Write(query[t].workflow, local[t], landed)
  /\ Finish(t, "ok")
  /\ UNCHANGED <<now, queueAt, up, query, history>>

\* The goroutine ends, and all it held with it.
Gone(t) ==
  /\ Goto(t, "idle")
  /\ query' = [query EXCEPT ![t] = NoQuery]
  /\ local' = [local EXCEPT ![t] = NewClientState]
  /\ reply' = [reply EXCEPT ![t] = NoReply]
  /\ sawStore' = [sawStore EXCEPT ![t] = FALSE]

\* The response has been sent.
Return(t) ==
  /\ pc[t] = "done"
  /\ Gone(t)
  /\ UNCHANGED <<now, queueAt, up, store, saved, lastForced>>

-----------------------------------------------------------------------------
(* The environment. *)

Tick ==
  /\ now < MaxTime
  /\ now' = now + 1
  /\ UNCHANGED <<queueAt, up, store, pc, query, local, reply, history>>

StoreDown ==
  /\ StoreCanFail /\ up
  /\ up' = FALSE
  /\ UNCHANGED <<now, queueAt, store, pc, query, local, reply, history>>

StoreUp ==
  /\ ~up
  /\ up' = TRUE
  /\ sawStore' = [t \in Threads |-> pc[t] # "idle"]
  /\ UNCHANGED <<now, queueAt, store, pc, query, local, reply, saved, lastForced>>

\* Memcached drops an entry: it expired, was evicted, or its server restarted.
Forget(w) ==
  /\ StoreCanForget
  /\ store[w] # NewClientState
  /\ store' = [store EXCEPT ![w] = NewClientState]
  /\ UNCHANGED <<now, queueAt, up, pc, query, local, reply, history>>

\* The replica of t dies: the query is lost, what it had read with it.
Crash(t) ==
  /\ pc[t] \notin {"idle", "done"}
  /\ Gone(t)
  /\ UNCHANGED <<now, queueAt, up, store, saved, lastForced>>

-----------------------------------------------------------------------------
QueryStep(t) ==
  \/ ReadQueue(t) \/ AskGitHub(t) \/ SaveQueue(t) \/ GetWorkflowInfo(t)
  \/ ReadForced(t) \/ SaveForced(t) \/ Return(t)

Next ==
  \/ \E t \in Threads :
       \/ QueryStep(t)
       \/ Crash(t)
       \/ \E w \in Workflows, kind \in {"metric", "warmup"} : Start(t, w, kind)
  \/ \E w \in Workflows : Forget(w)
  \/ Tick \/ StoreDown \/ StoreUp

Spec == Init /\ [][Next]_vars

-----------------------------------------------------------------------------
(* Properties. *)

\* Every variable stays within the values the code's types allow.
TypeOK ==
  /\ now \in Times
  /\ queueAt \in [Workflows -> [Times -> Queues]]
  /\ up \in BOOLEAN
  /\ store \in [Workflows -> ClientState]
  /\ pc \in [Threads -> Steps]
  /\ query \in [Threads -> Query]
  /\ local \in [Threads -> ClientState]
  /\ reply \in [Threads -> Reply]
  /\ saved \in [Workflows -> Nat]
  /\ lastForced \in [Workflows -> Nat]
  /\ sawStore \in [Threads -> BOOLEAN]

\* Whether jobs is the queue GitHub had for w at tick at, and at is not ahead.
Genuine(w, jobs, at) == at \in 1..now /\ jobs = queueAt[w][at]

GenuineState(w, s) ==
  IF s.lastRequest = NoTime
  THEN s.lastValue = {} /\ s.status # "Valid"
  ELSE Genuine(w, s.lastValue, s.lastRequest)

Answered(t) == pc[t] = "done" /\ reply[t].outcome = "ok" /\ query[t].kind = "metric"

(***************************************************************************)
(* The record under a key never mixes the value of one answer with the     *)
(* stamp of another, although two unlocked writers rewrite all of it, one  *)
(* of them (QueryMetric's SaveState) only for the schedule's sake.         *)
(***************************************************************************)
StoredGenuine == \A w \in Workflows : GenuineState(w, store[w])

FreshReply(t) ==
  /\ Genuine(query[t].workflow, reply[t].jobs, reply[t].at)
  /\ query[t].since <= reply[t].at + WindowFor(reply[t].jobs)

(***************************************************************************)
(* A metric that is served is the queue GitHub had at the metric's         *)
(* timestamp, and it was inside its cache window when the query came in:   *)
(* no outage of the store or of GitHub, no other query and no crash makes  *)
(* GetQueuedJobs serve an older or an invented value.                      *)
(***************************************************************************)
ServedFresh == \A t \in Threads : Answered(t) => FreshReply(t)

(***************************************************************************)
(* "memcache server unreachable. aborting to avoid potential rate          *)
(* limitting": a query that never saw the store up does not reach GitHub.  *)
(***************************************************************************)
NoRequestWithoutStore ==
  \A t \in Threads : pc[t] \in {"askGitHub", "saveQueue"} => sawStore[t]

\* The youngest answer that reached the store, if any, is out of its window.
WindowOver(w) == saved[w] # NoTime => now > saved[w] + WindowFor(queueAt[w][saved[w]])

(***************************************************************************)
(* GitHub is not asked again while the youngest answer that reached the    *)
(* store is inside its window: cacheWindow and cacheWindowWhenEmpty define *)
(* how often GitHub is asked.                                              *)
(***************************************************************************)
WindowHonoured ==
  [][\A t \in Threads : AskGitHub(t) => WindowOver(query[t].workflow)]_vars

(***************************************************************************)
(* Two forced windows of a workflow are ForceScaleUpFrequency apart, from  *)
(* the end of one to the beginning of the next: the README calls it the    *)
(* time between forcibly scaling.                                          *)
(***************************************************************************)
ForcedWindowsApart ==
  [][\A w \in Workflows :
       lastForced[w] \notin {NoTime, lastForced'[w]} =>
         lastForced'[w] > lastForced[w] + ForceScaleUpWindow + ForceScaleUpFrequency]_vars

(***************************************************************************)
(* To KEDA a query is one look at a queue GitHub had, recent enough when   *)
(* the query came, or it fails; although it makes several calls while      *)
(* other queries rewrite what it reads, and any of the calls may fail.     *)
(* What a replica asks itself when it starts is answered to nobody.        *)
(***************************************************************************)
Asks(t) == pc[t] # "idle" /\ query[t].kind = "metric"

NoQuestion == [workflow |-> NoQuery.workflow, since |-> NoTime]
NoAnswer == [outcome |-> "none", jobs |-> {}, at |-> NoTime]
Failure == [NoAnswer EXCEPT !.outcome = "failure"]

Asked(t) ==
  IF Asks(t) THEN [workflow |-> query[t].workflow, since |-> query[t].since] ELSE NoQuestion

Answer(t) ==
  IF Answered(t) THEN [outcome |-> "ok", jobs |-> reply[t].jobs, at |-> reply[t].at]
  ELSE IF Asks(t) /\ pc[t] = "done" THEN Failure ELSE NoAnswer

Answers == INSTANCE FreshAnswers WITH
  Askers <- Threads,
  RecentFor <- [jobs \in Queues |-> WindowFor(jobs)],
  asked <- [t \in Threads |-> Asked(t)],
  answered <- [t \in Threads |-> Answer(t)]

LooksOnce == Answers!Spec

\* What a query in flight must satisfy for StoredGenuine and ServedFresh to
\* last: the copy it will write back, and what it has gathered so far.
ThreadInv(t) ==
  /\ pc[t] \in {"askGitHub", "saveQueue", "saveForced"} =>
       GenuineState(query[t].workflow, local[t])
  /\ pc[t] # "idle" => query[t].since \in 1..now
  /\ pc[t] = "saveQueue" /\ local[t].status = "Valid" =>
       query[t].since <= local[t].lastRequest
  /\ pc[t] \in {"info", "readForced", "saveForced"} => FreshReply(t)
  /\ Answered(t) => FreshReply(t)

\* The inductive invariant behind StoredGenuine and ServedFresh.
QueryInv == TypeOK /\ StoredGenuine /\ \A t \in Threads : ThreadInv(t)

\* The inductive invariant behind NoRequestWithoutStore.
OutageInv ==
  \A t \in Threads :
    /\ pc[t] # "idle" /\ up => sawStore[t]
    /\ pc[t] \in {"askGitHub", "saveQueue"} => sawStore[t]

\* No query brings its goroutine down.
NoPanic == \A t \in Threads : reply[t].outcome # "panic"

=============================================================================
