------------------------- MODULE MetricQueryProofs -------------------------
(***************************************************************************)
(* What concurrent queries never do, for any number of goroutines and      *)
(* workflows, any windows and every combination of faults.                 *)
(***************************************************************************)
EXTENDS MetricQuery, TLAPS

-----------------------------------------------------------------------------
(* Types. *)

LEMMA NewClientStateType == NewClientState \in ClientState
  BY DEF NewClientState, ClientState, Queues, NoTime

LEMMA NoReplyType == NoReply \in Reply
  BY DEF NoReply, Reply, Queues, NoTime

LEMMA NoQueryType == NoQuery \in Query
  BY WorkflowsAssumption DEF NoQuery, Query, NoTime

LEMMA ForcedScaleType ==
  ASSUME NEW next \in Nat, NEW at \in Nat, NEW rnd \in Nat
  PROVE  LET c == CalculateForcedScale(next, ForceScaleUpWindow, ForceScaleUpFrequency, at, rnd)
         IN  c.next \in Nat /\ c.forced \in BOOLEAN
  BY WindowsAssumption DEF CalculateForcedScale, InWindow, WindowEnded, Unscheduled, NoTime

LEMMA FinishType ==
  ASSUME TypeOK, NEW t \in Threads, NEW outcome \in {"ok", "error", "panic"},
         Finish(t, outcome)
  PROVE  pc' \in [Threads -> Steps] /\ reply' \in [Threads -> Reply]
         /\ local' \in [Threads -> ClientState]
<1>1. [reply[t] EXCEPT !.outcome = "ok"] \in Reply
  BY DEF TypeOK, Reply
<1>2. [NoReply EXCEPT !.outcome = outcome] \in Reply
  BY NoReplyType DEF Reply
<1>. QED BY <1>1, <1>2, NewClientStateType DEF TypeOK, Finish, Steps

LEMMA WriteType ==
  ASSUME TypeOK, NEW w \in Workflows, NEW s \in ClientState, NEW landed \in BOOLEAN,
         Write(w, s, landed)
  PROVE  store' \in [Workflows -> ClientState]
  BY DEF TypeOK, Write

LEMMA QueueKnownType ==
  ASSUME TypeOK, NEW t \in Threads, NEW s \in ClientState, QueueKnown(t, s)
  PROVE  pc' \in [Threads -> Steps] /\ reply' \in [Threads -> Reply]
         /\ local' \in [Threads -> ClientState]
<1>1. CASE query[t].kind = "warmup"
  BY <1>1, FinishType DEF QueueKnown
<1>2. CASE query[t].kind # "warmup"
  <2>1. Gathered(s) \in Reply
    BY DEF Gathered, Reply, ClientState
  <2>. QED BY <1>2, <2>1, NewClientStateType DEF TypeOK, QueueKnown, Goto, Steps
<1>. QED BY <1>1, <1>2

LEMMA DecideType ==
  ASSUME TypeOK, NEW t \in Threads, NEW s \in ClientState, NEW c,
         c.next \in Nat, c.forced \in BOOLEAN, Decide(t, s, c)
  PROVE  pc' \in [Threads -> Steps] /\ reply' \in [Threads -> Reply]
         /\ local' \in [Threads -> ClientState]
<1>1. [s EXCEPT !.next = c.next] \in ClientState
  BY DEF ClientState
<1>2. [outcome |-> IF c.next = s.next THEN "ok" ELSE "none",
       jobs |-> reply[t].jobs, at |-> reply[t].at, forced |-> c.forced] \in Reply
  BY DEF TypeOK, Reply
<1>. QED BY <1>1, <1>2, NewClientStateType DEF TypeOK, Decide, Goto, Steps

LEMMA GoneType ==
  ASSUME TypeOK, NEW t \in Threads, Gone(t)
  PROVE  /\ pc' \in [Threads -> Steps] /\ query' \in [Threads -> Query]
         /\ local' \in [Threads -> ClientState] /\ reply' \in [Threads -> Reply]
         /\ sawStore' \in [Threads -> BOOLEAN]
  BY NewClientStateType, NoReplyType, NoQueryType DEF TypeOK, Gone, Goto, Steps

(***************************************************************************)
(* Every variable keeps its type.                                          *)
(***************************************************************************)
LEMMA InitType == Init => TypeOK
  BY NewClientStateType, NoReplyType, NoQueryType, WindowsAssumption
     DEF Init, TypeOK, Steps, Times, NoTime

LEMMA NextType == TypeOK /\ [Next]_vars => TypeOK'
<1>. SUFFICES ASSUME TypeOK, [Next]_vars PROVE TypeOK'
  OBVIOUS
<1>. USE DEF history
<1>1. ASSUME NEW t \in Threads, ReadQueue(t) PROVE TypeOK'
  <2>. DEFINE s == store[query[t].workflow]
  <2>1. s \in ClientState
    BY DEF TypeOK, Query
  <2>2. pc' \in [Threads -> Steps] /\ reply' \in [Threads -> Reply]
        /\ local' \in [Threads -> ClientState]
    <3>1. CASE GetStateFails /\ Finish(t, IF query[t].kind = "warmup" THEN "panic" ELSE "error")
      BY <3>1, FinishType
    <3>2. CASE QueueKnown(t, s)
      BY <3>2, <2>1, QueueKnownType
    <3>3. CASE Goto(t, "askGitHub") /\ local' = [local EXCEPT ![t] = s] /\ UNCHANGED reply
      BY <3>3, <2>1 DEF TypeOK, Goto, Steps
    <3>. QED BY <1>1, <3>1, <3>2, <3>3 DEF ReadQueue
  <2>. QED BY <1>1, <2>2 DEF ReadQueue, TypeOK
<1>2. ASSUME NEW t \in Threads, AskGitHub(t) PROVE TypeOK'
  <2>. DEFINE jobs == queueAt[query[t].workflow][now]
  <2>1. query[t].workflow \in Workflows /\ now \in Times
    BY DEF TypeOK, Query
  <2>2. jobs \in Queues /\ now \in Nat
    BY <2>1, WindowsAssumption DEF TypeOK, Times
  <2>. HIDE DEF jobs
  <2>3. /\ GitHubAnswer(local[t], jobs, now) \in ClientState
        /\ GitHubFailure(local[t], now) \in ClientState
    BY <2>2 DEF TypeOK, ClientState, GitHubAnswer, GitHubFailure
  <2>4. local' \in [Threads -> ClientState] /\ pc' \in [Threads -> Steps]
    BY <1>2, <2>3 DEF AskGitHub, Goto, TypeOK, Steps, jobs
  <2>. QED BY <1>2, <2>4 DEF AskGitHub, TypeOK
<1>3. ASSUME NEW t \in Threads, SaveQueue(t) PROVE TypeOK'
  <2>1. query[t].workflow \in Workflows /\ local[t] \in ClientState
    BY DEF TypeOK, Query
  <2>2. pc' \in [Threads -> Steps] /\ reply' \in [Threads -> Reply]
        /\ local' \in [Threads -> ClientState]
    BY <1>3, <2>1, FinishType, QueueKnownType DEF SaveQueue
  <2>3. PICK landed \in BOOLEAN :
          /\ Write(query[t].workflow, local[t], landed)
          /\ saved' = [saved EXCEPT ![query[t].workflow] =
                         IF landed /\ local[t].status = "Valid" /\ local[t].lastRequest > @
                         THEN local[t].lastRequest ELSE @]
    BY <1>3 DEF SaveQueue, Landing
  <2>4. store' \in [Workflows -> ClientState]
    BY <2>1, <2>3, WriteType
  <2>5. saved' \in [Workflows -> Nat]
    BY <2>1, <2>3 DEF TypeOK, ClientState
  <2>. QED BY <1>3, <2>2, <2>4, <2>5 DEF SaveQueue, TypeOK
<1>4. ASSUME NEW t \in Threads, GetWorkflowInfo(t) PROVE TypeOK'
  <2>1. pc' \in [Threads -> Steps] /\ reply' \in [Threads -> Reply]
        /\ local' \in [Threads -> ClientState]
    <3>1. CASE Goto(t, "readForced") /\ UNCHANGED <<reply, local>>
      BY <3>1 DEF TypeOK, Goto, Steps
    <3>2. CASE Finish(t, "error")
      BY <3>2, FinishType
    <3>. QED BY <1>4, <3>1, <3>2 DEF GetWorkflowInfo
  <2>. QED BY <1>4, <2>1 DEF GetWorkflowInfo, TypeOK
<1>5. ASSUME NEW t \in Threads, ReadForced(t) PROVE TypeOK'
  <2>. DEFINE w == query[t].workflow
              s == store[w]
  <2>1. w \in Workflows /\ s \in ClientState /\ s.next \in Nat
    BY DEF TypeOK, Query, ClientState
  <2>2. CASE Finish(t, "error") /\ UNCHANGED lastForced
    BY <1>5, <2>2, FinishType DEF ReadForced, TypeOK
  <2>3. CASE Finish(t, "panic") /\ UNCHANGED lastForced
    BY <1>5, <2>3, FinishType DEF ReadForced, TypeOK
  <2>4. CASE ~GetStateFails /\ ~ForcedScalePanics(s.next, ForceScaleUpWindow)
             /\ ~(Finish(t, "error") /\ UNCHANGED lastForced)
             /\ ~(Finish(t, "panic") /\ UNCHANGED lastForced)
    <3>1. PICK rnd \in 0..MaxDelay :
            LET c == CalculateForcedScale(s.next, ForceScaleUpWindow,
                                          ForceScaleUpFrequency, now, rnd)
            IN  /\ Decide(t, s, c)
                /\ lastForced' = [lastForced EXCEPT ![w] = IF c.forced THEN s.next ELSE @]
      BY <1>5, <2>4 DEF ReadForced
    <3>. DEFINE c == CalculateForcedScale(s.next, ForceScaleUpWindow,
                                          ForceScaleUpFrequency, now, rnd)
    <3>2. rnd \in Nat /\ now \in Nat
      BY WindowsAssumption DEF TypeOK, Times
    <3>3. c.next \in Nat /\ c.forced \in BOOLEAN
      BY <2>1, <3>2, ForcedScaleType
    <3>4. Decide(t, s, c) /\ lastForced' = [lastForced EXCEPT ![w] = IF c.forced THEN s.next ELSE @]
      BY <3>1
    <3>. HIDE DEF c
    <3>5. pc' \in [Threads -> Steps] /\ reply' \in [Threads -> Reply]
          /\ local' \in [Threads -> ClientState]
      BY <2>1, <3>3, <3>4, DecideType
    <3>6. lastForced' \in [Workflows -> Nat]
      BY <2>1, <3>4 DEF TypeOK
    <3>. QED BY <1>5, <3>5, <3>6 DEF ReadForced, TypeOK
  <2>. QED BY <1>5, <2>2, <2>3, <2>4 DEF ReadForced
<1>6. ASSUME NEW t \in Threads, SaveForced(t) PROVE TypeOK'
  <2>1. query[t].workflow \in Workflows /\ local[t] \in ClientState
    BY DEF TypeOK, Query
  <2>2. store' \in [Workflows -> ClientState]
    BY <1>6, <2>1, WriteType DEF SaveForced, Landing
  <2>. QED BY <1>6, <2>2, FinishType DEF SaveForced, TypeOK
<1>7. ASSUME NEW t \in Threads, Return(t) \/ Crash(t) PROVE TypeOK'
  BY <1>7, GoneType DEF Return, Crash, TypeOK
<1>8. ASSUME NEW t \in Threads, NEW w \in Workflows, NEW kind \in {"metric", "warmup"},
             Start(t, w, kind)
      PROVE TypeOK'
  <2>1. [workflow |-> w, kind |-> kind, since |-> now] \in Query
    BY DEF TypeOK, Query, Times
  <2>. QED BY <1>8, <2>1 DEF Start, Goto, TypeOK, Steps
<1>9. ASSUME NEW w \in Workflows, Forget(w) PROVE TypeOK'
  BY <1>9, NewClientStateType DEF Forget, TypeOK
<1>10. CASE Tick
  BY <1>10, WindowsAssumption DEF Tick, TypeOK, Times
<1>11. CASE StoreDown
  BY <1>11 DEF StoreDown, TypeOK
<1>12. CASE StoreUp
  BY <1>12 DEF StoreUp, TypeOK
<1>13. CASE UNCHANGED vars
  BY <1>13 DEF vars, TypeOK
<1>. QED BY <1>1, <1>2, <1>3, <1>4, <1>5, <1>6, <1>7, <1>8, <1>9, <1>10, <1>11, <1>12, <1>13
         DEF Next, QueryStep

THEOREM TypeCorrect == Spec => []TypeOK
<1>. QED BY InitType, NextType, PTL DEF Spec

-----------------------------------------------------------------------------
(* Genuine records. *)

LEMMA WindowType ==
  ASSUME NEW jobs
  PROVE  WindowFor(jobs) \in Nat
  BY WindowsAssumption DEF WindowFor

\* Time passing, or other goroutines working, does not disturb a query.
LEMMA ThreadFrame ==
  ASSUME TypeOK, NEW u \in Threads, ThreadInv(u),
         pc'[u] = pc[u], query'[u] = query[u], local'[u] = local[u], reply'[u] = reply[u],
         queueAt' = queueAt, now' \in {now, now + 1}
  PROVE  ThreadInv(u)'
<1>1. now \in Nat /\ query[u].since \in Nat
  BY WindowsAssumption DEF TypeOK, Times, Query
<1>2. ASSUME NEW w, NEW jobs, NEW at, Genuine(w, jobs, at) PROVE Genuine(w, jobs, at)'
  BY <1>1, <1>2 DEF Genuine
<1>3. FreshReply(u) => FreshReply(u)'
  BY <1>2 DEF FreshReply, WindowFor
<1>4. GenuineState(query[u].workflow, local[u]) => GenuineState(query[u].workflow, local[u])'
  BY <1>2 DEF GenuineState
<1>. QED BY <1>1, <1>3, <1>4 DEF ThreadInv, Answered

LEMMA StoreFrame ==
  ASSUME TypeOK, StoredGenuine, NEW w \in Workflows, store'[w] = store[w],
         queueAt' = queueAt, now' \in {now, now + 1}
  PROVE  GenuineState(w, store[w])'
<1>1. now \in Nat
  BY WindowsAssumption DEF TypeOK, Times
<1>. QED BY <1>1 DEF StoredGenuine, GenuineState, Genuine

\* A write of a genuine record leaves every record genuine.
LEMMA WriteGenuine ==
  ASSUME TypeOK, StoredGenuine, NEW w \in Workflows, NEW s \in ClientState,
         NEW landed \in BOOLEAN, Write(w, s, landed), GenuineState(w, s),
         queueAt' = queueAt, now' = now
  PROVE  StoredGenuine'
<1>1. SUFFICES ASSUME NEW v \in Workflows PROVE GenuineState(v, store[v])'
  BY DEF StoredGenuine
<1>2. CASE store'[v] = store[v]
  BY <1>2, StoreFrame
<1>3. CASE store'[v] # store[v]
  <2>1. v = w /\ store'[v] = s
    BY <1>3 DEF Write, TypeOK
  <2>. QED BY <2>1 DEF GenuineState, Genuine
<1>. QED BY <1>2, <1>3

\* A query that ends as anything but a served metric owes nothing any more.
LEMMA FinishInv ==
  ASSUME TypeOK, NEW t \in Threads, NEW outcome, ThreadInv(t), pc[t] # "idle",
         Finish(t, outcome), query' = query, now' = now, queueAt' = queueAt,
         outcome = "ok" => query[t].kind = "warmup" \/ pc[t] = "saveForced"
  PROVE  ThreadInv(t)'
<1>1. pc'[t] = "done"
  BY DEF Finish, TypeOK
<1>2. query'[t] = query[t] /\ query[t].since <= now
  BY DEF ThreadInv
<1>3. Answered(t)' => FreshReply(t)'
  <2>1. CASE outcome = "ok" /\ query[t].kind = "warmup"
    BY <2>1 DEF Answered
  <2>2. CASE outcome = "ok" /\ pc[t] = "saveForced"
    <3>1. /\ reply'[t].jobs = reply[t].jobs /\ reply'[t].at = reply[t].at
      BY <2>2 DEF Finish, TypeOK, Reply
    <3>. QED BY <2>2, <3>1 DEF ThreadInv, FreshReply, Genuine, WindowFor
  <2>3. CASE outcome # "ok"
    BY <2>3 DEF Finish, TypeOK, Answered, NoReply
  <2>. QED BY <2>1, <2>2, <2>3
<1>. QED BY <1>1, <1>2, <1>3 DEF ThreadInv

\* Serving a genuine record that is young enough for the query's start.
LEMMA QueueKnownInv ==
  ASSUME TypeOK, NEW t \in Threads, NEW s \in ClientState, ThreadInv(t), pc[t] # "idle",
         GenuineState(query[t].workflow, s), s.status = "Valid",
         query[t].since <= s.lastRequest + WindowFor(s.lastValue),
         QueueKnown(t, s), query' = query, now' = now, queueAt' = queueAt
  PROVE  ThreadInv(t)'
<1>1. CASE query[t].kind = "warmup"
  BY <1>1, FinishInv DEF QueueKnown
<1>2. CASE query[t].kind # "warmup"
  <2>1. /\ pc'[t] = "info"
        /\ reply'[t].jobs = s.lastValue /\ reply'[t].at = s.lastRequest
    BY <1>2 DEF QueueKnown, Goto, Gathered, TypeOK
  <2>2. Genuine(query[t].workflow, s.lastValue, s.lastRequest)
    BY DEF GenuineState
  <2>. QED BY <2>1, <2>2 DEF ThreadInv, FreshReply, Genuine, WindowFor, Answered
<1>. QED BY <1>1, <1>2

LEMMA InitInv == Init => QueryInv
<1>. SUFFICES ASSUME Init PROVE QueryInv
  OBVIOUS
<1>1. TypeOK
  BY InitType
<1>2. StoredGenuine
  BY DEF Init, StoredGenuine, GenuineState, NewClientState
<1>3. \A t \in Threads : ThreadInv(t)
  BY DEF Init, ThreadInv, Answered
<1>. QED BY <1>1, <1>2, <1>3 DEF QueryInv

LEMMA NextInv == QueryInv /\ [Next]_vars => QueryInv'
<1>. SUFFICES ASSUME QueryInv, [Next]_vars PROVE QueryInv'
  OBVIOUS
<1>0. TypeOK /\ StoredGenuine /\ (\A t \in Threads : ThreadInv(t)) /\ TypeOK'
  BY NextType DEF QueryInv
<1>. USE <1>0 DEF history
<1>. DEFINE Goal == StoredGenuine' /\ \A t \in Threads : ThreadInv(t)'
            Others(t) == \A u \in Threads \ {t} :
                           /\ pc'[u] = pc[u] /\ query'[u] = query[u]
                           /\ local'[u] = local[u] /\ reply'[u] = reply[u]
\* A step of one goroutine is judged by that goroutine and by the store.
<1>1. ASSUME NEW t \in Threads, Others(t), queueAt' = queueAt, now' = now,
             StoredGenuine', ThreadInv(t)'
      PROVE  Goal
  BY <1>1, ThreadFrame
<1>2. ASSUME store' = store, queueAt' = queueAt, now' \in {now, now + 1}
      PROVE  StoredGenuine'
  BY <1>2, StoreFrame DEF StoredGenuine
<1>3. ASSUME NEW t \in Threads, ReadQueue(t) PROVE Goal
  <2>. DEFINE w == query[t].workflow
              s == store[w]
  <2>1. w \in Workflows /\ s \in ClientState /\ GenuineState(w, s)
        /\ now \in Nat /\ query[t].since \in Nat /\ query[t].since <= now
    BY <1>3, WindowsAssumption DEF TypeOK, Query, StoredGenuine, ReadQueue, ThreadInv, Times
  <2>2. StoredGenuine' /\ Others(t)
    BY <1>3, <1>2 DEF ReadQueue, QueueKnown, Finish, Goto, TypeOK
  <2>3. ThreadInv(t)'
    <3>1. CASE GetStateFails /\ Finish(t, IF query[t].kind = "warmup" THEN "panic" ELSE "error")
      BY <1>3, <3>1, FinishInv DEF ReadQueue
    <3>2. CASE ~Expired(s, now) /\ QueueKnown(t, s)
      <4>1. s.status = "Valid" /\ now <= s.lastRequest + WindowFor(s.lastValue)
        BY <2>1, <3>2, WindowType DEF Expired, ClientState
      <4>2. query[t].since <= s.lastRequest + WindowFor(s.lastValue)
        BY <2>1, <4>1, WindowType DEF ClientState
      <4>. QED BY <1>3, <2>1, <3>2, <4>1, <4>2, QueueKnownInv DEF ReadQueue
    <3>3. CASE Goto(t, "askGitHub") /\ local' = [local EXCEPT ![t] = s] /\ UNCHANGED reply
      <4>1. pc'[t] = "askGitHub" /\ local'[t] = s
        BY <3>3 DEF Goto, TypeOK
      <4>. QED BY <1>3, <2>1, <4>1 DEF ReadQueue, ThreadInv, GenuineState, Genuine, Answered
    <3>. QED BY <1>3, <3>1, <3>2, <3>3 DEF ReadQueue
  <2>. QED BY <1>1, <1>3, <2>2, <2>3 DEF ReadQueue
<1>4. ASSUME NEW t \in Threads, AskGitHub(t) PROVE Goal
  <2>. DEFINE w == query[t].workflow
  <2>1. StoredGenuine' /\ Others(t)
    BY <1>4, <1>2 DEF AskGitHub, Goto, TypeOK
  <2>2. /\ w \in Workflows /\ local[t] \in ClientState /\ GenuineState(w, local[t])
        /\ now \in Nat /\ now >= 1 /\ query[t].since \in 1..now
    BY <1>4, WindowsAssumption DEF TypeOK, Query, AskGitHub, ThreadInv, Times
  <2>3. /\ pc'[t] = "saveQueue" /\ query' = query /\ now' = now /\ queueAt' = queueAt
        /\ query'[t].since \in 1..now' /\ query'[t].workflow = w
    BY <1>4, <2>2 DEF AskGitHub, Goto, TypeOK
  <2>4. ASSUME local' = [local EXCEPT ![t] = GitHubAnswer(@, queueAt[w][now], now)]
        PROVE  ThreadInv(t)'
    <3>1. /\ local'[t].lastValue = queueAt[w][now] /\ local'[t].lastRequest = now
      BY <2>2, <2>4 DEF TypeOK, GitHubAnswer, ClientState
    <3>2. GenuineState(w, local[t])'
      BY <1>4, <2>2, <2>3, <3>1 DEF AskGitHub, GenuineState, Genuine, NoTime
    <3>3. GenuineState(query[t].workflow, local[t])'
      BY <2>3, <3>2
    <3>4. local'[t].status = "Valid" => query'[t].since <= local'[t].lastRequest
      BY <2>2, <2>3, <3>1
    <3>5. ~Answered(t)'
      BY <2>3 DEF Answered
    <3>. QED BY <2>3, <3>3, <3>4, <3>5 DEF ThreadInv
  <2>5. ASSUME local' = [local EXCEPT ![t] = GitHubFailure(@, now)]
        PROVE  ThreadInv(t)'
    <3>1. /\ local'[t].lastValue = local[t].lastValue
          /\ local'[t].lastRequest = local[t].lastRequest
          /\ local'[t].status = "Errored"
      BY <2>2, <2>5 DEF TypeOK, GitHubFailure, ClientState
    <3>2. GenuineState(w, local[t])'
      BY <1>4, <2>2, <2>3, <3>1 DEF AskGitHub, GenuineState, Genuine, NoTime
    <3>3. GenuineState(query[t].workflow, local[t])'
      BY <2>3, <3>2
    <3>4. local'[t].status = "Valid" => query'[t].since <= local'[t].lastRequest
      BY <2>2, <2>3, <3>1
    <3>5. ~Answered(t)'
      BY <2>3 DEF Answered
    <3>. QED BY <2>3, <3>3, <3>4, <3>5 DEF ThreadInv
  <2>. QED BY <1>1, <1>4, <2>1, <2>4, <2>5 DEF AskGitHub
<1>5. ASSUME NEW t \in Threads, SaveQueue(t) PROVE Goal
  <2>. DEFINE w == query[t].workflow
              s == local[t]
  <2>1. /\ w \in Workflows /\ s \in ClientState /\ GenuineState(w, s)
        /\ query[t].since \in Nat
        /\ s.status = "Valid" => query[t].since <= s.lastRequest
    BY <1>5 DEF TypeOK, Query, SaveQueue, ThreadInv
  <2>2. StoredGenuine'
    BY <1>5, <2>1, WriteGenuine DEF SaveQueue, Landing
  <2>3. Others(t)
    BY <1>5 DEF SaveQueue, QueueKnown, Finish, Goto, TypeOK
  <2>4. ThreadInv(t)'
    <3>1. CASE s.status = "Valid" /\ QueueKnown(t, s)
      <4>1. query[t].since <= s.lastRequest + WindowFor(s.lastValue)
        BY <2>1, <3>1, WindowType DEF ClientState
      <4>. QED BY <1>5, <2>1, <3>1, <4>1, QueueKnownInv DEF SaveQueue
    <3>2. CASE Finish(t, "error")
      BY <1>5, <3>2, FinishInv DEF SaveQueue
    <3>. QED BY <1>5, <3>1, <3>2 DEF SaveQueue
  <2>. QED BY <1>1, <1>5, <2>2, <2>3, <2>4 DEF SaveQueue
<1>6. ASSUME NEW t \in Threads, GetWorkflowInfo(t) PROVE Goal
  <2>1. StoredGenuine' /\ Others(t)
    BY <1>6, <1>2 DEF GetWorkflowInfo, Finish, Goto, TypeOK
  <2>2. ThreadInv(t)'
    <3>1. CASE Goto(t, "readForced") /\ UNCHANGED <<reply, local>>
      <4>1. pc'[t] = "readForced"
        BY <3>1 DEF Goto, TypeOK
      <4>. QED BY <1>6, <3>1, <4>1
               DEF GetWorkflowInfo, ThreadInv, FreshReply, Genuine, WindowFor, Answered
    <3>2. CASE Finish(t, "error")
      BY <1>6, <3>2, FinishInv DEF GetWorkflowInfo
    <3>. QED BY <1>6, <3>1, <3>2 DEF GetWorkflowInfo
  <2>. QED BY <1>1, <1>6, <2>1, <2>2 DEF GetWorkflowInfo
<1>7. ASSUME NEW t \in Threads, ReadForced(t) PROVE Goal
  <2>. DEFINE w == query[t].workflow
              s == store[w]
  <2>1. w \in Workflows /\ s \in ClientState /\ GenuineState(w, s)
    BY <1>7 DEF TypeOK, Query, StoredGenuine
  <2>2. StoredGenuine' /\ Others(t)
    BY <1>7, <1>2 DEF ReadForced, Decide, Finish, Goto, TypeOK
  <2>3. ThreadInv(t)'
    <3>1. CASE Finish(t, "error") \/ Finish(t, "panic")
      BY <1>7, <3>1, FinishInv DEF ReadForced
    <3>2. ASSUME NEW c, Decide(t, s, c) PROVE ThreadInv(t)'
      <4>1. /\ pc'[t] \in {"done", "saveForced"}
            /\ reply'[t].jobs = reply[t].jobs /\ reply'[t].at = reply[t].at
        BY <3>2 DEF Decide, Goto, TypeOK
      <4>2. pc'[t] = "saveForced" => local'[t] = [s EXCEPT !.next = c.next]
        BY <3>2 DEF Decide, Goto, TypeOK
      <4>3. pc'[t] = "saveForced" =>
              /\ local'[t].lastValue = s.lastValue /\ local'[t].lastRequest = s.lastRequest
              /\ local'[t].status = s.status
        BY <2>1, <4>2 DEF ClientState
      <4>4. pc'[t] = "saveForced" => GenuineState(query[t].workflow, local[t])'
        BY <1>7, <2>1, <4>3 DEF ReadForced, GenuineState, Genuine
      <4>. QED BY <1>7, <4>1, <4>4 DEF ReadForced, ThreadInv, FreshReply, Genuine, WindowFor
    <3>. QED BY <1>7, <3>1, <3>2 DEF ReadForced
  <2>. QED BY <1>1, <1>7, <2>2, <2>3 DEF ReadForced
<1>8. ASSUME NEW t \in Threads, SaveForced(t) PROVE Goal
  <2>1. query[t].workflow \in Workflows /\ local[t] \in ClientState
        /\ GenuineState(query[t].workflow, local[t])
    BY <1>8 DEF TypeOK, Query, SaveForced, ThreadInv
  <2>2. StoredGenuine'
    BY <1>8, <2>1, WriteGenuine DEF SaveForced, Landing
  <2>3. Others(t)
    BY <1>8 DEF SaveForced, Finish, TypeOK
  <2>4. ThreadInv(t)'
    BY <1>8, FinishInv DEF SaveForced
  <2>. QED BY <1>1, <1>8, <2>2, <2>3, <2>4 DEF SaveForced
<1>9. ASSUME NEW t \in Threads, Return(t) \/ Crash(t) PROVE Goal
  <2>1. StoredGenuine' /\ Others(t)
    BY <1>9, <1>2 DEF Return, Crash, Gone, Goto, TypeOK
  <2>2. pc'[t] = "idle"
    BY <1>9 DEF Return, Crash, Gone, Goto, TypeOK
  <2>. QED BY <1>1, <1>9, <2>1, <2>2 DEF Return, Crash, ThreadInv, Answered
<1>10. ASSUME NEW t \in Threads, NEW w \in Workflows, NEW kind \in {"metric", "warmup"},
              Start(t, w, kind)
       PROVE  Goal
  <2>1. StoredGenuine' /\ Others(t)
    BY <1>10, <1>2 DEF Start, Goto, TypeOK
  <2>2. pc'[t] = "readQueue" /\ query'[t].since = now
    BY <1>10 DEF Start, Goto, TypeOK
  <2>3. now \in 1..now
    BY WindowsAssumption DEF TypeOK, Times
  <2>. QED BY <1>1, <1>10, <2>1, <2>2, <2>3 DEF Start, ThreadInv, Answered
<1>11. ASSUME NEW w \in Workflows, Forget(w) PROVE Goal
  <2>1. \A v \in Workflows : GenuineState(v, store[v])'
    <3>1. ASSUME NEW v \in Workflows PROVE GenuineState(v, store[v])'
      <4>1. CASE v = w
        BY <1>11, <4>1 DEF Forget, TypeOK, GenuineState, NewClientState
      <4>2. CASE v # w
        BY <1>11, <4>2, StoreFrame DEF Forget, TypeOK
      <4>. QED BY <4>1, <4>2
    <3>. QED BY <3>1
  <2>. QED BY <1>11, <2>1, ThreadFrame DEF Forget, StoredGenuine
<1>12. CASE Tick \/ StoreDown \/ StoreUp \/ UNCHANGED vars
  <2>1. /\ store' = store /\ queueAt' = queueAt /\ now' \in {now, now + 1}
        /\ pc' = pc /\ query' = query /\ local' = local /\ reply' = reply
    BY <1>12 DEF Tick, StoreDown, StoreUp, vars
  <2>2. Goal
    BY <1>2, <2>1, ThreadFrame
  <2>. QED BY <2>2 DEF QueryInv
<1>. QED BY <1>3, <1>4, <1>5, <1>6, <1>7, <1>8, <1>9, <1>10, <1>11, <1>12
         DEF Next, QueryStep, QueryInv

LEMMA QueryInvariant == Spec => []QueryInv
<1>. QED BY InitInv, NextInv, PTL DEF Spec

(***************************************************************************)
(* However many queries rewrite the record of a workflow, it holds a queue *)
(* GitHub had at the tick the record says, or none.                        *)
(***************************************************************************)
THEOREM StoreStaysGenuine == Spec => []StoredGenuine
<1>1. QueryInv => StoredGenuine
  BY DEF QueryInv
<1>. QED BY <1>1, QueryInvariant, PTL

(***************************************************************************)
(* Every metric served is a queue GitHub had at the metric's timestamp and *)
(* was inside its cache window when the query came in.                     *)
(***************************************************************************)
THEOREM MetricsAreFresh == Spec => []ServedFresh
<1>1. QueryInv => ServedFresh
  BY DEF QueryInv, ThreadInv, ServedFresh
<1>. QED BY <1>1, QueryInvariant, PTL

-----------------------------------------------------------------------------
(* One look. *)

\* A step of one query, up to its answer: the invariant says that what it
\* answers was there to be seen.
LEMMA StepIsLook ==
  ASSUME TypeOK, TypeOK', NEW t \in Threads, ThreadInv(t)',
         pc[t] \notin {"idle", "done"}, pc'[t] # "idle",
         UNCHANGED <<now, queueAt, query>>,
         \A u \in Threads \ {t} : pc'[u] = pc[u] /\ reply'[u] = reply[u]
  PROVE  [Answers!Next]_(Answers!vars)
<1>1. \A u \in Threads : Asked(u)' = Asked(u)
  BY DEF Asked, Asks, NoQuestion
<1>2. \A u \in Threads \ {t} : Answer(u)' = Answer(u)
  BY DEF Answer, Answered, Asks, NoAnswer, Failure
<1>3. Answer(t) = NoAnswer
  BY DEF Answer, Answered, Asks
<1>4. CASE Answer(t)' = NoAnswer
  <2>1. \A u \in Threads : Answer(u)' = Answer(u)
    BY <1>2, <1>3, <1>4
  <2>. QED BY <1>1, <2>1 DEF Answers!vars
<1>5. CASE Answer(t)' # NoAnswer
  <2>1. pc'[t] = "done" /\ query[t].kind = "metric"
    BY <1>5 DEF Answer, Answered, Asks, NoAnswer
  <2>2. Asked(t) = [workflow |-> query[t].workflow, since |-> query[t].since]
    BY <2>1 DEF Asked, Asks
  <2>3. Asked(t) # NoQuestion
    BY <2>2 DEF NoQuestion, NoTime, ThreadInv
  <2>4. /\ [u \in Threads |-> Asked(u)]' = [u \in Threads |-> Asked(u)]
        /\ [u \in Threads |-> Answer(u)]' =
             [[u \in Threads |-> Answer(u)] EXCEPT ![t] = Answer(t)']
    BY <1>1, <1>2
  <2>5. CASE Answered(t)'
    <3>. DEFINE at == reply'[t].at
                jobs == reply'[t].jobs
                w == query[t].workflow
    <3>1. Answer(t)' = [outcome |-> "ok", jobs |-> jobs, at |-> at]
      BY <2>5 DEF Answer
    <3>2. FreshReply(t)'
      BY <2>5 DEF ThreadInv
    <3>3. at \in 1..now /\ jobs = queueAt[w][at] /\ query[t].since <= at + WindowFor(jobs)
      BY <3>2 DEF FreshReply, Genuine, WindowFor
    <3>4. jobs \in Queues
      BY DEF TypeOK, Reply
    <3>5. Asked(t).workflow = w /\ Asked(t).since = query[t].since
      BY <2>2
    <3>. HIDE DEF at, jobs, w
    <3>6. LET seen == queueAt[Asked(t).workflow][at]
          IN  /\ Asked(t).since <= at + [q \in Queues |-> WindowFor(q)][seen]
              /\ Answer(t)' = [outcome |-> "ok", jobs |-> seen, at |-> at]
      BY <3>1, <3>3, <3>4, <3>5
    <3>7. [u \in Threads |-> Answer(u)]' =
            [[u \in Threads |-> Answer(u)] EXCEPT
               ![t] = [outcome |-> "ok", jobs |-> queueAt[Asked(t).workflow][at], at |-> at]]
      BY <2>4, <3>6
    <3>8. Answers!Answer(t)
      BY <1>3, <2>3, <2>4, <3>3, <3>6, <3>7 DEF Answers!Answer
    <3>. QED BY <3>8 DEF Answers!Next
  <2>6. CASE ~Answered(t)'
    <3>1. Answer(t)' = Failure
      BY <1>5, <2>6 DEF Answer
    <3>2. Answers!Fail(t)
      BY <1>3, <2>3, <2>4, <3>1 DEF Answers!Fail
    <3>. QED BY <3>2 DEF Answers!Next
  <2>. QED BY <2>5, <2>6
<1>. QED BY <1>4, <1>5

LEMMA InitLooks == Init => Answers!Init
<1>. SUFFICES ASSUME Init PROVE Answers!Init
  OBVIOUS
<1>1. \A t \in Threads : Asked(t) = NoQuestion /\ Answer(t) = NoAnswer
  BY DEF Init, Asked, Answer, Answered, Asks
<1>. QED BY <1>1 DEF Init, Answers!Init, Times

LEMMA NextLooks == QueryInv /\ QueryInv' /\ [Next]_vars => [Answers!Next]_(Answers!vars)
<1>. SUFFICES ASSUME QueryInv, QueryInv', [Next]_vars PROVE [Answers!Next]_(Answers!vars)
  OBVIOUS
<1>0. TypeOK /\ TypeOK' /\ \A t \in Threads : ThreadInv(t) /\ ThreadInv(t)'
  BY DEF QueryInv
<1>. USE <1>0 DEF history
<1>1. ASSUME NEW t \in Threads,
             \/ ReadQueue(t) \/ AskGitHub(t) \/ SaveQueue(t)
             \/ GetWorkflowInfo(t) \/ ReadForced(t) \/ SaveForced(t)
      PROVE  [Answers!Next]_(Answers!vars)
  <2>1. pc[t] \notin {"idle", "done"} /\ UNCHANGED <<now, queueAt, query>>
    BY <1>1 DEF ReadQueue, AskGitHub, SaveQueue, GetWorkflowInfo, ReadForced, SaveForced
  <2>2. pc'[t] # "idle" /\ \A u \in Threads \ {t} : pc'[u] = pc[u] /\ reply'[u] = reply[u]
    BY <1>1 DEF ReadQueue, AskGitHub, SaveQueue, GetWorkflowInfo, ReadForced, SaveForced,
                Goto, Finish, QueueKnown, Decide, TypeOK
  <2>. QED BY <2>1, <2>2, StepIsLook
<1>2. ASSUME NEW t \in Threads, Return(t) \/ Crash(t) PROVE [Answers!Next]_(Answers!vars)
  <2>1. pc'[t] = "idle" /\ UNCHANGED <<now, queueAt>>
        /\ \A u \in Threads \ {t} : pc'[u] = pc[u] /\ reply'[u] = reply[u] /\ query'[u] = query[u]
    BY <1>2 DEF Return, Crash, Gone, Goto, TypeOK
  <2>2. Asked(t)' = NoQuestion /\ Answer(t)' = NoAnswer
    BY <2>1 DEF Asked, Answer, Answered, Asks, NoQuestion, NoAnswer
  <2>3. \A u \in Threads \ {t} : Asked(u)' = Asked(u) /\ Answer(u)' = Answer(u)
    BY <2>1 DEF Asked, Answer, Answered, Asks, NoQuestion, NoAnswer, Failure
  <2>4. Answers!Leave(t)
    BY <2>1, <2>2, <2>3 DEF Answers!Leave
  <2>. QED BY <2>4 DEF Answers!Next
<1>3. ASSUME NEW t \in Threads, NEW w \in Workflows, NEW kind \in {"metric", "warmup"},
             Start(t, w, kind)
      PROVE  [Answers!Next]_(Answers!vars)
  <2>1. /\ pc[t] = "idle" /\ pc'[t] = "readQueue" /\ UNCHANGED <<now, queueAt, reply>>
        /\ query'[t] = [workflow |-> w, kind |-> kind, since |-> now]
        /\ \A u \in Threads \ {t} : pc'[u] = pc[u] /\ query'[u] = query[u]
    BY <1>3 DEF Start, Goto, TypeOK
  <2>2. \A u \in Threads \ {t} : Asked(u)' = Asked(u)
    BY <2>1 DEF Asked, Asks, NoQuestion
  <2>3. \A u \in Threads : Answer(u)' = Answer(u)
    BY <2>1 DEF Answer, Answered, Asks, NoAnswer, Failure
  <2>4. Asked(t) = NoQuestion
    BY <2>1 DEF Asked, Asks
  <2>5. CASE kind = "metric"
    <3>1. Asked(t)' = [workflow |-> w, since |-> now]
      BY <2>1, <2>5 DEF Asked, Asks
    <3>2. Answers!Ask(t)
      BY <2>1, <2>2, <2>3, <2>4, <3>1 DEF Answers!Ask
    <3>. QED BY <3>2 DEF Answers!Next
  <2>6. CASE kind = "warmup"
    <3>1. Asked(t)' = NoQuestion
      BY <2>1, <2>6 DEF Asked, Asks, NoQuestion
    <3>. QED BY <2>1, <2>2, <2>3, <2>4, <3>1 DEF Answers!vars
  <2>. QED BY <2>5, <2>6
<1>4. ASSUME UNCHANGED <<queueAt, pc, query, reply>>, UNCHANGED now \/ Tick
      PROVE  [Answers!Next]_(Answers!vars)
  <2>1. \A t \in Threads : Asked(t)' = Asked(t) /\ Answer(t)' = Answer(t)
    BY <1>4 DEF Asked, Answer, Answered, Asks, NoQuestion, NoAnswer, Failure
  <2>2. Tick => Answers!Tick
    BY <1>4, <2>1 DEF Tick, Answers!Tick
  <2>. QED BY <1>4, <2>1, <2>2 DEF Answers!Next, Answers!vars
<1>5. ASSUME NEW w \in Workflows, Forget(w) PROVE [Answers!Next]_(Answers!vars)
  BY <1>4, <1>5 DEF Forget
<1>6. CASE Tick \/ StoreDown \/ StoreUp \/ UNCHANGED vars
  BY <1>4, <1>6 DEF Tick, StoreDown, StoreUp, vars
<1>. QED BY <1>1, <1>2, <1>3, <1>5, <1>6 DEF Next, QueryStep

(***************************************************************************)
(* Queries that share a record without a lock implement a server that      *)
(* looks at GitHub once for each of them, recently enough, or fails.       *)
(***************************************************************************)
THEOREM QueriesLookOnce == Spec => LooksOnce
<1>1. Spec => [][Answers!Next]_(Answers!vars)
  BY NextLooks, QueryInvariant, PTL DEF Spec
<1>2. Spec => Answers!Init
  BY InitLooks DEF Spec
<1>. QED BY <1>1, <1>2 DEF LooksOnce, Answers!Spec

-----------------------------------------------------------------------------
(* No request without the store. *)

LEMMA NextOutage == TypeOK /\ OutageInv /\ [Next]_vars => OutageInv'
<1>. SUFFICES ASSUME TypeOK, OutageInv, [Next]_vars PROVE OutageInv'
  OBVIOUS
<1>. USE DEF history, OutageInv
<1>1. ASSUME NEW t \in Threads, QueryStep(t) \/ Crash(t) PROVE OutageInv'
  <2>1. up' = up /\ \A u \in Threads \ {t} : pc'[u] = pc[u] /\ sawStore'[u] = sawStore[u]
    BY <1>1 DEF QueryStep, ReadQueue, AskGitHub, SaveQueue, GetWorkflowInfo, ReadForced,
                SaveForced, Return, Crash, Gone, Goto, Finish, QueueKnown, Decide, TypeOK
  <2>2. \/ pc'[t] = "idle"
        \/ sawStore'[t] = sawStore[t] /\ pc[t] # "idle"
           /\ (pc'[t] = "askGitHub" => up) /\ (pc'[t] = "saveQueue" => pc[t] = "askGitHub")
    BY <1>1 DEF QueryStep, ReadQueue, AskGitHub, SaveQueue, GetWorkflowInfo, ReadForced,
                SaveForced, Return, Crash, Gone, Goto, Finish, QueueKnown, Decide, TypeOK,
                GetStateFails
  <2>. QED BY <2>1, <2>2
<1>2. ASSUME NEW t \in Threads, NEW w \in Workflows, NEW kind \in {"metric", "warmup"},
             Start(t, w, kind)
      PROVE  OutageInv'
  BY <1>2 DEF Start, Goto, TypeOK
<1>3. ASSUME NEW w \in Workflows, Forget(w) PROVE OutageInv'
  BY <1>3 DEF Forget
<1>4. CASE Tick \/ StoreDown \/ UNCHANGED vars
  BY <1>4 DEF Tick, StoreDown, vars
<1>5. CASE StoreUp
  BY <1>5 DEF StoreUp
<1>. QED BY <1>1, <1>2, <1>3, <1>4, <1>5 DEF Next

(***************************************************************************)
(* A query that found the store unreachable throughout never asks GitHub,  *)
(* whatever the outages and the recoveries between its steps.              *)
(***************************************************************************)
THEOREM OutageStopsRequests == Spec => []NoRequestWithoutStore
<1>1. Init => OutageInv
  BY DEF Init, OutageInv
<1>2. OutageInv => NoRequestWithoutStore
  BY DEF OutageInv, NoRequestWithoutStore
<1>. QED BY <1>1, <1>2, NextOutage, TypeCorrect, PTL DEF Spec

-----------------------------------------------------------------------------
(* A single goroutine, and a store that does not forget. *)

\* GitHub may be asked: there is no answer yet, or its window is over.
Due(w) == saved[w] = NoTime \/ now > saved[w] + WindowFor(store[w].lastValue)

\* A copy that agrees with the stored answer.
SameAnswer(w, s) ==
  s.lastRequest = store[w].lastRequest /\ s.lastValue = store[w].lastValue

\* A schedule after the one that last forced a query.
NextWindow(next, last) == next > last + ForceScaleUpWindow + ForceScaleUpFrequency

\* The record holds the youngest answer that was ever saved, which is over if
\* the record says anything but Valid; its schedule is the one that last forced
\* a query, or a later window.
RecordInv(w) ==
  /\ store[w].lastRequest = saved[w]
  /\ store[w].status # "Valid" => Due(w)
  /\ lastForced[w] = NoTime \/ store[w].next = lastForced[w] \/ NextWindow(store[w].next, lastForced[w])

\* The only query works on a copy of the record as it still is; what it writes
\* is a younger answer, or none, or a later window.
CopyInv(t) ==
  LET w == query[t].workflow
      s == local[t]
  IN  /\ pc[t] \in {"askGitHub", "saveQueue"} => Due(w) /\ s.next = store[w].next
      /\ pc[t] = "askGitHub" => SameAnswer(w, s)
      /\ pc[t] = "saveQueue" =>
           \/ s.status = "Valid" /\ s.lastRequest > saved[w]
           \/ s.status = "Errored" /\ SameAnswer(w, s)
      /\ pc[t] = "saveForced" =>
           /\ SameAnswer(w, s)
           /\ s.status = store[w].status
           /\ store[w].next = NoTime \/ NextWindow(s.next, store[w].next)

AloneInv ==
  QueryInv /\ (\A w \in Workflows : RecordInv(w)) /\ (\A t \in Threads : CopyInv(t))

\* What there is of a record and a copy, as numbers.
LEMMA AloneTypes ==
  ASSUME TypeOK, NEW t \in Threads
  PROVE  /\ query[t].workflow \in Workflows
         /\ local[t] \in ClientState
         /\ local[t].lastRequest \in Nat /\ local[t].next \in Nat
         /\ now \in Nat /\ now >= 1
         /\ \A w \in Workflows :
              /\ store[w] \in ClientState
              /\ store[w].lastRequest \in Nat /\ store[w].next \in Nat
              /\ saved[w] \in Nat /\ lastForced[w] \in Nat
  BY WindowsAssumption DEF TypeOK, Query, ClientState, Times

\* Time only lets a window end, and what is not written is as it was.
LEMMA RecordFrame ==
  ASSUME TypeOK, NEW w \in Workflows,
         store'[w] = store[w], saved'[w] = saved[w], lastForced'[w] = lastForced[w],
         now' \in {now, now + 1}
  PROVE  (RecordInv(w) => RecordInv(w)') /\ (Due(w) => Due(w)')
<1>1. now \in Nat /\ saved[w] \in Nat
  BY WindowsAssumption DEF TypeOK, Times
<1>2. Due(w) => Due(w)'
  BY <1>1, WindowType DEF Due, WindowFor
<1>. QED BY <1>2 DEF RecordInv, NextWindow

LEMMA CopyFrame ==
  ASSUME TypeOK, NEW t \in Threads, CopyInv(t),
         store' = store, saved' = saved, lastForced' = lastForced, now' \in {now, now + 1},
         pc' = pc, query' = query, local' = local
  PROVE  CopyInv(t)'
<1>1. query[t].workflow \in Workflows
  BY AloneTypes
<1>2. Due(query[t].workflow) => Due(query[t].workflow)'
  BY <1>1, RecordFrame
<1>. QED BY <1>2 DEF CopyInv, SameAnswer, NextWindow

\* A step after which the query holds no copy owes nothing for it.
LEMMA NoCopy ==
  ASSUME NEW t \in Threads, pc'[t] \notin {"askGitHub", "saveQueue", "saveForced"}
  PROVE  CopyInv(t)'
  BY DEF CopyInv

LEMMA AloneNext ==
  ASSUME NEW t \in Threads, Threads = {t}, ~StoreCanForget
  PROVE  AloneInv /\ [Next]_vars => AloneInv'
<1>. SUFFICES ASSUME AloneInv, [Next]_vars PROVE AloneInv'
  OBVIOUS
<1>0. /\ TypeOK /\ StoredGenuine /\ (\A w \in Workflows : RecordInv(w)) /\ CopyInv(t)
      /\ QueryInv'
  BY NextInv DEF AloneInv, QueryInv
<1>. DEFINE q == query[t].workflow
            Goal == (\A w \in Workflows : RecordInv(w)') /\ CopyInv(t)'
<1>. USE <1>0 DEF history
<1>1. ASSUME store' = store, saved' = saved, lastForced' = lastForced, now' \in {now, now + 1}
      PROVE  \A w \in Workflows : RecordInv(w)' /\ (Due(w) => Due(w)')
  BY <1>1, RecordFrame
<1>2. ASSUME ReadQueue(t)
      PROVE  Goal
  <2>1. /\ store' = store /\ saved' = saved /\ lastForced' = lastForced /\ now' = now
        /\ query' = query
    BY <1>2 DEF ReadQueue
  <2>2. CASE pc'[t] \notin {"askGitHub", "saveQueue", "saveForced"}
    BY <1>1, <2>1, <2>2, NoCopy
  <2>3. CASE pc'[t] \in {"askGitHub", "saveQueue", "saveForced"}
    <3>1. Expired(store[q], now) /\ pc'[t] = "askGitHub" /\ local'[t] = store[q]
      BY <1>2, <2>3 DEF ReadQueue, QueueKnown, Finish, Goto, TypeOK
    <3>2. Due(q)
      BY <3>1, AloneTypes DEF Expired, RecordInv, Due
    <3>. QED BY <1>1, <2>1, <3>1, <3>2, AloneTypes DEF CopyInv, SameAnswer
  <2>. QED BY <2>2, <2>3
<1>3. ASSUME AskGitHub(t)
      PROVE  Goal
  <2>1. /\ store' = store /\ saved' = saved /\ lastForced' = lastForced /\ now' = now
        /\ query' = query /\ pc'[t] = "saveQueue" /\ pc[t] = "askGitHub"
    BY <1>3 DEF AskGitHub, Goto, TypeOK
  <2>2. Due(q) /\ SameAnswer(q, local[t]) /\ local[t].next = store[q].next
    BY <2>1 DEF CopyInv
  <2>3. now > saved[q]
    BY <2>2, AloneTypes, WindowType DEF Due, NoTime
  <2>4. \/ local'[t] = GitHubAnswer(local[t], queueAt[q][now], now)
        \/ local'[t] = GitHubFailure(local[t], now)
    BY <1>3 DEF AskGitHub, TypeOK
  <2>5. /\ local'[t].next = store[q].next
        /\ \/ local'[t].status = "Valid" /\ local'[t].lastRequest > saved[q]
           \/ local'[t].status = "Errored" /\ SameAnswer(q, local'[t])
    BY <2>2, <2>3, <2>4, AloneTypes DEF GitHubAnswer, GitHubFailure, ClientState, SameAnswer
  <2>. QED BY <1>1, <2>1, <2>2, <2>5, AloneTypes DEF CopyInv, SameAnswer
<1>4. ASSUME SaveQueue(t)
      PROVE  Goal
  <2>1. /\ lastForced' = lastForced /\ now' = now /\ pc[t] = "saveQueue"
        /\ pc'[t] \notin {"askGitHub", "saveQueue", "saveForced"}
    BY <1>4 DEF SaveQueue, QueueKnown, Finish, Goto, TypeOK
  <2>2. PICK landed \in BOOLEAN :
          /\ Write(q, local[t], landed)
          /\ saved' = [saved EXCEPT ![q] =
                         IF landed /\ local[t].status = "Valid" /\ local[t].lastRequest > @
                         THEN local[t].lastRequest ELSE @]
    BY <1>4 DEF SaveQueue, Landing
  <2>3. ASSUME NEW w \in Workflows PROVE RecordInv(w)'
    <3>1. CASE w # q \/ ~landed
      BY <2>1, <2>2, <3>1, RecordFrame DEF Write, TypeOK
    <3>2. CASE w = q /\ landed
      <4>1. store'[w] = local[t]
        BY <2>2, <3>2 DEF Write, TypeOK
      <4>2. local[t].next = store[w].next /\ Due(w) /\ RecordInv(w)
        BY <2>1, <3>2 DEF CopyInv
      <4>3. CASE local[t].status = "Valid" /\ local[t].lastRequest > saved[w]
        <5>1. saved'[w] = local[t].lastRequest
          BY <2>2, <3>2, <4>3 DEF TypeOK
        <5>. QED BY <2>1, <4>1, <4>2, <4>3, <5>1 DEF RecordInv, NextWindow
      <4>4. CASE local[t].status = "Errored" /\ SameAnswer(w, local[t])
        <5>1. saved'[w] = saved[w]
          BY <2>2, <3>2, <4>4 DEF TypeOK
        <5>2. store'[w].lastValue = store[w].lastValue /\ store'[w].lastRequest = saved[w]
          BY <4>1, <4>2, <4>4 DEF SameAnswer, RecordInv
        <5>3. Due(w)'
          BY <2>1, <4>2, <5>1, <5>2 DEF Due, WindowFor
        <5>. QED BY <2>1, <4>1, <4>2, <5>1, <5>2, <5>3 DEF RecordInv, NextWindow
      <4>. QED BY <2>1, <3>2, <4>3, <4>4 DEF CopyInv
    <3>. QED BY <3>1, <3>2
  <2>. QED BY <2>1, <2>3, NoCopy
<1>5. ASSUME GetWorkflowInfo(t)
      PROVE  Goal
  <2>1. /\ store' = store /\ saved' = saved /\ lastForced' = lastForced /\ now' = now
        /\ pc'[t] \notin {"askGitHub", "saveQueue", "saveForced"}
    BY <1>5 DEF GetWorkflowInfo, Finish, Goto, TypeOK
  <2>. QED BY <1>1, <2>1, NoCopy
<1>6. ASSUME ReadForced(t)
      PROVE  Goal
  <2>1. store' = store /\ saved' = saved /\ now' = now /\ query' = query
    BY <1>6 DEF ReadForced
  <2>2. CASE (Finish(t, "error") \/ Finish(t, "panic")) /\ UNCHANGED lastForced
    <3>1. pc'[t] = "done"
      BY <2>2 DEF Finish, TypeOK
    <3>. QED BY <1>1, <2>1, <2>2, <3>1, NoCopy
  <2>3. ASSUME NEW rnd \in 0..MaxDelay, NEW c,
               c = CalculateForcedScale(store[q].next, ForceScaleUpWindow,
                                        ForceScaleUpFrequency, now, rnd),
               Decide(t, store[q], c),
               lastForced' = [lastForced EXCEPT ![q] = IF c.forced THEN store[q].next ELSE @]
        PROVE  Goal
    <3>1. c.next # store[q].next =>
            store[q].next = NoTime \/ NextWindow(c.next, store[q].next)
      BY <2>3, AloneTypes, WindowsAssumption
         DEF CalculateForcedScale, Unscheduled, WindowEnded, NextWindow
    <3>2. ASSUME NEW w \in Workflows PROVE RecordInv(w)'
      <4>1. CASE lastForced'[w] = lastForced[w]
        BY <2>1, <4>1, RecordFrame
      <4>2. CASE lastForced'[w] # lastForced[w]
        <5>1. lastForced'[w] = store[w].next
          BY <2>3, <4>2, AloneTypes DEF TypeOK
        <5>2. Due(w) => Due(w)'
          BY <2>1 DEF Due, WindowFor
        <5>. QED BY <2>1, <5>1, <5>2 DEF RecordInv
      <4>. QED BY <4>1, <4>2
    <3>3. CopyInv(t)'
      <4>1. CASE c.next = store[q].next
        <5>1. pc'[t] = "done"
          BY <2>3, <4>1 DEF Decide, Goto, TypeOK
        <5>. QED BY <5>1, NoCopy
      <4>2. CASE c.next # store[q].next
        <5>1. pc'[t] = "saveForced" /\ local'[t] = [store[q] EXCEPT !.next = c.next]
          BY <2>3, <4>2 DEF Decide, Goto, TypeOK
        <5>2. /\ SameAnswer(q, local'[t]) /\ local'[t].status = store[q].status
              /\ local'[t].next = c.next
          BY <5>1, AloneTypes DEF SameAnswer, ClientState
        <5>. QED BY <2>1, <3>1, <4>2, <5>1, <5>2 DEF CopyInv, SameAnswer, NextWindow
      <4>. QED BY <4>1, <4>2
    <3>. QED BY <3>2, <3>3
  <2>. QED BY <1>6, <2>2, <2>3 DEF ReadForced
<1>7. ASSUME SaveForced(t)
      PROVE  Goal
  <2>1. /\ saved' = saved /\ lastForced' = lastForced /\ now' = now
        /\ pc[t] = "saveForced" /\ pc'[t] = "done"
    BY <1>7 DEF SaveForced, Finish, TypeOK
  <2>2. PICK landed \in BOOLEAN : Write(q, local[t], landed)
    BY <1>7 DEF SaveForced, Landing
  <2>3. ASSUME NEW w \in Workflows PROVE RecordInv(w)'
    <3>1. CASE w # q \/ ~landed
      BY <2>1, <2>2, <3>1, RecordFrame DEF Write, TypeOK
    <3>2. CASE w = q /\ landed
      <4>1. store'[w] = local[t]
        BY <2>2, <3>2 DEF Write, TypeOK
      <4>2. /\ SameAnswer(w, local[t]) /\ local[t].status = store[w].status
            /\ store[w].next = NoTime \/ NextWindow(local[t].next, store[w].next)
            /\ RecordInv(w)
        BY <2>1, <3>2 DEF CopyInv
      <4>3. Due(w) => Due(w)'
        BY <2>1, <4>1, <4>2 DEF Due, WindowFor, SameAnswer
      <4>4. \/ lastForced[w] = NoTime
            \/ NextWindow(store'[w].next, lastForced[w])
        BY <4>1, <4>2, AloneTypes, WindowsAssumption DEF RecordInv, NextWindow, NoTime
      <4>. QED BY <2>1, <4>1, <4>2, <4>3, <4>4 DEF RecordInv, SameAnswer, NextWindow
    <3>. QED BY <3>1, <3>2
  <2>. QED BY <2>1, <2>3, NoCopy
<1>8. ASSUME Return(t) \/ Crash(t) \/ (\E w \in Workflows, kind \in {"metric", "warmup"} : Start(t, w, kind))
      PROVE  Goal
  <2>1. /\ store' = store /\ saved' = saved /\ lastForced' = lastForced /\ now' = now
        /\ pc'[t] \notin {"askGitHub", "saveQueue", "saveForced"}
    BY <1>8 DEF Return, Crash, Start, Gone, Goto, TypeOK
  <2>. QED BY <1>1, <2>1, NoCopy
<1>9. ASSUME Tick \/ StoreDown \/ StoreUp \/ UNCHANGED vars
      PROVE  Goal
  <2>1. /\ store' = store /\ saved' = saved /\ lastForced' = lastForced
        /\ now' \in {now, now + 1} /\ pc' = pc /\ query' = query /\ local' = local
    BY <1>9 DEF Tick, StoreDown, StoreUp, vars
  <2>. QED BY <1>1, <2>1, CopyFrame
<1>10. Goal => AloneInv'
  BY DEF AloneInv
<1>. QED BY <1>2, <1>3, <1>4, <1>5, <1>6, <1>7, <1>8, <1>9, <1>10
         DEF Next, QueryStep, Forget

\* Only one query at a time.
Alone == \E t : Threads = {t}

LEMMA AloneInvariant ==
  ASSUME Alone, ~StoreCanForget
  PROVE  Spec => []AloneInv
<1>1. Init => AloneInv
  BY InitInv DEF Init, AloneInv, RecordInv, CopyInv, Due, NewClientState
<1>2. AloneInv /\ [Next]_vars => AloneInv'
  BY AloneNext DEF Alone
<1>. QED BY <1>1, <1>2, PTL DEF Spec

(***************************************************************************)
(* With one query at a time and a store that loses nothing, GitHub is not  *)
(* asked before the window of the youngest answer is over, whatever the    *)
(* outages, the failures of GitHub and the crashes in between.             *)
(***************************************************************************)
THEOREM WindowsAreHonoured ==
  ASSUME Alone, ~StoreCanForget
  PROVE  Spec => WindowHonoured
<1>1. AloneInv => \A t \in Threads : AskGitHub(t) => WindowOver(query[t].workflow)
  <2>. SUFFICES ASSUME AloneInv, NEW t \in Threads, AskGitHub(t)
                PROVE  WindowOver(query[t].workflow)
    OBVIOUS
  <2>. DEFINE w == query[t].workflow
  <2>1. w \in Workflows
    BY AloneTypes DEF AloneInv, QueryInv
  <2>2. Due(w) /\ store[w].lastRequest = saved[w] /\ GenuineState(w, store[w])
    BY <2>1 DEF AloneInv, CopyInv, RecordInv, AskGitHub, QueryInv, StoredGenuine
  <2>. QED BY <2>2 DEF WindowOver, Due, GenuineState, Genuine
<1>. QED BY <1>1, AloneInvariant, PTL DEF WindowHonoured

(***************************************************************************)
(* And one forced window of a workflow is over for ForceScaleUpFrequency   *)
(* before the next begins, also when the write of a schedule was lost.     *)
(***************************************************************************)
THEOREM ForcedWindowsKeepApart ==
  ASSUME Alone, ~StoreCanForget
  PROVE  Spec => ForcedWindowsApart
<1>1. AloneInv /\ [Next]_vars =>
        \A w \in Workflows :
          lastForced[w] \notin {NoTime, lastForced'[w]} =>
            lastForced'[w] > lastForced[w] + ForceScaleUpWindow + ForceScaleUpFrequency
  <2>. SUFFICES ASSUME AloneInv, [Next]_vars, NEW w \in Workflows,
                       lastForced[w] \notin {NoTime, lastForced'[w]}
                PROVE  NextWindow(lastForced'[w], lastForced[w])
    BY DEF NextWindow
  <2>1. PICK t \in Threads : ReadForced(t)
    BY DEF Next, QueryStep, ReadQueue, AskGitHub, SaveQueue, GetWorkflowInfo, SaveForced, Return,
           Crash, Start, Forget, Tick, StoreDown, StoreUp, vars, history
  <2>2. lastForced'[w] = store[w].next
    BY <2>1 DEF ReadForced, AloneInv, QueryInv, TypeOK
  <2>. QED BY <2>2 DEF AloneInv, RecordInv
<1>. QED BY <1>1, AloneInvariant, PTL DEF Spec, ForcedWindowsApart

=============================================================================
