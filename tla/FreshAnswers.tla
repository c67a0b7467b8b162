---------------------------- MODULE FreshAnswers ----------------------------
(***************************************************************************)
(* What KEDA may count on when it asks the API server for a metric         *)
(* (apiserver/pkg/host, QueryMetric): there is no answer, or the answer is *)
(* one look at the queue GitHub had, at a time that was recent enough when *)
(* the question came.  Who else asks, what is cached, what is lost and who *)
(* dies in between does not show in an answer.                             *)
(***************************************************************************)
EXTENDS Naturals

CONSTANTS
  Askers,       \* who may have a question open
  Workflows,    \* what can be asked about
  Queues,       \* the queues a workflow may have
  RecentFor,    \* RecentFor[q]: how old an answer q may be when the question comes
  MaxTime,      \* bound: the last tick of a behaviour
  NoQuestion,   \* nothing is asked
  NoAnswer,     \* what is asked has no answer yet
  Failure       \* nor will it have one

VARIABLES
  now,
  queueAt,   \* queueAt[w][n]: the queue of w at tick n
  asked,     \* asked[a]: the question a has open
  answered   \* answered[a]: its answer

vars == <<now, queueAt, asked, answered>>

Init ==
  /\ now = 1
  /\ queueAt \in [Workflows -> [1..MaxTime -> Queues]]
  /\ asked = [a \in Askers |-> NoQuestion]
  /\ answered = [a \in Askers |-> NoAnswer]

Ask(a) ==
  /\ asked[a] = NoQuestion
  /\ \E w \in Workflows :
       asked' = [asked EXCEPT ![a] = [workflow |-> w, since |-> now]]
  /\ UNCHANGED <<now, queueAt, answered>>

Answer(a) ==
  /\ asked[a] # NoQuestion
  /\ answered[a] = NoAnswer
  /\ \E at \in 1..now :
       LET jobs == queueAt[asked[a].workflow][at]
       IN  /\ asked[a].since <= at + RecentFor[jobs]
           /\ answered' = [answered EXCEPT ![a] = [outcome |-> "ok", jobs |-> jobs, at |-> at]]
  /\ UNCHANGED <<now, queueAt, asked>>

Fail(a) ==
  /\ asked[a] # NoQuestion
  /\ answered[a] = NoAnswer
  /\ answered' = [answered EXCEPT ![a] = Failure]
  /\ UNCHANGED <<now, queueAt, asked>>

\* Who has asked takes the answer, or does not wait for it.
Leave(a) ==
  /\ asked' = [asked EXCEPT ![a] = NoQuestion]
  /\ answered' = [answered EXCEPT ![a] = NoAnswer]
  /\ UNCHANGED <<now, queueAt>>

Tick ==
  /\ now < MaxTime
  /\ now' = now + 1
  /\ UNCHANGED <<queueAt, asked, answered>>

Next ==
  \/ \E a \in Askers : Ask(a) \/ Answer(a) \/ Fail(a) \/ Leave(a)
  \/ Tick

Spec == Init /\ [][Next]_vars

=============================================================================
