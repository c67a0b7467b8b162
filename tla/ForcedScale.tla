---------------------------- MODULE ForcedScale ----------------------------
(***************************************************************************)
(* Forced scaling of one workflow in the long run.  The schedule           *)
(* (NextForcedScale) is only remembered in the ClientState, which lives in *)
(* memcached for StateCacheTime after its last write; whether a workflow   *)
(* is ever scaled up by force thus hangs on who rewrites that record, and  *)
(* how often.                                                              *)
(*                                                                         *)
(* Time is unbounded but kept relative to the present: the present is      *)
(* always tick Present, and a tick makes every stamp one tick older, down  *)
(* to the age at which nothing distinguishes it any more.  A query is one  *)
(* step here; MetricQuery has its steps and its races.                     *)
(***************************************************************************)
EXTENDS Scaling

CONSTANTS
  CacheWindow,            \* --cacheWindow, in ticks
  CacheWindowWhenEmpty,   \* --cacheWindowWhenEmpty, in ticks
  ForceScaleUpWindow,     \* spec.forceScaleUpWindow, in ticks
  ForceScaleUpFrequency,  \* spec.forceScaleUpFrequency, in ticks
  MaxDelay,               \* the 24 hours rand.Intn draws from, in ticks
  StateCacheTime,         \* how long memcached keeps a record, in ticks
  PollGap                 \* KEDA gets an answer at least every so many ticks

ASSUME TicksAssumption ==
  /\ CacheWindow \in Nat
  /\ CacheWindowWhenEmpty \in Nat
  /\ ForceScaleUpWindow \in Nat \ {0}
  /\ ForceScaleUpFrequency \in Nat
  /\ MaxDelay \in Nat
  /\ StateCacheTime \in Nat \ {0}
  /\ PollGap \in Nat \ {0}

\* The record outlives every gap between two writes of it.
ASSUME CacheTimeAssumption ==
  /\ CacheWindow + PollGap < StateCacheTime
  /\ CacheWindowWhenEmpty + PollGap < StateCacheTime

VARIABLES
  next,     \* NextForcedScale, NoTime when there is none
  served,   \* for how many ticks yet the stored answer is served
  kept,     \* in how many ticks memcached drops the record
  waited,   \* ticks since KEDA was last answered
  forced    \* the last answer asked for every runner

vars == <<next, served, kept, waited, forced>>

\* Any schedule whose window is over is as old as one at tick 1.
Present == ForceScaleUpWindow + 2

Init ==
  /\ next = NoTime
  /\ served = 0
  /\ kept = 0
  /\ waited = 0
  /\ forced = FALSE

Windows == {CacheWindow, CacheWindowWhenEmpty}

\* An answer of GitHub is served during its window, both ends included.
AskedOrServed(window) == IF served = 0 THEN window + 1 ELSE served

\* A slip a run must notice: only a new schedule is written back.
KeptAfterScheduleOnly(asked, rescheduled) == IF rescheduled THEN StateCacheTime ELSE kept

\* Who went to GitHub saved the record, and so does a new schedule.
KeptAfter(asked, rescheduled) == IF asked \/ rescheduled THEN StateCacheTime ELSE kept

(***************************************************************************)
(* A query that is answered: host.QueryMetric from end to end.             *)
(***************************************************************************)
Poll ==
  \E window \in Windows, rnd \in 0..MaxDelay :
    LET c == CalculateForcedScale(next, ForceScaleUpWindow, ForceScaleUpFrequency, Present, rnd)
    IN  /\ served' = AskedOrServed(window)
        /\ next' = c.next
        /\ kept' = KeptAfter(served = 0, c.next # next)
        /\ waited' = 0
        /\ forced' = c.forced

(***************************************************************************)
(* A query that fails because GitHub does.  A failed read of the queue     *)
(* leaves the record errored, that is, not to be served; it is saved all   *)
(* the same.  A failed read of the workflow's runs comes after a queue     *)
(* that was saved.                                                         *)
(***************************************************************************)
FailedPoll ==
  /\ \/ /\ served = 0
        /\ served' = 0
        /\ kept' = KeptAfter(TRUE, FALSE)
     \/ \E window \in Windows :
          /\ served' = AskedOrServed(window)
          /\ kept' = KeptAfter(served = 0, FALSE)
  /\ forced' = FALSE
  /\ UNCHANGED <<next, waited>>

Less(n) == IF n = 0 THEN 0 ELSE n - 1
Older(time) == IF time \in {NoTime, 1} THEN time ELSE time - 1

\* A tick passes; the record is dropped when its time is up.
Tick ==
  /\ waited < PollGap
  /\ waited' = waited + 1
  /\ kept' = Less(kept)
  /\ served' = IF kept' = 0 THEN 0 ELSE Less(served)
  /\ next' = IF kept' = 0 THEN NoTime ELSE Older(next)
  /\ UNCHANGED forced

Next == Poll \/ FailedPoll \/ Tick

\* KEDA polls and time passes: both are outside this program, and both are
\* what its deployment is for.
Fairness == WF_vars(Poll) /\ WF_vars(Tick)

Spec == Init /\ [][Next]_vars /\ Fairness

-----------------------------------------------------------------------------
(* Properties. *)

\* Every variable stays within the values the code's types allow.
TypeOK ==
  /\ next \in Nat
  /\ served \in Nat
  /\ kept \in Nat
  /\ waited \in 0..PollGap
  /\ forced \in BOOLEAN

(***************************************************************************)
(* A schedule once drawn is not lost to the cache: it ages with the clock  *)
(* and is replaced only after its window.                                  *)
(***************************************************************************)
ScheduleSurvives ==
  [][next # NoTime =>
       \/ next' \in {next, Older(next)}
       \/ next' # NoTime /\ WindowEnded(next, ForceScaleUpWindow, Present)]_vars

\* A workflow is scaled up by force again and again, however often GitHub
\* fails in between.
ForcedAgain == []<>forced

\* Forced scaling always ends.
ForcingEnds == []<>~forced

\* What keeps the record in memcached: it outlives the answer in it by a
\* poll, and a stale answer by the poll that is due.
RecordOutlivesGap ==
  /\ \E window \in Windows : served <= window + 1
  /\ served > 0 => kept >= served + PollGap
  /\ next # NoTime /\ served = 0 => kept >= PollGap - waited + 1

=============================================================================
