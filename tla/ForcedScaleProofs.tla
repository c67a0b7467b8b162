------------------------- MODULE ForcedScaleProofs -------------------------
(***************************************************************************)
(* The schedule of forced scaling is never lost to memcached's expiry, for *)
(* any windows and any poll interval that leave the record alive.          *)
(***************************************************************************)
EXTENDS ForcedScale, TLAPS

LEMMA WindowsAreTicks ==
  ASSUME NEW window \in Windows
  PROVE  window \in Nat /\ window + PollGap < StateCacheTime
  BY TicksAssumption, CacheTimeAssumption DEF Windows

LEMMA InitInv == Init => TypeOK /\ RecordOutlivesGap
<1>. SUFFICES ASSUME Init PROVE TypeOK /\ RecordOutlivesGap
  OBVIOUS
<1>1. TypeOK
  <2>1. forced \in BOOLEAN
    BY DEF Init
  <2>. QED BY <2>1, TicksAssumption DEF Init, TypeOK, NoTime
<1>2. RecordOutlivesGap
  BY TicksAssumption DEF Init, RecordOutlivesGap, Windows
<1>. QED BY <1>1, <1>2

LEMMA NextType == TypeOK /\ [Next]_vars => TypeOK'
<1>. SUFFICES ASSUME TypeOK, [Next]_vars PROVE TypeOK'
  OBVIOUS
<1>. USE TicksAssumption DEF TypeOK
<1>1. CASE Poll
  <2>1. PICK window \in Windows, rnd \in 0..MaxDelay :
          LET c == CalculateForcedScale(next, ForceScaleUpWindow, ForceScaleUpFrequency,
                                        Present, rnd)
          IN  /\ served' = AskedOrServed(window)
              /\ next' = c.next
              /\ kept' = KeptAfter(served = 0, c.next # next)
              /\ waited' = 0
              /\ forced' = c.forced
    BY <1>1 DEF Poll
  <2>2. window \in Nat /\ rnd \in Nat
    BY WindowsAreTicks
  <2>3. next' \in Nat /\ forced' \in BOOLEAN
    BY <2>1, <2>2 DEF CalculateForcedScale, Present, NoTime, Unscheduled, InWindow, WindowEnded
  <2>. QED BY <2>1, <2>2, <2>3 DEF AskedOrServed, KeptAfter
<1>2. CASE FailedPoll
  <2>0. forced' \in BOOLEAN
    BY <1>2 DEF FailedPoll
  <2>1. CASE served' = 0 /\ kept' = KeptAfter(TRUE, FALSE)
    BY <1>2, <2>0, <2>1 DEF FailedPoll, KeptAfter
  <2>2. ASSUME NEW window \in Windows, served' = AskedOrServed(window),
               kept' = KeptAfter(served = 0, FALSE)
        PROVE  TypeOK'
    <3>1. window \in Nat
      BY WindowsAreTicks
    <3>2. served' \in Nat /\ kept' \in Nat
      BY <2>2, <3>1 DEF AskedOrServed, KeptAfter
    <3>. QED BY <1>2, <2>0, <3>2 DEF FailedPoll
  <2>. QED BY <1>2, <2>1, <2>2 DEF FailedPoll
<1>3. CASE Tick
  BY <1>3 DEF Tick, Less, Older, NoTime
<1>4. CASE UNCHANGED vars
  BY <1>4 DEF vars
<1>. QED BY <1>1, <1>2, <1>3, <1>4 DEF Next

-----------------------------------------------------------------------------
\* Every write of the record gives it time for the answer and the poll after
\* it; every tick takes as much from what it needs as from what it has.
LEMMA QueryOutlives ==
  ASSUME TypeOK, RecordOutlivesGap, NEW window \in Windows, NEW rescheduled \in BOOLEAN,
         served' = AskedOrServed(window), kept' = KeptAfter(served = 0, rescheduled)
  PROVE  /\ \E v \in Windows : served' <= v + 1
         /\ served' > 0
         /\ kept' >= served' + PollGap
<1>1. window \in Nat /\ window + PollGap < StateCacheTime
  BY WindowsAreTicks
<1>2. CASE served = 0
  BY <1>1, <1>2, TicksAssumption DEF AskedOrServed, KeptAfter
<1>3. CASE served # 0
  <2>1. PICK v \in Windows : served <= v + 1
    BY DEF RecordOutlivesGap
  <2>2. v \in Nat /\ v + PollGap < StateCacheTime
    BY WindowsAreTicks
  <2>. QED BY <1>3, <2>1, <2>2, TicksAssumption
           DEF TypeOK, RecordOutlivesGap, AskedOrServed, KeptAfter
<1>. QED BY <1>2, <1>3

LEMMA NextOutlives == TypeOK /\ RecordOutlivesGap /\ [Next]_vars => RecordOutlivesGap'
<1>. SUFFICES ASSUME TypeOK, RecordOutlivesGap, [Next]_vars PROVE RecordOutlivesGap'
  OBVIOUS
<1>1. CASE Poll
  <2>1. PICK window \in Windows, rescheduled \in BOOLEAN :
          /\ served' = AskedOrServed(window)
          /\ kept' = KeptAfter(served = 0, rescheduled)
    BY <1>1 DEF Poll
  <2>. QED BY <2>1, QueryOutlives DEF RecordOutlivesGap
<1>2. CASE FailedPoll
  <2>1. CASE served = 0 /\ served' = 0 /\ kept' = KeptAfter(TRUE, FALSE)
    <3>1. CacheWindow \in Nat /\ CacheWindow + PollGap < StateCacheTime /\ CacheWindow \in Windows
      BY TicksAssumption, CacheTimeAssumption DEF Windows
    <3>2. kept' >= PollGap - waited' + 1
      BY <1>2, <2>1, <3>1, TicksAssumption DEF FailedPoll, KeptAfter, TypeOK
    <3>3. \E window \in Windows : served' <= window + 1
      BY <2>1, <3>1
    <3>4. ~(served' > 0)
      BY <2>1
    <3>. QED BY <3>2, <3>3, <3>4 DEF RecordOutlivesGap
  <2>2. ASSUME NEW window \in Windows, served' = AskedOrServed(window),
               kept' = KeptAfter(served = 0, FALSE)
        PROVE  RecordOutlivesGap'
    <3>1. /\ \E v \in Windows : served' <= v + 1
          /\ served' > 0 /\ kept' >= served' + PollGap
      BY <2>2, QueryOutlives
    <3>2. served' # 0
      BY <3>1
    <3>. QED BY <3>1, <3>2 DEF RecordOutlivesGap
  <2>. QED BY <1>2, <2>1, <2>2 DEF FailedPoll
<1>3. CASE Tick
  <2>1. PICK window \in Windows : served <= window + 1
    BY DEF RecordOutlivesGap
  <2>2. window \in Nat /\ served' <= window + 1
    BY <1>3, <2>1, WindowsAreTicks DEF Tick, Less, TypeOK
  <2>. QED BY <1>3, <2>2, TicksAssumption
           DEF Tick, Less, Older, TypeOK, RecordOutlivesGap, NoTime
<1>4. CASE UNCHANGED vars
  BY <1>4 DEF vars, RecordOutlivesGap
<1>. QED BY <1>1, <1>2, <1>3, <1>4 DEF Next

LEMMA Outlives == Spec => [](TypeOK /\ RecordOutlivesGap)
<1>. QED BY InitInv, NextType, NextOutlives, PTL DEF Spec

(***************************************************************************)
(* A schedule once drawn is replaced only after its window: no expiry of   *)
(* the record ever loses it.                                               *)
(***************************************************************************)
THEOREM ScheduleIsNeverLost == Spec => ScheduleSurvives
<1>. DEFINE Survives ==
       next # NoTime =>
         \/ next' \in {next, Older(next)}
         \/ next' # NoTime /\ WindowEnded(next, ForceScaleUpWindow, Present)
<1>1. TypeOK /\ RecordOutlivesGap /\ [Next]_vars => [Survives]_vars
  <2>. SUFFICES ASSUME TypeOK, RecordOutlivesGap, [Next]_vars, next # NoTime
                PROVE  Survives
    OBVIOUS
  <2>1. CASE Poll
    BY <2>1, TicksAssumption
       DEF Poll, CalculateForcedScale, Unscheduled, TypeOK, NoTime, Present
  <2>2. CASE Tick
    <3>1. kept' # 0
      BY <2>2, TicksAssumption DEF Tick, Less, TypeOK, RecordOutlivesGap
    <3>. QED BY <2>2, <3>1 DEF Tick
  <2>3. CASE FailedPoll \/ UNCHANGED vars
    BY <2>3 DEF FailedPoll, vars
  <2>. QED BY <2>1, <2>2, <2>3 DEF Next
<1>. QED BY <1>1, Outlives, PTL DEF Spec, ScheduleSurvives

=============================================================================
