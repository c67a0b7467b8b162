------------------------------ MODULE Scaling ------------------------------
(***************************************************************************)
(* The two decisions of apiserver/pkg/scaling: how many runners a queue of *)
(* a given length asks for (GetOutput), and whether a workflow is inside   *)
(* the window in which it is scaled up by force (CalculateForcedScale).    *)
(*                                                                         *)
(* The floats of the code become exact fractions [num, den].  The curve    *)
(* only ever uses the scale factor k through e^(-k*x), so a configuration  *)
(* carries that decay as a table s.decay[x] instead of k: what the         *)
(* exponential guarantees about the table is Decaying.                     *)
(***************************************************************************)
EXTENDS Integers

Fraction == [num : Nat, den : Nat \ {0}]

AtMost(a, b) == a.num * b.den <= b.num * a.den
Whole(n) == [num |-> n, den |-> 1]
LesserOf(a, b) == IF AtMost(a, b) THEN a ELSE b
GreaterOf(a, b) == IF AtMost(b, a) THEN a ELSE b

\* A slip a run must notice: the conversion to an integer alone.
RoundDown(a) == a.num \div a.den

\* math.Round of a fraction that is not negative: halves go up.
Round(a) == (2 * a.num + a.den) \div (2 * a.den)

(***************************************************************************)
(* A configuration as NewScaling builds it.  Nothing rejects minWorkers >  *)
(* maxWorkers or maxWorkers = 0, so neither does the type.                 *)
(***************************************************************************)
ScalingConfig ==
  [minWorkers : Nat, maxWorkers : Nat, linear : BOOLEAN, decay : [Nat -> Fraction]]

\* What a scale factor of at least 0 gives: e^(-k*x) is at most 1, positive,
\* and does not grow with x.
Decaying(decay) ==
  /\ \A x \in Nat : decay[x].num > 0 /\ AtMost(decay[x], Whole(1))
  /\ \A x, y \in Nat : x <= y => AtMost(decay[y], decay[x])

\* A configuration the curve was meant for: room for a runner, and a scale
\* factor that is not negative.
Usable(s) ==
  /\ s.minWorkers <= s.maxWorkers
  /\ s.maxWorkers > 0
  /\ s.linear \/ Decaying(s.decay)

\* logistic(c, a, k, x) with c = a = maxWorkers: c / (1 + a * e^(-k*x)).
Logistic(c, power) ==
  [num |-> c * power.den, den |-> power.den + c * power.num]

\* Slips a run must notice: one of the two limits is not looked at.
WantedWorkersUncapped(s, queueLength) ==
  LET raw == IF s.linear THEN Whole(queueLength)
             ELSE Logistic(s.maxWorkers, s.decay[queueLength])
  IN  GreaterOf(raw, Whole(s.minWorkers))
WantedWorkersUnfloored(s, queueLength) ==
  LET raw == IF s.linear THEN Whole(queueLength)
             ELSE Logistic(s.maxWorkers, s.decay[queueLength])
  IN  LesserOf(raw, Whole(s.maxWorkers))

\* The workers wanted before rounding, for a queue that is not empty.
WantedWorkers(s, queueLength) ==
  LET raw     == IF s.linear THEN Whole(queueLength)
                 ELSE Logistic(s.maxWorkers, s.decay[queueLength])
      capped  == LesserOf(raw, Whole(s.maxWorkers))
      floored == GreaterOf(capped, Whole(s.minWorkers))
  IN  IF floored.num = 0 THEN Whole(1) ELSE floored

GetOutput(s, queueLength) ==
  IF queueLength = 0 THEN s.minWorkers ELSE Round(WantedWorkers(s, queueLength))

-----------------------------------------------------------------------------
(***************************************************************************)
(* Forced scaling.  Times are whole ticks, 0 is the nil pointer.  rnd is   *)
(* the random number of ticks drawn from the next 24 hours.  When a window *)
(* has ended the code adds time.Duration(rndSecs), which is that many      *)
(* NANOseconds: less than a tick whatever rnd is, so it adds nothing.      *)
(***************************************************************************)
NoTime == 0

Unscheduled(next) == next = NoTime

\* A slip a run must notice: the end of the window is not looked at.
WindowNeverEnds(next, window, at) == FALSE
WindowEnded(next, window, at) == next + window < at
InWindow(next, window, at) == next < at /\ ~WindowEnded(next, window, at)

\* The disabled case dereferences the pointer before it is known to be set.
ForcedScalePanics(next, window) == window = 0 /\ Unscheduled(next)

\* Slips a run must notice: a schedule that is never renewed, and one whose
\* next window follows like the first one.
CalculateForcedScaleOnce(next, window, frequency, at, rnd) ==
  [forced |-> window # 0 /\ ~Unscheduled(next) /\ InWindow(next, window, at),
   next   |-> IF window # 0 /\ Unscheduled(next) THEN at + rnd ELSE next]
CalculateForcedScaleDaily(next, window, frequency, at, rnd) ==
  [forced |-> window # 0 /\ ~Unscheduled(next) /\ InWindow(next, window, at),
   next   |-> IF window = 0 THEN next
              ELSE IF Unscheduled(next) \/ WindowEnded(next, window, at) THEN at + rnd
              ELSE next]

CalculateForcedScale(next, window, frequency, at, rnd) ==
  LET scheduled ==
        IF window = 0 THEN next
        ELSE IF Unscheduled(next) THEN at + rnd
        ELSE IF WindowEnded(next, window, at) THEN at + frequency
        ELSE next
  IN  [forced |-> window # 0 /\ ~Unscheduled(next) /\ InWindow(next, window, at),
       next   |-> scheduled]

=============================================================================
