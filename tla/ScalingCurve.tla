---------------------------- MODULE ScalingCurve ----------------------------
(***************************************************************************)
(* The metric KEDA is given as the queue of a workflow grows and shrinks:  *)
(* the workers Scaling wants for the queue's length, or all of them while  *)
(* the workflow is scaled up by force (valueFor of k8sprovider).           *)
(*                                                                         *)
(* Scale factors are whole quarters here, so that every power of e needed  *)
(* is one of those of e^(-1/4) in the table Power, in parts of 100000.     *)
(***************************************************************************)
EXTENDS Scaling, Sequences

CONSTANTS
  Runners,     \* specs: [minRunners, maxRunners, quarters], quarters of a scale factor
  MaxQueue     \* bound: the longest queue

ASSUME MaxQueueAssumption == MaxQueue \in Nat

VARIABLES
  spec,          \* the spec of the workflow's runner
  queueLength,   \* the jobs that match the selector
  forced,        \* the workflow is inside a forced scaling window
  metric         \* the value KEDA is given

vars == <<spec, queueLength, forced, metric>>

\* By steps of e^(-4), e^(-1) and e^(-1/4); rounded up, for it never is 0.
Power[n \in Nat] ==
  IF n = 0 THEN 100000
  ELSE IF n < 4 THEN (Power[n - 1] * 7788 + 9999) \div 10000
  ELSE IF n < 16 THEN (Power[n - 4] * 3679 + 9999) \div 10000
  ELSE (Power[n - 16] * 18316 + 999999) \div 1000000

\* A scale factor of 0, or one that does not parse, is a straight line.
NewScaling(crd) ==
  [minWorkers |-> crd.minRunners,
   maxWorkers |-> crd.maxRunners,
   linear     |-> crd.quarters = 0,
   decay      |-> [x \in Nat |-> [num |-> Power[crd.quarters * x], den |-> 100000]]]

ScaledTotal(s, n, force) == IF force THEN s.maxWorkers ELSE GetOutput(s, n)

Init ==
  /\ spec \in Runners
  /\ queueLength = 0
  /\ forced = FALSE
  /\ metric = ScaledTotal(NewScaling(spec), 0, FALSE)

\* The metric is asked for; the queue may be any since the last time.
Ask ==
  /\ queueLength' \in 0..MaxQueue
  /\ forced' \in BOOLEAN
  /\ metric' = ScaledTotal(NewScaling(spec), queueLength', forced')
  /\ UNCHANGED spec

Next == Ask

Spec == Init /\ [][Next]_vars

-----------------------------------------------------------------------------
(* Properties. *)

(***************************************************************************)
(* The metric stays between minRunners and maxRunners, whatever the curve  *)
(* does in between.                                                        *)
(***************************************************************************)
WithinLimits == spec.minRunners <= metric /\ metric <= spec.maxRunners

(***************************************************************************)
(* No queue, however short, is rounded down to no runner at all.           *)
(***************************************************************************)
QueueIsServed == queueLength > 0 => metric >= 1

(***************************************************************************)
(* A longer queue never asks for fewer runners.                            *)
(***************************************************************************)
NeverFewer ==
  [][queueLength' > queueLength /\ forced' = forced => metric' >= metric]_vars

\* What scaling_test.go expects for queues of length 1, 2, 3... of a runner
\* with 1 to max runners.
ExpectedOutputs(max, quarters) ==
  CASE <<max, quarters>> = <<10, 1>> ->
         <<1, 1, 2, 2, 3, 3, 4, 4, 5, 5, 6, 7, 7, 8, 8, 8, 9, 9, 9, 9, 10>>
    [] <<max, quarters>> = <<10, 2>> -> <<1, 2, 3, 4, 5, 7, 8, 8, 9, 9, 10>>
    [] <<max, quarters>> = <<10, 4>> -> <<2, 4, 7, 8, 9, 10>>
    [] <<max, quarters>> = <<100, 2>> ->
         <<2, 3, 4, 7, 11, 17, 25, 35, 47, 60, 71, 80, 87, 92, 95, 97, 98, 99, 99, 100>>
    [] <<max, quarters>> = <<100, 4>> -> <<3, 7, 17, 35, 60, 80, 92, 97, 99, 100>>
    [] OTHER -> <<>>

(***************************************************************************)
(* The curve is the one TestLogistic lists.  The test stops comparing a    *)
(* list after its first match; every entry is compared here.               *)
(***************************************************************************)
ConformsToTests ==
  LET expected == ExpectedOutputs(spec.maxRunners, spec.quarters)
  IN  spec.minRunners = 1 /\ ~forced /\ queueLength \in DOMAIN expected =>
        metric = expected[queueLength]

=============================================================================
