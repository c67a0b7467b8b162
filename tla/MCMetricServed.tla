--------------------------- MODULE MCMetricServed ---------------------------
(* The runners of scaling_test.go, straight lines and narrow ranges, in a  *)
(* repository of two workflows, one of which deploys.                      *)
EXTENDS MetricServed

CONSTANTS build, deploy

TestedRunners ==
  [minRunners : {1}, maxRunners : {10}, quarters : {1, 2, 4}]
    \union [minRunners : {1}, maxRunners : {100}, quarters : {2, 4}]

OtherRunners ==
  [minRunners : 0..2, maxRunners : {2, 4}, quarters : {0, 2}]

AllRunners == TestedRunners \union OtherRunners

BuildAndDeploy == {build, deploy}
Name == [w \in BuildAndDeploy |-> IF w = build THEN "build" ELSE "main"]
Most == [w \in BuildAndDeploy |-> IF w = deploy THEN 20 ELSE 1]

Runs(labels) == [scalar |-> FALSE, runsOn |-> labels]
RunsAlone == [scalar |-> TRUE, runsOn |-> {}]

\* Labels come, move to a label alone, and a file goes.
Edits ==
  {[w \in BuildAndDeploy |-> IF w = build THEN RunsAlone ELSE Runs({"self-hosted", "deploy"})],
   [w \in BuildAndDeploy |-> IF w = build THEN NoFile ELSE Runs({"self-hosted"})]}

\* The file of the workflow that deploys, or none.
Outages == {{}, {deploy}}

\* "*", wf_runs_on_deploy and wf_name=main.
Wanted == {{}, {<<"wf_runs_on_", "deploy">>, <<"wf_name", "main">>}}
=============================================================================
