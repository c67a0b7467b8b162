-------------------------- MODULE MCWorkflowStore --------------------------
(* Two runners in two watched namespaces, for the runs of WorkflowStore.   *)
EXTENDS WorkflowStore

CONSTANTS r1, r2, n1, n2, k1, k2, s1, s2, a

TwoRunners == {r1, r2}
TwoNamespaces == {n1, n2}
NamespaceOf == [r \in TwoRunners |-> IF r = r1 THEN n1 ELSE n2]
ListOrder == [r \in TwoRunners |-> IF r = r1 THEN 1 ELSE 0]

TwoNames == {k1, k2}
OwnName == [r \in TwoRunners |-> IF r = r1 THEN k1 ELSE k2]

TwoSpecs == {s1, s2}
OneToken == {a}
=============================================================================
