------------------------------ MODULE AddRunner ------------------------------
(***************************************************************************)
(* The command line tool add-runner (add-runner/src): it registers runners *)
(* name-0 to name-(maxRunners - 1) of a repository one after the other,    *)
(* each in a container of the runner image with a directory of its own,    *)
(* and prints a ScaledActionRunner with a secret for each runner.  The     *)
(* operator mounts the secrets the ScaledActionRunner refers to, and the   *)
(* pod of each finds the credentials under its own name.                   *)
(***************************************************************************)
EXTENDS Naturals, Sequences

CONSTANTS
  Tools,       \* executions of the tool
  ToolRepo,    \* ToolRepo[t]: --owner and --repo
  Indexed,     \* Indexed[t]: the names `${name}-${i}`, of --name and --maxRunners
  Places,      \* the runners at GitHub: a repository and a name each
  None         \* nothing

VARIABLES
  github,     \* github[p]: the registration that counts for a runner
  toolStep,   \* toolStep[t]: what an execution does next
  creds,      \* creds[t]: the credentials it has collected
  out         \* out[t]: what it has written

toolVars == <<toolStep, creds, out>>
vars == <<github, toolVars>>

\* The image writes what its conversion of the key prints, if anything.
Pems == {"converted", "empty"}
RunnerCreds == [credentials : [by : Tools, at : Nat], pem : Pems]
Secret == [name : STRING, data : RunnerCreds]
Output == [runnerSecrets : Seq(STRING), secrets : SUBSET Secret]

\* The runner that is next.
Index(t) == Len(creds[t]) + 1
OwnRegistration(t) == [by |-> t, at |-> Index(t)]

\* A slip a run must notice: the secrets are numbered from the last one.
SecretNameFromLast(t, i) == Indexed[t][Len(Indexed[t]) + 1 - i]

\* Three loops number the same runners.
RunnerName(t, i) == Indexed[t][i]
SecretName(t, i) == Indexed[t][i]
SecretRef(t, i) == Indexed[t][i]

generateScaledActionRunner(t) == [i \in 1..Len(Indexed[t]) |-> SecretRef(t, i)]

generateRunnerSecrets(t) ==
  {[name |-> SecretName(t, i), data |-> creds[t][i]] : i \in DOMAIN creds[t]}

Init ==
  /\ github = [p \in Places |-> None]
  /\ toolStep = [t \in Tools |-> "config"]
  /\ creds = [t \in Tools |-> <<>>]
  /\ out = [t \in Tools |-> None]

Go(t, to) == toolStep' = [toolStep EXCEPT ![t] = to]

\* Both PATs are tokens, or files with tokens.
GetConfig(t) ==
  /\ toolStep[t] = "config"
  /\ Go(t, "token")
  /\ UNCHANGED <<github, creds, out>>

\* One token registers all of the runners.  The pull of the image is begun.
getRegToken(t) ==
  /\ toolStep[t] = "token"
  /\ Go(t, "run")
  /\ UNCHANGED <<github, creds, out>>

(***************************************************************************)
(* A container registers the next runner in place of whatever has its name *)
(* and leaves the files.                                                   *)
(***************************************************************************)
addRunner(t) ==
  /\ toolStep[t] = "run"
  /\ Index(t) \in DOMAIN Indexed[t]
  /\ github' = [github EXCEPT ![<<ToolRepo[t], RunnerName(t, Index(t))>>] = OwnRegistration(t)]
  /\ Go(t, "collect")
  /\ UNCHANGED <<creds, out>>

getRunnerCreds(t) ==
  /\ toolStep[t] = "collect"
  /\ \E pem \in Pems :
       creds' = [creds EXCEPT ![t] =
         Append(@, [credentials |-> OwnRegistration(t), pem |-> pem])]
  /\ Go(t, "run")
  /\ UNCHANGED <<github, out>>

\* There is no token, or no image yet (its pull is not waited for), or the
\* configuration fails before or after it registers, which nobody looks at
\* until the files are found missing.  Nothing is written.
Fail(t) ==
  /\ toolStep[t] \in {"config", "token", "run", "collect"}
  /\ toolStep[t] = "run" => Index(t) \in DOMAIN Indexed[t]
  /\ Go(t, "failed")
  /\ creds' = [creds EXCEPT ![t] = <<>>]
  /\ UNCHANGED <<github, out>>

generateResources(t) ==
  /\ toolStep[t] = "run"
  /\ Index(t) \notin DOMAIN Indexed[t]
  /\ out' = [out EXCEPT ![t] = [runnerSecrets |-> generateScaledActionRunner(t),
                                secrets |-> generateRunnerSecrets(t)]]
  /\ Go(t, "done")
  /\ UNCHANGED <<github, creds>>

Next ==
  \E t \in Tools :
    \/ GetConfig(t) \/ getRegToken(t)
    \/ addRunner(t) \/ getRunnerCreds(t)
    \/ Fail(t)
    \/ generateResources(t)

=============================================================================
