---------------------------- MODULE Registration ----------------------------
(***************************************************************************)
(* Those who register runners, at one GitHub: requests to the registration *)
(* service and executions of add-runner.  All of them replace what is      *)
(* registered under a runner's name, and none knows of the others.         *)
(***************************************************************************)
EXTENDS RegisterService

CONSTANTS
  Tools,     \* the executions of add-runner...
  ToolRepo,  \* ... their repositories
  Indexed    \* ... and the names of their runners

ASSUME RegistrationAssumption ==
  /\ Tools \intersect Requests = {}
  /\ \A t \in Tools :
       /\ Indexed[t] \in Seq(STRING)
       /\ \A i, j \in DOMAIN Indexed[t] : Indexed[t][i] = Indexed[t][j] => i = j
       /\ \A i \in DOMAIN Indexed[t] : <<ToolRepo[t], Indexed[t][i]>> \in Places

VARIABLES toolStep, creds, out

Tool == INSTANCE AddRunner

ASSUME NoneAssumption ==
  None \notin Registration(Requests \union Tools) \union Directory \union Tool!Output

allVars == <<vars, toolStep, creds, out>>

RegistrationInit == Init /\ Tool!Init

RegistrationNext ==
  \/ Next /\ UNCHANGED <<toolStep, creds, out>>
  \/ Tool!Next /\ UNCHANGED serviceVars

Spec == RegistrationInit /\ [][RegistrationNext]_allVars

-----------------------------------------------------------------------------
(* Properties. *)

\* Every variable holds what the code can put there; a client that has not
\* succeeded has nothing to show.
TypeOK ==
  /\ github \in [Places -> Registration(Requests \union Tools) \union {None}]
  /\ tmp \in [Names -> Directory \union {None}]
  /\ \A r \in Requests :
       /\ step[r] \in {"new", "answered", "failed"} \union AtWork
       /\ at[r] \in DOMAIN RunnerNames[r]
       /\ broken[r] => step[r] = "clean"
       /\ answer[r] \in Seq(Credentials \union {Dummy})
       /\ Len(answer[r]) = CASE step[r] \in {"new", "failed"} -> 0
                             [] step[r] \in AtWork -> at[r] - 1
                             [] step[r] = "answered" -> Len(RunnerNames[r])
  /\ \A t \in Tools :
       /\ toolStep[t] \in {"config", "token", "run", "collect", "done", "failed"}
       /\ creds[t] \in Seq(Tool!RunnerCreds)
       /\ out[t] \in Tool!Output \union {None}
       /\ out[t] # None <=> toolStep[t] = "done"

\* What counts at GitHub is this registration, or one somebody else made.
CountsUnlessReplaced(repo, name, registration) ==
  \/ github[<<repo, name>>] = registration
  \/ github[<<repo, name>>] # None /\ github[<<repo, name>>].by # registration.by

(***************************************************************************)
(* A request that is answered with success has, for each runner it named,  *)
(* the credentials of its own registration, of one piece, and they count.  *)
(* Only for a request that met another one in a directory this is not so:  *)
(* it may be given the other's credentials, of another repository.         *)
(***************************************************************************)
CredentialsOwn ==
  \A r \in Requests \ (DryRun \union disturbed) :
    step[r] = "answered" =>
      \A i \in DOMAIN RunnerNames[r] :
        LET own == [by |-> r, at |-> i]
        IN  /\ answer[r][i] = [pem |-> own, credentials |-> own, params |-> own]
            /\ CountsUnlessReplaced(RepoOf[r], RunnerNames[r][i], own)

\* A directory is left behind by nobody but a request that could not
\* prepare it or a service that died, even by requests that share it.
CleanedUp ==
  \A n \in Names :
    tmp[n] = None \/ n \in abandoned \/ \E r \in Requests : step[r] \in AtWork

(***************************************************************************)
(* Of add-runner's output the i-th secret a ScaledActionRunner refers to   *)
(* is there, and holds the registration of the runner that the i-th pod    *)
(* will be: the loops that register, refer and name agree.                 *)
(***************************************************************************)
SecretsMatchPods ==
  \A t \in Tools :
    out[t] # None =>
      /\ DOMAIN out[t].runnerSecrets = DOMAIN Indexed[t]
      /\ \A i \in DOMAIN Indexed[t] :
           LET own == [by |-> t, at |-> i]
           IN  /\ \E s \in out[t].secrets :
                    s.name = out[t].runnerSecrets[i] /\ s.data.credentials = own
               /\ CountsUnlessReplaced(ToolRepo[t], Indexed[t][i], own)

=============================================================================
