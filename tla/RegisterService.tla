--------------------------- MODULE RegisterService ---------------------------
(***************************************************************************)
(* The registration service (GithubRunnerRegistration): a request names    *)
(* some runners of a repository; for each the service configures a copy of *)
(* GitHub's runner in a directory below the temporary path, reads the      *)
(* credentials that appear there and deletes the directory.  Requests are  *)
(* handled at once, and a directory is known by the runner's name alone.   *)
(*                                                                         *)
(* Of a registration's files there are the key and the credentials; their  *)
(* contents are the registration they come from.  Anything may fail.       *)
(***************************************************************************)
EXTENDS Naturals, Sequences

CONSTANTS
  Requests,      \* the requests a run may make
  RepoOf,        \* RepoOf[r]: the repository of a request
  RunnerNames,   \* RunnerNames[r]: the runners it names, in order
  DryRun,        \* the requests that say dryRun
  Places,        \* the runners at GitHub: a repository and a name each
  None           \* nothing: no runner, no directory, no file

ASSUME ServiceAssumption ==
  /\ DryRun \subseteq Requests
  /\ \A r \in Requests :
       /\ RunnerNames[r] \in Seq(STRING) \ {<<>>}
       /\ \A i \in DOMAIN RunnerNames[r] : <<RepoOf[r], RunnerNames[r][i]>> \in Places

VARIABLES
  github,   \* github[p]: the registration that counts for a runner
  tmp,      \* tmp[n]: the directory of a name
  step,     \* step[r]: what a request does next
  at,       \* at[r]: the runner it is at
  broken,   \* broken[r]: an exception is on its way through the finally
  held,     \* held[r]: the credentials it has read
  answer,   \* answer[r]: the credentials of its runners so far
  \* History for the properties:
  disturbed,  \* requests that met another one in a directory
  abandoned   \* names whose directory nobody was left to delete

files == <<tmp, abandoned>>
serviceVars == <<files, step, at, broken, held, answer, disturbed>>
vars == <<github, serviceVars>>

Names == UNION {{RunnerNames[r][i] : i \in DOMAIN RunnerNames[r]} : r \in Requests}
Registration(clients) == [by : clients, at : Nat]
Directory == [key : Registration(Requests) \union {None},
              credentials : Registration(Requests) \union {None}]
Credentials == [pem : Registration(Requests), credentials : Registration(Requests),
                params : Registration(Requests)]
Dummy == [pem |-> None, credentials |-> None, params |-> None]
NotRead == [pem |-> None]

Inside == {"key", "register", "save", "read key", "read rest", "clean"}
AtWork == {"prepare"} \union Inside

NameAt(r) == RunnerNames[r][at[r]]
OwnRegistration(r) == [by |-> r, at |-> at[r]]

\* A slip a run must notice: one directory for everybody.
DirOfService(r) == RunnerNames[CHOOSE q \in Requests : TRUE][1]

\* The path has no part of the repository or of the request.
DirOf(r) == NameAt(r)

Init ==
  /\ github = [p \in Places |-> None]
  /\ tmp = [n \in Names |-> None]
  /\ step = [r \in Requests |-> "new"]
  /\ at = [r \in Requests |-> 1]
  /\ broken = [r \in Requests |-> FALSE]
  /\ held = [r \in Requests |-> NotRead]
  /\ answer = [r \in Requests |-> <<>>]
  /\ disturbed = {}
  /\ abandoned = {}

-----------------------------------------------------------------------------
Go(r, to) == step' = [step EXCEPT ![r] = to]
Throw(r) == broken' = [broken EXCEPT ![r] = TRUE] /\ Go(r, "clean")

\* A request comes in.  A label is invalid, or there is no registration token: 400 or 500.
FailToSetup(r) ==
  /\ step[r] = "new"
  /\ Go(r, "failed")
  /\ UNCHANGED <<github, files, at, broken, held, answer, disturbed>>

Setup(r) ==
  /\ step[r] = "new"
  /\ Go(r, "prepare")
  /\ UNCHANGED <<github, files, at, broken, held, answer, disturbed>>

\* Those who are at the same name.
Company(r) == {q \in Requests \ {r} : step[q] \in Inside /\ NameAt(q) = NameAt(r)}

Meet(r) ==
  disturbed' = disturbed \union (IF Company(r) = {} THEN {} ELSE Company(r) \union {r})

(***************************************************************************)
(* The directory is deleted, created, and filled with the binary.  All of  *)
(* this is outside of the try: a failure leaves what there is.             *)
(***************************************************************************)
Prepare(r) ==
  /\ step[r] = "prepare"
  /\ tmp' = [tmp EXCEPT ![DirOf(r)] = [key |-> None, credentials |-> None]]
  /\ abandoned' = abandoned \ {DirOf(r)}
  /\ Meet(r)
  /\ Go(r, IF r \in DryRun THEN "clean" ELSE "key")
  /\ held' = [held EXCEPT ![r] = IF r \in DryRun THEN Dummy ELSE NotRead]
  /\ UNCHANGED <<github, at, broken, answer>>

FailToPrepare(r) ==
  /\ step[r] = "prepare"
  /\ \E d \in {tmp[DirOf(r)], None, [key |-> None, credentials |-> None]} :
       tmp' = [tmp EXCEPT ![DirOf(r)] = d]
  /\ abandoned' = abandoned \union {DirOf(r)}
  /\ Meet(r)
  /\ Go(r, "failed")
  /\ answer' = [answer EXCEPT ![r] = <<>>]
  /\ UNCHANGED <<github, at, broken, held>>

(***************************************************************************)
(* The binary makes a key, registers the runner in place of whatever has   *)
(* its name, and saves the credentials.  It fails if its directory is not  *)
(* there, or for its own reasons.                                          *)
(***************************************************************************)
MakeKey(r) ==
  /\ step[r] = "key"
  /\ tmp[DirOf(r)] # None
  /\ tmp' = [tmp EXCEPT ![DirOf(r)].key = OwnRegistration(r)]
  /\ Go(r, "register")
  /\ UNCHANGED <<github, abandoned, at, broken, held, answer, disturbed>>

RegisterAtGitHub(r) ==
  /\ step[r] = "register"
  /\ github' = [github EXCEPT ![<<RepoOf[r], NameAt(r)>>] = OwnRegistration(r)]
  /\ Go(r, "save")
  /\ UNCHANGED <<files, at, broken, held, answer, disturbed>>

Save(r) ==
  /\ step[r] = "save"
  /\ tmp[DirOf(r)] # None
  /\ tmp' = [tmp EXCEPT ![DirOf(r)].credentials = OwnRegistration(r)]
  /\ Go(r, "read key")
  /\ UNCHANGED <<github, abandoned, at, broken, held, answer, disturbed>>

\* The exit code is not 0.
FailToConfigure(r) ==
  /\ step[r] \in {"key", "register", "save"}
  /\ Throw(r)
  /\ UNCHANGED <<github, files, at, held, answer, disturbed>>

(***************************************************************************)
(* The key is read for the PEMs first, then the credentials, then the key  *)
(* once more.  A file that is not there is an exception.                   *)
(***************************************************************************)
ReadKey(r) ==
  /\ step[r] = "read key"
  /\ tmp[DirOf(r)] # None
  /\ tmp[DirOf(r)].key # None
  /\ held' = [held EXCEPT ![r] = [pem |-> tmp[DirOf(r)].key]]
  /\ Go(r, "read rest")
  /\ UNCHANGED <<github, files, at, broken, answer, disturbed>>

ReadRest(r) ==
  /\ step[r] = "read rest"
  /\ tmp[DirOf(r)] # None
  /\ tmp[DirOf(r)].key # None
  /\ tmp[DirOf(r)].credentials # None
  /\ held' = [held EXCEPT ![r] = [pem |-> held[r].pem,
                                  credentials |-> tmp[DirOf(r)].credentials,
                                  params |-> tmp[DirOf(r)].key]]
  /\ Go(r, "clean")
  /\ UNCHANGED <<github, files, at, broken, answer, disturbed>>

FailToRead(r) ==
  /\ step[r] \in {"read key", "read rest"}
  /\ Throw(r)
  /\ UNCHANGED <<github, files, at, held, answer, disturbed>>

\* A slip a run must notice: a dry run returns before the try.
DeletedUnlessDryRun(r) ==
  IF r \in DryRun THEN tmp ELSE [tmp EXCEPT ![DirOf(r)] = None]

Deleted(r) == [tmp EXCEPT ![DirOf(r)] = None]

\* A slip a run must notice: one more than there are.
HasNextAlways(r) == at[r] <= Len(RunnerNames[r])

HasNext(r) == at[r] < Len(RunnerNames[r])

\* The finally, and the controller's loop.  To delete what is not there is
\* an exception, and so is a name that occurs twice.
CleanUp(r) ==
  /\ step[r] = "clean"
  /\ tmp[DirOf(r)] # None
  /\ ~broken[r]
  /\ \A i \in 1..(at[r] - 1) : RunnerNames[r][i] # NameAt(r)
  /\ tmp' = Deleted(r)
  /\ answer' = [answer EXCEPT ![r] = Append(@, held[r])]
  /\ held' = [held EXCEPT ![r] = NotRead]
  /\ at' = [at EXCEPT ![r] = IF HasNext(r) THEN @ + 1 ELSE @]
  /\ Go(r, IF HasNext(r) THEN "prepare" ELSE "answered")
  /\ UNCHANGED <<github, abandoned, broken, disturbed>>

GiveUp(r) ==
  /\ step[r] = "clean"
  /\ \/ tmp[DirOf(r)] = None
     \/ broken[r]
     \/ \E i \in 1..(at[r] - 1) : RunnerNames[r][i] = NameAt(r)
  /\ tmp' = Deleted(r)
  /\ answer' = [answer EXCEPT ![r] = <<>>]
  /\ held' = [held EXCEPT ![r] = NotRead]
  /\ broken' = [broken EXCEPT ![r] = FALSE]
  /\ Go(r, "failed")
  /\ UNCHANGED <<github, abandoned, at, disturbed>>

\* The service dies; its temporary files survive or not.
Restart ==
  /\ \E r \in Requests : step[r] \in AtWork
  /\ step' = [r \in Requests |-> IF step[r] \in AtWork THEN "failed" ELSE step[r]]
  /\ \/ UNCHANGED tmp /\ abandoned' = {n \in Names : tmp[n] # None}
     \/ tmp' = [n \in Names |-> None] /\ abandoned' = {}
  /\ held' = [r \in Requests |-> NotRead]
  /\ answer' = [r \in Requests |-> IF step[r] = "answered" THEN answer[r] ELSE <<>>]
  /\ broken' = [r \in Requests |-> FALSE]
  /\ UNCHANGED <<github, at, disturbed>>

Next ==
  \/ \E r \in Requests :
       \/ Setup(r) \/ FailToSetup(r)
       \/ Prepare(r) \/ FailToPrepare(r)
       \/ MakeKey(r) \/ RegisterAtGitHub(r) \/ Save(r) \/ FailToConfigure(r)
       \/ ReadKey(r) \/ ReadRest(r) \/ FailToRead(r)
       \/ CleanUp(r) \/ GiveUp(r)
  \/ Restart

=============================================================================
