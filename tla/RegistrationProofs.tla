-------------------------- MODULE RegistrationProofs --------------------------
(* Theorems about the registration service and add-runner at one GitHub.     *)
EXTENDS Registration, SequenceTheorems, TLAPS

-----------------------------------------------------------------------------
(* Types: the service, the tool, and GitHub in between. *)

Steps == {"new", "answered", "failed"} \union AtWork
Answer == Credentials \union {Dummy}
Held == Answer \union [pem : Registration(Requests) \union {None}]

\* What the type invariant says of one request, and what it has in hand.
RequestOK(r) ==
  /\ at[r] \in DOMAIN RunnerNames[r]
  /\ broken[r] => step[r] = "clean"
  /\ step[r] \in {"new", "failed"} => Len(answer[r]) = 0
  /\ step[r] \in AtWork => Len(answer[r]) = at[r] - 1
  /\ step[r] = "answered" => Len(answer[r]) = Len(RunnerNames[r])
  /\ step[r] = "new" => at[r] = 1
  /\ step[r] = "read rest" => held[r].pem \in Registration(Requests)
  /\ step[r] = "clean" /\ ~broken[r] => held[r] \in Answer

ServiceType ==
  /\ tmp \in [Names -> Directory \union {None}]
  /\ step \in [Requests -> Steps]
  /\ at \in [Requests -> Nat]
  /\ broken \in [Requests -> BOOLEAN]
  /\ held \in [Requests -> Held]
  /\ answer \in [Requests -> Seq(Answer)]
  /\ \A r \in Requests : RequestOK(r)

GithubType == github \in [Places -> Registration(Requests \union Tools) \union {None}]

ToolOK(t) ==
  /\ Len(creds[t]) \in 0..Len(Indexed[t])
  /\ toolStep[t] = "collect" => Len(creds[t]) < Len(Indexed[t])
  /\ out[t] # None <=> toolStep[t] = "done"

ToolType ==
  /\ toolStep \in [Tools -> {"config", "token", "run", "collect", "done", "failed"}]
  /\ creds \in [Tools -> Seq(Tool!RunnerCreds)]
  /\ out \in [Tools -> Tool!Output \union {None}]
  /\ \A t \in Tools : ToolOK(t)

\* A request and the runner it is at.
LEMMA AtItsRunner ==
  ASSUME ServiceType, NEW r \in Requests
  PROVE  /\ at[r] \in Nat /\ at[r] \in 1..Len(RunnerNames[r])
         /\ RunnerNames[r] \in Seq(STRING) /\ Len(RunnerNames[r]) \in Nat
         /\ NameAt(r) \in Names
         /\ DirOf(r) \in Names
         /\ <<RepoOf[r], NameAt(r)>> \in Places
         /\ OwnRegistration(r) \in Registration(Requests)
  <1>1. RunnerNames[r] \in Seq(STRING) /\ at[r] \in DOMAIN RunnerNames[r]
    BY ServiceAssumption DEF ServiceType, RequestOK
  <1>2. at[r] \in 1..Len(RunnerNames[r]) /\ Len(RunnerNames[r]) \in Nat /\ at[r] \in Nat
    BY <1>1
  <1>3. NameAt(r) \in Names
    BY <1>1 DEF NameAt, Names
  <1>4. <<RepoOf[r], NameAt(r)>> \in Places
    BY <1>1, ServiceAssumption DEF NameAt
  <1>5. OwnRegistration(r) \in Registration(Requests)
    BY <1>2 DEF OwnRegistration, Registration
  <1> QED
    BY <1>1, <1>2, <1>3, <1>4, <1>5 DEF DirOf

\* Nothing is taken for a registration or a directory that is there.
LEMMA NoneApart ==
  /\ None \notin Registration(Requests)
  /\ None \notin Registration(Requests \union Tools)
  /\ None \notin Directory
  /\ None \notin Tool!Output
  /\ Registration(Requests) \subseteq Registration(Requests \union Tools)
  BY NoneAssumption DEF Registration

LEMMA ServiceTypeInit == Init => ServiceType
  <1> SUFFICES ASSUME Init PROVE ServiceType
    OBVIOUS
  <1>1. NotRead \in Held
    BY DEF NotRead, Held
  <1>2. \A r \in Requests : 1 \in DOMAIN RunnerNames[r]
    <2> SUFFICES ASSUME NEW r \in Requests PROVE 1 \in DOMAIN RunnerNames[r]
      OBVIOUS
    <2>1. RunnerNames[r] \in Seq(STRING) /\ RunnerNames[r] # <<>>
      BY ServiceAssumption
    <2> QED
      BY <2>1
  <1>3. \A r \in Requests : RequestOK(r)
    BY <1>2 DEF Init, RequestOK, AtWork, Inside
  <1>4. "new" \in Steps
    BY DEF Steps
  <1> QED
    BY <1>1, <1>3, <1>4 DEF Init, ServiceType

\* A step of one request leaves the others as they are.
LEMMA OthersOK ==
  ASSUME ServiceType, NEW r \in Requests,
         NEW q \in Requests, q # r,
         step'[q] = step[q], at'[q] = at[q], broken'[q] = broken[q],
         held'[q] = held[q], answer'[q] = answer[q]
  PROVE  RequestOK(q)'
  BY DEF ServiceType, RequestOK

LEMMA NewRequest ==
  ASSUME NEW r \in Requests, RequestOK(r), step[r] = "new"
  PROVE  Len(answer[r]) = 0 /\ Len(answer[r]) = at[r] - 1
  <1>1. Len(answer[r]) = 0 /\ at[r] = 1
    BY DEF RequestOK
  <1> QED
    BY <1>1

\* The steps that change nothing of a request but what it does next.
LEMMA ServiceTypeQuiet ==
  ASSUME ServiceType, NEW r \in Requests,
         \/ Setup(r) \/ FailToSetup(r) \/ RegisterAtGitHub(r)
         \/ MakeKey(r) \/ Save(r)
         \/ FailToConfigure(r) \/ FailToRead(r)
  PROVE  ServiceType'
  <1> USE DEF ServiceType
  <1>n. DirOf(r) \in Names /\ OwnRegistration(r) \in Registration(Requests)
    BY AtItsRunner
  <1>1. UNCHANGED <<at, held, answer>>
    BY DEF Setup, FailToSetup, RegisterAtGitHub, MakeKey, Save, FailToConfigure, FailToRead
  <1>2. PICK to \in {"prepare", "failed", "save", "register", "read key", "clean"} :
          /\ step' = [step EXCEPT ![r] = to]
          /\ to = "failed" => step[r] = "new"
          /\ to = "prepare" => step[r] = "new"
          /\ to \notin {"failed", "prepare"} => step[r] \in Inside
          /\ \/ broken' = broken /\ to # "clean" /\ step[r] # "clean"
             \/ broken' = [broken EXCEPT ![r] = TRUE] /\ to = "clean"
    BY DEF Setup, FailToSetup, RegisterAtGitHub, MakeKey, Save, FailToConfigure, FailToRead,
           Go, Throw, Inside
  <1>3. tmp' \in [Names -> Directory \union {None}]
    <2>1. CASE MakeKey(r)
      <3>1. tmp[DirOf(r)] \in Directory
        BY <1>n, <2>1 DEF MakeKey
      <3>2. [tmp[DirOf(r)] EXCEPT !.key = OwnRegistration(r)] \in Directory
        BY <1>n, <3>1 DEF Directory
      <3> QED
        BY <2>1, <3>2 DEF MakeKey
    <2>2. CASE Save(r)
      <3>1. tmp[DirOf(r)] \in Directory
        BY <1>n, <2>2 DEF Save
      <3>2. [tmp[DirOf(r)] EXCEPT !.credentials = OwnRegistration(r)] \in Directory
        BY <1>n, <3>1 DEF Directory
      <3> QED
        BY <2>2, <3>2 DEF Save
    <2> QED
      BY <2>1, <2>2 DEF Setup, FailToSetup, RegisterAtGitHub, FailToConfigure, FailToRead, files
  <1>4. step' \in [Requests -> Steps] /\ broken' \in [Requests -> BOOLEAN]
    BY <1>2 DEF Steps, AtWork, Inside
  <1>5. RequestOK(r)'
    <2>1. RequestOK(r)
      OBVIOUS
    <2>2. \/ step'[r] = "failed" /\ Len(answer[r]) = 0
          \/ /\ step'[r] \in {"prepare", "save", "register", "read key", "clean"}
             /\ Len(answer[r]) = at[r] - 1
      <3>1. step'[r] = to
        BY <1>2
      <3>2. CASE to \in {"failed", "prepare"}
        <4>1. step[r] = "new"
          BY <1>2, <3>2
        <4> QED
          BY <2>1, <3>1, <3>2, <4>1, NewRequest
      <3>3. CASE to \notin {"failed", "prepare"}
        <4>1. Len(answer[r]) = at[r] - 1
          BY <1>2, <2>1, <3>3 DEF RequestOK, AtWork
        <4> QED
          BY <3>1, <3>3, <4>1
      <3> QED
        BY <3>2, <3>3
    <2>3. /\ step'[r] \notin {"new", "answered", "read rest"}
          /\ step'[r] = "failed" => Len(answer[r]) = 0
          /\ step'[r] \in AtWork => Len(answer[r]) = at[r] - 1
      BY <2>2 DEF AtWork, Inside
    <2>4. step'[r] = "clean" => broken'[r]
      BY <1>2
    <2>5. broken'[r] => step'[r] = "clean"
      BY <1>2, <2>1 DEF RequestOK
    <2> QED
      BY <1>1, <2>1, <2>3, <2>4, <2>5 DEF RequestOK
  <1>6. \A q \in Requests \ {r} : RequestOK(q)'
    BY <1>1, <1>2, OthersOK
  <1> QED
    BY <1>1, <1>3, <1>4, <1>5, <1>6

\* The directory before, and the files that are read from it.
LEMMA ServiceTypePrepare ==
  ASSUME ServiceType, NEW r \in Requests, Prepare(r) \/ FailToPrepare(r)
  PROVE  ServiceType'
  <1>n. DirOf(r) \in Names
    BY AtItsRunner
  <1>d. [key |-> None, credentials |-> None] \in Directory
    BY DEF Directory
  <1>t. /\ tmp \in [Names -> Directory \union {None}] /\ step \in [Requests -> Steps]
        /\ at \in [Requests -> Nat] /\ broken \in [Requests -> BOOLEAN]
        /\ held \in [Requests -> Held] /\ answer \in [Requests -> Seq(Answer)]
        /\ RequestOK(r)
    BY DEF ServiceType
  <1>1. step[r] = "prepare" /\ UNCHANGED <<at, broken>>
    BY DEF Prepare, FailToPrepare
  <1>2. tmp' \in [Names -> Directory \union {None}]
    <2>1. \E d \in Directory \union {None} : tmp' = [tmp EXCEPT ![DirOf(r)] = d]
      BY <1>n, <1>d, <1>t DEF Prepare, FailToPrepare
    <2> QED
      BY <1>t, <2>1
  <1>3. Len(answer[r]) = at[r] - 1 /\ ~broken[r] /\ at[r] \in DOMAIN RunnerNames[r]
    BY <1>1, <1>t DEF RequestOK, AtWork
  <1>4. CASE Prepare(r)
    <2>1. PICK h \in Held :
            /\ held' = [held EXCEPT ![r] = h]
            /\ r \in DryRun => h \in Answer
      BY <1>4 DEF Prepare, Held, Answer, NotRead
    <2>2. step' = [step EXCEPT ![r] = IF r \in DryRun THEN "clean" ELSE "key"] /\ answer' = answer
      BY <1>4 DEF Prepare, Go
    <2>3. step' \in [Requests -> Steps]
      BY <1>t, <2>2 DEF Steps, AtWork, Inside
    <2>4. step'[r] \in {"key", "clean"} /\ (step'[r] = "clean" => held'[r] \in Answer)
      BY <1>t, <2>1, <2>2
    <2>5. RequestOK(r)'
      BY <1>1, <1>3, <2>2, <2>4 DEF RequestOK
    <2>6. \A q \in Requests \ {r} : RequestOK(q)'
      BY <1>1, <2>1, <2>2, OthersOK
    <2> QED
      BY <1>1, <1>2, <1>t, <2>1, <2>2, <2>3, <2>5, <2>6 DEF ServiceType
  <1>5. CASE FailToPrepare(r)
    <2>1. /\ step' = [step EXCEPT ![r] = "failed"] /\ held' = held
          /\ answer' = [answer EXCEPT ![r] = <<>>]
      BY <1>5 DEF FailToPrepare, Go
    <2>2. step' \in [Requests -> Steps] /\ answer' \in [Requests -> Seq(Answer)]
      BY <1>t, <2>1 DEF Steps
    <2>3. step'[r] = "failed" /\ Len(answer'[r]) = 0
      BY <1>t, <2>1
    <2>4. RequestOK(r)'
      BY <1>1, <1>3, <2>3 DEF RequestOK, AtWork, Inside
    <2>5. \A q \in Requests \ {r} : RequestOK(q)'
      BY <1>1, <1>t, <2>1, OthersOK
    <2> QED
      BY <1>1, <1>2, <1>t, <2>1, <2>2, <2>4, <2>5 DEF ServiceType
  <1> QED
    BY <1>4, <1>5

LEMMA ServiceTypeRead ==
  ASSUME ServiceType, NEW r \in Requests, ReadKey(r) \/ ReadRest(r)
  PROVE  ServiceType'
  <1>n. DirOf(r) \in Names
    BY AtItsRunner
  <1>t. /\ tmp \in [Names -> Directory \union {None}] /\ step \in [Requests -> Steps]
        /\ at \in [Requests -> Nat] /\ broken \in [Requests -> BOOLEAN]
        /\ held \in [Requests -> Held] /\ answer \in [Requests -> Seq(Answer)]
        /\ RequestOK(r)
    BY DEF ServiceType
  <1>1. UNCHANGED <<tmp, at, broken, answer>>
    BY DEF ReadKey, ReadRest, files
  <1>2. /\ tmp[DirOf(r)].key \in Registration(Requests)
        /\ ReadRest(r) => tmp[DirOf(r)].credentials \in Registration(Requests)
    <2>1. tmp[DirOf(r)] \in Directory
      BY <1>n, <1>t DEF ReadKey, ReadRest
    <2> QED
      BY <2>1 DEF ReadKey, ReadRest, Directory
  <1>3. PICK to \in {"read rest", "clean"}, h \in Held :
          /\ step' = [step EXCEPT ![r] = to]
          /\ held' = [held EXCEPT ![r] = h]
          /\ to = "read rest" => h.pem \in Registration(Requests)
          /\ to = "clean" => h \in Answer
    <2>1. CASE ReadKey(r)
      <3>1. [pem |-> tmp[DirOf(r)].key] \in Held
        BY <1>2 DEF Held
      <3> QED
        BY <1>2, <2>1, <3>1 DEF ReadKey, Go
    <2>2. CASE ReadRest(r)
      <3>1. held[r].pem \in Registration(Requests)
        BY <1>t, <2>2 DEF ReadRest, RequestOK
      <3>2. [pem |-> held[r].pem, credentials |-> tmp[DirOf(r)].credentials,
             params |-> tmp[DirOf(r)].key] \in Answer
        BY <1>2, <2>2, <3>1 DEF Answer, Credentials
      <3> QED
        BY <2>2, <3>2 DEF ReadRest, Go, Held
    <2> QED
      BY <2>1, <2>2
  <1>4. step' \in [Requests -> Steps] /\ held' \in [Requests -> Held]
    <2>1. {"read rest", "clean"} \subseteq Steps
      BY DEF Steps, AtWork, Inside
    <2> QED
      BY <1>t, <1>3, <2>1
  <1>5. RequestOK(r)'
    <2>1. step[r] \in {"read key", "read rest"}
      BY DEF ReadKey, ReadRest
    <2>2. Len(answer[r]) = at[r] - 1 /\ ~broken[r] /\ at[r] \in DOMAIN RunnerNames[r]
      BY <1>t, <2>1 DEF RequestOK, AtWork, Inside
    <2>3. /\ step'[r] \in {"read rest", "clean"}
          /\ step'[r] = "read rest" => held'[r].pem \in Registration(Requests)
          /\ step'[r] = "clean" => held'[r] \in Answer
      BY <1>t, <1>3
    <2> QED
      BY <1>1, <2>2, <2>3 DEF RequestOK
  <1>6. \A q \in Requests \ {r} : RequestOK(q)'
    BY <1>1, <1>3, <1>t, OthersOK
  <1> QED
    BY <1>1, <1>t, <1>4, <1>5, <1>6 DEF ServiceType

\* The end of a runner, and of everything.
LEMMA ServiceTypeFinish ==
  ASSUME ServiceType, NEW r \in Requests, CleanUp(r) \/ GiveUp(r)
  PROVE  ServiceType'
  <1>n. /\ DirOf(r) \in Names
        /\ at[r] \in 1..Len(RunnerNames[r]) /\ Len(RunnerNames[r]) \in Nat /\ at[r] \in Nat
        /\ RunnerNames[r] \in Seq(STRING)
    BY AtItsRunner
  <1>t. /\ tmp \in [Names -> Directory \union {None}] /\ step \in [Requests -> Steps]
        /\ at \in [Requests -> Nat] /\ broken \in [Requests -> BOOLEAN]
        /\ held \in [Requests -> Held] /\ answer \in [Requests -> Seq(Answer)]
        /\ RequestOK(r)
    BY DEF ServiceType
  <1>1. /\ tmp' \in [Names -> Directory \union {None}]
        /\ held' = [held EXCEPT ![r] = NotRead] /\ NotRead \in Held
        /\ step[r] = "clean"
    BY <1>t DEF CleanUp, GiveUp, Deleted, NotRead, Held
  <1>2. held' \in [Requests -> Held]
    BY <1>t, <1>1
  <1>3. Len(answer[r]) = at[r] - 1
    BY <1>t, <1>1 DEF RequestOK, AtWork, Inside
  <1>4. CASE CleanUp(r)
    <2>1. ~broken[r] /\ held[r] \in Answer
      BY <1>t, <1>1, <1>4 DEF CleanUp, RequestOK
    <2>2. /\ answer' = [answer EXCEPT ![r] = Append(answer[r], held[r])]
          /\ step' = [step EXCEPT ![r] = IF HasNext(r) THEN "prepare" ELSE "answered"]
          /\ at' = [at EXCEPT ![r] = IF HasNext(r) THEN at[r] + 1 ELSE at[r]]
          /\ broken' = broken
      BY <1>4 DEF CleanUp, Go
    <2>3. Append(answer[r], held[r]) \in Seq(Answer) /\ Len(Append(answer[r], held[r])) = at[r]
      <3>1. answer[r] \in Seq(Answer)
        BY <1>t
      <3> QED
        BY <1>3, <1>n, <2>1, <3>1, AppendProperties
    <2>4. answer' \in [Requests -> Seq(Answer)] /\ Len(answer'[r]) = at[r]
      BY <1>t, <2>2, <2>3
    <2>5. {"prepare", "answered"} \subseteq Steps
      BY DEF Steps, AtWork
    <2>6. step' \in [Requests -> Steps]
      BY <1>t, <2>2, <2>5
    <2>7. at' \in [Requests -> Nat] /\ at'[r] \in 1..Len(RunnerNames[r])
      BY <1>t, <1>n, <2>2 DEF HasNext
    <2>8. \/ step'[r] = "prepare" /\ Len(answer'[r]) = at'[r] - 1
          \/ step'[r] = "answered" /\ Len(answer'[r]) = Len(RunnerNames[r])
      <3>1. CASE HasNext(r)
        <4>1. at'[r] = at[r] + 1 /\ step'[r] = "prepare"
          BY <1>t, <2>2, <3>1
        <4> QED
          BY <1>n, <2>4, <4>1
      <3>2. CASE ~HasNext(r)
        <4>1. step'[r] = "answered"
          BY <1>t, <2>2, <3>2
        <4>2. at[r] = Len(RunnerNames[r])
          BY <1>n, <3>2 DEF HasNext
        <4> QED
          BY <2>4, <4>1, <4>2
      <3> QED
        BY <3>1, <3>2
    <2>9. at'[r] \in DOMAIN RunnerNames[r]
      BY <1>n, <2>7
    <2>10. RequestOK(r)'
      BY <2>1, <2>2, <2>8, <2>9 DEF RequestOK, AtWork, Inside
    <2>11. \A q \in Requests \ {r} : RequestOK(q)'
      BY <1>1, <1>t, <2>2, OthersOK
    <2> QED
      BY <1>1, <1>2, <1>t, <2>2, <2>4, <2>6, <2>7, <2>10, <2>11 DEF ServiceType
  <1>5. CASE GiveUp(r)
    <2>1. /\ answer' = [answer EXCEPT ![r] = <<>>]
          /\ step' = [step EXCEPT ![r] = "failed"]
          /\ broken' = [broken EXCEPT ![r] = FALSE]
          /\ at' = at
      BY <1>5 DEF GiveUp, Go
    <2>2. "failed" \in Steps
      BY DEF Steps
    <2>3. /\ step' \in [Requests -> Steps] /\ broken' \in [Requests -> BOOLEAN]
          /\ answer' \in [Requests -> Seq(Answer)]
      BY <1>t, <2>1, <2>2
    <2>4. step'[r] = "failed" /\ ~broken'[r] /\ Len(answer'[r]) = 0
      BY <1>t, <2>1
    <2>5. at'[r] \in DOMAIN RunnerNames[r]
      BY <1>n, <2>1
    <2>6. RequestOK(r)'
      BY <2>4, <2>5 DEF RequestOK, AtWork, Inside
    <2>7. \A q \in Requests \ {r} : RequestOK(q)'
      BY <1>1, <1>t, <2>1, OthersOK
    <2> QED
      BY <1>1, <1>2, <1>t, <2>1, <2>3, <2>6, <2>7 DEF ServiceType
  <1> QED
    BY <1>4, <1>5

LEMMA ServiceTypeRestart == ServiceType /\ Restart => ServiceType'
  <1> SUFFICES ASSUME ServiceType, Restart PROVE ServiceType'
    OBVIOUS
  <1>t. /\ tmp \in [Names -> Directory \union {None}] /\ step \in [Requests -> Steps]
        /\ answer \in [Requests -> Seq(Answer)] /\ \A r \in Requests : RequestOK(r)
    BY DEF ServiceType
  <1>1. /\ step' = [r \in Requests |-> IF step[r] \in AtWork THEN "failed" ELSE step[r]]
        /\ answer' = [r \in Requests |-> IF step[r] = "answered" THEN answer[r] ELSE <<>>]
        /\ held' = [r \in Requests |-> NotRead]
        /\ broken' = [r \in Requests |-> FALSE]
        /\ at' = at
        /\ tmp' = tmp \/ tmp' = [n \in Names |-> None]
    BY DEF Restart
  <1>2. NotRead \in Held /\ "failed" \in Steps
    BY DEF NotRead, Held, Steps
  <1>3. /\ tmp' \in [Names -> Directory \union {None}] /\ step' \in [Requests -> Steps]
        /\ held' \in [Requests -> Held] /\ broken' \in [Requests -> BOOLEAN]
        /\ answer' \in [Requests -> Seq(Answer)]
    BY <1>t, <1>1, <1>2
  <1>4. ASSUME NEW r \in Requests PROVE RequestOK(r)'
    <2>1. CASE step[r] \in {"new", "failed"} \union AtWork
      <3>1. step'[r] \in {"new", "failed"} /\ (step'[r] = "new" => step[r] = "new")
        BY <1>1, <2>1 DEF AtWork, Inside
      <3>2. Len(answer'[r]) = 0 /\ ~broken'[r]
        BY <1>1, <2>1 DEF AtWork, Inside
      <3> QED
        BY <1>1, <1>t, <3>1, <3>2 DEF RequestOK, AtWork, Inside
    <2>2. CASE step[r] = "answered"
      <3>1. step'[r] = "answered" /\ answer'[r] = answer[r] /\ ~broken'[r]
        BY <1>1, <2>2 DEF AtWork, Inside
      <3> QED
        BY <1>1, <1>t, <2>2, <3>1 DEF RequestOK, AtWork, Inside
    <2> QED
      BY <1>t, <2>1, <2>2 DEF Steps
  <1> QED
    BY <1>1, <1>3, <1>4, <1>t DEF ServiceType

LEMMA ServiceTypeNext == ServiceType /\ Next => ServiceType'
  BY ServiceTypeQuiet, ServiceTypePrepare, ServiceTypeRead, ServiceTypeFinish, ServiceTypeRestart
  DEF Next

LEMMA ToolTypeInit == Tool!Init => ToolType
  <1> SUFFICES ASSUME Tool!Init PROVE ToolType
    OBVIOUS
  <1>1. \A t \in Tools : Indexed[t] \in Seq(STRING)
    BY RegistrationAssumption
  <1>2. \A t \in Tools : Len(Indexed[t]) \in Nat
    BY <1>1
  <1> QED
    BY <1>2 DEF Tool!Init, ToolType, ToolOK

LEMMA ToolTypeNext == ToolType /\ Tool!Next => ToolType'
  <1> SUFFICES ASSUME ToolType, NEW t \in Tools,
                      \/ Tool!GetConfig(t) \/ Tool!getRegToken(t)
                      \/ Tool!addRunner(t) \/ Tool!getRunnerCreds(t)
                      \/ Tool!Fail(t) \/ Tool!generateResources(t)
               PROVE  ToolType'
    BY DEF Tool!Next
  <1>t. /\ toolStep \in [Tools -> {"config", "token", "run", "collect", "done", "failed"}]
        /\ creds \in [Tools -> Seq(Tool!RunnerCreds)]
        /\ out \in [Tools -> Tool!Output \union {None}]
        /\ \A u \in Tools : ToolOK(u)
    BY DEF ToolType
  <1>n. /\ Indexed[t] \in Seq(STRING) /\ Len(Indexed[t]) \in Nat
        /\ DOMAIN Indexed[t] = 1..Len(Indexed[t])
        /\ creds[t] \in Seq(Tool!RunnerCreds) /\ Len(creds[t]) \in 0..Len(Indexed[t])
        /\ Tool!Index(t) = Len(creds[t]) + 1
    <2>1. Indexed[t] \in Seq(STRING)
      BY RegistrationAssumption
    <2> QED
      BY <1>t, <2>1 DEF Tool!Index, ToolOK
  <1>o. ASSUME NEW u \in Tools, u # t,
               toolStep'[u] = toolStep[u], creds'[u] = creds[u], out'[u] = out[u]
        PROVE  ToolOK(u)'
    BY <1>o, <1>t DEF ToolOK
  <1>1. CASE Tool!GetConfig(t) \/ Tool!getRegToken(t) \/ Tool!addRunner(t)
    <2>1. PICK to \in {"token", "run", "collect"} :
            /\ toolStep' = [toolStep EXCEPT ![t] = to] /\ UNCHANGED <<creds, out>>
            /\ to = "collect" => Tool!Index(t) \in DOMAIN Indexed[t]
            /\ toolStep[t] # "done"
      BY <1>1 DEF Tool!GetConfig, Tool!getRegToken, Tool!addRunner, Tool!Go
    <2>2. toolStep'[t] = to
      BY <1>t, <2>1
    <2>3. to = "collect" => Len(creds[t]) < Len(Indexed[t])
      BY <1>n, <2>1
    <2>4. ToolOK(t)'
      BY <1>t, <2>1, <2>2, <2>3 DEF ToolOK
    <2> QED
      BY <1>o, <1>t, <2>1, <2>4 DEF ToolType
  <1>2. CASE Tool!getRunnerCreds(t)
    <2>1. PICK pem \in Tool!Pems :
            creds' = [creds EXCEPT ![t] =
              Append(@, [credentials |-> Tool!OwnRegistration(t), pem |-> pem])]
      BY <1>2 DEF Tool!getRunnerCreds
    <2>2. [credentials |-> Tool!OwnRegistration(t), pem |-> pem] \in Tool!RunnerCreds
      BY <1>n DEF Tool!OwnRegistration, Tool!RunnerCreds
    <2>3. creds'[t] \in Seq(Tool!RunnerCreds) /\ Len(creds'[t]) = Len(creds[t]) + 1
      BY <1>n, <1>t, <2>1, <2>2, AppendProperties
    <2>4. /\ toolStep' = [toolStep EXCEPT ![t] = "run"] /\ UNCHANGED out
          /\ toolStep[t] = "collect"
      BY <1>2 DEF Tool!getRunnerCreds, Tool!Go
    <2>5. Len(creds[t]) < Len(Indexed[t])
      BY <1>t, <2>4 DEF ToolOK
    <2>6. ToolOK(t)'
      <3>1. Len(creds'[t]) \in 0..Len(Indexed[t])
        BY <1>n, <2>3, <2>5
      <3> QED
        BY <1>t, <2>4, <3>1 DEF ToolOK
    <2>7. creds' \in [Tools -> Seq(Tool!RunnerCreds)]
      BY <1>t, <2>1, <2>3
    <2> QED
      BY <1>o, <1>t, <2>1, <2>4, <2>6, <2>7 DEF ToolType
  <1>3. CASE Tool!Fail(t)
    <2>1. /\ toolStep' = [toolStep EXCEPT ![t] = "failed"] /\ UNCHANGED out
          /\ creds' = [creds EXCEPT ![t] = <<>>]
          /\ toolStep[t] # "done"
      BY <1>3 DEF Tool!Fail, Tool!Go
    <2>2. /\ toolStep' \in [Tools -> {"config", "token", "run", "collect", "done", "failed"}]
          /\ creds' \in [Tools -> Seq(Tool!RunnerCreds)]
      BY <1>t, <2>1
    <2>3. toolStep'[t] = "failed" /\ Len(creds'[t]) = 0
      BY <1>t, <2>1
    <2>4. ToolOK(t)'
      BY <1>n, <1>t, <2>1, <2>3 DEF ToolOK
    <2> QED
      BY <1>o, <1>t, <2>1, <2>2, <2>4 DEF ToolType
  <1>4. CASE Tool!generateResources(t)
    <2>1. \A i \in DOMAIN creds[t] : Indexed[t][i] \in STRING /\ creds[t][i] \in Tool!RunnerCreds
      BY <1>n
    <2>2. Tool!generateRunnerSecrets(t) \subseteq Tool!Secret
      BY <2>1 DEF Tool!generateRunnerSecrets, Tool!SecretName, Tool!Secret
    <2>3. Tool!generateScaledActionRunner(t) \in Seq(STRING)
      <3>1. \A i \in 1..Len(Indexed[t]) : Indexed[t][i] \in STRING
        BY <1>n
      <3> QED
        BY <1>n, <3>1, IsASeq DEF Tool!generateScaledActionRunner, Tool!SecretRef
    <2>4. [runnerSecrets |-> Tool!generateScaledActionRunner(t),
           secrets |-> Tool!generateRunnerSecrets(t)] \in Tool!Output
      BY <2>2, <2>3 DEF Tool!Output
    <2>5. PICK o \in Tool!Output :
            /\ out' = [out EXCEPT ![t] = o] /\ o # None
            /\ toolStep' = [toolStep EXCEPT ![t] = "done"] /\ UNCHANGED creds
      BY <1>4, <2>4, NoneApart DEF Tool!generateResources, Tool!Go
    <2>6. ToolOK(t)'
      BY <1>t, <2>5 DEF ToolOK
    <2> QED
      BY <1>o, <1>t, <2>5, <2>6 DEF ToolType
  <1> QED
    BY <1>1, <1>2, <1>3, <1>4

-----------------------------------------------------------------------------
\* The whole.
TypeInv == ServiceType /\ ToolType /\ GithubType

LEMMA TypeInvInit == RegistrationInit => TypeInv
  BY ServiceTypeInit, ToolTypeInit DEF RegistrationInit, TypeInv, GithubType, Init

LEMMA TypeInvNext == TypeInv /\ [RegistrationNext]_allVars => TypeInv'
  <1> SUFFICES ASSUME TypeInv, [RegistrationNext]_allVars PROVE TypeInv'
    OBVIOUS
  <1> USE DEF TypeInv
  <1>1. ASSUME UNCHANGED serviceVars PROVE ServiceType'
    BY <1>1 DEF serviceVars, files, ServiceType, RequestOK
  <1>2. ASSUME UNCHANGED <<toolStep, creds, out>> PROVE ToolType'
    BY <1>2 DEF ToolType, ToolOK
  <1>3. CASE Next /\ UNCHANGED <<toolStep, creds, out>>
    <2>1. github' = github \/ \E r \in Requests : RegisterAtGitHub(r)
      BY <1>3 DEF Next, Setup, FailToSetup, Prepare, FailToPrepare, MakeKey, Save,
                  FailToConfigure, ReadKey, ReadRest, FailToRead, CleanUp, GiveUp, Restart
    <2>2. GithubType'
      BY <2>1, AtItsRunner, NoneApart DEF RegisterAtGitHub, GithubType
    <2> QED
      BY <1>2, <1>3, <2>2, ServiceTypeNext
  <1>4. CASE Tool!Next /\ UNCHANGED serviceVars
    <2>1. github' = github \/ \E t \in Tools : Tool!addRunner(t)
      BY <1>4 DEF Tool!Next, Tool!GetConfig, Tool!getRegToken, Tool!getRunnerCreds, Tool!Fail,
                  Tool!generateResources
    <2>2. ASSUME NEW t \in Tools, Tool!addRunner(t) PROVE GithubType'
      <3>1. Tool!OwnRegistration(t) \in Registration(Requests \union Tools)
        <4>1. Tool!Index(t) \in Nat
          BY DEF Tool!Index, ToolType
        <4> QED
          BY <4>1 DEF Tool!OwnRegistration, Registration
      <3> QED
        BY <2>2, <3>1 DEF Tool!addRunner, GithubType
    <2> QED
      BY <1>1, <1>4, <2>1, <2>2, ToolTypeNext DEF GithubType
  <1>5. CASE UNCHANGED allVars
    BY <1>1, <1>2, <1>5 DEF allVars, vars, serviceVars, GithubType
  <1> QED
    BY <1>3, <1>4, <1>5 DEF RegistrationNext

(***************************************************************************)
(* Every reachable state is well typed, for any requests, names and tools: *)
(* a client that has not succeeded has nothing to show, and one that has,  *)
(* something for each of its runners.                                      *)
(***************************************************************************)
THEOREM TypeCorrect == Spec => []TypeOK
  <1>1. TypeInv => TypeOK
    <2> SUFFICES ASSUME TypeInv PROVE TypeOK
      OBVIOUS
    <2>1. ASSUME NEW r \in Requests
          PROVE  /\ step[r] \in {"new", "answered", "failed"} \union AtWork
                 /\ at[r] \in DOMAIN RunnerNames[r]
                 /\ broken[r] => step[r] = "clean"
                 /\ answer[r] \in Seq(Credentials \union {Dummy})
                 /\ Len(answer[r]) = CASE step[r] \in {"new", "failed"} -> 0
                                       [] step[r] \in AtWork -> at[r] - 1
                                       [] step[r] = "answered" -> Len(RunnerNames[r])
      <3>1. RequestOK(r) /\ step[r] \in Steps /\ answer[r] \in Seq(Answer)
        BY DEF TypeInv, ServiceType
      <3>2. Len(answer[r]) = CASE step[r] \in {"new", "failed"} -> 0
                               [] step[r] \in AtWork -> at[r] - 1
                               [] step[r] = "answered" -> Len(RunnerNames[r])
        BY <3>1 DEF RequestOK, Steps, AtWork, Inside
      <3> QED
        BY <3>1, <3>2 DEF RequestOK, Steps, Answer
    <2>2. \A t \in Tools : /\ toolStep[t] \in {"config", "token", "run", "collect", "done", "failed"}
                           /\ creds[t] \in Seq(Tool!RunnerCreds)
                           /\ out[t] \in Tool!Output \union {None}
                           /\ out[t] # None <=> toolStep[t] = "done"
      BY DEF TypeInv, ToolType, ToolOK
    <2> QED
      BY <2>1, <2>2 DEF TypeOK, TypeInv, ServiceType, GithubType
  <1> QED
    BY <1>1, TypeInvInit, TypeInvNext, PTL DEF Spec

-----------------------------------------------------------------------------
(* Nothing is left behind. *)

\* A directory belongs to somebody who is at its name and will delete it.
KeptBySomebody ==
  \A n \in Names :
    \/ tmp[n] = None
    \/ n \in abandoned
    \/ \E r \in Requests : step[r] \in Inside /\ NameAt(r) = n

LEMMA KeptInit == RegistrationInit => KeptBySomebody
  BY DEF RegistrationInit, Init, KeptBySomebody

LEMMA KeptNext == TypeInv /\ KeptBySomebody /\ [RegistrationNext]_allVars => KeptBySomebody'
  <1> SUFFICES ASSUME TypeInv, KeptBySomebody, [RegistrationNext]_allVars PROVE KeptBySomebody'
    OBVIOUS
  <1>t. /\ tmp \in [Names -> Directory \union {None}]
        /\ step \in [Requests -> Steps] /\ at \in [Requests -> Nat]
    BY DEF TypeInv, ServiceType
  <1>1. CASE UNCHANGED serviceVars
    BY <1>1 DEF serviceVars, files, KeptBySomebody, NameAt
  \* A step of one request that is and stays inside, at the same name.
  <1>2. ASSUME NEW r \in Requests, UNCHANGED <<abandoned, at>>,
               \E to \in Inside : step' = [step EXCEPT ![r] = to],
               \A n \in Names : n # NameAt(r) => tmp'[n] = tmp[n]
        PROVE  KeptBySomebody'
    <2>1. step'[r] \in Inside /\ NameAt(r)' = NameAt(r)
      BY <1>2, <1>t DEF NameAt
    <2>2. \A q \in Requests \ {r} : step'[q] = step[q] /\ NameAt(q)' = NameAt(q)
      BY <1>2, <1>t DEF NameAt
    <2> QED
      BY <1>2, <2>1, <2>2 DEF KeptBySomebody
  \* A step of one request that leaves its name and deletes the directory.
  <1>3. ASSUME NEW r \in Requests, UNCHANGED abandoned, tmp' = Deleted(r),
               \A q \in Requests \ {r} : step'[q] = step[q] /\ at'[q] = at[q]
        PROVE  KeptBySomebody'
    <2>1. DirOf(r) \in Names /\ DirOf(r) = NameAt(r)
      BY AtItsRunner DEF TypeInv, DirOf
    <2>2. \A q \in Requests \ {r} : step'[q] = step[q] /\ NameAt(q)' = NameAt(q)
      BY <1>3 DEF NameAt
    <2>3. tmp'[DirOf(r)] = None /\ \A n \in Names \ {DirOf(r)} : tmp'[n] = tmp[n]
      BY <1>3, <1>t, <2>1 DEF Deleted
    <2> QED
      BY <1>3, <2>1, <2>2, <2>3 DEF KeptBySomebody
  <1>4. ASSUME NEW r \in Requests, Setup(r) \/ FailToSetup(r) PROVE KeptBySomebody'
    <2>1. /\ step[r] = "new" /\ UNCHANGED <<tmp, abandoned, at>>
          /\ \A q \in Requests \ {r} : step'[q] = step[q]
      BY <1>4, <1>t DEF Setup, FailToSetup, Go, files
    <2> QED
      BY <2>1 DEF KeptBySomebody, NameAt, Inside
  <1>5. ASSUME NEW r \in Requests, Prepare(r) PROVE KeptBySomebody'
    <2>1. DirOf(r) \in Names /\ DirOf(r) = NameAt(r)
      BY AtItsRunner DEF TypeInv, DirOf
    <2>2. /\ UNCHANGED at /\ abandoned' = abandoned \ {DirOf(r)}
          /\ \E to \in {"clean", "key"} : step' = [step EXCEPT ![r] = to]
          /\ \A n \in Names \ {DirOf(r)} : tmp'[n] = tmp[n]
      BY <1>5, <1>t DEF Prepare, Go
    <2>3. step'[r] \in Inside /\ NameAt(r)' = NameAt(r)
      BY <1>t, <2>2 DEF Inside, NameAt
    <2>4. \A q \in Requests \ {r} : step'[q] = step[q] /\ NameAt(q)' = NameAt(q)
      BY <1>t, <2>2 DEF NameAt
    <2> QED
      BY <2>1, <2>2, <2>3, <2>4 DEF KeptBySomebody
  <1>6. ASSUME NEW r \in Requests, FailToPrepare(r) PROVE KeptBySomebody'
    <2>1. /\ step[r] = "prepare" /\ UNCHANGED at /\ abandoned' = abandoned \union {DirOf(r)}
          /\ \A q \in Requests \ {r} : step'[q] = step[q]
          /\ \A n \in Names \ {DirOf(r)} : tmp'[n] = tmp[n]
      BY <1>6, <1>t DEF FailToPrepare, Go
    <2> QED
      BY <2>1 DEF KeptBySomebody, NameAt, Inside
  <1>7. ASSUME NEW r \in Requests,
               \/ MakeKey(r) \/ RegisterAtGitHub(r) \/ Save(r) \/ FailToConfigure(r)
               \/ ReadKey(r) \/ ReadRest(r) \/ FailToRead(r)
        PROVE  KeptBySomebody'
    <2>1. /\ UNCHANGED <<abandoned, at>>
          /\ \E to \in {"register", "save", "read key", "read rest", "clean"} :
               step' = [step EXCEPT ![r] = to]
      BY <1>7 DEF MakeKey, RegisterAtGitHub, Save, FailToConfigure, ReadKey, ReadRest,
                  FailToRead, Throw, Go, files
    <2>2. \A n \in Names : n # NameAt(r) => tmp'[n] = tmp[n]
      BY <1>7, <1>t DEF MakeKey, RegisterAtGitHub, Save, FailToConfigure, ReadKey, ReadRest,
                        FailToRead, DirOf, files
    <2>3. \E to \in Inside : step' = [step EXCEPT ![r] = to]
      BY <2>1 DEF Inside
    <2> QED
      BY <1>2, <2>1, <2>2, <2>3
  <1>8. ASSUME NEW r \in Requests, CleanUp(r) \/ GiveUp(r) PROVE KeptBySomebody'
    <2>1. /\ UNCHANGED abandoned /\ tmp' = Deleted(r)
          /\ \A q \in Requests \ {r} : step'[q] = step[q] /\ at'[q] = at[q]
      BY <1>8, <1>t DEF CleanUp, GiveUp, Go
    <2> QED
      BY <1>3, <2>1
  <1>9. CASE Restart
    BY <1>9 DEF Restart, KeptBySomebody
  <1> QED
    BY <1>1, <1>4, <1>5, <1>6, <1>7, <1>8, <1>9
    DEF RegistrationNext, Next, allVars, vars, serviceVars

(***************************************************************************)
(* However requests meet in a directory and whatever of them fails, when   *)
(* all are over there is none left but of one that could not prepare it    *)
(* or of a service that died.                                              *)
(***************************************************************************)
THEOREM NothingLeft == Spec => []CleanedUp
  <1>1. KeptBySomebody => CleanedUp
    BY DEF KeptBySomebody, CleanedUp, AtWork
  <1> QED
    BY <1>1, TypeInvInit, TypeInvNext, KeptInit, KeptNext, PTL DEF Spec

-----------------------------------------------------------------------------
(* What counts at GitHub. *)

\* A registration goes on counting, or being replaced by somebody else's, when
\* another client registers, or its own for another runner.
LEMMA CountsStill ==
  ASSUME GithubType, NEW repo, NEW name, <<repo, name>> \in Places,
         NEW mine, CountsUnlessReplaced(repo, name, mine),
         NEW place \in Places, NEW registration \in Registration(Requests \union Tools),
         github' = [github EXCEPT ![place] = registration],
         registration.by # mine.by \/ place # <<repo, name>>
  PROVE  CountsUnlessReplaced(repo, name, mine)'
  BY NoneApart DEF CountsUnlessReplaced, GithubType

LEMMA CountsAtOnce ==
  ASSUME GithubType, NEW repo, NEW name, <<repo, name>> \in Places,
         NEW registration, github' = [github EXCEPT ![<<repo, name>>] = registration]
  PROVE  CountsUnlessReplaced(repo, name, registration)'
  BY DEF CountsUnlessReplaced, GithubType

-----------------------------------------------------------------------------
(* The secrets of add-runner. *)

ToolCounts(t, i) == CountsUnlessReplaced(ToolRepo[t], Indexed[t][i], [by |-> t, at |-> i])

\* What an execution has collected is its own, counts, and is what it writes.
ToolInv(t) ==
  /\ \A i \in 1..Len(creds[t]) : creds[t][i].credentials = [by |-> t, at |-> i] /\ ToolCounts(t, i)
  /\ toolStep[t] = "collect" => ToolCounts(t, Tool!Index(t))
  /\ out[t] # None =>
       /\ Len(creds[t]) = Len(Indexed[t])
       /\ out[t] = [runnerSecrets |-> Tool!generateScaledActionRunner(t),
                    secrets |-> Tool!generateRunnerSecrets(t)]

LEMMA ToolRunners ==
  ASSUME ToolType, NEW t \in Tools
  PROVE  /\ Indexed[t] \in Seq(STRING) /\ Len(Indexed[t]) \in Nat
         /\ DOMAIN Indexed[t] = 1..Len(Indexed[t])
         /\ creds[t] \in Seq(Tool!RunnerCreds)
         /\ Len(creds[t]) \in 0..Len(Indexed[t])
         /\ \A i \in DOMAIN Indexed[t] : <<ToolRepo[t], Indexed[t][i]>> \in Places
         /\ toolStep[t] = "collect" => Tool!Index(t) \in DOMAIN Indexed[t]
  <1>1. Indexed[t] \in Seq(STRING)
    BY RegistrationAssumption
  <1>2. ToolOK(t) /\ creds[t] \in Seq(Tool!RunnerCreds)
    BY DEF ToolType
  <1> QED
    BY <1>1, <1>2, RegistrationAssumption DEF ToolOK, Tool!Index

LEMMA ToolInvInit == RegistrationInit => \A t \in Tools : ToolInv(t)
  BY DEF RegistrationInit, Tool!Init, ToolInv

\* A step that leaves the execution as it is and what counts of it.
LEMMA ToolInvFrame ==
  ASSUME TypeInv, NEW t \in Tools, ToolInv(t),
         toolStep'[t] = toolStep[t], creds'[t] = creds[t], out'[t] = out[t],
         \A i \in DOMAIN Indexed[t] : ToolCounts(t, i) => ToolCounts(t, i)'
  PROVE  ToolInv(t)'
  <1>1. /\ 1..Len(creds[t]) \subseteq DOMAIN Indexed[t]
        /\ toolStep[t] = "collect" => Tool!Index(t) \in DOMAIN Indexed[t]
    BY ToolRunners DEF TypeInv
  <1>2. Tool!Index(t)' = Tool!Index(t) /\ Tool!generateRunnerSecrets(t)' = Tool!generateRunnerSecrets(t)
    BY DEF Tool!Index, Tool!generateRunnerSecrets, Tool!SecretName
  <1>3. Tool!generateScaledActionRunner(t)' = Tool!generateScaledActionRunner(t)
    BY DEF Tool!generateScaledActionRunner, Tool!SecretRef
  <1> QED
    BY <1>1, <1>2, <1>3 DEF ToolInv

LEMMA ToolInvNext ==
  TypeInv /\ (\A t \in Tools : ToolInv(t)) /\ [RegistrationNext]_allVars => \A t \in Tools : ToolInv(t)'
  <1> SUFFICES ASSUME TypeInv, \A t \in Tools : ToolInv(t), [RegistrationNext]_allVars,
                      NEW t \in Tools
               PROVE  ToolInv(t)'
    OBVIOUS
  <1>g. GithubType
    BY DEF TypeInv
  <1>n. /\ Indexed[t] \in Seq(STRING) /\ Len(Indexed[t]) \in Nat
        /\ DOMAIN Indexed[t] = 1..Len(Indexed[t])
        /\ creds[t] \in Seq(Tool!RunnerCreds)
        /\ Len(creds[t]) \in 0..Len(Indexed[t])
        /\ \A i \in DOMAIN Indexed[t] : <<ToolRepo[t], Indexed[t][i]>> \in Places
        /\ toolStep[t] = "collect" => Tool!Index(t) \in DOMAIN Indexed[t]
    BY ToolRunners DEF TypeInv
  <1>t. /\ toolStep \in [Tools -> {"config", "token", "run", "collect", "done", "failed"}]
        /\ creds \in [Tools -> Seq(Tool!RunnerCreds)]
        /\ out \in [Tools -> Tool!Output \union {None}]
        /\ out[t] # None <=> toolStep[t] = "done"
    BY DEF TypeInv, ToolType, ToolOK
  <1>c. UNCHANGED github => \A i : ToolCounts(t, i) <=> ToolCounts(t, i)'
    BY DEF ToolCounts, CountsUnlessReplaced
  <1>1. ASSUME UNCHANGED <<toolStep, creds, out>> PROVE ToolInv(t)'
    <2>1. ASSUME NEW i \in DOMAIN Indexed[t], ToolCounts(t, i) PROVE ToolCounts(t, i)'
      <3>1. CASE UNCHANGED github
        BY <2>1, <3>1 DEF ToolCounts, CountsUnlessReplaced
      <3>2. ASSUME NEW r \in Requests, RegisterAtGitHub(r) PROVE ToolCounts(t, i)'
        <4>1. /\ OwnRegistration(r) \in Registration(Requests \union Tools)
              /\ <<RepoOf[r], NameAt(r)>> \in Places
          BY AtItsRunner, NoneApart DEF TypeInv
        <4>2. OwnRegistration(r).by # t
          BY RegistrationAssumption DEF OwnRegistration
        <4> QED
          BY <1>g, <1>n, <2>1, <3>2, <4>1, <4>2, CountsStill DEF RegisterAtGitHub, ToolCounts
      <3>3. github' = github \/ \E r \in Requests : RegisterAtGitHub(r)
        <4>1. CASE Next
          BY <4>1 DEF Next, Setup, FailToSetup, Prepare, FailToPrepare, MakeKey, Save,
                      FailToConfigure, ReadKey, ReadRest, FailToRead, CleanUp, GiveUp, Restart
        <4>2. CASE Tool!Next
          <5>1. PICK u \in Tools : Tool!addRunner(u) \/ UNCHANGED github
            BY <4>2 DEF Tool!Next, Tool!GetConfig, Tool!getRegToken, Tool!getRunnerCreds,
                        Tool!Fail, Tool!generateResources
          <5>2. ~Tool!addRunner(u)
            BY <1>1 DEF Tool!addRunner, Tool!Go, TypeInv, ToolType
          <5> QED
            BY <5>1, <5>2
        <4> QED
          BY <4>1, <4>2 DEF RegistrationNext, allVars, vars
      <3> QED
        BY <3>1, <3>2, <3>3
    <2> QED
      BY <1>1, <2>1, ToolInvFrame
  <1>2. ASSUME NEW u \in Tools, u # t,
               \/ Tool!GetConfig(u) \/ Tool!getRegToken(u)
               \/ Tool!addRunner(u) \/ Tool!getRunnerCreds(u)
               \/ Tool!Fail(u) \/ Tool!generateResources(u)
        PROVE  ToolInv(t)'
    <2>1. toolStep'[t] = toolStep[t] /\ creds'[t] = creds[t] /\ out'[t] = out[t]
      BY <1>2, <1>t DEF Tool!GetConfig, Tool!getRegToken, Tool!addRunner, Tool!getRunnerCreds,
                        Tool!Fail, Tool!generateResources, Tool!Go
    <2>2. ASSUME NEW i \in DOMAIN Indexed[t], ToolCounts(t, i) PROVE ToolCounts(t, i)'
      <3>1. CASE UNCHANGED github
        BY <2>2, <3>1 DEF ToolCounts, CountsUnlessReplaced
      <3>2. CASE Tool!addRunner(u)
        <4>1. /\ Tool!OwnRegistration(u) \in Registration(Requests \union Tools)
              /\ Tool!OwnRegistration(u).by # t
              /\ <<ToolRepo[u], Tool!RunnerName(u, Tool!Index(u))>> \in Places
          <5>1. Tool!Index(u) \in DOMAIN Indexed[u] /\ Tool!Index(u) \in Nat
            BY <3>2, ToolRunners DEF Tool!addRunner, TypeInv, Tool!Index
          <5>2. <<ToolRepo[u], Indexed[u][Tool!Index(u)]>> \in Places
            BY <5>1, ToolRunners DEF TypeInv
          <5> QED
            BY <1>2, <5>1, <5>2 DEF Tool!OwnRegistration, Registration, Tool!RunnerName
        <4> QED
          BY <1>g, <1>n, <2>2, <3>2, <4>1, CountsStill DEF Tool!addRunner, ToolCounts
      <3> QED
        BY <1>2, <3>1, <3>2 DEF Tool!GetConfig, Tool!getRegToken, Tool!getRunnerCreds,
                                Tool!Fail, Tool!generateResources
    <2> QED
      BY <2>1, <2>2, ToolInvFrame
  <1>3. CASE Tool!GetConfig(t) \/ Tool!getRegToken(t)
    <2>1. /\ UNCHANGED <<github, creds, out>> /\ toolStep'[t] # "collect" /\ out[t] = None
      BY <1>3, <1>t DEF Tool!GetConfig, Tool!getRegToken, Tool!Go
    <2> QED
      BY <1>c, <2>1 DEF ToolInv
  <1>4. CASE Tool!addRunner(t)
    <2>1. /\ UNCHANGED <<creds, out>> /\ out[t] = None
          /\ Tool!Index(t) \in DOMAIN Indexed[t] /\ Tool!Index(t) = Len(creds[t]) + 1
          /\ github' = [github EXCEPT ![<<ToolRepo[t], Indexed[t][Tool!Index(t)]>>] =
                          [by |-> t, at |-> Tool!Index(t)]]
      BY <1>4, <1>t DEF Tool!addRunner, Tool!Index, Tool!RunnerName, Tool!OwnRegistration
    <2>2. [by |-> t, at |-> Tool!Index(t)] \in Registration(Requests \union Tools)
      BY <1>n, <2>1 DEF Registration
    <2>3. ASSUME NEW i \in 1..Len(creds[t]) PROVE ToolCounts(t, i)'
      <3>1. i \in DOMAIN Indexed[t] /\ i # Tool!Index(t)
        BY <1>n, <2>1
      <3>2. Indexed[t][i] # Indexed[t][Tool!Index(t)]
        BY <2>1, <3>1, RegistrationAssumption
      <3>3. <<ToolRepo[t], Indexed[t][Tool!Index(t)]>> # <<ToolRepo[t], Indexed[t][i]>>
        BY <3>2
      <3>4. ToolCounts(t, i)
        BY DEF ToolInv
      <3> QED
        BY <1>g, <1>n, <2>1, <2>2, <3>1, <3>3, <3>4, CountsStill DEF ToolCounts
    <2>4. ToolCounts(t, Tool!Index(t))'
      <3>1. Tool!Index(t)' = Tool!Index(t)
        BY <2>1 DEF Tool!Index
      <3>2. CountsUnlessReplaced(ToolRepo[t], Indexed[t][Tool!Index(t)],
                                 [by |-> t, at |-> Tool!Index(t)])'
        BY <1>g, <1>n, <2>1, <3>1, CountsAtOnce
      <3> QED
        BY <3>2 DEF ToolCounts
    <2> QED
      BY <2>1, <2>3, <2>4 DEF ToolInv
  <1>5. CASE Tool!getRunnerCreds(t)
    <2>1. PICK pem \in Tool!Pems :
            creds' = [creds EXCEPT ![t] =
              Append(@, [credentials |-> [by |-> t, at |-> Len(creds[t]) + 1], pem |-> pem])]
      BY <1>5 DEF Tool!getRunnerCreds, Tool!OwnRegistration, Tool!Index
    <2> DEFINE c == [credentials |-> [by |-> t, at |-> Len(creds[t]) + 1], pem |-> pem]
    <2>2. c \in Tool!RunnerCreds
      BY <1>n DEF Tool!RunnerCreds
    <2>3. /\ Len(creds'[t]) = Len(creds[t]) + 1
          /\ \A i \in 1..Len(creds[t]) : creds'[t][i] = creds[t][i]
          /\ creds'[t][Len(creds[t]) + 1] = c
      BY <1>n, <1>t, <2>1, <2>2, AppendProperties
    <2>4. UNCHANGED <<github, out>> /\ out[t] = None /\ toolStep'[t] # "collect" /\ toolStep[t] = "collect"
      BY <1>5, <1>t DEF Tool!getRunnerCreds, Tool!Go
    <2>5. ToolCounts(t, Len(creds[t]) + 1)
      BY <2>4 DEF ToolInv, Tool!Index
    <2>6. ASSUME NEW i \in 1..Len(creds'[t])
          PROVE  creds'[t][i].credentials = [by |-> t, at |-> i] /\ ToolCounts(t, i)
      <3>1. i \in 1..Len(creds[t]) \/ i = Len(creds[t]) + 1
        BY <1>n, <2>3
      <3>2. CASE i \in 1..Len(creds[t])
        BY <2>3, <3>2 DEF ToolInv
      <3>3. CASE i = Len(creds[t]) + 1
        BY <2>3, <2>5, <3>3
      <3> QED
        BY <3>1, <3>2, <3>3
    <2> QED
      BY <1>c, <2>4, <2>6 DEF ToolInv
  <1>6. CASE Tool!Fail(t)
    <2>1. creds'[t] = <<>> /\ out'[t] = None /\ toolStep'[t] = "failed"
      BY <1>6, <1>t DEF Tool!Fail, Tool!Go
    <2> QED
      BY <2>1 DEF ToolInv
  <1>7. CASE Tool!generateResources(t)
    <2>1. /\ UNCHANGED <<github, creds>> /\ toolStep'[t] = "done"
          /\ Tool!Index(t) \notin DOMAIN Indexed[t]
          /\ out'[t] = [runnerSecrets |-> Tool!generateScaledActionRunner(t),
                        secrets |-> Tool!generateRunnerSecrets(t)]
      BY <1>7, <1>t DEF Tool!generateResources, Tool!Go
    <2>2. Len(creds[t]) = Len(Indexed[t])
      BY <1>n, <2>1 DEF Tool!Index
    <2>3. Tool!generateRunnerSecrets(t)' = Tool!generateRunnerSecrets(t)
      BY <2>1 DEF Tool!generateRunnerSecrets, Tool!SecretName
    <2>4. Tool!generateScaledActionRunner(t)' = Tool!generateScaledActionRunner(t)
      BY DEF Tool!generateScaledActionRunner, Tool!SecretRef
    <2> QED
      BY <1>c, <2>1, <2>2, <2>3, <2>4 DEF ToolInv
  <1>8. CASE Tool!Next
    BY <1>2, <1>3, <1>4, <1>5, <1>6, <1>7, <1>8 DEF Tool!Next
  <1> QED
    BY <1>1, <1>8 DEF RegistrationNext, allVars

(***************************************************************************)
(* For any runner names that differ: the secret that a ScaledActionRunner  *)
(* refers to for a pod is there and holds that very runner's registration, *)
(* whoever else registers runners at the same time.                        *)
(***************************************************************************)
THEOREM SecretsMatch == Spec => []SecretsMatchPods
  <1>1. TypeInv /\ (\A t \in Tools : ToolInv(t)) => SecretsMatchPods
    <2> SUFFICES ASSUME TypeInv, NEW t \in Tools, ToolInv(t), out[t] # None
                 PROVE  /\ DOMAIN out[t].runnerSecrets = DOMAIN Indexed[t]
                        /\ \A i \in DOMAIN Indexed[t] :
                             /\ \E s \in out[t].secrets :
                                  /\ s.name = out[t].runnerSecrets[i]
                                  /\ s.data.credentials = [by |-> t, at |-> i]
                             /\ ToolCounts(t, i)
      BY DEF SecretsMatchPods, ToolCounts
    <2>1. /\ Len(creds[t]) = Len(Indexed[t]) /\ DOMAIN Indexed[t] = 1..Len(Indexed[t])
          /\ DOMAIN creds[t] = 1..Len(creds[t])
      BY ToolRunners DEF TypeInv, ToolInv
    <2>2. /\ out[t].runnerSecrets = [i \in 1..Len(Indexed[t]) |-> Indexed[t][i]]
          /\ out[t].secrets = {[name |-> Indexed[t][i], data |-> creds[t][i]] : i \in DOMAIN creds[t]}
      BY DEF ToolInv, Tool!generateScaledActionRunner, Tool!generateRunnerSecrets,
             Tool!SecretRef, Tool!SecretName
    <2>3. ASSUME NEW i \in DOMAIN Indexed[t]
          PROVE  /\ [name |-> Indexed[t][i], data |-> creds[t][i]] \in out[t].secrets
                 /\ out[t].runnerSecrets[i] = Indexed[t][i]
                 /\ creds[t][i].credentials = [by |-> t, at |-> i]
                 /\ ToolCounts(t, i)
      BY <2>1, <2>2 DEF ToolInv
    <2> QED
      BY <2>1, <2>2, <2>3
  <1> DEFINE Tools_ == \A t \in Tools : ToolInv(t)
  <1>2. TypeInv /\ Tools_ /\ [RegistrationNext]_allVars => Tools_'
    BY ToolInvNext
  <1>3. RegistrationInit => Tools_
    BY ToolInvInit
  <1>4. TypeInv /\ Tools_ => SecretsMatchPods
    BY <1>1
  <1> HIDE DEF Tools_
  <1> QED
    BY <1>2, <1>3, <1>4, TypeInvInit, TypeInvNext, PTL DEF Spec

-----------------------------------------------------------------------------
(* The credentials of a request. *)

Own(r, i) == [by |-> r, at |-> i]
Whole(o) == [pem |-> o, credentials |-> o, params |-> o]
Counts(r, i) == CountsUnlessReplaced(RepoOf[r], RunnerNames[r][i], Own(r, i))

\* Two requests that are at the same name are known to have met.
Met ==
  \A r \in Requests : \A q \in Requests \ {r} :
    step[r] \in Inside /\ step[q] \in Inside /\ NameAt(q) = NameAt(r) => r \in disturbed

\* A request that met nobody finds in its directory what it put there, and has
\* in hand what it found; of the runners before, what it has counts unless it
\* has registered one under the same name, which it will not survive.
RequestInv(r) ==
  /\ step[r] \in {"register", "save", "read key", "read rest"} =>
       tmp[NameAt(r)] # None /\ tmp[NameAt(r)].key = Own(r, at[r])
  /\ step[r] \in {"read key", "read rest"} => tmp[NameAt(r)].credentials = Own(r, at[r])
  /\ step[r] \in {"save", "read key", "read rest"} => Counts(r, at[r])
  /\ step[r] = "read rest" => held[r].pem = Own(r, at[r])
  /\ step[r] = "clean" /\ ~broken[r] => held[r] = Whole(Own(r, at[r])) /\ Counts(r, at[r])
  /\ step[r] \in AtWork =>
       \A i \in 1..(at[r] - 1) :
         /\ answer[r][i] = Whole(Own(r, i))
         /\ Counts(r, i) \/ RunnerNames[r][i] = NameAt(r)
  /\ step[r] = "answered" =>
       \A i \in DOMAIN RunnerNames[r] : answer[r][i] = Whole(Own(r, i)) /\ Counts(r, i)

CredentialsInv == Met /\ \A r \in Requests \ (DryRun \union disturbed) : RequestInv(r)

LEMMA CredentialsInit == RegistrationInit => CredentialsInv
  BY DEF RegistrationInit, Init, CredentialsInv, Met, RequestInv, Inside, AtWork

\* A request comes to a name only through Prepare, where it meets who is there.
LEMMA MetNext == TypeInv /\ Met /\ [RegistrationNext]_allVars => Met' /\ disturbed \subseteq disturbed'
  <1> SUFFICES ASSUME TypeInv, Met, [RegistrationNext]_allVars
               PROVE  Met' /\ disturbed \subseteq disturbed'
    OBVIOUS
  <1>t. step \in [Requests -> Steps] /\ at \in [Requests -> Nat]
    BY DEF TypeInv, ServiceType
  <1>1. ASSUME disturbed \subseteq disturbed',
               \A r \in Requests : step'[r] \in Inside => step[r] \in Inside /\ NameAt(r)' = NameAt(r)
        PROVE  Met' /\ disturbed \subseteq disturbed'
    BY <1>1 DEF Met
  <1>2. ASSUME NEW r \in Requests, Prepare(r) PROVE Met' /\ disturbed \subseteq disturbed'
    <2>1. /\ disturbed' = disturbed \union (IF Company(r) = {} THEN {} ELSE Company(r) \union {r})
          /\ \A q \in Requests : NameAt(q)' = NameAt(q)
          /\ \A q \in Requests \ {r} : step'[q] = step[q]
      BY <1>2, <1>t DEF Prepare, Meet, NameAt, Go
    <2>2. Company(r) = {q \in Requests \ {r} : step[q] \in Inside /\ NameAt(q) = NameAt(r)}
      BY DEF Company
    <2> QED
      BY <2>1, <2>2 DEF Met
  <1>3. ASSUME NEW r \in Requests, FailToPrepare(r) PROVE Met' /\ disturbed \subseteq disturbed'
    <2>1. /\ disturbed \subseteq disturbed' /\ UNCHANGED at
          /\ step' = [step EXCEPT ![r] = "failed"]
      BY <1>3 DEF FailToPrepare, Meet, Go
    <2> QED
      BY <1>1, <1>t, <2>1 DEF NameAt, Inside
  <1>4. ASSUME NEW r \in Requests, Setup(r) \/ FailToSetup(r) PROVE Met' /\ disturbed \subseteq disturbed'
    <2>1. /\ UNCHANGED <<disturbed, at>> /\ step'[r] \notin Inside
          /\ \A q \in Requests \ {r} : step'[q] = step[q]
      BY <1>4, <1>t DEF Setup, FailToSetup, Go, Inside
    <2> QED
      BY <1>1, <2>1 DEF NameAt
  <1>5. ASSUME NEW r \in Requests,
               \/ MakeKey(r) \/ RegisterAtGitHub(r) \/ Save(r) \/ FailToConfigure(r)
               \/ ReadKey(r) \/ ReadRest(r) \/ FailToRead(r)
        PROVE  Met' /\ disturbed \subseteq disturbed'
    <2>1. /\ UNCHANGED <<disturbed, at>> /\ step[r] \in Inside
          /\ \A q \in Requests \ {r} : step'[q] = step[q]
      BY <1>5, <1>t DEF MakeKey, RegisterAtGitHub, Save, FailToConfigure, ReadKey, ReadRest,
                        FailToRead, Throw, Go, Inside
    <2> QED
      BY <1>1, <2>1 DEF NameAt
  <1>6. ASSUME NEW r \in Requests, CleanUp(r) \/ GiveUp(r) PROVE Met' /\ disturbed \subseteq disturbed'
    <2>1. /\ UNCHANGED disturbed /\ step'[r] \notin Inside
          /\ \A q \in Requests \ {r} : step'[q] = step[q] /\ at'[q] = at[q]
      BY <1>6, <1>t DEF CleanUp, GiveUp, Go, Inside
    <2> QED
      BY <1>1, <2>1 DEF NameAt
  <1>7. CASE Restart
    <2>1. UNCHANGED disturbed /\ \A r \in Requests : step'[r] \notin Inside
      BY <1>7 DEF Restart, AtWork, Inside
    <2> QED
      BY <1>1, <2>1
  <1>8. CASE UNCHANGED serviceVars
    BY <1>1, <1>8 DEF serviceVars, NameAt
  <1> QED
    BY <1>2, <1>3, <1>4, <1>5, <1>6, <1>7, <1>8 DEF RegistrationNext, Next, allVars, vars, serviceVars

\* What leaves a request, its directory and what counts of it as they are.
LEMMA RequestFrame ==
  ASSUME TypeInv, NEW r \in Requests, RequestInv(r),
         step'[r] = step[r], at'[r] = at[r], broken'[r] = broken[r],
         held'[r] = held[r], answer'[r] = answer[r],
         step[r] \in Inside => tmp'[NameAt(r)] = tmp[NameAt(r)],
         \A i \in DOMAIN RunnerNames[r] : Counts(r, i) => Counts(r, i)'
  PROVE  RequestInv(r)'
  <1>1. /\ at[r] \in DOMAIN RunnerNames[r]
        /\ \A i \in 1..(at[r] - 1) : i \in DOMAIN RunnerNames[r]
    <2>1. RunnerNames[r] \in Seq(STRING) /\ at[r] \in 1..Len(RunnerNames[r])
      BY AtItsRunner DEF TypeInv
    <2> QED
      BY <2>1
  <1>2. NameAt(r)' = NameAt(r)
    BY DEF NameAt
  <1>4. Counts(r, at[r]) => Counts(r, at[r])'
    <2>1. \A i \in DOMAIN RunnerNames[r] : i = at[r] => (Counts(r, i) => Counts(r, at[r])')
      BY DEF Counts
    <2> QED
      BY <1>1, <2>1
  <1> QED
    BY <1>1, <1>2, <1>4 DEF RequestInv, Inside

\* Without a registration at GitHub what counts is what counted.
LEMMA CountsSame == UNCHANGED github => \A r, i : Counts(r, i) <=> Counts(r, i)'
  BY DEF Counts, CountsUnlessReplaced

\* The directory of a request that is at work in it.
LEMMA OwnSetup ==
  ASSUME TypeInv, NEW r \in Requests \ DryRun, RequestInv(r),
         \/ Setup(r) \/ FailToSetup(r) \/ Prepare(r) \/ FailToPrepare(r)
         \/ FailToConfigure(r) \/ FailToRead(r) \/ GiveUp(r)
  PROVE  RequestInv(r)'
  <1>t. /\ step \in [Requests -> Steps] /\ at \in [Requests -> Nat]
        /\ broken \in [Requests -> BOOLEAN] /\ RequestOK(r)
    BY DEF TypeInv, ServiceType
  <1>1. UNCHANGED <<github, at>>
    BY DEF Setup, FailToSetup, Prepare, FailToPrepare, FailToConfigure, FailToRead, GiveUp
  <1>2. \/ step'[r] \in {"prepare", "key"} /\ answer' = answer
        \/ step'[r] = "clean" /\ broken'[r] /\ answer' = answer
        \/ step'[r] = "failed"
    BY <1>t DEF Setup, FailToSetup, Prepare, FailToPrepare, FailToConfigure, FailToRead, GiveUp,
                Throw, Go
  <1>3. NameAt(r)' = NameAt(r)
    BY <1>1 DEF NameAt
  <1>4. step[r] \in AtWork \/ at[r] = 1 \/ step'[r] = "failed"
    BY <1>t DEF Setup, FailToSetup, Prepare, FailToPrepare, FailToConfigure, FailToRead, GiveUp,
                AtWork, Inside, RequestOK
  <1>5. step'[r] # "failed" =>
          \A i \in 1..(at[r] - 1) :
            /\ answer'[r][i] = Whole(Own(r, i))
            /\ Counts(r, i)' \/ RunnerNames[r][i] = NameAt(r)
    <2>1. CASE step[r] \in AtWork
      BY <1>1, <1>2, <2>1, CountsSame DEF RequestInv
    <2>2. CASE at[r] = 1
      <3>1. 1..(at[r] - 1) = {}
        BY <2>2
      <3> QED
        BY <3>1
    <2> QED
      BY <1>4, <2>1, <2>2
  <1>6. step'[r] \notin {"register", "save", "read key", "read rest", "answered"}
    BY <1>2
  <1>7. step'[r] = "clean" => broken'[r]
    BY <1>2
  <1>8. step'[r] \in AtWork => step'[r] # "failed"
    BY DEF AtWork, Inside
  <1> QED
    BY <1>1, <1>3, <1>5, <1>6, <1>7, <1>8 DEF RequestInv

\* What it puts there it finds there.
LEMMA OwnConfigure ==
  ASSUME TypeInv, NEW r \in Requests, RequestInv(r),
         MakeKey(r) \/ RegisterAtGitHub(r) \/ Save(r)
  PROVE  RequestInv(r)'
  <1>t. /\ step \in [Requests -> Steps] /\ at \in [Requests -> Nat]
        /\ tmp \in [Names -> Directory \union {None}] /\ GithubType
    BY DEF TypeInv, ServiceType
  <1>n. /\ at[r] \in 1..Len(RunnerNames[r]) /\ RunnerNames[r] \in Seq(STRING)
        /\ NameAt(r) \in Names /\ DirOf(r) = NameAt(r)
        /\ <<RepoOf[r], NameAt(r)>> \in Places
        /\ OwnRegistration(r) = Own(r, at[r])
        /\ OwnRegistration(r) \in Registration(Requests \union Tools)
    BY AtItsRunner, NoneApart DEF TypeInv, DirOf, OwnRegistration, Own
  <1>1. UNCHANGED <<at, held, answer, broken>> /\ NameAt(r)' = NameAt(r) /\ step[r] \in AtWork
    BY DEF MakeKey, RegisterAtGitHub, Save, NameAt, AtWork, Inside
  <1>2. CASE MakeKey(r)
    <2>1. step'[r] = "register" /\ UNCHANGED github
      BY <1>t, <1>2 DEF MakeKey, Go
    <2>2. tmp'[NameAt(r)] = [tmp[NameAt(r)] EXCEPT !.key = Own(r, at[r])] /\ tmp[NameAt(r)] \in Directory
      BY <1>t, <1>n, <1>2 DEF MakeKey
    <2>3. tmp'[NameAt(r)] \in Directory /\ tmp'[NameAt(r)].key = Own(r, at[r])
      <3>1. Own(r, at[r]) \in Registration(Requests)
        BY AtItsRunner, <1>n DEF TypeInv
      <3> QED
        BY <2>2, <3>1 DEF Directory
    <2>4. tmp'[NameAt(r)] # None
      BY <2>3, NoneApart
    <2>5. \A i : Counts(r, i) <=> Counts(r, i)'
      BY <2>1, CountsSame
    <2> QED
      BY <1>1, <2>1, <2>3, <2>4, <2>5 DEF RequestInv
  <1>3. CASE RegisterAtGitHub(r)
    <2>1. /\ step'[r] = "save" /\ step[r] = "register" /\ UNCHANGED tmp
          /\ github' = [github EXCEPT ![<<RepoOf[r], NameAt(r)>>] = Own(r, at[r])]
      BY <1>t, <1>n, <1>3 DEF RegisterAtGitHub, Go, files
    <2>2. Counts(r, at[r])'
      BY <1>t, <1>n, <1>1, <2>1, CountsAtOnce DEF Counts, NameAt
    <2>3. ASSUME NEW i \in 1..(at[r] - 1), Counts(r, i), RunnerNames[r][i] # NameAt(r)
          PROVE  Counts(r, i)'
      <3>1. i \in DOMAIN RunnerNames[r]
        BY <1>n
      <3>2. <<RepoOf[r], RunnerNames[r][i]>> \in Places
        BY <3>1, ServiceAssumption
      <3>3. <<RepoOf[r], NameAt(r)>> # <<RepoOf[r], RunnerNames[r][i]>>
        BY <2>3
      <3> QED
        BY <1>t, <1>n, <2>1, <2>3, <3>2, <3>3, CountsStill DEF Counts
    <2>4. \A i \in 1..(at[r] - 1) : Counts(r, i)' \/ RunnerNames[r][i] = NameAt(r)
      BY <1>1, <2>3 DEF RequestInv
    <2> QED
      BY <1>1, <2>1, <2>2, <2>4 DEF RequestInv
  <1>4. CASE Save(r)
    <2>1. step'[r] = "read key" /\ step[r] = "save" /\ UNCHANGED github
      BY <1>t, <1>4 DEF Save, Go
    <2>2. /\ tmp'[NameAt(r)] = [tmp[NameAt(r)] EXCEPT !.credentials = Own(r, at[r])]
          /\ tmp[NameAt(r)] \in Directory
      BY <1>t, <1>n, <1>4 DEF Save
    <2>3. /\ tmp'[NameAt(r)] \in Directory /\ tmp'[NameAt(r)].credentials = Own(r, at[r])
          /\ tmp'[NameAt(r)].key = tmp[NameAt(r)].key
      <3>1. Own(r, at[r]) \in Registration(Requests)
        BY AtItsRunner, <1>n DEF TypeInv
      <3> QED
        BY <2>2, <3>1 DEF Directory
    <2>4. tmp'[NameAt(r)] # None
      BY <2>3, NoneApart
    <2>5. \A i : Counts(r, i) <=> Counts(r, i)'
      BY <2>1, CountsSame
    <2>6. tmp[NameAt(r)].key = Own(r, at[r]) /\ Counts(r, at[r])
      BY <2>1 DEF RequestInv
    <2>7. Counts(r, at[r])'
      BY <2>1, <2>6, <1>1 DEF Counts, CountsUnlessReplaced
    <2> QED
      BY <1>1, <2>1, <2>3, <2>4, <2>5, <2>6, <2>7 DEF RequestInv
  <1> QED
    BY <1>2, <1>3, <1>4

LEMMA OwnRead ==
  ASSUME TypeInv, NEW r \in Requests, RequestInv(r), ReadKey(r) \/ ReadRest(r)
  PROVE  RequestInv(r)'
  <1>t. step \in [Requests -> Steps] /\ held \in [Requests -> Held]
    BY DEF TypeInv, ServiceType
  <1>1. /\ UNCHANGED <<github, tmp, at, answer, broken>> /\ NameAt(r)' = NameAt(r)
        /\ step[r] \in AtWork /\ DirOf(r) = NameAt(r)
    BY DEF ReadKey, ReadRest, NameAt, AtWork, Inside, files, DirOf
  <1>2. (\A i : Counts(r, i) <=> Counts(r, i)') /\ (Counts(r, at[r]) => Counts(r, at[r])')
    BY <1>1 DEF Counts, CountsUnlessReplaced
  <1>3. CASE ReadKey(r)
    <2>1. /\ step'[r] = "read rest" /\ step[r] = "read key"
          /\ held'[r] = [pem |-> tmp[NameAt(r)].key]
      BY <1>t, <1>1, <1>3 DEF ReadKey, Go
    <2>2. /\ tmp[NameAt(r)] # None /\ tmp[NameAt(r)].key = Own(r, at[r])
          /\ tmp[NameAt(r)].credentials = Own(r, at[r])
          /\ Counts(r, at[r])
          /\ \A i \in 1..(at[r] - 1) :
               /\ answer[r][i] = Whole(Own(r, i))
               /\ Counts(r, i) \/ RunnerNames[r][i] = NameAt(r)
      BY <1>1, <2>1 DEF RequestInv
    <2>3. held'[r].pem = Own(r, at'[r])
      <3>1. held'[r].pem = tmp[NameAt(r)].key
        <4> DEFINE k == tmp[NameAt(r)].key
        <4>1. held'[r] = [pem |-> k]
          BY <2>1
        <4> HIDE DEF k
        <4>2. held'[r].pem = k
          BY <4>1
        <4> QED
          BY <4>2 DEF k
      <3>2. tmp[NameAt(r)].key = Own(r, at[r]) /\ at' = at
        BY <1>1, <2>2
      <3> QED
        BY <3>1, <3>2
    <2>4. /\ tmp'[NameAt(r)'] # None /\ tmp'[NameAt(r)'].key = Own(r, at'[r])
          /\ tmp'[NameAt(r)'].credentials = Own(r, at'[r])
          /\ Counts(r, at[r])'
      BY <1>1, <1>2, <2>2
    <2>5. \A i \in 1..(at'[r] - 1) :
            /\ answer'[r][i] = Whole(Own(r, i))
            /\ Counts(r, i)' \/ RunnerNames[r][i] = NameAt(r)'
      BY <1>1, <1>2, <2>2
    <2> QED
      BY <2>1, <2>3, <2>4, <2>5 DEF RequestInv
  <1>4. CASE ReadRest(r)
    <2>1. /\ step'[r] = "clean" /\ step[r] = "read rest"
          /\ held'[r] = [pem |-> held[r].pem, credentials |-> tmp[NameAt(r)].credentials,
                         params |-> tmp[NameAt(r)].key]
      BY <1>t, <1>1, <1>4 DEF ReadRest, Go
    <2>2. held'[r] = Whole(Own(r, at[r]))
      BY <2>1 DEF RequestInv, Whole
    <2> QED
      BY <1>1, <1>2, <2>1, <2>2 DEF RequestInv
  <1> QED
    BY <1>3, <1>4

\* A runner is done with: none of those before has its name.
LEMMA OwnCleanUp ==
  ASSUME TypeInv, NEW r \in Requests, RequestInv(r), CleanUp(r)
  PROVE  RequestInv(r)'
  <1>t. /\ step \in [Requests -> Steps] /\ at \in [Requests -> Nat]
        /\ answer \in [Requests -> Seq(Answer)] /\ RequestOK(r)
    BY DEF TypeInv, ServiceType
  <1>n. /\ at[r] \in 1..Len(RunnerNames[r]) /\ at[r] \in Nat
        /\ RunnerNames[r] \in Seq(STRING) /\ Len(RunnerNames[r]) \in Nat
    BY AtItsRunner DEF TypeInv
  <1>1. /\ step[r] = "clean" /\ ~broken[r] /\ UNCHANGED github
        /\ \A i \in 1..(at[r] - 1) : RunnerNames[r][i] # NameAt(r)
        /\ answer' = [answer EXCEPT ![r] = Append(answer[r], held[r])]
        /\ at' = [at EXCEPT ![r] = IF HasNext(r) THEN at[r] + 1 ELSE at[r]]
        /\ step' = [step EXCEPT ![r] = IF HasNext(r) THEN "prepare" ELSE "answered"]
    BY DEF CleanUp, Go
  <1>2. /\ held[r] = Whole(Own(r, at[r])) /\ held[r] \in Answer
        /\ Len(answer[r]) = at[r] - 1 /\ answer[r] \in Seq(Answer)
    BY <1>1, <1>t DEF RequestInv, RequestOK, AtWork, Inside
  <1>3. /\ \A i \in 1..(at[r] - 1) : answer'[r][i] = answer[r][i]
        /\ answer'[r][at[r]] = held[r]
    <2>1. answer'[r] = Append(answer[r], held[r])
      BY <1>t, <1>1
    <2>2. Len(answer[r]) + 1 = at[r]
      BY <1>n, <1>2
    <2> QED
      BY <1>2, <2>1, <2>2, AppendProperties
  <1>4. ASSUME NEW i \in 1..at[r] PROVE answer'[r][i] = Whole(Own(r, i)) /\ Counts(r, i)
    <2>1. CASE i \in 1..(at[r] - 1)
      <3>1. step[r] \in AtWork
        BY <1>1 DEF AtWork, Inside
      <3> QED
        BY <1>1, <1>3, <2>1, <3>1 DEF RequestInv
    <2>2. CASE i = at[r]
      BY <1>1, <1>2, <1>3, <2>2 DEF RequestInv
    <2> QED
      BY <1>n, <2>1, <2>2
  <1>5. \A i \in 1..at[r] : answer'[r][i] = Whole(Own(r, i)) /\ Counts(r, i)'
    BY <1>1, <1>4, CountsSame
  <1>6. \/ step'[r] = "prepare" /\ at'[r] - 1 = at[r]
        \/ step'[r] = "answered" /\ at[r] = Len(RunnerNames[r])
    <2>1. CASE HasNext(r)
      <3>1. step'[r] = "prepare" /\ at'[r] = at[r] + 1
        BY <1>t, <1>1, <2>1
      <3> QED
        BY <1>n, <3>1
    <2>2. CASE ~HasNext(r)
      <3>1. at[r] = Len(RunnerNames[r])
        BY <1>n, <2>2 DEF HasNext
      <3> QED
        BY <1>t, <1>1, <2>2, <3>1
    <2> QED
      BY <2>1, <2>2
  <1>7. CASE step'[r] = "prepare" /\ at'[r] - 1 = at[r]
    <2>1. step'[r] \notin Inside \union {"answered"}
      BY <1>7 DEF Inside
    <2> QED
      BY <1>5, <1>7, <2>1 DEF RequestInv, Inside
  <1>8. CASE step'[r] = "answered" /\ at[r] = Len(RunnerNames[r])
    <2>1. step'[r] \notin AtWork
      BY <1>8 DEF AtWork, Inside
    <2>2. \A i \in DOMAIN RunnerNames[r] : i \in 1..at[r]
      BY <1>n, <1>8
    <2>3. \A i \in DOMAIN RunnerNames[r] : answer'[r][i] = Whole(Own(r, i)) /\ Counts(r, i)'
      BY <1>5, <2>2
    <2>4. step'[r] \notin {"register", "save", "read key", "read rest", "clean"}
      BY <1>8
    <2> QED
      BY <2>1, <2>3, <2>4 DEF RequestInv
  <1> QED
    BY <1>6, <1>7, <1>8

LEMMA CredentialsNext == TypeInv /\ CredentialsInv /\ [RegistrationNext]_allVars => CredentialsInv'
  <1> SUFFICES ASSUME TypeInv, CredentialsInv, [RegistrationNext]_allVars,
                      NEW r \in Requests \ (DryRun \union disturbed')
               PROVE  RequestInv(r)'
    BY MetNext DEF CredentialsInv
  <1>m. Met /\ r \notin disturbed /\ RequestInv(r)
    BY MetNext DEF CredentialsInv
  <1>t. /\ step \in [Requests -> Steps] /\ at \in [Requests -> Nat]
        /\ tmp \in [Names -> Directory \union {None}] /\ GithubType
        /\ broken \in [Requests -> BOOLEAN] /\ held \in [Requests -> Held]
        /\ answer \in [Requests -> Seq(Answer)]
    BY DEF TypeInv, ServiceType
  <1>p. \A i \in DOMAIN RunnerNames[r] : <<RepoOf[r], RunnerNames[r][i]>> \in Places
    BY ServiceAssumption
  <1>n. NameAt(r) \in Names
    BY AtItsRunner DEF TypeInv
  \* What another client does.
  <1>1. ASSUME NEW place \in Places, NEW registration \in Registration(Requests \union Tools),
               github' = [github EXCEPT ![place] = registration], registration.by # r,
               NEW i \in DOMAIN RunnerNames[r], Counts(r, i)
        PROVE  Counts(r, i)'
    BY <1>1, <1>p, <1>t, CountsStill DEF Counts, Own
  <1>2. CASE Tool!Next /\ UNCHANGED serviceVars
    <2>1. PICK t \in Tools : Tool!addRunner(t) \/ UNCHANGED github
      BY <1>2 DEF Tool!Next, Tool!GetConfig, Tool!getRegToken, Tool!getRunnerCreds,
                  Tool!Fail, Tool!generateResources
    <2>2. CASE Tool!addRunner(t)
      <3>1. /\ Tool!OwnRegistration(t) \in Registration(Requests \union Tools)
            /\ Tool!OwnRegistration(t).by # r
            /\ <<ToolRepo[t], Tool!RunnerName(t, Tool!Index(t))>> \in Places
        <4>1. Tool!Index(t) \in DOMAIN Indexed[t] /\ Tool!Index(t) \in Nat
          BY <2>2, ToolRunners DEF Tool!addRunner, TypeInv, Tool!Index
        <4>2. <<ToolRepo[t], Indexed[t][Tool!Index(t)]>> \in Places
          BY <4>1, ToolRunners DEF TypeInv
        <4> QED
          BY <4>1, <4>2, RegistrationAssumption
          DEF Tool!OwnRegistration, Registration, Tool!RunnerName
      <3> QED
        BY <1>1, <1>2, <1>m, <2>2, <3>1, RequestFrame DEF Tool!addRunner, serviceVars, files
    <2>3. CASE UNCHANGED github
      BY <1>2, <1>m, <2>3, CountsSame, RequestFrame DEF serviceVars, files
    <2> QED
      BY <2>1, <2>2, <2>3
  \* What another request does, which may not be at the same name.
  <1>3. ASSUME NEW q \in Requests, q # r,
               \/ Setup(q) \/ FailToSetup(q)
               \/ Prepare(q) \/ FailToPrepare(q)
               \/ MakeKey(q) \/ RegisterAtGitHub(q) \/ Save(q) \/ FailToConfigure(q)
               \/ ReadKey(q) \/ ReadRest(q) \/ FailToRead(q)
               \/ CleanUp(q) \/ GiveUp(q)
        PROVE  RequestInv(r)'
    <2>1. /\ step'[r] = step[r] /\ at'[r] = at[r] /\ broken'[r] = broken[r]
          /\ held'[r] = held[r] /\ answer'[r] = answer[r]
      BY <1>3, <1>t
      DEF Setup, FailToSetup, Prepare, FailToPrepare, MakeKey, RegisterAtGitHub, Save,
          FailToConfigure, ReadKey, ReadRest, FailToRead, CleanUp, GiveUp, Throw, Go
    <2>2. ASSUME step[r] \in Inside, tmp'[NameAt(r)] # tmp[NameAt(r)] PROVE FALSE
      <3>1. NameAt(q) = NameAt(r)
        BY <1>3, <1>t, <1>n, <2>2
        DEF Setup, FailToSetup, Prepare, FailToPrepare, MakeKey, RegisterAtGitHub, Save,
            FailToConfigure, ReadKey, ReadRest, FailToRead, CleanUp, GiveUp, Deleted, DirOf, files
      <3>2. \/ step[q] \in Inside
            \/ Prepare(q) \/ FailToPrepare(q)
            \/ UNCHANGED tmp
        BY <1>3
        DEF Setup, FailToSetup, MakeKey, RegisterAtGitHub, Save, FailToConfigure, ReadKey,
            ReadRest, FailToRead, CleanUp, GiveUp, Inside, files
      <3>3. CASE step[q] \in Inside
        BY <1>3, <1>m, <2>2, <3>1, <3>3 DEF Met
      <3>4. CASE Prepare(q) \/ FailToPrepare(q)
        <4>1. r \in Company(q)
          BY <1>3, <2>2, <3>1 DEF Company
        <4> QED
          BY <3>4, <4>1 DEF Prepare, FailToPrepare, Meet
      <3> QED
        BY <2>2, <3>2, <3>3, <3>4
    <2>3. ASSUME NEW i \in DOMAIN RunnerNames[r], Counts(r, i) PROVE Counts(r, i)'
      <3>1. CASE RegisterAtGitHub(q)
        <4>1. /\ OwnRegistration(q) \in Registration(Requests \union Tools)
              /\ <<RepoOf[q], NameAt(q)>> \in Places /\ OwnRegistration(q).by # r
          BY <1>3, AtItsRunner, NoneApart DEF TypeInv, OwnRegistration
        <4> QED
          BY <1>1, <2>3, <3>1, <4>1 DEF RegisterAtGitHub
      <3>2. CASE UNCHANGED github
        BY <2>3, <3>2, CountsSame
      <3> QED
        BY <1>3, <3>1, <3>2
        DEF Setup, FailToSetup, Prepare, FailToPrepare, MakeKey, Save, FailToConfigure, ReadKey,
            ReadRest, FailToRead, CleanUp, GiveUp
    <2> QED
      BY <1>m, <2>1, <2>2, <2>3, RequestFrame
  <1>4. CASE Restart
    <2>1. UNCHANGED github
      BY <1>4 DEF Restart
    <2>2. \/ step'[r] \in {"new", "failed"}
          \/ step'[r] = "answered" /\ step[r] = "answered" /\ answer'[r] = answer[r]
      BY <1>4, <1>t DEF Restart, Steps, AtWork, Inside
    <2>3. step'[r] \notin AtWork /\ step'[r] \notin Inside
      BY <2>2 DEF AtWork, Inside
    <2>4. step'[r] \notin {"register", "save", "read key", "read rest", "clean"}
      BY <2>3 DEF Inside
    <2> QED
      BY <1>m, <2>1, <2>2, <2>3, <2>4, CountsSame DEF RequestInv
  <1>5. CASE UNCHANGED allVars
    <2>1. UNCHANGED <<github, tmp, step, at, broken, held, answer>>
      BY <1>5 DEF allVars, vars, serviceVars, files
    <2> QED
      BY <1>m, <2>1, CountsSame, RequestFrame
  <1>6. CASE Next
    BY <1>3, <1>4, <1>6, <1>m, OwnSetup, OwnConfigure, OwnRead, OwnCleanUp DEF Next
  <1> QED
    BY <1>2, <1>5, <1>6 DEF RegistrationNext

(***************************************************************************)
(* For any requests and names, and any number of both: a request that is   *)
(* answered and met no other in a directory has its own credentials, of    *)
(* one piece, for each of its runners, and they count at GitHub.           *)
(***************************************************************************)
THEOREM OwnCredentials == Spec => []CredentialsOwn
  <1>1. CredentialsInv => CredentialsOwn
    BY DEF CredentialsInv, RequestInv, CredentialsOwn, Counts, Own, Whole
  <1> QED
    BY <1>1, TypeInvInit, TypeInvNext, CredentialsInit, CredentialsNext, PTL DEF Spec

=============================================================================
