---------------------------- MODULE MetricServed ----------------------------
(***************************************************************************)
(* From the runs that are queued at GitHub to the metric KEDA is given:    *)
(* the runs are labelled by what is known of their workflow's file, those  *)
(* the runner's selector matches are counted (FilterBySelector), and the   *)
(* count is scaled as in ScalingCurve.                                     *)
(*                                                                         *)
(* What is known of the files is a record in the state store.  Every poll  *)
(* that finds it writes it back with a new time to live (GetWorkflowInfo), *)
(* and a file that could not be read when it was made is in it without     *)
(* labels (GetWorkflowData).                                               *)
(*                                                                         *)
(* A poll is one step; the cache of the queue is MetricQuery's subject.    *)
(***************************************************************************)
EXTENDS ScalingCurve, FiniteSets

CONSTANTS
  Workflows,      \* the workflows of the repository, by their id
  NameOf,         \* NameOf[w]: its name, as a label can hold it
  Repositories,   \* what the workflow files may be: a file for each workflow
  NoFile,         \* the file is gone, or not on the page that is listed
  Failures,       \* sets of workflows whose files cannot be downloaded at a time
  Selectors,      \* metricsSelectors: the labels a run must have
  MostQueued,     \* bound: MostQueued[w], the runs of a workflow
  NoInfo          \* the state store has no record

ASSUME WorkflowsAssumption ==
  /\ IsFiniteSet(Workflows)
  /\ MostQueued \in [Workflows -> Nat]

VARIABLES
  selector,   \* the selector KEDA's metric names
  files,      \* files[w]: the file of a workflow
  failing,    \* the workflows whose files cannot be downloaded now
  queue,      \* queue[w]: its runs that were queued at the last poll
  info        \* info[w]: the runner labels known of a listed workflow; or NoInfo

servedVars == <<vars, selector, files, failing, queue, info>>

Listed == {w \in Workflows : files[w] # NoFile}

(***************************************************************************)
(* A job asks for a runner by a list of labels or by a label alone.  A     *)
(* file with a job of the second kind does not unmarshal: the workflow is  *)
(* left without labels, as if the file could not be downloaded.            *)
(***************************************************************************)
processWorkflow(file) == IF file.scalar THEN {} ELSE file.runsOn

\* A slip a run must notice: the first file that fails fails them all.
GetWorkflowDataOrNone ==
  IF \E w \in Listed : w \in failing \/ files[w].scalar THEN [w \in {} |-> {}]
  ELSE [w \in Listed |-> processWorkflow(files[w])]

GetWorkflowData ==
  [w \in Listed |-> IF w \in failing THEN {} ELSE processWorkflow(files[w])]

\* The labels of a run, apart from those all runs of a repository share.
getLabels(w, known) ==
  {<<"wf_id", w>>} \union
  IF w \in DOMAIN known
  THEN {<<"wf_name", NameOf[w]>>, <<"wf_runs_on", known[w]>>}
         \union {<<"wf_runs_on_", label>> : label \in known[w]}
  ELSE {<<"wf_name", "unknown">>}

Matches(w, known) == selector \subseteq getLabels(w, known)

\* The runs that are queued, by workflow and number.
Queued(runs) == UNION {{w} \X (1..runs[w]) : w \in Workflows}

\* A slip a run must notice: every run counts.
FilteredByNothing(runs, known) == Cardinality(Queued(runs))

\* The length of the list FilterBySelector returns.
Filtered(runs, known) == Cardinality({run \in Queued(runs) : Matches(run[1], known)})

-----------------------------------------------------------------------------
ServedInit ==
  /\ Init
  /\ selector \in Selectors
  /\ files \in Repositories
  /\ failing \in Failures
  /\ queue = [w \in Workflows |-> 0]
  /\ info = NoInfo

(***************************************************************************)
(* KEDA polls the metric, of a queue that has changed by a run or not at   *)
(* all.  The runs are labelled by the record found, or by one made now.    *)
(***************************************************************************)
PollWith(known) ==
  /\ \/ UNCHANGED queue
     \/ \E w \in Workflows : \E n \in {queue[w] - 1, queue[w] + 1} \intersect (0..MostQueued[w]) :
          queue' = [queue EXCEPT ![w] = n]
  /\ info' = known
  /\ queueLength' = Filtered(queue', known)
  /\ Ask
  /\ UNCHANGED <<selector, files, failing>>

\* GetWorkflowInfo: what the store has, or else what GitHub has.
PollKnown == info # NoInfo /\ PollWith(info)
PollFetch == info = NoInfo /\ PollWith(GetWorkflowData)

\* A poll fails after it has written the record.
FailToPoll ==
  /\ info = NoInfo
  /\ info' = GetWorkflowData
  /\ UNCHANGED <<vars, selector, files, failing, queue>>

\* Somebody edits the workflow files.
EditFiles ==
  /\ files' \in Repositories \ {files}
  /\ UNCHANGED <<vars, selector, failing, queue, info>>

\* Downloads begin to fail, or succeed again.
Outage ==
  /\ failing' \in Failures \ {failing}
  /\ UNCHANGED <<vars, selector, files, queue, info>>

(***************************************************************************)
(* The record is gone: nobody polled a runner of the repository for five   *)
(* minutes, or the store was restarted or evicted it.  KEDA polls more     *)
(* often than that, so nothing says that this ever happens.                *)
(***************************************************************************)
Forget ==
  /\ info # NoInfo
  /\ info' = NoInfo
  /\ UNCHANGED <<vars, selector, files, failing, queue>>

Poll == PollKnown \/ PollFetch

ServedNext == Poll \/ FailToPoll \/ EditFiles \/ Outage \/ Forget

\* KEDA polls for as long as the runner is there.  A poll with a changed queue
\* can always be made, so this is the weak fairness of Poll; one that changes
\* nothing leaves the metric what it has to be.
ServedSpec == ServedInit /\ [][ServedNext]_servedVars /\ []<><<Poll>>_servedVars

-----------------------------------------------------------------------------
(* Properties. *)

(***************************************************************************)
(* The jobs that match are all that counts: one of them, by what is known  *)
(* of the files, has a runner at the poll that finds it queued, and when   *)
(* there is none the others start no runner, however many they are.        *)
(***************************************************************************)
MatchesAlone ==
  [][Poll =>
       IF \E w \in Workflows : queue'[w] > 0 /\ Matches(w, info')
       THEN metric' >= 1
       ELSE metric' = IF forced' THEN spec.maxRunners ELSE spec.minRunners]_servedVars

\* What the files say of the runners their jobs need, as far as it can be read.
AsWritten == [w \in Listed |-> processWorkflow(files[w])]

(***************************************************************************)
(* From when nobody edits the files, none fails to be read and what is     *)
(* known of them is nothing or what they say, a run that stays queued and  *)
(* that the selector matches by its file finds a runner: the metric        *)
(* becomes positive and stays so, whatever the other files are like and    *)
(* however often the record is lost.  Of a record made before, which every *)
(* poll renews, nothing can be said: it may never be made again.           *)
(***************************************************************************)
JobsFindRunners ==
  \A f \in Repositories :
    <>(/\ info \in {NoInfo, AsWritten}
       /\ [](files = f /\ failing = {} /\ \E w \in Workflows : queue[w] > 0 /\ Matches(w, AsWritten)))
      => <>[](metric >= 1)

=============================================================================
