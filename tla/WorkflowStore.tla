--------------------------- MODULE WorkflowStore ---------------------------
(***************************************************************************)
(* The workflows an API server replica knows (apiserver/pkg/config,        *)
(* workflows.go): a cache of the cluster's ScaledActionRunners, each with  *)
(* a token read from its secret, that two kinds of goroutine write without *)
(* knowing of each other.  One lists everything at every resync interval   *)
(* and replaces the cache; one for each entry of --namespaces, or a single *)
(* one when there is none, applies the events of a watch.  A copy between  *)
(* what was read and what is written goes stale in both of them.           *)
(*                                                                         *)
(* Every call to the Kubernetes API and every operation on the cache is a  *)
(* step.  The cluster changes, or a call to it fails, MaxTroubles times.   *)
(***************************************************************************)
EXTENDS Naturals, Sequences, FiniteSets

CONSTANTS
  Runners,        \* ScaledActionRunner objects that may exist, by namespace and name
  Keys,           \* their names: the cache is keyed by name alone
  KeyOf,          \* KeyOf[r]: the name of r
  Scopes,         \* the namespaces listed and watched, or the single scope ""
  ScopeOf,        \* ScopeOf[r]: the scope r is listed and watched in
  FromEnd,        \* FromEnd[r]: how many runners come after r in a full listing
  Specs,          \* what an object may ask for: owner, repository, scaling
  Tokens,         \* the values secret fields named token... may hold
  NoSpec,         \* the object does not exist
  NoEntry,        \* the cache has nothing under the key
  Unspecified,    \* what the cache should hold is open
  ListCanFail,    \* listing a scope may fail
  MaxTroubles     \* bound: changes of objects and secrets, and failed calls to
                  \* the Kubernetes API

ASSUME ShapeAssumption ==
  /\ IsFiniteSet(Runners)
  /\ KeyOf \in [Runners -> Keys]
  /\ ScopeOf \in [Runners -> Scopes]
  /\ FromEnd \in [Runners -> Nat]
  /\ \A r, s \in Runners : FromEnd[r] = FromEnd[s] => r = s
  /\ \A r, s, t \in Runners :  \* the scopes are listed one after the other
       FromEnd[r] < FromEnd[s] /\ FromEnd[s] < FromEnd[t] /\ ScopeOf[r] = ScopeOf[t]
         => ScopeOf[s] = ScopeOf[r]
  /\ Scopes # {}
  /\ ListCanFail \in BOOLEAN
  /\ MaxTroubles \in Nat

Item == [runner : Runners, spec : Specs]
Entry == [runner : Runners, spec : Specs, token : Tokens]

ASSUME NothingAssumption == NoSpec \notin Specs /\ NoEntry \notin Entry

VARIABLES
  objects,    \* objects[r]: the spec of r in the cluster, or NoSpec
  secret,     \* secret[r]: the tokens in the secret r names; none if it is missing
  store,      \* c.store: the entry under each key
  \* The resync goroutine, in copyAllWorkflows:
  phase,      \* where it stands
  toList,     \* scopes still to be listed
  toRead,     \* listed objects whose token is still to be read
  loaded,     \* toCache: the entries that are ready
  purgeOld,   \* no token has failed to load
  \* The watcher of each scope, in setupWatcher:
  watcher,    \* where it stands
  events,     \* what the API server has sent and the watcher not received
  pending,    \* the event and the entry the watcher is about to apply
  \* The bound:
  troubles,
  \* History, for the properties only:
  loadFailed, \* a listing or a token has failed to load in this resync
  since,      \* since[r]: what r and its secret have been while it runs
  ever        \* ever[r]: what they have ever been

resync == <<phase, toList, toRead, loaded, purgeOld, loadFailed>>
watches == <<watcher, events, pending>>
cluster == <<objects, secret>>
history == <<since, ever>>
vars == <<cluster, store, resync, watches, troubles, history>>

Event == [type : {"Added", "Modified", "Deleted"}, runner : Runners, spec : Specs]
NoPending == [type |-> "None", entry |-> NoEntry]
Pending == [type : {"Added", "Modified", "Deleted"}, entry : Entry] \union {NoPending}

\* What a runner has been and the tokens it has had: none, and those of now.
Past == [specs : SUBSET (Specs \union {NoSpec}), tokens : SUBSET Tokens]
Nothing == [r \in Runners |-> [specs |-> {}, tokens |-> {}]]
And(past, specs, tokens) ==
  [r \in Runners |-> [specs |-> past[r].specs \union {specs[r]},
                      tokens |-> past[r].tokens \union tokens[r]]]

Listing(scope) == {r \in Runners : ScopeOf[r] = scope /\ objects[r] # NoSpec}

\* A slip a run must notice: the token is left out.
EntryWithoutToken(item, token) == [runner |-> item.runner, spec |-> item.spec, token |-> ""]

EntryOf(item, token) == [runner |-> item.runner, spec |-> item.spec, token |-> token]

-----------------------------------------------------------------------------
\* The server starts with a full copy; the watchers start when it is done.
Init ==
  /\ objects \in [Runners -> Specs \union {NoSpec}]
  /\ secret \in [Runners -> SUBSET Tokens]
  /\ store = [k \in Keys |-> NoEntry]
  /\ phase = "listing"
  /\ toList = Scopes
  /\ toRead = {}
  /\ loaded = {}
  /\ purgeOld = TRUE
  /\ watcher = [n \in Scopes |-> "off"]
  /\ events = [n \in Scopes |-> <<>>]
  /\ pending = [n \in Scopes |-> NoPending]
  /\ troubles = 0
  /\ loadFailed = FALSE
  /\ since = And(Nothing, objects, secret)
  /\ ever = since

\* The cluster changes, or a call to the Kubernetes API fails.
Trouble == troubles < MaxTroubles /\ troubles' = troubles + 1

\* getToken finds no secret, no token in it, or does not get an answer.
NoToken(r) == (secret[r] = {} /\ UNCHANGED troubles) \/ Trouble

(***************************************************************************)
(* The resync goroutine.                                                   *)
(***************************************************************************)
Resync ==
  /\ phase = "idle"
  /\ phase' = "listing"
  /\ toList' = Scopes
  /\ since' = And(Nothing, objects, secret)
  /\ UNCHANGED <<cluster, store, toRead, loaded, purgeOld, loadFailed, watches, troubles, ever>>

\* The scopes come in the order of the listing.
Before(n, m) ==
  \A r, s \in Runners : ScopeOf[r] = n /\ ScopeOf[s] = m => FromEnd[s] < FromEnd[r]

\* A scope whose listing fails is skipped and its runners are not missed.
List(n) ==
  /\ phase = "listing"
  /\ n \in toList
  /\ \A m \in toList \ {n} : Before(n, m)
  /\ toList' = toList \ {n}
  /\ phase' = IF toList' = {} THEN "reading" ELSE "listing"
  /\ \/ /\ toRead' = toRead \union {[runner |-> r, spec |-> objects[r]] : r \in Listing(n)}
        /\ UNCHANGED <<loadFailed, troubles>>
     \/ /\ ListCanFail
        /\ Trouble
        /\ loadFailed' = TRUE
        /\ UNCHANGED toRead
  /\ UNCHANGED <<cluster, store, loaded, purgeOld, watches, history>>

\* The tokens are read in the order of the listing; getToken picks any of the
\* fields whose name begins with "token".
ReadToken(item) ==
  /\ phase = "reading"
  /\ item \in toRead
  /\ \A other \in toRead : FromEnd[other.runner] <= FromEnd[item.runner]
  /\ toRead' = toRead \ {item}
  /\ \/ /\ \E token \in secret[item.runner] : loaded' = loaded \union {EntryOf(item, token)}
        /\ UNCHANGED <<purgeOld, loadFailed, troubles>>
     \/ /\ NoToken(item.runner)
        /\ purgeOld' = FALSE
        /\ loadFailed' = TRUE
        /\ UNCHANGED loaded
  /\ UNCHANGED <<cluster, store, phase, toList, watches, history>>

\* copyAllWorkflows returns.  The watchers start after the first copy; later
\* copies find them started.
Finished ==
  /\ phase' = "idle"
  /\ loaded' = {}
  /\ purgeOld' = TRUE
  /\ loadFailed' = FALSE
  /\ watcher' = [n \in Scopes |-> IF watcher[n] = "off" THEN "opening" ELSE watcher[n]]
  /\ since' = Nothing

\* A slip a run must notice: the key is not looked at.
NewestOfAnyKey(entries, k) ==
  IF entries = {} THEN NoEntry
  ELSE CHOOSE e \in entries : \A f \in entries : FromEnd[e.runner] <= FromEnd[f.runner]

\* Of the entries that share a key, a Replace keeps the last one listed.
Newest(entries, k) ==
  LET those == {e \in entries : KeyOf[e.runner] = k}
  IN  IF those = {} THEN NoEntry
      ELSE CHOOSE e \in those : \A f \in those : FromEnd[e.runner] <= FromEnd[f.runner]

\* A slip a run must notice: old entries outlive a resync that has no news of them.
ReplacedKeepingOld(entries) ==
  [k \in Keys |-> IF Newest(entries, k) = NoEntry THEN store[k] ELSE Newest(entries, k)]

Replaced(entries) == [k \in Keys |-> Newest(entries, k)]

\* A slip a run must notice: the flag is not looked at.
MayPurgeAlways == TRUE

MayPurge == purgeOld

Replace ==
  /\ phase = "reading"
  /\ toRead = {}
  /\ MayPurge
  /\ store' = Replaced(loaded)
  /\ Finished
  /\ UNCHANGED <<cluster, toList, toRead, events, pending, troubles, ever>>

KeepOld ==
  /\ phase = "reading"
  /\ toRead = {}
  /\ ~MayPurge
  /\ phase' = "updating"
  /\ UNCHANGED <<cluster, store, toList, toRead, loaded, purgeOld, loadFailed, watches, troubles,
                 history>>

\* The entries that are ready go in one by one, in the order of the listing.
Update(e) ==
  /\ phase = "updating"
  /\ e \in loaded
  /\ \A f \in loaded : FromEnd[f.runner] <= FromEnd[e.runner]
  /\ store' = [store EXCEPT ![KeyOf[e.runner]] = e]
  /\ loaded' = loaded \ {e}
  /\ UNCHANGED <<cluster, phase, toList, toRead, purgeOld, loadFailed, watches, troubles, history>>

Updated ==
  /\ phase = "updating"
  /\ loaded = {}
  /\ Finished
  /\ UNCHANGED <<cluster, store, toList, toRead, events, pending, troubles, ever>>

(***************************************************************************)
(* The watcher of a scope.  Watch() of the runner client sends the watch   *)
(* request twice: the first time as a Get, which reads the stream until    *)
(* the API server closes it and then drops what it read.  Only then does   *)
(* the stream the watcher reads open, with an Added for every object.  A   *)
(* Watch that fails leaves the watcher where it was.                       *)
(***************************************************************************)
InitialEvents(n) == {[type |-> "Added", runner |-> r, spec |-> objects[r]] : r \in Listing(n)}

OpenWatch(n) ==
  /\ watcher[n] = "opening"
  /\ \E initial \in [1..Cardinality(Listing(n)) -> InitialEvents(n)] :
       /\ \A event \in InitialEvents(n) : \E i \in DOMAIN initial : initial[i] = event
       /\ events' = [events EXCEPT ![n] = initial]
  /\ watcher' = [watcher EXCEPT ![n] = "receiving"]
  /\ UNCHANGED <<cluster, store, resync, pending, troubles, history>>

\* After an event the watcher goes on, or after five minutes gives its stream
\* up, and with it what it had not received.
GoesOn(n, left) ==
  \/ watcher' = [watcher EXCEPT ![n] = "receiving"] /\ events' = [events EXCEPT ![n] = left]
  \/ watcher' = [watcher EXCEPT ![n] = "opening"] /\ events' = [events EXCEPT ![n] = <<>>]

\* An event is received and the token read; without one the event is dropped,
\* a deletion too.
Receive(n) ==
  /\ watcher[n] = "receiving"
  /\ events[n] # <<>>
  /\ LET event == Head(events[n])
     IN  \/ /\ \E token \in secret[event.runner] :
                 pending' = [pending EXCEPT ![n] =
                               [type |-> event.type, entry |-> EntryOf(event, token)]]
            /\ watcher' = [watcher EXCEPT ![n] = "applying"]
            /\ events' = [events EXCEPT ![n] = Tail(@)]
            /\ UNCHANGED troubles
         \/ /\ NoToken(event.runner)
            /\ GoesOn(n, Tail(events[n]))
            /\ UNCHANGED pending
  /\ UNCHANGED <<cluster, store, resync, history>>

\* Add, Update and Delete of the cache: all go by the key.
Apply(n) ==
  /\ watcher[n] = "applying"
  /\ LET e == pending[n].entry
     IN  store' = [store EXCEPT ![KeyOf[e.runner]] =
                     IF pending[n].type = "Deleted" THEN NoEntry ELSE e]
  /\ GoesOn(n, events[n])
  /\ pending' = [pending EXCEPT ![n] = NoPending]
  /\ UNCHANGED <<cluster, resync, troubles, history>>

\* The API server ends the stream, or the connection breaks.
CloseWatch(n) ==
  /\ watcher[n] = "receiving"
  /\ watcher' = [watcher EXCEPT ![n] = "opening"]
  /\ events' = [events EXCEPT ![n] = <<>>]
  /\ UNCHANGED <<cluster, store, resync, pending, troubles, history>>

-----------------------------------------------------------------------------
(* The cluster. *)

\* The watcher of the scope of r, if its stream is open, is told of a change.
Notify(r, type, spec) ==
  LET n == ScopeOf[r]
  IN  events' = IF watcher[n] \in {"receiving", "applying"}
                THEN [events EXCEPT ![n] = Append(@, [type |-> type, runner |-> r, spec |-> spec])]
                ELSE events

Change ==
  /\ Trouble
  /\ since' = IF phase = "idle" THEN since ELSE And(since, objects', secret')
  /\ ever' = And(ever, objects', secret')
  /\ UNCHANGED <<store, resync, watcher, pending>>

PutRunner(r, spec) ==
  /\ objects[r] # spec
  /\ objects' = [objects EXCEPT ![r] = spec]
  /\ Notify(r, IF objects[r] = NoSpec THEN "Added" ELSE "Modified", spec)
  /\ UNCHANGED secret
  /\ Change

DeleteRunner(r) ==
  /\ objects[r] # NoSpec
  /\ objects' = [objects EXCEPT ![r] = NoSpec]
  /\ Notify(r, "Deleted", objects[r])
  /\ UNCHANGED secret
  /\ Change

PutSecret(r, tokens) ==
  /\ secret[r] # tokens
  /\ secret' = [secret EXCEPT ![r] = tokens]
  /\ UNCHANGED <<objects, events>>
  /\ Change

-----------------------------------------------------------------------------
ResyncStep ==
  \/ Resync \/ Replace \/ KeepOld \/ Updated
  \/ \E n \in Scopes : List(n)
  \/ \E item \in toRead : ReadToken(item)
  \/ \E e \in loaded : Update(e)

WatcherStep(n) == OpenWatch(n) \/ Receive(n) \/ Apply(n)

ClusterStep ==
  \/ \E r \in Runners, spec \in Specs : PutRunner(r, spec)
  \/ \E r \in Runners : DeleteRunner(r)
  \/ \E r \in Runners, tokens \in SUBSET Tokens : PutSecret(r, tokens)

Next ==
  \/ ResyncStep
  \/ \E n \in Scopes : WatcherStep(n) \/ CloseWatch(n)
  \/ ClusterStep

\* The ticker goes on and calls to the API return; of the watchers nothing is
\* assumed: each may hang for ever.
Fairness == WF_vars(ResyncStep)

Spec == Init /\ [][Next]_vars /\ Fairness

-----------------------------------------------------------------------------
(* Properties. *)

\* Every variable stays within the values the code's types allow.
TypeOK ==
  /\ objects \in [Runners -> Specs \union {NoSpec}]
  /\ secret \in [Runners -> SUBSET Tokens]
  /\ store \in [Keys -> Entry \union {NoEntry}]
  /\ phase \in {"idle", "listing", "reading", "updating"}
  /\ toList \in SUBSET Scopes
  /\ toRead \in SUBSET Item
  /\ loaded \in SUBSET Entry
  /\ purgeOld \in BOOLEAN
  /\ watcher \in [Scopes -> {"off", "opening", "receiving", "applying"}]
  /\ events \in [Scopes -> Seq(Event)]
  /\ pending \in [Scopes -> Pending]
  /\ troubles \in 0..MaxTroubles
  /\ loadFailed \in BOOLEAN
  /\ since \in [Runners -> Past]
  /\ ever \in [Runners -> Past]

\* The spec and the token of an entry, perhaps of different times.
Known(past, e) == e.spec \in past[e.runner].specs /\ e.token \in past[e.runner].tokens

(***************************************************************************)
(* However the cluster changes while a resync reads it, what the resync    *)
(* writes is no older than its beginning; and a runner it leaves out or    *)
(* takes for overridden was absent at some time while it ran, unless       *)
(* something failed to load.  Whatever the watchers wrote meanwhile.       *)
(***************************************************************************)
ResyncRecent ==
  [][ResyncStep =>
       \A k \in Keys :
         LET e == store'[k]
         IN  /\ e # NoEntry /\ (Replace \/ e # store[k]) => KeyOf[e.runner] = k /\ Known(since, e)
             /\ Replace /\ ~loadFailed =>
                  \A r \in Runners :
                    KeyOf[r] = k /\ (e = NoEntry \/ FromEnd[r] < FromEnd[e.runner])
                      => NoSpec \in since[r].specs]_vars

(***************************************************************************)
(* "Some workflows failed to load - not purging old config": a resync that *)
(* failed to load something takes no workflow out of the cache.            *)
(***************************************************************************)
FailedLoadKeepsOld ==
  [][ResyncStep /\ loadFailed =>
       \A k \in Keys : store[k] # NoEntry => store'[k] # NoEntry]_vars

Named(k) == {r \in Runners : KeyOf[r] = k}

\* Every runner there is has a token to read.
Readable == \A r \in Runners : objects[r] # NoSpec => secret[r] # {}

(***************************************************************************)
(* What the cache holds under a key is what the runners of that name are   *)
(* in the cluster, in the end, and never anything none of them has been.   *)
(* Which of several tokens is used is left open, and so is everything      *)
(* while a token cannot be read.                                           *)
(***************************************************************************)
Wanted(k) ==
  LET live == {r \in Named(k) : objects[r] # NoSpec}
      last == CHOOSE r \in live : \A s \in live : FromEnd[r] <= FromEnd[s]
      token == CHOOSE token \in secret[last] : TRUE
  IN  IF ~Readable THEN Unspecified
      ELSE IF live = {} THEN NoEntry
      ELSE IF secret[last] # {token} THEN Unspecified
      ELSE [runner |-> last, spec |-> objects[last], token |-> token]

Asked(k) ==
  UNION {{[runner |-> r, spec |-> spec, token |-> token] :
            spec \in ever[r].specs \ {NoSpec}, token \in ever[r].tokens} : r \in Named(k)}

Desired == INSTANCE DesiredState WITH
  Objects <- Keys,
  Wants <- Entry,
  Batches <- SUBSET Keys,
  None <- NoEntry,
  wanted <- [k \in Keys |-> Wanted(k)],
  asked <- [k \in Keys |-> Asked(k)],
  deployed <- store

FollowsCluster == Desired!Spec

=============================================================================
