------------------------ MODULE WorkflowStoreProofs ------------------------
(***************************************************************************)
(* What a resync of the workflow cache achieves, for any runners, names,   *)
(* namespaces and tokens, and against any watchers.                        *)
(***************************************************************************)
EXTENDS WorkflowStore, WellFoundedInduction, FiniteSetTheorems, TLAPS

-----------------------------------------------------------------------------
(* Types. *)

LEMMA NothingType == Nothing \in [Runners -> Past]
<1>1. [specs |-> {}, tokens |-> {}] \in Past
  BY DEF Past
<1>. QED BY <1>1 DEF Nothing

\* A past and the present: what it was, and what is now.
LEMMA AndType ==
  ASSUME NEW past \in [Runners -> Past],
         NEW specs \in [Runners -> Specs \union {NoSpec}],
         NEW tokens \in [Runners -> SUBSET Tokens]
  PROVE  LET new == And(past, specs, tokens)
         IN  /\ new \in [Runners -> Past]
             /\ \A r \in Runners :
                  /\ specs[r] \in new[r].specs /\ past[r].specs \subseteq new[r].specs
                  /\ tokens[r] \subseteq new[r].tokens /\ past[r].tokens \subseteq new[r].tokens
<1>1. ASSUME NEW r \in Runners
      PROVE  [specs |-> past[r].specs \union {specs[r]}, tokens |-> past[r].tokens \union tokens[r]] \in Past
  BY DEF Past
<1>. QED BY <1>1 DEF And

LEMMA InitType == Init => TypeOK
<1>. SUFFICES ASSUME Init PROVE TypeOK
  OBVIOUS
<1>1. purgeOld \in BOOLEAN /\ loadFailed \in BOOLEAN
  BY DEF Init
<1>2. pending \in [Scopes -> Pending]
  BY DEF Init, Pending
<1>3. events \in [Scopes -> Seq(Event)]
  BY DEF Init
<1>4. objects \in [Runners -> Specs \union {NoSpec}] /\ secret \in [Runners -> SUBSET Tokens]
  BY DEF Init
<1>5. since \in [Runners -> Past] /\ ever \in [Runners -> Past]
  BY <1>4, NothingType, AndType DEF Init
<1>. QED BY <1>1, <1>2, <1>3, <1>4, <1>5, ShapeAssumption DEF Init, TypeOK

LEMMA EntryType ==
  ASSUME TypeOK, NEW runner \in Runners, NEW spec \in Specs, NEW token \in secret[runner]
  PROVE  [runner |-> runner, spec |-> spec, token |-> token] \in Entry
  BY DEF TypeOK, Entry

LEMMA TroubleType ==
  ASSUME TypeOK, Trouble \/ UNCHANGED troubles
  PROVE  troubles' \in 0..MaxTroubles
  BY ShapeAssumption DEF TypeOK, Trouble

\* The smaller of two places, as a relation.
Less == {pair \in Nat \X Nat : pair[1] < pair[2]}

LEMMA LessIsWellFounded == IsWellFoundedOn(Less, Nat)
<1>1. Less = OpToRel(<, Nat)
  BY DEF Less, OpToRel
<1>. QED BY <1>1, NatLessThanWellFounded

LEMMA NewestType ==
  ASSUME NEW entries \in SUBSET Entry, NEW k \in Keys
  PROVE  \/ Newest(entries, k) = NoEntry /\ \A e \in entries : KeyOf[e.runner] # k
         \/ /\ Newest(entries, k) \in entries
            /\ KeyOf[Newest(entries, k).runner] = k
            /\ \A e \in entries : KeyOf[e.runner] = k =>
                 FromEnd[Newest(entries, k).runner] <= FromEnd[e.runner]
<1>. DEFINE those == {e \in entries : KeyOf[e.runner] = k}
            places == {FromEnd[e.runner] : e \in those}
<1>1. CASE those = {}
  BY <1>1 DEF Newest
<1>2. CASE those # {}
  <2>1. places \subseteq Nat /\ places # {}
    BY <1>2, ShapeAssumption DEF Entry
  <2>2. PICK p \in places : \A q \in places : ~(<<q, p>> \in Less)
    <3>. HIDE DEF places
    <3>. QED BY <2>1, LessIsWellFounded, WFMin
  <2>3. ASSUME NEW q \in places PROVE p <= q
    <3>. HIDE DEF places
    <3>1. p \in Nat /\ q \in Nat /\ <<q, p>> \notin Less
      BY <2>1, <2>2
    <3>2. ~(<<q, p>>[1] < <<q, p>>[2])
      BY <3>1 DEF Less
    <3>. QED BY <3>1, <3>2
  <2>4. \E e \in those : \A f \in those : FromEnd[e.runner] <= FromEnd[f.runner]
    BY <2>3
  <2>. QED BY <1>2, <2>4 DEF Newest
<1>. QED BY <1>1, <1>2

\* A watcher that goes on, or gives its stream up.
LEMMA GoesOnType ==
  ASSUME TypeOK, NEW n \in Scopes, NEW left \in Seq(Event), GoesOn(n, left)
  PROVE  /\ watcher' \in [Scopes -> {"off", "opening", "receiving", "applying"}]
         /\ events' \in [Scopes -> Seq(Event)]
<1>1. <<>> \in Seq(Event)
  OBVIOUS
<1>. QED BY <1>1 DEF TypeOK, GoesOn

LEMMA ChangeType ==
  ASSUME TypeOK, Change,
         objects' \in [Runners -> Specs \union {NoSpec}], secret' \in [Runners -> SUBSET Tokens]
  PROVE  /\ troubles' \in 0..MaxTroubles
         /\ since' \in [Runners -> Past] /\ ever' \in [Runners -> Past]
         /\ UNCHANGED <<store, resync, watcher, pending>>
<1>1. since' \in [Runners -> Past] /\ ever' \in [Runners -> Past]
  BY AndType DEF Change, TypeOK
<1>2. troubles' \in 0..MaxTroubles
  BY TroubleType DEF Change
<1>. QED BY <1>1, <1>2 DEF Change

LEMMA NotifyType ==
  ASSUME TypeOK, NEW r \in Runners, NEW type \in {"Added", "Modified", "Deleted"},
         NEW spec \in Specs, Notify(r, type, spec)
  PROVE  events' \in [Scopes -> Seq(Event)]
<1>. DEFINE event == [type |-> type, runner |-> r, spec |-> spec]
<1>1. event \in Event /\ ScopeOf[r] \in Scopes
  BY ShapeAssumption DEF Event
<1>2. events[ScopeOf[r]] \in Seq(Event)
  BY <1>1 DEF TypeOK
<1>3. Append(events[ScopeOf[r]], event) \in Seq(Event)
  BY <1>1, <1>2
<1>. QED BY <1>1, <1>3 DEF TypeOK, Notify

LEMMA NextType == TypeOK /\ [Next]_vars => TypeOK'
<1>. SUFFICES ASSUME TypeOK, [Next]_vars PROVE TypeOK'
  OBVIOUS
<1>. USE DEF cluster, resync, watches, history
<1>1. CASE Resync
  <2>1. since' \in [Runners -> Past]
    BY <1>1, NothingType, AndType DEF Resync, TypeOK
  <2>. QED BY <1>1, <2>1 DEF Resync, TypeOK
<1>2. ASSUME NEW n \in Scopes, List(n) PROVE TypeOK'
  <2>1. {[runner |-> r, spec |-> objects[r]] : r \in Listing(n)} \subseteq Item
    BY DEF TypeOK, Listing, Item
  <2>2. toRead' \in SUBSET Item /\ loadFailed' \in BOOLEAN
    BY <1>2, <2>1 DEF List, TypeOK
  <2>3. troubles' \in 0..MaxTroubles
    BY <1>2, TroubleType DEF List
  <2>. QED BY <1>2, <2>2, <2>3 DEF List, TypeOK
<1>3. ASSUME NEW item \in toRead, ReadToken(item) PROVE TypeOK'
  <2>1. item.runner \in Runners /\ item.spec \in Specs
    BY DEF TypeOK, Item
  <2>2. \A token \in secret[item.runner] : EntryOf(item, token) \in Entry
    BY <2>1, EntryType DEF EntryOf
  <2>3. loaded' \in SUBSET Entry /\ loadFailed' \in BOOLEAN /\ purgeOld' \in BOOLEAN
    BY <1>3, <2>2 DEF ReadToken, TypeOK
  <2>4. troubles' \in 0..MaxTroubles
    BY <1>3, TroubleType DEF ReadToken, NoToken
  <2>. QED BY <1>3, <2>3, <2>4 DEF ReadToken, TypeOK
<1>4. CASE Replace
  <2>1. store' \in [Keys -> Entry \union {NoEntry}]
    BY <1>4, NewestType DEF Replace, Replaced, TypeOK
  <2>. QED BY <1>4, <2>1, NothingType DEF Replace, Finished, TypeOK
<1>5. CASE KeepOld
  BY <1>5 DEF KeepOld, TypeOK
<1>6. ASSUME NEW e \in loaded, Update(e) PROVE TypeOK'
  <2>1. e \in Entry /\ KeyOf[e.runner] \in Keys
    BY ShapeAssumption DEF TypeOK, Entry
  <2>. QED BY <1>6, <2>1 DEF Update, TypeOK
<1>7. CASE Updated
  BY <1>7, NothingType DEF Updated, Finished, TypeOK
<1>8. ASSUME NEW n \in Scopes, OpenWatch(n) PROVE TypeOK'
  <2>1. InitialEvents(n) \subseteq Event
    BY DEF InitialEvents, Listing, TypeOK, Event
  <2>2. PICK initial \in [1..Cardinality(Listing(n)) -> InitialEvents(n)] :
          events' = [events EXCEPT ![n] = initial]
    BY <1>8 DEF OpenWatch
  <2>3. Cardinality(Listing(n)) \in Nat
    BY ShapeAssumption, FS_Subset, FS_CardinalityType DEF Listing
  <2>4. initial \in Seq(Event)
    BY <2>1, <2>2, <2>3
  <2>. QED BY <1>8, <2>2, <2>4 DEF OpenWatch, TypeOK
<1>9. ASSUME NEW n \in Scopes, Receive(n) PROVE TypeOK'
  <2>1. events[n] \in Seq(Event) /\ events[n] # <<>>
    BY <1>9 DEF Receive, TypeOK
  <2>2. Head(events[n]) \in Event /\ Tail(events[n]) \in Seq(Event)
    BY <2>1
  <2>3. troubles' \in 0..MaxTroubles
    BY <1>9, TroubleType DEF Receive, NoToken
  <2>4. /\ watcher' \in [Scopes -> {"off", "opening", "receiving", "applying"}]
        /\ events' \in [Scopes -> Seq(Event)]
    BY <1>9, <2>2, GoesOnType DEF Receive, TypeOK
  <2>5. pending' \in [Scopes -> Pending]
    <3>. DEFINE event == Head(events[n])
    <3>1. CASE UNCHANGED pending
      BY <3>1 DEF TypeOK
    <3>2. ASSUME NEW token \in secret[event.runner],
                 pending' = [pending EXCEPT ![n] =
                               [type |-> event.type, entry |-> EntryOf(event, token)]]
          PROVE  pending' \in [Scopes -> Pending]
      <4>1. event.type \in {"Added", "Modified", "Deleted"} /\ EntryOf(event, token) \in Entry
        BY <2>2, EntryType DEF Event, EntryOf
      <4>2. [type |-> event.type, entry |-> EntryOf(event, token)] \in Pending
        BY <4>1 DEF Pending
      <4>. QED BY <3>2, <4>2 DEF TypeOK
    <3>. QED BY <1>9, <3>1, <3>2 DEF Receive
  <2>. QED BY <1>9, <2>3, <2>4, <2>5 DEF Receive, TypeOK
<1>10. ASSUME NEW n \in Scopes, Apply(n) PROVE TypeOK'
  <2>1. pending[n].entry \in Entry \union {NoEntry}
    BY DEF TypeOK, Pending, NoPending
  <2>2. store' \in [Keys -> Entry \union {NoEntry}]
    BY <1>10, <2>1 DEF Apply, TypeOK
  <2>. QED BY <1>10, <2>2, GoesOnType DEF Apply, TypeOK, Pending
<1>11. ASSUME NEW n \in Scopes, CloseWatch(n) PROVE TypeOK'
  BY <1>11 DEF CloseWatch, TypeOK
<1>12. ASSUME NEW r \in Runners, NEW spec \in Specs, PutRunner(r, spec) PROVE TypeOK'
  <2>1. events' \in [Scopes -> Seq(Event)]
    BY <1>12, NotifyType DEF PutRunner
  <2>2. objects' \in [Runners -> Specs \union {NoSpec}] /\ secret' = secret /\ Change
    BY <1>12 DEF PutRunner, TypeOK
  <2>. QED BY <2>1, <2>2, ChangeType DEF TypeOK
<1>13. ASSUME NEW r \in Runners, DeleteRunner(r) PROVE TypeOK'
  <2>1. events' \in [Scopes -> Seq(Event)]
    BY <1>13, NotifyType DEF DeleteRunner, TypeOK
  <2>2. objects' \in [Runners -> Specs \union {NoSpec}] /\ secret' = secret /\ Change
    BY <1>13 DEF DeleteRunner, TypeOK
  <2>. QED BY <2>1, <2>2, ChangeType DEF TypeOK
<1>14. ASSUME NEW r \in Runners, NEW tokens \in SUBSET Tokens, PutSecret(r, tokens) PROVE TypeOK'
  <2>1. secret' \in [Runners -> SUBSET Tokens] /\ UNCHANGED <<objects, events>> /\ Change
    BY <1>14 DEF PutSecret, TypeOK
  <2>. QED BY <2>1, ChangeType DEF TypeOK
<1>15. CASE UNCHANGED vars
  BY <1>15 DEF vars, TypeOK
<1>. QED BY <1>1, <1>2, <1>3, <1>4, <1>5, <1>6, <1>7, <1>8, <1>9, <1>10, <1>11, <1>12, <1>13,
            <1>14, <1>15 DEF Next, ResyncStep, WatcherStep, ClusterStep

THEOREM TypeCorrect == Spec => []TypeOK
<1>. QED BY InitType, NextType, PTL DEF Spec

-----------------------------------------------------------------------------
(* A resync copies what is there, or was while it ran. *)

\* Outside a resync there is no copy.  What is to be read and what is ready is
\* no older than the beginning of the resync, and but for what failed to load
\* everything that was there throughout is listed, to be read or ready.
CopyInv ==
  /\ phase \in {"reading", "updating", "idle"} => toList = {}
  /\ phase \in {"updating", "idle"} => toRead = {}
  /\ phase = "idle" => loaded = {}
  /\ phase # "idle" =>
       \A r \in Runners : objects[r] \in since[r].specs /\ secret[r] \subseteq since[r].tokens
  /\ \A item \in toRead : item.spec \in since[item.runner].specs
  /\ \A e \in loaded : Known(since, e)
  /\ phase \in {"listing", "reading"} /\ ~loadFailed =>
       \A r \in Runners :
         \/ ScopeOf[r] \in toList
         \/ NoSpec \in since[r].specs
         \/ \E item \in toRead \union loaded : item.runner = r

LEMMA InitCopy == Init => CopyInv
<1>. SUFFICES ASSUME Init PROVE CopyInv
  OBVIOUS
<1>1. objects \in [Runners -> Specs \union {NoSpec}] /\ secret \in [Runners -> SUBSET Tokens]
  BY DEF Init
<1>2. \A r \in Runners : objects[r] \in since[r].specs /\ secret[r] \subseteq since[r].tokens
  BY <1>1, NothingType, AndType DEF Init
<1>. QED BY <1>2, ShapeAssumption DEF Init, CopyInv

\* A change of the cluster.
LEMMA ChangeCopy ==
  ASSUME TypeOK, TypeOK', CopyInv, Change
  PROVE  CopyInv'
<1>1. UNCHANGED <<phase, toList, toRead, loaded, loadFailed>>
  BY DEF Change, resync
<1>2. CASE phase = "idle"
  BY <1>1, <1>2 DEF CopyInv
<1>3. CASE phase # "idle"
  <2>1. since' = And(since, objects', secret')
    BY <1>3 DEF Change
  <2>2. \A r \in Runners :
          /\ objects'[r] \in since'[r].specs /\ since[r].specs \subseteq since'[r].specs
          /\ secret'[r] \subseteq since'[r].tokens /\ since[r].tokens \subseteq since'[r].tokens
    BY <2>1, AndType DEF TypeOK
  <2>3. \A item \in toRead : item.runner \in Runners /\ item.spec \in since'[item.runner].specs
    BY <2>2 DEF CopyInv, TypeOK, Item
  <2>4. \A e \in loaded : Known(since', e)
    BY <2>2 DEF CopyInv, TypeOK, Entry, Known
  <2>. QED BY <1>1, <1>3, <2>2, <2>3, <2>4 DEF CopyInv, Known
<1>. QED BY <1>2, <1>3

LEMMA NextCopy == TypeOK /\ TypeOK' /\ CopyInv /\ [Next]_vars => CopyInv'
<1>. SUFFICES ASSUME TypeOK, TypeOK', CopyInv, [Next]_vars PROVE CopyInv'
  OBVIOUS
<1>. USE DEF cluster, resync, watches, history, CopyInv
<1>1. CASE Resync
  <2>1. \A r \in Runners : objects'[r] \in since'[r].specs /\ secret'[r] \subseteq since'[r].tokens
    BY <1>1, NothingType, AndType DEF Resync, TypeOK
  <2>. QED BY <1>1, <2>1, ShapeAssumption DEF Resync
<1>2. ASSUME NEW n \in Scopes, List(n) PROVE CopyInv'
  <2>. DEFINE items == {[runner |-> r, spec |-> objects[r]] : r \in Listing(n)}
  <2>1. /\ UNCHANGED <<objects, secret, loaded, since>> /\ phase = "listing"
        /\ toList' = toList \ {n}
        /\ phase' = (IF toList' = {} THEN "reading" ELSE "listing")
    BY <1>2 DEF List
  <2>2. \A item \in items : item.spec \in since[item.runner].specs
    BY <2>1 DEF Listing
  <2>3. \A r \in Runners : ScopeOf[r] = n =>
          NoSpec \in since[r].specs \/ \E item \in items : item.runner = r
    <3>. SUFFICES ASSUME NEW r \in Runners, ScopeOf[r] = n, objects[r] # NoSpec
                  PROVE  \E item \in items : item.runner = r
      BY <2>1
    <3>1. [runner |-> r, spec |-> objects[r]] \in items
      BY DEF Listing
    <3>2. [runner |-> r, spec |-> objects[r]].runner = r
      OBVIOUS
    <3>. HIDE DEF items
    <3>. QED BY <3>1, <3>2
  <2>. HIDE DEF items
  <2>4. CASE toRead' = toRead \union items /\ loadFailed' = loadFailed
    <3>1. \A item \in toRead' : item.spec \in since'[item.runner].specs
      BY <2>1, <2>2, <2>4
    <3>2. ~loadFailed' => \A r \in Runners :
            \/ ScopeOf[r] \in toList'
            \/ NoSpec \in since'[r].specs
            \/ \E item \in toRead' \union loaded' : item.runner = r
      BY <2>1, <2>3, <2>4
    <3>. QED BY <2>1, <3>1, <3>2 DEF Known
  <2>5. CASE toRead' = toRead /\ loadFailed' = TRUE
    BY <2>1, <2>5 DEF Known
  <2>. QED BY <1>2, <2>4, <2>5 DEF List, items
<1>3. ASSUME NEW item \in toRead, ReadToken(item) PROVE CopyInv'
  <2>1. /\ UNCHANGED <<objects, secret, since, phase, toList>> /\ phase = "reading"
        /\ (toRead' = toRead \ {item})
    BY <1>3 DEF ReadToken
  <2>2. ASSUME NEW token \in secret[item.runner],
               loaded' = loaded \union {EntryOf(item, token)}, loadFailed' = loadFailed
        PROVE  CopyInv'
    <3>1. /\ EntryOf(item, token).runner = item.runner
          /\ EntryOf(item, token).spec = item.spec
          /\ EntryOf(item, token).token = token
      BY DEF EntryOf
    <3>2. item.runner \in Runners
      BY DEF TypeOK, Item
    <3>3. Known(since, EntryOf(item, token))
      BY <2>1, <3>1, <3>2 DEF Known
    <3>. QED BY <2>1, <2>2, <3>1, <3>3 DEF Known
  <2>3. CASE loaded' = loaded /\ loadFailed' = TRUE
    BY <2>1, <2>3 DEF Known
  <2>. QED BY <1>3, <2>2, <2>3 DEF ReadToken
<1>4. CASE Replace \/ Updated
  BY <1>4 DEF Replace, Updated, Finished
<1>5. CASE KeepOld
  BY <1>5 DEF KeepOld, Known
<1>6. ASSUME NEW e \in loaded, Update(e) PROVE CopyInv'
  BY <1>6 DEF Update, Known
<1>7. ASSUME NEW n \in Scopes, WatcherStep(n) \/ CloseWatch(n) PROVE CopyInv'
  BY <1>7 DEF WatcherStep, OpenWatch, Receive, Apply, CloseWatch, Known
<1>8. CASE ClusterStep
  BY <1>8, ChangeCopy DEF ClusterStep, PutRunner, DeleteRunner, PutSecret
<1>9. CASE UNCHANGED vars
  BY <1>9 DEF vars, Known
<1>. QED BY <1>1, <1>2, <1>3, <1>4, <1>5, <1>6, <1>7, <1>8, <1>9 DEF Next, ResyncStep

\* What a step of the resync writes under a key.
RecentStep ==
  ResyncStep =>
    \A k \in Keys :
      LET e == store'[k]
      IN  /\ e # NoEntry /\ (Replace \/ e # store[k]) => KeyOf[e.runner] = k /\ Known(since, e)
          /\ Replace /\ ~loadFailed =>
               \A r \in Runners :
                 KeyOf[r] = k /\ (e = NoEntry \/ FromEnd[r] < FromEnd[e.runner])
                   => NoSpec \in since[r].specs

LEMMA WritesRecent == TypeOK /\ CopyInv => RecentStep
<1>. SUFFICES ASSUME TypeOK, CopyInv, ResyncStep PROVE RecentStep
  BY DEF RecentStep
<1>1. CASE Replace
  <2>. SUFFICES ASSUME NEW k \in Keys
       PROVE  LET e == store'[k]
              IN  /\ e # NoEntry => KeyOf[e.runner] = k /\ Known(since, e)
                  /\ ~loadFailed =>
                       \A r \in Runners :
                         KeyOf[r] = k /\ (e = NoEntry \/ FromEnd[r] < FromEnd[e.runner])
                           => NoSpec \in since[r].specs
    BY DEF RecentStep
  <2>1. store'[k] = Newest(loaded, k) /\ toRead = {} /\ toList = {} /\ phase = "reading"
    BY <1>1 DEF Replace, Replaced, CopyInv
  <2>2. loaded \in SUBSET Entry
    BY DEF TypeOK
  <2>3. \/ store'[k] = NoEntry /\ \A e \in loaded : KeyOf[e.runner] # k
        \/ /\ store'[k] \in loaded
           /\ KeyOf[store'[k].runner] = k
           /\ \A e \in loaded : KeyOf[e.runner] = k => FromEnd[store'[k].runner] <= FromEnd[e.runner]
    BY <2>1, <2>2, NewestType
  <2>4. store'[k] # NoEntry => KeyOf[store'[k].runner] = k /\ Known(since, store'[k])
    BY <2>3 DEF CopyInv
  <2>5. ASSUME ~loadFailed, NEW r \in Runners, KeyOf[r] = k,
               store'[k] = NoEntry \/ FromEnd[r] < FromEnd[store'[k].runner],
               NoSpec \notin since[r].specs
        PROVE  FALSE
    <3>1. PICK e \in loaded : e.runner = r
      BY <2>1, <2>5 DEF CopyInv
    <3>2. store'[k] \in loaded /\ FromEnd[store'[k].runner] <= FromEnd[r]
      BY <2>2, <2>3, <2>5, <3>1, NothingAssumption
    <3>3. FromEnd[store'[k].runner] \in Nat /\ FromEnd[r] \in Nat
      BY <2>2, <3>2, ShapeAssumption DEF Entry
    <3>. QED BY <2>2, <2>5, <3>2, <3>3, NothingAssumption
  <2>. QED BY <2>4, <2>5
<1>2. CASE ~Replace
  <2>. SUFFICES ASSUME NEW k \in Keys, store'[k] # store[k], store'[k] # NoEntry
       PROVE  KeyOf[store'[k].runner] = k /\ Known(since, store'[k])
    BY <1>2 DEF RecentStep
  <2>1. PICK e \in loaded : Update(e)
    BY <1>2 DEF ResyncStep, Resync, List, ReadToken, KeepOld, Updated
  <2>2. store'[k] = e /\ KeyOf[e.runner] = k
    BY <2>1 DEF Update, TypeOK
  <2>. QED BY <2>2 DEF CopyInv
<1>. QED BY <1>1, <1>2

LEMMA CopyAlways == Spec => [](TypeOK /\ CopyInv)
<1>1. TypeOK /\ CopyInv /\ [Next]_vars => TypeOK' /\ CopyInv'
  BY NextType, NextCopy
<1>. QED BY <1>1, InitType, InitCopy, PTL DEF Spec

(***************************************************************************)
(* Whatever changes while a resync reads the cluster, whichever calls fail *)
(* and whatever the watchers write: what it puts into the cache was so     *)
(* after it began, and what it leaves out was absent after it began.       *)
(***************************************************************************)
THEOREM ResyncIsRecent == Spec => ResyncRecent
<1>1. TypeOK /\ CopyInv /\ [Next]_vars => [RecentStep]_vars
  BY WritesRecent
<1>2. Spec => [][RecentStep]_vars
  BY <1>1, CopyAlways, PTL DEF Spec
<1>. QED BY <1>2 DEF ResyncRecent, RecentStep

\* What the cache should hold under a key: the last listed runner of that
\* name, with a token its secret holds; nothing if there is no such runner.
Mirrors(cache) ==
  \A k \in Keys :
    LET live == {r \in Named(k) : objects[r] # NoSpec}
    IN  IF live = {} THEN cache[k] = NoEntry
        ELSE \E r \in live :
               /\ \A s \in live : FromEnd[r] <= FromEnd[s]
               /\ \E token \in secret[r] :
                    cache[k] = [runner |-> r, spec |-> objects[r], token |-> token]

\* Nothing has changed in the cluster since the resync began.
Undisturbed ==
  \A r \in Runners : since[r].specs = {objects[r]} /\ since[r].tokens = secret[r]

(***************************************************************************)
(* So a resync during which the cluster kept still and every listing and   *)
(* token loaded leaves the cache exactly as the cluster is.                *)
(***************************************************************************)
COROLLARY ResyncIsExact ==
  Spec => [][Replace /\ Undisturbed /\ ~loadFailed => Mirrors(store')]_vars
<1>1. ASSUME TypeOK, TypeOK', RecentStep, Replace, Undisturbed, ~loadFailed
      PROVE  Mirrors(store')
  <2>. SUFFICES ASSUME NEW k \in Keys
       PROVE LET live == {r \in Named(k) : objects[r] # NoSpec}
             IN  IF live = {} THEN store'[k] = NoEntry
                 ELSE \E r \in live :
                        /\ \A s \in live : FromEnd[r] <= FromEnd[s]
                        /\ \E token \in secret[r] :
                             store'[k] = [runner |-> r, spec |-> objects[r], token |-> token]
    BY DEF Mirrors
  <2>. DEFINE live == {r \in Named(k) : objects[r] # NoSpec}
              e == store'[k]
  <2>1. /\ e # NoEntry => KeyOf[e.runner] = k /\ Known(since, e)
        /\ \A r \in Runners :
             KeyOf[r] = k /\ (e = NoEntry \/ FromEnd[r] < FromEnd[e.runner])
               => NoSpec \in since[r].specs
    BY <1>1 DEF RecentStep, ResyncStep
  <2>2. e \in Entry \union {NoEntry}
    BY <1>1 DEF TypeOK
  <2>. HIDE DEF e
  <2>3. CASE e = NoEntry
    <3>1. live = {}
      BY <1>1, <2>1, <2>3 DEF Undisturbed, Named
    <3>. QED BY <2>3, <3>1 DEF e
  <2>4. CASE e # NoEntry
    <3>1. /\ e = [runner |-> e.runner, spec |-> e.spec, token |-> e.token]
          /\ e.runner \in Runners /\ e.spec \in Specs
      BY <2>2, <2>4 DEF Entry
    <3>2. e.spec = objects[e.runner] /\ e.token \in secret[e.runner]
      BY <1>1, <2>1, <2>4, <3>1 DEF Known, Undisturbed
    <3>3. e.runner \in live
      BY <2>1, <2>4, <3>1, <3>2, NothingAssumption DEF Named
    <3>4. ASSUME NEW s \in live PROVE FromEnd[e.runner] <= FromEnd[s]
      <4>1. ~(FromEnd[s] < FromEnd[e.runner])
        BY <1>1, <2>1, <3>4 DEF Undisturbed, Named
      <4>2. FromEnd[s] \in Nat /\ FromEnd[e.runner] \in Nat
        BY <3>1, <3>4, ShapeAssumption DEF Named
      <4>. QED BY <4>1, <4>2
    <3>. QED BY <3>1, <3>2, <3>3, <3>4 DEF e
  <2>. QED BY <2>3, <2>4
<1>2. TypeOK /\ TypeOK' /\ CopyInv /\ [Next]_vars
        => [Replace /\ Undisturbed /\ ~loadFailed => Mirrors(store')]_vars
  BY <1>1, WritesRecent
<1>. QED BY <1>2, CopyAlways, PTL DEF Spec

(***************************************************************************)
(* As long as listings succeed, a resync that could not read a token takes *)
(* nothing out of the cache.  (A listing that fails is not counted by      *)
(* purgeOld: WorkflowStoreListError shows what happens then.)              *)
(***************************************************************************)
THEOREM TokenFailureKeepsOld ==
  ASSUME ~ListCanFail
  PROVE  Spec => FailedLoadKeepsOld
<1>. DEFINE Counted == loadFailed => ~purgeOld
            Keeps == ResyncStep /\ loadFailed =>
                       \A k \in Keys : store[k] # NoEntry => store'[k] # NoEntry
<1>1. Init => Counted
  BY DEF Init
<1>2. Counted /\ [Next]_vars => Counted'
  BY DEF Next, ResyncStep, Resync, List, ReadToken, Replace, KeepOld, Update, Updated, WatcherStep,
         OpenWatch, Receive, Apply, CloseWatch, ClusterStep, PutRunner, DeleteRunner, PutSecret,
         Change, Finished, vars, resync
<1>3. TypeOK /\ Counted /\ [Next]_vars => [Keeps]_vars
  <2>. SUFFICES ASSUME TypeOK, Counted, ResyncStep, loadFailed, NEW k \in Keys, store[k] # NoEntry
                PROVE  store'[k] # NoEntry
    OBVIOUS
  <2>1. CASE store' = store
    BY <2>1
  <2>2. ASSUME NEW e \in loaded, Update(e) PROVE store'[k] # NoEntry
    BY <2>2, NothingAssumption DEF Update, TypeOK
  <2>3. ~Replace
    BY DEF Replace, MayPurge
  <2>. QED BY <2>1, <2>2, <2>3 DEF ResyncStep, Resync, List, ReadToken, KeepOld, Updated
<1>. QED BY <1>1, <1>2, <1>3, InitType, NextType, PTL DEF Spec, FailedLoadKeepsOld

-----------------------------------------------------------------------------
(* The refinement of DesiredState. *)

\* Whatever anybody knows of a runner has once been true of it: the resync, the
\* streams, the watchers and the cache, which has it under its name.
KnownInv ==
  /\ \A r \in Runners : objects[r] \in ever[r].specs /\ secret[r] \subseteq ever[r].tokens
  /\ \A item \in toRead : item.spec \in ever[item.runner].specs
  /\ \A e \in loaded : Known(ever, e)
  /\ \A n \in Scopes : \A i \in DOMAIN events[n] : events[n][i].spec \in ever[events[n][i].runner].specs
  /\ \A n \in Scopes : pending[n].entry # NoEntry => Known(ever, pending[n].entry)
  /\ \A k \in Keys : store[k] # NoEntry => KeyOf[store[k].runner] = k /\ Known(ever, store[k])

LEMMA InitKnown == Init => KnownInv
<1>. SUFFICES ASSUME Init PROVE KnownInv
  OBVIOUS
<1>1. objects \in [Runners -> Specs \union {NoSpec}] /\ secret \in [Runners -> SUBSET Tokens]
  BY DEF Init
<1>2. \A r \in Runners : objects[r] \in ever[r].specs /\ secret[r] \subseteq ever[r].tokens
  BY <1>1, NothingType, AndType DEF Init
<1>. QED BY <1>2 DEF Init, KnownInv, NoPending

\* A change, of which a watcher may be told.
LEMMA ChangeKnown ==
  ASSUME TypeOK, TypeOK', KnownInv, Change, NEW r \in Runners, NEW type, NEW spec,
         spec \in {objects[r], objects'[r]},
         Notify(r, type, spec) \/ UNCHANGED events
  PROVE  KnownInv'
<1>1. ever' = And(ever, objects', secret') /\ UNCHANGED <<store, toRead, loaded, pending>>
  BY DEF Change, resync
<1>2. \A s \in Runners :
        /\ objects'[s] \in ever'[s].specs /\ ever[s].specs \subseteq ever'[s].specs
        /\ secret'[s] \subseteq ever'[s].tokens /\ ever[s].tokens \subseteq ever'[s].tokens
  BY <1>1, AndType DEF TypeOK
<1>3. \A e \in Entry : Known(ever, e) => Known(ever', e)
  BY <1>2 DEF Entry, Known
<1>4. \A item \in toRead : item.spec \in ever'[item.runner].specs
  BY <1>2 DEF KnownInv, TypeOK, Item
<1>5. \A e \in loaded : Known(ever', e)
  BY <1>3 DEF KnownInv, TypeOK
<1>6. \A n \in Scopes : pending[n].entry # NoEntry => Known(ever', pending[n].entry)
  BY <1>3 DEF KnownInv, TypeOK, Pending, NoPending
<1>7. \A k \in Keys : store[k] # NoEntry => KeyOf[store[k].runner] = k /\ Known(ever', store[k])
  BY <1>3 DEF KnownInv, TypeOK
<1>8. ASSUME NEW n \in Scopes, NEW i \in DOMAIN events'[n]
      PROVE  events'[n][i].spec \in ever'[events'[n][i].runner].specs
  <2>. DEFINE told == [type |-> type, runner |-> r, spec |-> spec]
  <2>1. ASSUME NEW j \in DOMAIN events[n]
        PROVE  events[n][j].spec \in ever'[events[n][j].runner].specs
    <3>1. events[n][j] \in Event
      BY DEF TypeOK
    <3>. QED BY <1>2, <2>1, <3>1 DEF KnownInv, Event
  <2>2. told.spec \in ever'[told.runner].specs
    BY <1>2 DEF KnownInv
  <2>3. events[n] \in Seq(Event)
    BY DEF TypeOK
  <2>4. events'[n] \in {events[n], Append(events[n], told)}
    BY DEF Notify, TypeOK
  <2>. HIDE DEF told
  <2>5. \/ i \in DOMAIN events[n] /\ events'[n][i] = events[n][i]
       \/ events'[n][i] = told
    BY <2>3, <2>4
  <2>. QED BY <2>1, <2>2, <2>5
<1>. QED BY <1>1, <1>2, <1>4, <1>5, <1>6, <1>7, <1>8 DEF KnownInv, Known

LEMMA NextKnown == TypeOK /\ TypeOK' /\ KnownInv /\ [Next]_vars => KnownInv'
<1>. SUFFICES ASSUME TypeOK, TypeOK', KnownInv, [Next]_vars PROVE KnownInv'
  OBVIOUS
<1>. USE DEF cluster, resync, watches, history, KnownInv
\* What leaves the history alone and adds nothing.
<1>0. ASSUME UNCHANGED <<objects, secret, ever>>, toRead' \subseteq toRead, loaded' \subseteq loaded,
             UNCHANGED <<events, pending, store>>
      PROVE  KnownInv'
  BY <1>0 DEF Known
<1>1. CASE Resync \/ KeepOld \/ Updated
  BY <1>0, <1>1 DEF Resync, KeepOld, Updated, Finished
<1>2. ASSUME NEW n \in Scopes, List(n) PROVE KnownInv'
  <2>. DEFINE items == {[runner |-> r, spec |-> objects[r]] : r \in Listing(n)}
  <2>1. \A item \in items : item.spec \in ever[item.runner].specs
    BY DEF Listing
  <2>2. UNCHANGED <<objects, secret, ever, loaded, events, pending, store>>
    BY <1>2 DEF List
  <2>3. toRead' \in {toRead, toRead \union items}
    BY <1>2 DEF List
  <2>. HIDE DEF items
  <2>. QED BY <2>1, <2>2, <2>3 DEF Known
<1>3. ASSUME NEW item \in toRead, ReadToken(item) PROVE KnownInv'
  <2>1. /\ UNCHANGED <<objects, secret, ever, events, pending, store>>
        /\ (toRead' = toRead \ {item})
    BY <1>3 DEF ReadToken
  <2>2. ASSUME NEW token \in secret[item.runner], loaded' = loaded \union {EntryOf(item, token)}
        PROVE  KnownInv'
    <3>1. item.runner \in Runners
      BY DEF TypeOK, Item
    <3>2. Known(ever, EntryOf(item, token))
      BY <3>1 DEF Known, EntryOf
    <3>. QED BY <2>1, <2>2, <3>2 DEF Known
  <2>. QED BY <1>0, <1>3, <2>1, <2>2 DEF ReadToken
<1>4. CASE Replace
  <2>1. UNCHANGED <<objects, secret, ever, events, pending, toRead>> /\ loaded' = {}
    BY <1>4 DEF Replace, Finished
  <2>2. ASSUME NEW k \in Keys, store'[k] # NoEntry
        PROVE  KeyOf[store'[k].runner] = k /\ Known(ever, store'[k])
    <3>1. store'[k] = Newest(loaded, k) /\ loaded \in SUBSET Entry
      BY <1>4 DEF Replace, Replaced, TypeOK
    <3>. QED BY <2>2, <3>1, NewestType
  <2>. QED BY <2>1, <2>2 DEF Known
<1>5. ASSUME NEW e \in loaded, Update(e) PROVE KnownInv'
  <2>1. /\ UNCHANGED <<objects, secret, ever, events, pending, toRead>>
        /\ (loaded' = loaded \ {e})
        /\ store' = [store EXCEPT ![KeyOf[e.runner]] = e]
    BY <1>5 DEF Update
  <2>2. \A k \in Keys : store'[k] = store[k] \/ (store'[k] = e /\ KeyOf[e.runner] = k)
    BY <2>1 DEF TypeOK
  <2>. QED BY <2>1, <2>2 DEF Known
\* The streams.
<1>6. ASSUME NEW n \in Scopes, NEW left \in Seq(Event), GoesOn(n, left),
             \A i \in DOMAIN left : left[i].spec \in ever[left[i].runner].specs
      PROVE  \A m \in Scopes : \A i \in DOMAIN events'[m] :
               events'[m][i].spec \in ever[events'[m][i].runner].specs
  <2>1. \A m \in Scopes : events'[m] \in {events[m], left, <<>>}
    BY <1>6 DEF GoesOn, TypeOK
  <2>. QED BY <1>6, <2>1
<1>7. ASSUME NEW n \in Scopes, OpenWatch(n) PROVE KnownInv'
  <2>1. PICK initial \in [1..Cardinality(Listing(n)) -> InitialEvents(n)] :
          events' = [events EXCEPT ![n] = initial]
    BY <1>7 DEF OpenWatch
  <2>2. \A i \in DOMAIN initial : initial[i].spec \in ever[initial[i].runner].specs
    <3>1. \A event \in InitialEvents(n) : event.spec \in ever[event.runner].specs
      BY DEF InitialEvents, Listing
    <3>2. \A i \in DOMAIN initial : initial[i] \in InitialEvents(n)
      BY <2>1
    <3>. QED BY <3>1, <3>2
  <2>3. \A m \in Scopes : events'[m] \in {events[m], initial}
    BY <2>1 DEF TypeOK
  <2>4. UNCHANGED <<objects, secret, ever, toRead, loaded, pending, store>>
    BY <1>7 DEF OpenWatch
  <2>. QED BY <2>2, <2>3, <2>4 DEF Known
<1>8. ASSUME NEW n \in Scopes, Receive(n) PROVE KnownInv'
  <2>1. UNCHANGED <<objects, secret, ever, toRead, loaded, store>> /\ events[n] # <<>>
    BY <1>8 DEF Receive
  <2>2. events[n] \in Seq(Event)
    BY DEF TypeOK
  <2>3. /\ Tail(events[n]) \in Seq(Event)
        /\ \A i \in DOMAIN Tail(events[n]) : i + 1 \in DOMAIN events[n] /\ Tail(events[n])[i] = events[n][i + 1]
        /\ Head(events[n]) = events[n][1] /\ 1 \in DOMAIN events[n] /\ Head(events[n]) \in Event
    BY <2>1, <2>2
  <2>4. \A i \in DOMAIN Tail(events[n]) :
          Tail(events[n])[i].spec \in ever[Tail(events[n])[i].runner].specs
    BY <2>3
  <2>5. \A m \in Scopes : \A i \in DOMAIN events'[m] :
          events'[m][i].spec \in ever[events'[m][i].runner].specs
    <3>1. CASE GoesOn(n, Tail(events[n]))
      BY <1>6, <2>3, <2>4, <3>1
    <3>2. CASE events' = [events EXCEPT ![n] = Tail(@)]
      <4>1. \A m \in Scopes : events'[m] \in {events[m], Tail(events[n])}
        BY <3>2 DEF TypeOK
      <4>. QED BY <2>4, <4>1
    <3>. QED BY <1>8, <3>1, <3>2 DEF Receive
  <2>6. \A m \in Scopes : pending'[m].entry # NoEntry => Known(ever, pending'[m].entry)
    <3>. DEFINE event == Head(events[n])
    <3>1. ASSUME NEW token \in secret[event.runner],
                 pending' = [pending EXCEPT ![n] =
                               [type |-> event.type, entry |-> EntryOf(event, token)]]
          PROVE  \A m \in Scopes : pending'[m].entry # NoEntry => Known(ever, pending'[m].entry)
      <4>1. event.runner \in Runners /\ event.spec \in ever[event.runner].specs
        BY <2>3 DEF Event
      <4>2. Known(ever, EntryOf(event, token))
        BY <4>1 DEF Known, EntryOf
      <4>3. \A m \in Scopes : pending'[m] = pending[m] \/ pending'[m].entry = EntryOf(event, token)
        BY <3>1 DEF TypeOK
      <4>. QED BY <4>2, <4>3
    <3>2. CASE UNCHANGED pending
      BY <3>2
    <3>. QED BY <1>8, <3>1, <3>2 DEF Receive
  <2>. QED BY <2>1, <2>5, <2>6 DEF Known
<1>9. ASSUME NEW n \in Scopes, Apply(n) PROVE KnownInv'
  <2>1. UNCHANGED <<objects, secret, ever, toRead, loaded>>
    BY <1>9 DEF Apply
  <2>2. \A m \in Scopes : pending'[m] \in {pending[m], NoPending}
    BY <1>9 DEF Apply, TypeOK
  <2>3. \A k \in Keys : store'[k] \in {store[k], NoEntry}
                      \/ (store'[k] = pending[n].entry /\ KeyOf[pending[n].entry.runner] = k)
    BY <1>9 DEF Apply, TypeOK
  <2>4. events[n] \in Seq(Event) /\ GoesOn(n, events[n])
    BY <1>9 DEF Apply, TypeOK
  <2>5. \A m \in Scopes : \A i \in DOMAIN events'[m] :
          events'[m][i].spec \in ever[events'[m][i].runner].specs
    BY <1>6, <2>4
  <2>. QED BY <2>1, <2>2, <2>3, <2>5 DEF Known, NoPending
<1>10. ASSUME NEW n \in Scopes, CloseWatch(n) PROVE KnownInv'
  <2>1. \A m \in Scopes : events'[m] \in {events[m], <<>>}
    BY <1>10 DEF CloseWatch, TypeOK
  <2>2. UNCHANGED <<objects, secret, ever, toRead, loaded, pending, store>>
    BY <1>10 DEF CloseWatch
  <2>. QED BY <2>1, <2>2 DEF Known
<1>11. CASE ClusterStep
  <2>1. ASSUME NEW r \in Runners, NEW spec \in Specs, PutRunner(r, spec) PROVE KnownInv'
    <3>1. objects'[r] = spec
      BY <2>1 DEF PutRunner, TypeOK
    <3>2. \E type : Notify(r, type, spec)
      BY <2>1 DEF PutRunner
    <3>. QED BY <2>1, <3>1, <3>2, ChangeKnown DEF PutRunner
  <2>2. ASSUME NEW r \in Runners, DeleteRunner(r) PROVE KnownInv'
    BY <2>2, ChangeKnown DEF DeleteRunner
  <2>3. ASSUME NEW r \in Runners, NEW tokens \in SUBSET Tokens, PutSecret(r, tokens) PROVE KnownInv'
    BY <2>3, ChangeKnown DEF PutSecret
  <2>. QED BY <1>11, <2>1, <2>2, <2>3 DEF ClusterStep
<1>12. CASE UNCHANGED vars
  BY <1>0, <1>12 DEF vars
<1>. QED BY <1>1, <1>2, <1>3, <1>4, <1>5, <1>7, <1>8, <1>9, <1>10, <1>11, <1>12
         DEF Next, ResyncStep, WatcherStep

\* What is known under a key has been asked for.
LEMMA AskedIs ==
  ASSUME TypeOK, NEW k \in Keys
  PROVE  /\ Asked(k) \in SUBSET Entry
         /\ \A e \in Entry : KeyOf[e.runner] = k /\ Known(ever, e) => e \in Asked(k)
<1>1. \A r \in Runners : ever[r].specs \subseteq Specs \union {NoSpec} /\ ever[r].tokens \subseteq Tokens
  BY DEF TypeOK, Past
<1>2. Asked(k) \in SUBSET Entry
  BY <1>1 DEF Asked, Named, Entry
<1>3. ASSUME NEW e \in Entry, KeyOf[e.runner] = k, Known(ever, e) PROVE e \in Asked(k)
  <2>1. /\ e.runner \in Named(k) /\ e.spec \in ever[e.runner].specs \ {NoSpec}
        /\ e.token \in ever[e.runner].tokens
    BY <1>3, NothingAssumption DEF Known, Named, Entry
  <2>2. e = [runner |-> e.runner, spec |-> e.spec, token |-> e.token]
    BY DEF Entry
  <2>. QED BY <2>1, <2>2 DEF Asked
<1>. QED BY <1>2, <1>3

\* The last listed of some runners.
LEMMA LastListed ==
  ASSUME NEW live \in SUBSET Runners, live # {}
  PROVE  \E r \in live : \A s \in live : FromEnd[r] <= FromEnd[s]
<1>. DEFINE places == {FromEnd[r] : r \in live}
<1>1. places \subseteq Nat /\ places # {}
  BY ShapeAssumption
<1>2. PICK p \in places : \A q \in places : ~(<<q, p>> \in Less)
  <2>. HIDE DEF places
  <2>. QED BY <1>1, LessIsWellFounded, WFMin
<1>3. ASSUME NEW q \in places PROVE p <= q
  <2>. HIDE DEF places
  <2>1. p \in Nat /\ q \in Nat /\ <<q, p>> \notin Less
    BY <1>1, <1>2
  <2>2. ~(<<q, p>>[1] < <<q, p>>[2])
    BY <2>1 DEF Less
  <2>. QED BY <2>1, <2>2
<1>. QED BY <1>3

LEMMA WantedAsked ==
  ASSUME TypeOK, KnownInv
  PROVE  Desired!Asked
<1>1. ASSUME NEW k \in Keys PROVE Wanted(k) \in Asked(k) \union {NoEntry, Unspecified}
  <2>. DEFINE live == {r \in Named(k) : objects[r] # NoSpec}
              last == CHOOSE r \in live : \A s \in live : FromEnd[r] <= FromEnd[s]
              token == CHOOSE token \in secret[last] : TRUE
  <2>1. Wanted(k) = IF ~Readable THEN Unspecified
                    ELSE IF live = {} THEN NoEntry
                    ELSE IF secret[last] # {token} THEN Unspecified
                    ELSE [runner |-> last, spec |-> objects[last], token |-> token]
    BY DEF Wanted
  <2>2. ASSUME live # {}, secret[last] = {token}
        PROVE  [runner |-> last, spec |-> objects[last], token |-> token] \in Asked(k)
    <3>1. \E r \in live : \A s \in live : FromEnd[r] <= FromEnd[s]
      <4>1. live \in SUBSET Runners
        BY DEF Named
      <4>. HIDE DEF live
      <4>. QED BY <2>2, <4>1, LastListed
    <3>2. last \in live
      BY <3>1
    <3>. HIDE DEF last, token
    <3>3. last \in Runners /\ KeyOf[last] = k /\ objects[last] # NoSpec
      BY <3>2 DEF Named
    <3>4. objects[last] \in Specs /\ objects[last] \in ever[last].specs
      BY <3>3 DEF TypeOK, KnownInv
    <3>5. token \in Tokens /\ token \in ever[last].tokens
      BY <2>2, <3>3 DEF TypeOK, KnownInv
    <3>6. last \in Named(k) /\ objects[last] \in ever[last].specs \ {NoSpec}
      BY <3>3, <3>4 DEF Named
    <3>. QED BY <3>5, <3>6 DEF Asked
  <2>. HIDE DEF live, last, token
  <2>. QED BY <2>1, <2>2
<1>2. \A k \in Keys : Asked(k) \in SUBSET Entry
  BY AskedIs
<1>. QED BY <1>1, <1>2 DEF Desired!Asked

LEMMA InitRefines == Init => Desired!Init
<1>. SUFFICES ASSUME Init PROVE Desired!Init
  OBVIOUS
<1>1. Desired!Asked
  BY InitType, InitKnown, WantedAsked
<1>. QED BY <1>1 DEF Desired!Init, Init

LEMMA NextRefines == TypeOK /\ TypeOK' /\ KnownInv /\ KnownInv' /\ [Next]_vars
                       => [Desired!Next]_(Desired!vars)
<1>. SUFFICES ASSUME TypeOK, TypeOK', KnownInv, KnownInv', [Next]_vars
              PROVE  [Desired!Next]_(Desired!vars)
  OBVIOUS
<1>1. ASSUME UNCHANGED <<objects, secret, ever>> PROVE Desired!Next
  <2>1. UNCHANGED <<[k \in Keys |-> Wanted(k)], [k \in Keys |-> Asked(k)]>>
    BY <1>1 DEF Wanted, Asked, Readable
  <2>2. ASSUME NEW k \in Keys PROVE store'[k] \in Asked(k) \union {NoEntry}
    <3>1. store'[k] # NoEntry => store'[k] \in Entry /\ KeyOf[store'[k].runner] = k /\ Known(ever, store'[k])
      BY <1>1 DEF TypeOK, KnownInv, Known
    <3>. QED BY <3>1, AskedIs
  <2>3. store' \in [Keys -> Entry \union {NoEntry}]
    BY DEF TypeOK
  <2>4. Desired!Deploy(Keys)
    BY <2>1, <2>2, <2>3 DEF Desired!Deploy
  <2>. QED BY <2>4 DEF Desired!Next
<1>2. CASE ClusterStep
  <2>1. Change
    BY <1>2 DEF ClusterStep, PutRunner, DeleteRunner, PutSecret
  <2>2. ever' = And(ever, objects', secret') /\ store' = store
    BY <2>1 DEF Change
  <2>3. \A r \in Runners : ever[r].specs \subseteq ever'[r].specs /\ ever[r].tokens \subseteq ever'[r].tokens
    BY <2>2, AndType DEF TypeOK
  <2>4. \A k \in Keys : Asked(k) \subseteq Asked(k)'
    BY <2>3 DEF Asked, Named
  <2>5. Desired!Asked'
    BY WantedAsked, PTL
  <2>. QED BY <2>2, <2>4, <2>5 DEF Desired!Next, Desired!Ask
<1>3. CASE ResyncStep
  BY <1>1, <1>3 DEF ResyncStep, Resync, List, ReadToken, Replace, KeepOld, Update, Updated,
                    Finished, cluster, history
<1>4. ASSUME NEW n \in Scopes, WatcherStep(n) \/ CloseWatch(n) PROVE Desired!Next
  BY <1>1, <1>4 DEF WatcherStep, OpenWatch, Receive, Apply, CloseWatch, cluster, history
<1>5. CASE UNCHANGED vars
  BY <1>1, <1>5 DEF vars, cluster, history
<1>. QED BY <1>2, <1>3, <1>4, <1>5 DEF Next

(***************************************************************************)
(* The cache never holds what no runner of that name has ever been, nor a  *)
(* token its secret has never held, however old the events and the copies  *)
(* are that are written to it: each step is one DesiredState allows.       *)
(***************************************************************************)
THEOREM NeverMakesThingsUp == Spec => Desired!Init /\ [][Desired!Next]_(Desired!vars)
<1>1. TypeOK /\ KnownInv /\ [Next]_vars => TypeOK' /\ KnownInv'
  BY NextType, NextKnown
<1>2. TypeOK /\ TypeOK' /\ KnownInv /\ KnownInv' /\ [Next]_vars => [Desired!Next]_(Desired!vars)
  BY NextRefines
<1>. QED BY <1>1, <1>2, InitType, InitKnown, InitRefines, PTL DEF Spec

=============================================================================
