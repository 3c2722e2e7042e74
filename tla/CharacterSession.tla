-------------------------- MODULE CharacterSession --------------------------
(***************************************************************************)
(* One user's tabs on one character (web/src/characters/session.ts), the   *)
(* store they share in the browser (store.ts, IndexedDB), the lock that    *)
(* gives editing to one of them (coordination.ts), and the server, which   *)
(* keeps the promise of ExactlyOnce.                                        *)
(*                                                                         *)
(* An edit is queued in the store, frozen into a request with its own key, *)
(* sent until the server answers, and acknowledged: the answer replaces    *)
(* the cached sheet and retires the edit in one transaction.  The drain    *)
(* does this one edit at a time; user actions, messages of other tabs and  *)
(* a refresh outside the drain interleave with it wherever it awaits.      *)
(***************************************************************************)
EXTENDS Naturals, Sequences, FiniteSets

CONSTANTS
  Tabs,          \* tabs of one browser profile
  Intents,       \* edits the user may make
  Earlier,       \* edits an earlier visit may have left in the queue
  None,          \* no tab, no snapshot, nothing answered yet
  Other,         \* marks a revision somebody else made
  MaxForeign,    \* bound on the edits of others
  MaxReviews,    \* bound on how often an edit is applied again
  MaxEvents      \* bound on faults and on what the user does beside editing

VARIABLES
  history,       \* the server: what made each revision
  receipt,       \* the server: outcome of each key
  access,        \* the server: the user may read the sheet
  net,           \* requests that may still reach the server
  store,         \* the rows of the character in IndexedDB
  lock,          \* the tab that holds the Web Lock
  session,       \* the tabs
  told,          \* tabs with an invalidation message to read
  online,        \* connected, with a verified account
  order,         \* the sequence number of each edit, 0 while it is not made
  grounds,       \* history: foreign revisions an edit was made or reviewed on
  accepted,      \* history: edits whose caller was told they are saved
  reviewed,      \* history: edits the user discarded or applied again
  purged,        \* history: edits deleted with the access to their sheet
  events

serverVars == <<history, receipt, access, net>>
userVars   == <<order, grounds, accepted, reviewed, purged>>
sessionVars == <<history, receipt, access, net, store, lock, session, told, online,
          order, grounds, accepted, reviewed, purged, events>>

(* An entry of the queue has one key for ever; applying it again makes     *)
(* another one.                                                             *)
UserEdits == Intents \cup Earlier
Ids == UserEdits \X (0..MaxReviews)

Entry == [id : Ids, base : Nat, frozen : BOOLEAN]
Ask   == [id : Ids, base : Nat]

Snapshot == Nat \cup {None}

ASSUME SessionAssumption ==
  /\ IsFiniteSet(UserEdits)
  /\ None \notin Tabs /\ None \notin Nat /\ None \notin Entry
  /\ Other \notin Ids
  /\ MaxForeign \in Nat /\ MaxReviews \in Nat /\ MaxEvents \in Nat

(* The drain rests, waits for its retry timer, or is at one of its awaits. *)
Stage == {"rest", "timer", "pass", "fresh", "refetch", "entry", "freezing", "sending"}

SessionType == [
  open       : BOOLEAN,
  owned      : BOOLEAN,         \* editing.owned and coordination.isOwner()
  confirmed  : Snapshot,
  entries    : SUBSET Entry,
  writing    : SUBSET [entry : Entry, guard : Nat],  \* enqueue transactions under way
  generation : Nat,
  error      : {"none", "conflict", "invalid", "network", "purged", "storage"},
  stage      : Stage,
  view       : Snapshot,        \* what the GET of the drain was answered
  front      : Entry \cup {None}, \* the entry processEntry works on
  guard      : Nat,             \* generationAtSend
  needsFresh : BOOLEAN,
  refetch    : BOOLEAN,         \* conflictRefreshPending
  side       : {"none", "forgetting", "refreshing"},
  sideView   : Snapshot]        \* what the GET of refresh() was answered

(* One drain, which works on one thing. *)
Coherent(s) ==
  /\ s.front # None <=> s.stage \in {"entry", "freezing", "sending"}
  /\ s.view # None => s.stage \in {"fresh", "refetch"}

SessionTypeOK ==
  /\ history \in Seq(Ids \cup {Other})
  /\ receipt \in [Ids -> [outcome : {"none", "applied", "refused", "conflict"}, revision : Nat]]
  /\ access \in BOOLEAN /\ online \in BOOLEAN
  /\ net \in SUBSET Ask
  /\ store \in [confirmed : Snapshot, generation : Nat, queue : SUBSET Entry]
  /\ lock \in Tabs \cup {None}
  /\ session \in [Tabs -> SessionType]
  /\ told \in SUBSET Tabs
  /\ order \in [UserEdits -> Nat]
  /\ grounds \in [Ids -> Nat]
  /\ accepted \in SUBSET Ids /\ reviewed \in SUBSET Ids /\ purged \in SUBSET Ids
  /\ events \in Nat
  /\ \A t \in Tabs : Coherent(session[t])

Closed ==
  [open |-> FALSE, owned |-> FALSE, confirmed |-> None, entries |-> {}, writing |-> {},
   generation |-> 0, error |-> "none", stage |-> "rest", view |-> None, front |-> None, guard |-> 0,
   needsFresh |-> TRUE, refetch |-> FALSE, side |-> "none", sideView |-> None]

Revision == Len(history)

(* Nothing is cached yet, or an earlier visit left the sheet, perhaps with *)
(* an edit: not sent yet, or sent without an answer.                        *)
SessionInit ==
  /\ history = << >>
  /\ receipt = [id \in Ids |-> [outcome |-> "none", revision |-> 0]]
  /\ access = TRUE /\ online = TRUE
  /\ lock = None
  /\ session = [t \in Tabs |-> Closed]
  /\ told = {}
  /\ grounds = [id \in Ids |-> 0]
  /\ reviewed = {} /\ purged = {}
  /\ events = 0
  /\ \/ /\ \E cached \in {None, 0} :
             store = [confirmed |-> cached, generation |-> 0, queue |-> {}]
        /\ order = [i \in UserEdits |-> 0]
        /\ accepted = {}
        /\ net = {}
     \/ \E i \in Earlier, sent \in BOOLEAN :
          LET e == [id |-> <<i, 0>>, base |-> 0, frozen |-> sent]
          IN  /\ store = [confirmed |-> 0, generation |-> 0, queue |-> {e}]
              /\ order = [j \in UserEdits |-> IF j = i THEN 1 ELSE 0]
              /\ accepted = {e.id}
              /\ net \in {{}, IF sent THEN {[id |-> e.id, base |-> 0]} ELSE {}}

Event == events < MaxEvents /\ events' = events + 1

IdsOf(queue) == {e.id : e \in queue}

(* The queue is kept in the order in which the edits were made. *)
Number(e) == order[e.id[1]]
First(queue) == {e \in queue : \A f \in queue : Number(e) <= Number(f)}
Last(queue) == {e \in queue : \A f \in queue : Number(f) <= Number(e)}

Update(t, s) == session' = [session EXCEPT ![t] = s]

(* coordination.invalidate(): the other tabs are told. *)
Tell(t) == told' = told \cup {u \in Tabs \ {t} : session[u].open}

Resting(s) == [s EXCEPT !.stage = "rest", !.view = None, !.front = None]

(* Mutant: another drain starts beside the one that is under way. *)
AwakeAnyway(s) == [s EXCEPT !.stage = "pass"]
(* scheduleDrain() *)
Awake(s) == IF s.stage \in {"rest", "timer"} THEN [s EXCEPT !.stage = "pass"] ELSE s

(* setBlocked(), which also drops the retry timer. *)
Blocked(s, kind) ==
  [s EXCEPT !.error = kind, !.stage = IF @ = "timer" THEN "rest" ELSE @]

(* Mutant: the tab takes the cached sheet and keeps its own queue. *)
AdoptedInPart(s) == [s EXCEPT !.confirmed = store.confirmed, !.generation = store.generation]
(* The tab takes what the store has. *)
Adopted(s) ==
  [s EXCEPT !.confirmed = store.confirmed, !.entries = store.queue, !.generation = store.generation]

(* handleAckError() after a write whose guard was stale. *)
Overtaken(s) ==
  Blocked(Adopted(s), IF store.confirmed = None THEN "purged" ELSE "conflict")

----------------------------------------------------------------------------
(* The server.  A request with an answered key is answered the same again. *)

(* Mutant: only a refusal is remembered. *)
RefusalsRemembered(id) == receipt[id].outcome = "refused"
Answered(id) == receipt[id].outcome # "none"

Serve(r) ==
  /\ r \in net
  /\ net' = net \ {r}
  /\ \/ /\ Answered(r.id) \/ ~ access
        /\ UNCHANGED <<history, receipt>>
     \/ /\ ~ Answered(r.id) /\ access
        /\ \/ /\ r.base = Revision
              /\ history' = Append(history, r.id)
              /\ receipt' = [receipt EXCEPT ![r.id] = [outcome |-> "applied", revision |-> Revision + 1]]
           \/ /\ r.base = Revision
              /\ receipt' = [receipt EXCEPT ![r.id].outcome = "refused"]
              /\ UNCHANGED history
           \/ /\ r.base # Revision
              /\ receipt' = [receipt EXCEPT ![r.id].outcome = "conflict"]
              /\ UNCHANGED history
  /\ UNCHANGED <<access, store, lock, session, told, online, userVars, events>>

ForeignMade(n) == Cardinality({m \in 1..n : history[m] = Other})

(* Somebody else edits the sheet, or takes it away, which is an edit too   *)
(* (Custody), or gives it back.                                             *)
ForeignEdit ==
  /\ ForeignMade(Revision) < MaxForeign
  /\ history' = Append(history, Other)
  /\ access' \in BOOLEAN
  /\ UNCHANGED <<receipt, net, store, lock, session, told, online, userVars, events>>

----------------------------------------------------------------------------
(* A tab opens, gets the lock, is asked for it, gives it up, is closed.     *)

Open(t) ==
  /\ ~ session[t].open
  /\ Update(t, [Adopted(Closed) EXCEPT !.open = TRUE])
  /\ UNCHANGED <<serverVars, store, lock, told, online, userVars, events>>

Acquire(t) ==
  /\ session[t].open
  /\ lock = None
  /\ lock' = t
  /\ Update(t, Awake([Adopted(session[t]) EXCEPT !.owned = TRUE, !.needsFresh = TRUE]))
  /\ UNCHANGED <<serverVars, store, told, online, userVars, events>>

(* release(): no edit is accepted from here on. *)
SteppedDown(s) == [s EXCEPT !.owned = FALSE, !.stage = IF @ = "timer" THEN "rest" ELSE @]

Takeover(t) ==
  /\ Event
  /\ session[t].open /\ lock \in Tabs \ {t} /\ session[lock].owned
  /\ Update(lock, SteppedDown(session[lock]))
  /\ UNCHANGED <<serverVars, store, lock, told, online, userVars>>

(* Mutant: the lock is given up before the drain has come to rest. *)
QuietAtOnce(s) == TRUE
(* The quiesce callback. *)
Quiet(s) == s.stage \in {"rest", "timer"} /\ s.writing = {}

LetGo(t) ==
  /\ lock = t /\ ~ session[t].owned
  /\ Quiet(session[t])
  /\ lock' = None
  /\ UNCHANGED <<serverVars, store, session, told, online, userVars, events>>

CloseTab(t) ==
  /\ Event
  /\ session[t].open
  /\ Update(t, Closed)
  /\ lock' = IF lock = t THEN None ELSE lock
  /\ told' = told \ {t}
  /\ UNCHANGED <<serverVars, store, online, userVars>>

GoOffline ==
  /\ Event
  /\ online /\ online' = FALSE
  /\ session' = [t \in Tabs |-> [session[t] EXCEPT !.needsFresh = TRUE]]
  /\ UNCHANGED <<serverVars, store, lock, told, userVars>>

(* Mutant: the pause is cleared and no drain is scheduled. *)
ReconnectedIdle(s) == [s EXCEPT !.error = IF @ = "network" THEN "none" ELSE @]
Reconnected(s) ==
  LET u == [s EXCEPT !.error = IF @ = "network" THEN "none" ELSE @]
  IN  IF u.open /\ u.error = "none" THEN Awake(u) ELSE u

GoOnline ==
  /\ ~ online /\ online' = TRUE
  /\ session' = [t \in Tabs |-> Reconnected(session[t])]
  /\ UNCHANGED <<serverVars, store, lock, told, userVars, events>>

(* Another tab wrote: take its state, unless it is not newer than ours. *)
Invalidated(t) ==
  /\ t \in told
  /\ told' = told \ {t}
  /\ LET s == session[t]
         known == store.generation < s.generation \/ (s.owned /\ store.generation = s.generation)
     IN  Update(t, IF known THEN s
                   ELSE IF store.confirmed = None THEN Blocked(Adopted(s), "purged")
                   ELSE Adopted(s))
  /\ UNCHANGED <<serverVars, store, lock, online, userVars, events>>

----------------------------------------------------------------------------
(* An edit is shown at once, and saved. *)

(* baseForNewEntry() *)
BaseOfLast(s) == IF s.entries = {} THEN {s.confirmed} ELSE {e.base : e \in Last(s.entries)}

Edit(t, i) ==
  LET s == session[t]
  IN  /\ s.owned /\ s.error = "none" /\ s.confirmed # None
      /\ order[i] = 0
      /\ order' = [order EXCEPT ![i] = Cardinality({j \in UserEdits : order[j] > 0}) + 1]
      /\ grounds' = [grounds EXCEPT ![<<i, 0>>] = ForeignMade(s.confirmed)]
      /\ \E base \in BaseOfLast(s) :
           LET e == [id |-> <<i, 0>>, base |-> base, frozen |-> FALSE]
           IN  Update(t, Awake([s EXCEPT !.entries = @ \cup {e},
                                         !.writing = @ \cup {[entry |-> e, guard |-> s.generation]}]))
      /\ UNCHANGED <<serverVars, store, lock, told, online, accepted, reviewed, purged, events>>

(* Mutant: the queue is written whatever happened to the cached sheet. *)
Unguarded(guard) == TRUE
Guarded(guard) == store.generation = guard

Without(queue, id) == {e \in queue : e.id # id}

(* Transactions on one store run in the order in which they were asked for. *)
Writes(s) == {w \in s.writing : \A v \in s.writing : Number(w.entry) <= Number(v.entry)}

EnqueueCommits(t) ==
  LET s == session[t]
  IN  \E w \in Writes(s) :
        /\ Guarded(w.guard)
        /\ store' = [store EXCEPT !.queue = @ \cup {w.entry}]
        /\ accepted' = accepted \cup {w.entry.id}
        /\ Update(t, [s EXCEPT !.writing = @ \ {w}])
        /\ Tell(t)
        /\ UNCHANGED <<serverVars, lock, online, order, grounds, reviewed, purged, events>>

(* The caller is told that the edit was not saved. *)
EnqueueFails(t) ==
  LET s == session[t]
  IN  \E w \in Writes(s) :
        /\ ~ Guarded(w.guard)
        /\ LET u == [s EXCEPT !.writing = @ \ {w}]
           IN  Update(t, Overtaken(IF s.stage = "entry" /\ s.front.id = w.entry.id THEN Resting(u) ELSE u))
        /\ UNCHANGED <<serverVars, store, lock, told, online, userVars, events>>

----------------------------------------------------------------------------
(* Access is gone: everything about the sheet is deleted, in the store and *)
(* in the tab, which then gives the lock back.                              *)

PurgeAccess(t, s) ==
  /\ online /\ ~ access
  /\ store' = [confirmed |-> None, generation |-> store.generation + 1, queue |-> {}]
  /\ purged' = purged \cup IdsOf(store.queue)
  /\ Update(t, [Blocked(s, "purged") EXCEPT !.confirmed = None, !.entries = {}, !.owned = FALSE])
  /\ Tell(t)
  /\ UNCHANGED <<history, receipt, access, lock, online, order, grounds, accepted, reviewed>>

Fetching(s) == s.stage \in {"fresh", "refetch"} /\ s.view = None

(* A GET of the drain, its send or the GET of refresh() is denied. *)
Denied(t) ==
  LET s == session[t]
  IN  /\ \/ /\ Fetching(s)
            /\ PurgeAccess(t, Resting(s))
            /\ UNCHANGED net
         \/ /\ s.stage = "sending"
            /\ PurgeAccess(t, Resting(s))
            /\ net' = net \ {[id |-> s.front.id, base |-> s.front.base]}
         \/ /\ s.side = "refreshing" /\ s.sideView = None
            /\ PurgeAccess(t, [s EXCEPT !.side = "none"])
            /\ UNCHANGED net
      /\ UNCHANGED events

(* The activity page is denied, which any tab may ask for. *)
ActivityDenied(t) ==
  /\ Event
  /\ session[t].open
  /\ PurgeAccess(t, session[t])
  /\ UNCHANGED net

----------------------------------------------------------------------------
(* reconcileSnapshot(): what the answer v of a GET does to the tab.  The   *)
(* cached sheet may have been purged or written meanwhile.                  *)

Gone(s) == store.confirmed = None /\ (s.confirmed # None \/ s.error = "purged")

Overtook(s) == ~ Gone(s) /\ store.generation # s.generation

(* Mutant: the answer is taken however old it is. *)
NeverBehind(s, v) == FALSE
Behind(s, v) == ~ Gone(s) /\ ~ Overtook(s) /\ s.confirmed # None /\ v < s.confirmed

Confirms(s, v) ==
  ~ Gone(s) /\ ~ Overtook(s) /\ ~ Behind(s, v) /\ v # s.confirmed

(* The view is newer than what was stored meanwhile: it is fetched again. *)
Again(s, v) ==
  /\ Overtook(s) /\ online /\ s.owned /\ s.error # "purged"
  /\ store.confirmed # None /\ v > store.confirmed

Drifted(s, v) ==
  \/ s.confirmed # None /\ v # s.confirmed
  \/ \E e \in s.entries : e.base # v /\ (s.confirmed = None \/ ~ e.frozen)

Confirmed(s, v) ==
  LET u == IF Confirms(s, v) THEN [s EXCEPT !.confirmed = v, !.generation = @ + 1] ELSE s
  IN  IF Drifted(s, v) /\ s.entries # {} THEN Blocked(u, "conflict") ELSE u

Reconciled(s, v) ==
  IF Gone(s) \/ (Overtook(s) /\ store.confirmed = None) THEN Blocked(Adopted(s), "purged")
  ELSE IF Overtook(s) THEN Adopted(s)
  ELSE IF Behind(s, v) THEN Blocked(s, "network")
  ELSE Confirmed(s, v)

(* confirmSnapshot(), and the message to the other tabs. *)
Saves(t, v) ==
  IF Confirms(session[t], v)
  THEN /\ store' = [store EXCEPT !.confirmed = v, !.generation = @ + 1]
       /\ Tell(t)
  ELSE UNCHANGED <<store, told>>

----------------------------------------------------------------------------
(* runDrainPass()                                                           *)

Writing(s, id) == \E w \in s.writing : w.entry.id = id

(* processEntry(), up to its first await after the entry has been saved. *)
Begun(s, f) ==
  IF ~ online \/ ~ s.owned THEN Resting(s)
  ELSE IF s.confirmed # None /\ f.base # s.confirmed THEN Resting(Blocked(s, "conflict"))
  ELSE [s EXCEPT !.stage = "freezing", !.front = f]

Stopped(s) == s.error # "none" \/ ~ s.owned
Refetches(s) == ~ Stopped(s) /\ s.refetch /\ online
(* An attempt without an answer is sent again before anything is fetched. *)
Refreshes(s) ==
  /\ ~ Stopped(s) /\ ~ Refetches(s) /\ s.needsFresh /\ online
  /\ \A e \in First(s.entries) : ~ e.frozen

Pass(t) ==
  LET s == session[t]
  IN  /\ s.stage = "pass"
      /\ \/ Stopped(s) /\ Update(t, Resting(s))
         \/ Refetches(s) /\ Update(t, [s EXCEPT !.stage = "refetch"])
         \/ Refreshes(s) /\ Update(t, [s EXCEPT !.stage = "fresh"])
         \/ /\ ~ Stopped(s) /\ ~ Refetches(s) /\ ~ Refreshes(s)
            /\ \/ s.entries = {} /\ Update(t, Resting(s))
               \/ \E f \in First(s.entries) :
                    Update(t, IF Writing(s, f.id) THEN [s EXCEPT !.stage = "entry", !.front = f]
                              ELSE Begun(s, f))
      /\ UNCHANGED <<serverVars, store, lock, told, online, userVars, events>>

EntrySaved(t) ==
  LET s == session[t]
  IN  /\ s.stage = "entry"
      /\ ~ Writing(s, s.front.id)
      /\ Update(t, Begun([s EXCEPT !.front = None], s.front))
      /\ UNCHANGED <<serverVars, store, lock, told, online, userVars, events>>

Froze(queue, id) == {IF e.id = id THEN [e EXCEPT !.frozen = TRUE] ELSE e : e \in queue}

MaySend(s) == online /\ s.owned

Freeze(t) ==
  LET s == session[t]
      f == s.front
      u == [s EXCEPT !.entries = Froze(@, f.id)]
  IN  /\ s.stage = "freezing"
      /\ IF ~ f.frozen /\ \A e \in store.queue : e.id = f.id => e.frozen
         THEN /\ Update(t, Resting(Blocked(s, "storage")))
              /\ UNCHANGED <<store, net>>
         ELSE /\ store' = [store EXCEPT !.queue = Froze(@, f.id)]
              /\ IF MaySend(s)
                 THEN /\ net' = net \cup {[id |-> f.id, base |-> f.base]}
                      /\ Update(t, [u EXCEPT !.stage = "sending", !.guard = s.generation])
                 ELSE Update(t, Resting(u)) /\ UNCHANGED net
      /\ UNCHANGED <<history, receipt, access, lock, told, online, userVars, events>>

(* The answer is lost or never comes; the request may still arrive. *)
SendFails(t) ==
  /\ session[t].stage = "sending"
  /\ IF online THEN Event ELSE UNCHANGED events
  /\ Update(t, [Resting(session[t]) EXCEPT !.stage = "timer"])
  /\ UNCHANGED <<serverVars, store, lock, told, online, userVars>>

TimerFires(t) ==
  /\ session[t].stage = "timer"
  /\ Update(t, Awake(session[t]))
  /\ UNCHANGED <<serverVars, store, lock, told, online, userVars, events>>

(* Mutant: every edit that waits moves to the revision the answer names. *)
FollowsAnyway(e, f) == ~ e.frozen
(* Only an edit made on top of the acknowledged one does. *)
Follows(e, f) == ~ e.frozen /\ Number(f) < Number(e) /\ e.base = f.base

Settled(queue, f, revision) ==
  {IF Follows(e, f) THEN [e EXCEPT !.base = revision] ELSE e : e \in Without(queue, f.id)}

(* Mutant: any final answer retires the edit. *)
RetiresAll(outcome) == outcome # "none"
Retires(outcome) == outcome = "applied"

Acknowledged(t) ==
  LET s == session[t]
      r == receipt[s.front.id].revision
  IN  /\ s.stage = "sending"
      /\ Retires(receipt[s.front.id].outcome) /\ access
      /\ IF Guarded(s.guard)
         THEN /\ store' = [confirmed |-> r, generation |-> store.generation + 1,
                           queue |-> Settled(store.queue, s.front, r)]
              /\ Update(t, [Resting(s) EXCEPT !.confirmed = r, !.generation = @ + 1,
                              !.entries = Settled(@, s.front, r), !.stage = "pass"])
              /\ Tell(t)
         ELSE /\ Update(t, Resting(Overtaken(s)))
              /\ UNCHANGED <<store, told>>
      /\ UNCHANGED <<serverVars, lock, online, userVars, events>>

(* The rules refused the edit, or the sheet had moved on. *)
Refused(t) ==
  LET s == session[t]
      outcome == receipt[s.front.id].outcome
  IN  /\ s.stage = "sending" /\ access
      /\ \/ /\ outcome = "refused"
            /\ Update(t, Resting(Blocked(s, "invalid")))
         \/ /\ outcome = "conflict"
            /\ Update(t, IF MaySend(s) THEN [Resting(s) EXCEPT !.stage = "refetch", !.refetch = TRUE]
                         ELSE Resting(s))
      /\ UNCHANGED <<serverVars, store, lock, told, online, userVars, events>>

(* A GET of the drain is answered. *)
Fetched(t) ==
  /\ Fetching(session[t])
  /\ online /\ access
  /\ Update(t, [session[t] EXCEPT !.view = Revision])
  /\ UNCHANGED <<serverVars, store, lock, told, online, userVars, events>>

FetchFails(t) ==
  /\ Fetching(session[t])
  /\ IF online THEN Event ELSE UNCHANGED events
  /\ Update(t, Resting(Blocked(session[t], "network")))
  /\ UNCHANGED <<serverVars, store, lock, told, online, userVars>>

(* reconcileFresh() returns early. *)
FreshSkipped(t) ==
  LET s == session[t]
  IN  /\ s.stage = "fresh" /\ s.view = None /\ ~ MaySend(s)
      /\ Update(t, [s EXCEPT !.stage = "pass", !.needsFresh = FALSE])
      /\ UNCHANGED <<serverVars, store, lock, told, online, userVars, events>>

AfterFresh(s) ==
  IF s.error # "none" THEN Resting(s)
  ELSE [Resting(s) EXCEPT !.stage = "pass", !.needsFresh = FALSE]

FreshArrives(t) ==
  LET s == session[t]
      u == Reconciled(s, s.view)
  IN  /\ s.stage = "fresh" /\ s.view # None
      /\ Saves(t, s.view)
      /\ Update(t, IF Again(s, s.view) THEN [u EXCEPT !.view = None] ELSE AfterFresh(u))
      /\ UNCHANGED <<serverVars, lock, online, userVars, events>>

(* A conflict stands until the user has reviewed it. *)
AfterRefetch(s) ==
  LET u == [Resting(s) EXCEPT !.refetch = @ /\ s.error \notin {"none", "conflict"}]
  IN  IF s.error = "none" THEN Blocked(u, "conflict") ELSE u

RefetchArrives(t) ==
  LET s == session[t]
      u == Reconciled(s, s.view)
  IN  /\ s.stage = "refetch" /\ s.view # None
      /\ IF s.confirmed # None /\ s.view < s.confirmed
         THEN /\ Update(t, Resting(Blocked(s, "network")))
              /\ UNCHANGED <<store, told>>
         ELSE /\ Saves(t, s.view)
              /\ Update(t, IF Again(s, s.view) THEN [u EXCEPT !.view = None] ELSE AfterRefetch(u))
      /\ UNCHANGED <<serverVars, lock, online, userVars, events>>

----------------------------------------------------------------------------
(* Beside the drain: refresh(), forgetRoll(), resolveConflict().            *)

Refresh(t) ==
  LET s == session[t]
  IN  /\ Event
      /\ MaySend(s) /\ s.side = "none"
      /\ s.confirmed # None /\ s.entries = {} /\ s.error = "none"
      /\ Update(t, [s EXCEPT !.side = "refreshing", !.sideView = None])
      /\ UNCHANGED <<serverVars, store, lock, told, online, userVars>>

RefreshAnswered(t) ==
  LET s == session[t]
  IN  /\ s.side = "refreshing" /\ s.sideView = None
      /\ \/ /\ online /\ access
            /\ Update(t, [s EXCEPT !.sideView = Revision])
         \/ /\ ~ online
            /\ Update(t, [Blocked(s, "network") EXCEPT !.side = "none"])
      /\ UNCHANGED <<serverVars, store, lock, told, online, userVars, events>>

RefreshArrives(t) ==
  LET s == session[t]
      u == Reconciled(s, s.sideView)
  IN  /\ s.side = "refreshing" /\ s.sideView # None
      /\ Saves(t, s.sideView)
      /\ Update(t, [u EXCEPT !.sideView = None,
                             !.side = IF Again(s, s.sideView) THEN @ ELSE "none"])
      /\ UNCHANGED <<serverVars, lock, online, userVars, events>>

(* A push took the roll away: what is stored of it goes, in any tab. *)
ForgetRoll(t) ==
  LET s == session[t]
  IN  /\ Event
      /\ s.open /\ s.side = "none" /\ s.confirmed # None
      /\ store' = [store EXCEPT !.generation = @ + 1]
      /\ Update(t, [s EXCEPT !.side = "forgetting"])
      /\ UNCHANGED <<serverVars, lock, told, online, userVars>>

RollForgotten(t) ==
  LET s == session[t]
      u == [s EXCEPT !.side = "none"]
  IN  /\ s.side = "forgetting"
      /\ IF store.generation < s.generation
         THEN Update(t, u) /\ UNCHANGED told
         ELSE Update(t, Adopted(u)) /\ Tell(t)
      /\ UNCHANGED <<serverVars, store, lock, online, userVars, events>>

(* The user discards the first edits that wait for a review, or applies    *)
(* them again to the sheet as it is now, under new keys.                    *)
Unmatched(s) == {e \in s.entries : e.base # s.confirmed}
ReviewSet(s) == IF Unmatched(s) # {} THEN Unmatched(s) ELSE s.entries

(* Mutant: what is applied again keeps its key. *)
RenewedInPlace(e, base) == [e EXCEPT !.base = base, !.frozen = FALSE]
Renewed(e, base) == [id |-> <<e.id[1], e.id[2] + 1>>, base |-> base, frozen |-> FALSE]

Selections(s) ==
  {chosen \in SUBSET ReviewSet(s) :
     /\ \A e \in chosen, f \in ReviewSet(s) : Number(f) < Number(e) => f \in chosen
     /\ chosen = {} => s.entries = {}}

Review(t, again) ==
  LET s == session[t]
  IN  /\ s.owned /\ s.stage = "rest" /\ ~ s.refetch
      /\ s.error \in {"conflict", "invalid"} /\ s.confirmed # None
      /\ \E chosen \in Selections(s) :
           LET new == IF again THEN {Renewed(e, s.confirmed) : e \in chosen} ELSE {}
               queue == {e \in store.queue : e.id \notin IdsOf(chosen)} \cup new
           IN  /\ IdsOf(new) \subseteq Ids
               /\ IF Guarded(s.generation)
                  THEN /\ IdsOf(chosen) \subseteq IdsOf(store.queue)
                       /\ chosen = {} => store.queue = {}
                       /\ store' = [store EXCEPT !.queue = queue, !.generation = @ + 1]
                       /\ Update(t, Awake([s EXCEPT !.confirmed = store.confirmed, !.entries = queue,
                                             !.generation = store.generation + 1,
                                             !.error = "none", !.needsFresh = FALSE]))
                       /\ reviewed' = reviewed \cup IdsOf(chosen)
                       /\ accepted' = accepted \cup IdsOf(new)
                       /\ grounds' = [id \in Ids |-> IF id \in IdsOf(new) THEN ForeignMade(s.confirmed)
                                                     ELSE grounds[id]]
                       /\ Tell(t)
                  ELSE /\ Update(t, Overtaken(s))
                       /\ UNCHANGED <<store, told, reviewed, accepted, grounds>>
      /\ UNCHANGED <<serverVars, lock, online, order, purged, events>>

----------------------------------------------------------------------------
Drain(t) ==
  \/ Pass(t) \/ EntrySaved(t) \/ Freeze(t) \/ TimerFires(t)
  \/ Acknowledged(t) \/ Refused(t)
  \/ Fetched(t) \/ FreshSkipped(t) \/ FreshArrives(t) \/ RefetchArrives(t)

Saving(t) == EnqueueCommits(t) \/ EnqueueFails(t)

Coordination(t) == Invalidated(t) \/ LetGo(t)

Beside(t) == RefreshAnswered(t) \/ RefreshArrives(t) \/ RollForgotten(t)

Failure(t) == SendFails(t) \/ FetchFails(t) \/ Denied(t) \/ ActivityDenied(t)

User(t) ==
  \/ Open(t) \/ Acquire(t) \/ Takeover(t) \/ CloseTab(t)
  \/ \E i \in Intents : Edit(t, i)
  \/ Refresh(t) \/ ForgetRoll(t)
  \/ \E again \in BOOLEAN : Review(t, again)

SessionNext ==
  \/ \E t \in Tabs : Drain(t) \/ Saving(t) \/ Coordination(t) \/ Beside(t) \/ Failure(t) \/ User(t)
  \/ \E r \in net : Serve(r)
  \/ ForeignEdit \/ GoOffline \/ GoOnline

SessionSpec == SessionInit /\ [][SessionNext]_sessionVars

(* The browser runs what it was asked to run, the server answers, and what *)
(* the user does is up to the user.                                         *)
SessionFairness ==
  /\ \A t \in Tabs : /\ WF_sessionVars(Drain(t)) /\ WF_sessionVars(Saving(t))
                      /\ WF_sessionVars(Coordination(t)) /\ WF_sessionVars(Beside(t))
                      /\ WF_sessionVars(Denied(t))
  /\ WF_sessionVars(\E r \in net : Serve(r))

SessionFairSpec == SessionSpec /\ SessionFairness

----------------------------------------------------------------------------
(* An edit the user was told is saved is still queued, or it has been      *)
(* applied, or the user has reviewed it, or it went with the access to the *)
(* sheet: through failures, crashes, takeovers and stale writes.            *)
Applied == {history[n] : n \in 1..Revision} \ {Other}

NothingIsLost ==
  accepted \subseteq IdsOf(store.queue) \cup Applied \cup reviewed \cup purged

(* An edit is applied to the sheet its user saw: nobody else's edit has    *)
(* slipped in between (entryMatchesBase, expectedRevision).                 *)
AppliedOnGrounds ==
  \A n \in 1..Revision : history[n] # Other => ForeignMade(n - 1) = grounds[history[n]]

(* Only the tab that holds the lock freezes or sends a request. *)
OneSender ==
  \A t \in Tabs : session[t].stage \in {"freezing", "sending"} => lock = t

(* What the editing tab shows as queued is stored, so it is safe to close  *)
(* the tab: no write, purge or review of another step left a phantom.       *)
QueuedIsStored ==
  \A t \in Tabs :
    LET s == session[t]
    IN  s.owned /\ s.error = "none"
          => \A e \in s.entries : Writing(s, e.id) \/ e.id \in IdsOf(store.queue) \/ t \in told

(* No edit outlives the access to its sheet: once the cached sheet is      *)
(* purged no write under way puts one back in the queue.                    *)
NoEditOutlivesAccess == store.confirmed = None => store.queue = {}

(* A key stands for one request: whatever is sent again under it is what   *)
(* was sent before, and no edit waits under a key that was used for         *)
(* something else (QueueEntry.attempt, kept through reloads and takeovers). *)
Requested ==
  net \cup {[id |-> id, base |-> receipt[id].revision - 1] :
            id \in {i \in Ids : receipt[i].outcome = "applied"}}

RetriesAreIdentical ==
  /\ \A q, r \in Requested : q.id = r.id => q.base = r.base
  /\ \A e \in store.queue, r \in Requested : r.id = e.id => e.frozen /\ r.base = e.base

(* The server of this module keeps the promise CharacterCommands is proved *)
(* to keep, whatever the tabs send again, late or twice: each key is       *)
(* settled once, and the sheet holds each applied edit once, on top of the *)
(* revision it was settled at.  The outcomes are read off the receipts and *)
(* the edits off the sheet.                                                 *)
Fates == [none |-> "open", applied |-> "applied", refused |-> "refused", conflict |-> "refused"]

Server == INSTANCE ExactlyOnce WITH
  Keys <- Ids, EditKeys <- Ids, RollKeys <- {},
  fate <- [id \in Ids |-> Fates[receipt[id].outcome]],
  based <- [id \in Ids |-> receipt[id].revision],
  rev <- Revision + 1,
  edits <- Applied

ServerKeepsThePromise == Server!Spec

(* No answer of a GET, however late, takes the cached sheet back: while no *)
(* edit leaves the queue and the access stays, the sheet the store holds    *)
(* only gets newer, whichever tab reads it and whatever another writes.     *)
ReadsNeverGoBack ==
  [][store'.queue = store.queue /\ store.confirmed # None /\ store'.confirmed # None
       => store'.confirmed >= store.confirmed]_sessionVars

(* The docs: the outcome of an attempted command is resolved before it is  *)
(* reviewed.                                                                *)
ReviewedIsNotApplied == reviewed \cap Applied = {}

(* A queue is drained, or the tab tells why it is not. *)
Stuck(t) ==
  LET s == session[t]
  IN  online /\ s.owned /\ s.error = "none" /\ s.entries # {}

DrainsOrTells == \A t \in Tabs : Stuck(t) ~> ~ Stuck(t)
=============================================================================
