----------------------- MODULE CharacterSession_proofs -----------------------
(***************************************************************************)
(* What CharacterSession promises, proved for any tabs, edits and bounds.  *)
(***************************************************************************)
EXTENDS CharacterSession, FiniteSetTheorems, TLAPS

USE SessionAssumption

(* Stages at which the drain may write or send. *)
AtWork == {"fresh", "refetch", "entry", "freezing", "sending"}

SessionOK(s) == s \in SessionType /\ Coherent(s)

(* r has the tab's own state of s, and what s has cached. *)
SameTab(r, s)   == r.open = s.open /\ r.owned = s.owned /\ r.writing = s.writing /\ r.guard = s.guard
SameCache(r, s) == r.confirmed = s.confirmed /\ r.generation = s.generation /\ r.entries = s.entries

(* The error kinds of a blocked session. *)
Kinds == {"conflict", "invalid", "network", "purged", "storage"}

----------------------------------------------------------------------------
(* What the helpers of the drain do to a tab. *)

LEMMA RestFields ==
  ASSUME NEW s \in SessionType
  PROVE  /\ SessionOK(Resting(s)) /\ Resting(s).stage = "rest" /\ Resting(s).error = s.error
         /\ SameTab(Resting(s), s) /\ SameCache(Resting(s), s)
BY DEF Resting, SessionOK, SessionType, Coherent, Stage, Snapshot, SameTab, SameCache

LEMMA AwakeFields ==
  ASSUME NEW s \in SessionType, Coherent(s)
  PROVE  /\ SessionOK(Awake(s))
         /\ Awake(s).stage = s.stage \/ (Awake(s).stage = "pass" /\ s.stage \in {"rest", "timer"})
         /\ Awake(s).error = s.error
         /\ SameTab(Awake(s), s) /\ SameCache(Awake(s), s)
BY DEF Awake, SessionOK, SessionType, Coherent, Stage, Snapshot, SameTab, SameCache

LEMMA BlockedFields ==
  ASSUME NEW s \in SessionType, Coherent(s), NEW kind \in Kinds
  PROVE  /\ SessionOK(Blocked(s, kind)) /\ Blocked(s, kind).error = kind
         /\ Blocked(s, kind).stage = s.stage \/ (Blocked(s, kind).stage = "rest" /\ s.stage = "timer")
         /\ SameTab(Blocked(s, kind), s) /\ SameCache(Blocked(s, kind), s)
<1> DEFINE e == [s EXCEPT !.error = kind]
           r == [e EXCEPT !.stage = "rest"]
<1>1. Blocked(s, kind) = IF s.stage = "timer" THEN r ELSE e
  BY DEF Blocked, SessionType
<1>2. e \in SessionType /\ e.error = kind /\ SameTab(e, s) /\ SameCache(e, s)
      /\ e.stage = s.stage /\ e.view = s.view /\ e.front = s.front
  BY DEF Kinds, SessionType, SameTab, SameCache
<1> HIDE DEF e
<1>3. r \in SessionType /\ r.error = kind /\ SameTab(r, s) /\ SameCache(r, s)
      /\ r.stage = "rest" /\ r.view = s.view /\ r.front = s.front
  <2>1. "rest" \in Stage
    BY DEF Stage
  <2> QED BY <1>2, <2>1 DEF SessionType, SameTab, SameCache
<1> HIDE DEF r
<1> QED BY <1>1, <1>2, <1>3 DEF SessionOK, Coherent

LEMMA AdoptedFields ==
  ASSUME SessionTypeOK, NEW s \in SessionType, Coherent(s)
  PROVE  /\ SessionOK(Adopted(s)) /\ Adopted(s).stage = s.stage /\ Adopted(s).error = s.error
         /\ SameTab(Adopted(s), s)
         /\ Adopted(s).confirmed = store.confirmed /\ Adopted(s).entries = store.queue
         /\ Adopted(s).generation = store.generation
BY DEF Adopted, SessionTypeOK, SessionOK, SessionType, Coherent, Snapshot, SameTab

LEMMA OvertakenFields ==
  ASSUME SessionTypeOK, NEW s \in SessionType, Coherent(s)
  PROVE  /\ SessionOK(Overtaken(s)) /\ Overtaken(s).error \in Kinds
         /\ Overtaken(s).stage = s.stage \/ (Overtaken(s).stage = "rest" /\ s.stage = "timer")
         /\ SameTab(Overtaken(s), s)
         /\ Overtaken(s).confirmed = store.confirmed /\ Overtaken(s).entries = store.queue
         /\ Overtaken(s).generation = store.generation
<1>1. SessionOK(Adopted(s))
  BY AdoptedFields
<1>2. "purged" \in Kinds /\ "conflict" \in Kinds
  BY DEF Kinds
<1>3. \A kind \in Kinds : /\ SessionOK(Blocked(Adopted(s), kind)) /\ Blocked(Adopted(s), kind).error = kind
                          /\ Blocked(Adopted(s), kind).stage = Adopted(s).stage
                               \/ (Blocked(Adopted(s), kind).stage = "rest" /\ Adopted(s).stage = "timer")
                          /\ SameTab(Blocked(Adopted(s), kind), Adopted(s))
                          /\ SameCache(Blocked(Adopted(s), kind), Adopted(s))
  BY <1>1, BlockedFields DEF SessionOK
<1> QED BY <1>2, <1>3, AdoptedFields DEF Overtaken, SameTab, SameCache

LEMMA ReconciledFields ==
  ASSUME SessionTypeOK, NEW s \in SessionType, Coherent(s), NEW v \in Nat
  PROVE  LET u == Reconciled(s, v)
         IN  /\ SessionOK(u)
             /\ u.stage = s.stage \/ (u.stage = "rest" /\ s.stage = "timer")
             /\ SameTab(u, s)
             /\ \/ ~ Confirms(s, v) /\ SameCache(u, s)
                \/ /\ ~ Confirms(s, v) /\ u.confirmed = store.confirmed /\ u.entries = store.queue
                   /\ u.generation = store.generation
                \/ /\ Confirms(s, v) /\ u.confirmed = v /\ u.entries = s.entries
                   /\ u.generation = s.generation + 1 /\ s.generation = store.generation
<1> DEFINE a == Adopted(s)
           c == IF Confirms(s, v) THEN [s EXCEPT !.confirmed = v, !.generation = @ + 1] ELSE s
<1>1. /\ SessionOK(a) /\ a.stage = s.stage /\ SameTab(a, s)
      /\ a.confirmed = store.confirmed /\ a.entries = store.queue /\ a.generation = store.generation
  BY AdoptedFields
<1>2. /\ SessionOK(c) /\ c.stage = s.stage /\ SameTab(c, s)
      /\ c.entries = s.entries
      /\ c.confirmed = IF Confirms(s, v) THEN v ELSE s.confirmed
      /\ c.generation = IF Confirms(s, v) THEN s.generation + 1 ELSE s.generation
  <2>1. CASE Confirms(s, v)
    <3>1. c = [s EXCEPT !.confirmed = v, !.generation = s.generation + 1]
      BY <2>1
    <3>2. v \in Snapshot /\ s.generation + 1 \in Nat
      BY DEF Snapshot, SessionType
    <3> HIDE DEF c
    <3>3. c \in SessionType /\ c.confirmed = v /\ c.generation = s.generation + 1 /\ SameTab(c, s)
          /\ c.entries = s.entries /\ c.stage = s.stage /\ c.front = s.front /\ c.view = s.view
      BY <3>1, <3>2 DEF SessionType, SameTab
    <3> QED BY <2>1, <3>3 DEF SessionOK, Coherent
  <2>2. CASE ~ Confirms(s, v)
    BY <2>2 DEF SessionOK, SameTab
  <2> QED BY <2>1, <2>2
<1>3. "purged" \in Kinds /\ "conflict" \in Kinds /\ "network" \in Kinds
  BY DEF Kinds
<1>4. /\ SessionOK(Blocked(a, "purged")) /\ SameTab(Blocked(a, "purged"), a) /\ SameCache(Blocked(a, "purged"), a)
      /\ Blocked(a, "purged").stage = a.stage \/ (Blocked(a, "purged").stage = "rest" /\ a.stage = "timer")
  <2> HIDE DEF a
  <2> QED BY <1>1, <1>3, BlockedFields DEF SessionOK
<1>5. /\ SessionOK(Blocked(c, "conflict")) /\ SameTab(Blocked(c, "conflict"), c) /\ SameCache(Blocked(c, "conflict"), c)
      /\ Blocked(c, "conflict").stage = c.stage \/ (Blocked(c, "conflict").stage = "rest" /\ c.stage = "timer")
  <2> HIDE DEF c
  <2> QED BY <1>2, <1>3, BlockedFields DEF SessionOK
<1>6. /\ SessionOK(Blocked(s, "network")) /\ SameTab(Blocked(s, "network"), s) /\ SameCache(Blocked(s, "network"), s)
      /\ Blocked(s, "network").stage = s.stage \/ (Blocked(s, "network").stage = "rest" /\ s.stage = "timer")
  BY <1>3, BlockedFields
<1>7. Confirms(s, v) => ~ Gone(s) /\ ~ Overtook(s) /\ ~ Behind(s, v) /\ s.generation = store.generation
  BY DEF Confirms, Overtook
<1>8. Confirmed(s, v) \in {c, Blocked(c, "conflict")}
  BY DEF Confirmed
<1>9. CASE Gone(s) \/ (Overtook(s) /\ store.confirmed = None)
  <2>1. Reconciled(s, v) = Blocked(a, "purged")
    BY <1>9 DEF Reconciled
  <2> HIDE DEF a, c
  <2> QED BY <1>1, <1>4, <1>7, <1>9, <2>1 DEF SameTab, SameCache
<1>10. CASE ~ Gone(s) /\ Overtook(s) /\ store.confirmed # None
  <2>1. Reconciled(s, v) = a
    BY <1>10 DEF Reconciled
  <2> HIDE DEF a, c
  <2> QED BY <1>1, <1>7, <1>10, <2>1
<1>11. CASE ~ Gone(s) /\ ~ Overtook(s) /\ Behind(s, v)
  <2>1. Reconciled(s, v) = Blocked(s, "network")
    BY <1>11 DEF Reconciled
  <2> QED BY <1>6, <1>7, <1>11, <2>1
<1>12. CASE ~ Gone(s) /\ ~ Overtook(s) /\ ~ Behind(s, v)
  <2>1. Reconciled(s, v) = Confirmed(s, v)
    BY <1>12 DEF Reconciled
  <2> HIDE DEF a, c
  <2> QED BY <1>2, <1>5, <1>7, <1>8, <2>1 DEF SameTab, SameCache
<1> QED BY <1>9, <1>10, <1>11, <1>12

----------------------------------------------------------------------------
(* The invariant: the types; a tab that may edit, or whose drain is at     *)
(* work, holds the lock; and what tabs remember is not newer than the       *)
(* store, so that a guard that still matches names a sheet that is there.   *)

Stores == [confirmed : Snapshot, generation : Nat, queue : SUBSET Entry]

Holding(s) == s.owned \/ s.stage \in AtWork

LockInv == \A t \in Tabs : Holding(session[t]) => lock = t

Fits(s, st) ==
  /\ s.generation <= st.generation
  /\ s.generation = st.generation /\ s.confirmed # None => st.confirmed # None
  /\ \A w \in s.writing : /\ w.guard <= st.generation
                          /\ w.guard = st.generation => st.confirmed # None

CacheInv == NoEditOutlivesAccess /\ \A t \in Tabs : Fits(session[t], store)

SessionInv == SessionTypeOK /\ LockInv /\ CacheInv

(* A write to the cached sheet raises the generation. *)
StoreMoves ==
  /\ store' \in Stores
  /\ NoEditOutlivesAccess'
  /\ \/ store'.generation > store.generation
     \/ store'.generation = store.generation /\ store'.confirmed = store.confirmed

LEMMA StoreStays ==
  ASSUME SessionInv, store' = store
  PROVE  StoreMoves
BY DEF SessionInv, SessionTypeOK, CacheInv, StoreMoves, Stores, NoEditOutlivesAccess

LEMMA StillFits ==
  ASSUME NEW s \in SessionType, SessionTypeOK, Fits(s, store), StoreMoves
  PROVE  Fits(s, store')
<1>1. \A w \in s.writing : w.guard \in Nat
  BY DEF SessionType
<1>2. s.generation \in Nat /\ store.generation \in Nat /\ store'.generation \in Nat
  BY DEF SessionType, SessionTypeOK, StoreMoves, Stores
<1> QED BY <1>1, <1>2 DEF Fits, StoreMoves

(* u forgets what it had cached, or keeps it. *)
LEMMA FitsAsBefore ==
  ASSUME NEW s, NEW u, NEW st, Fits(s, st),
         u.generation = s.generation, u.confirmed = s.confirmed \/ u.confirmed = None,
         u.writing \subseteq s.writing
  PROVE  Fits(u, st)
BY DEF Fits

LEMMA FitsAdopted ==
  ASSUME NEW s, NEW u, NEW st \in Stores, Fits(s, st),
         u.generation = st.generation, u.confirmed = st.confirmed,
         u.writing \subseteq s.writing
  PROVE  Fits(u, st)
BY DEF Fits, Stores

(* One tab moves, and perhaps the store with it. *)
LEMMA TabMoves ==
  ASSUME SessionInv, NEW t \in Tabs, NEW u, SessionOK(u), Update(t, u),
         lock' = lock, Holding(u) => Holding(session[t]),
         StoreMoves, Fits(u, store')
  PROVE  /\ session' \in [Tabs -> SessionType] /\ \A v \in Tabs : Coherent(session'[v])
         /\ LockInv' /\ CacheInv'
<1>1. session \in [Tabs -> SessionType] /\ \A v \in Tabs : Coherent(session[v])
  BY DEF SessionInv, SessionTypeOK
<1>2. /\ session'[t] = u
      /\ \A v \in Tabs \ {t} : session'[v] = session[v]
      /\ session' \in [Tabs -> SessionType]
  BY <1>1 DEF Update, SessionOK
<1>3. \A v \in Tabs : Coherent(session'[v])
  BY <1>1, <1>2 DEF SessionOK
<1>4. LockInv'
  BY <1>2 DEF SessionInv, LockInv
<1>5. \A v \in Tabs : Fits(session'[v], store')
  BY <1>1, <1>2, StillFits DEF SessionInv, CacheInv
<1> QED BY <1>2, <1>3, <1>4, <1>5 DEF CacheInv, StoreMoves

OtherTypes ==
  /\ history \in Seq(Ids \cup {Other})
  /\ receipt \in [Ids -> [outcome : {"none", "applied", "refused", "conflict"}, revision : Nat]]
  /\ access \in BOOLEAN /\ online \in BOOLEAN
  /\ net \in SUBSET Ask
  /\ store \in Stores
  /\ lock \in Tabs \cup {None}
  /\ told \in SUBSET Tabs
  /\ order \in [UserEdits -> Nat]
  /\ grounds \in [Ids -> Nat]
  /\ accepted \in SUBSET Ids /\ reviewed \in SUBSET Ids /\ purged \in SUBSET Ids
  /\ events \in Nat

LEMMA TypesSplit ==
  SessionTypeOK <=> /\ OtherTypes
             /\ session \in [Tabs -> SessionType] /\ \A t \in Tabs : Coherent(session[t])
BY DEF SessionTypeOK, OtherTypes, Stores

LEMMA TabsAreOK ==
  ASSUME SessionInv, NEW t \in Tabs
  PROVE  /\ session[t] \in SessionType /\ Coherent(session[t]) /\ SessionOK(session[t])
         /\ Fits(session[t], store)
         /\ OtherTypes /\ SessionTypeOK
BY TypesSplit DEF SessionInv, CacheInv, SessionOK

LEMMA TabStep ==
  ASSUME SessionInv, NEW t \in Tabs, NEW u, SessionOK(u), Update(t, u),
         lock' = lock, Holding(u) => Holding(session[t]),
         StoreMoves, Fits(u, store'), OtherTypes'
  PROVE  SessionInv'
<1>1. /\ session' \in [Tabs -> SessionType] /\ \A v \in Tabs : Coherent(session'[v])
      /\ LockInv' /\ CacheInv'
  BY TabMoves
<1>2. SessionTypeOK'
  BY <1>1 DEF SessionTypeOK, OtherTypes, Stores
<1> QED BY <1>1, <1>2 DEF SessionInv

(* Nothing but one tab changes. *)
LEMMA OneTab ==
  ASSUME SessionInv, NEW t \in Tabs, NEW u, SessionOK(u), Update(t, u),
         Holding(u) => Holding(session[t]), Fits(u, store),
         UNCHANGED <<serverVars, store, lock, told, online, userVars>>,
         events' = events \/ Event
  PROVE  SessionInv'
<1>1. OtherTypes'
  BY TypesSplit DEF SessionInv, OtherTypes, Event, serverVars, userVars
<1>2. StoreMoves
  BY StoreStays
<1> QED BY <1>1, <1>2, TabStep

----------------------------------------------------------------------------
(* Steps of one tab that leave the store alone. *)

LEMMA OpenStep ==
  ASSUME SessionInv, NEW t \in Tabs, Open(t)
  PROVE  SessionInv'
<1> DEFINE a == Adopted(Closed)
           u == [a EXCEPT !.open = TRUE]
<1>1. SessionOK(Closed)
  BY DEF Closed, SessionOK, SessionType, Coherent, Stage, Snapshot
<1>2. /\ SessionOK(a) /\ a.stage = "rest" /\ a.owned = FALSE /\ a.writing = {}
      /\ a.generation = store.generation /\ a.confirmed = store.confirmed
  BY <1>1, TabsAreOK, AdoptedFields DEF SessionOK, Closed, SameTab
<1> HIDE DEF a
<1>3. /\ SessionOK(u) /\ u.stage = "rest" /\ u.owned = FALSE /\ u.writing = {}
      /\ u.generation = store.generation /\ u.confirmed = store.confirmed
  BY <1>2 DEF SessionOK, SessionType, Coherent
<1>4. Update(t, u) /\ UNCHANGED <<serverVars, store, lock, told, online, userVars, events>>
  BY DEF Open, a
<1> HIDE DEF u
<1>5. Fits(u, store)
  BY <1>3, TabsAreOK DEF Fits, OtherTypes, Stores
<1>6. ~ Holding(u)
  BY <1>3 DEF Holding, AtWork
<1> QED BY <1>3, <1>4, <1>5, <1>6, OneTab DEF serverVars, userVars

LEMMA SendFailsStep ==
  ASSUME SessionInv, NEW t \in Tabs, SendFails(t)
  PROVE  SessionInv'
<1> DEFINE s == session[t]
           r == Resting(s)
           u == [r EXCEPT !.stage = "timer"]
<1>1. /\ SessionOK(r) /\ r.stage = "rest" /\ SameTab(r, s) /\ SameCache(r, s)
  BY TabsAreOK, RestFields
<1> HIDE DEF r
<1>2. /\ SessionOK(u) /\ u.stage = "timer" /\ SameTab(u, s) /\ SameCache(u, s)
  BY <1>1 DEF SessionOK, SessionType, Coherent, Stage, SameTab, SameCache
<1>3. Update(t, u) /\ UNCHANGED <<serverVars, store, lock, told, online, userVars>> /\ (events' = events \/ Event)
  BY DEF SendFails, r
<1> HIDE DEF u
<1>4. Fits(u, store)
  BY <1>2, TabsAreOK, FitsAsBefore DEF SameTab, SameCache
<1>5. Holding(u) => Holding(s)
  BY <1>2 DEF Holding, AtWork, SameTab
<1> QED BY <1>2, <1>3, <1>4, <1>5, OneTab

LEMMA TimerStep ==
  ASSUME SessionInv, NEW t \in Tabs, TimerFires(t)
  PROVE  SessionInv'
<1> DEFINE s == session[t]
           u == Awake(s)
<1>1. /\ SessionOK(u) /\ (u.stage = "pass" \/ u.stage = s.stage)
      /\ SameTab(u, s) /\ SameCache(u, s)
  BY TabsAreOK, AwakeFields
<1>2. Update(t, u) /\ UNCHANGED <<serverVars, store, lock, told, online, userVars, events>>
  BY DEF TimerFires
<1> HIDE DEF u
<1>3. Fits(u, store)
  BY <1>1, TabsAreOK, FitsAsBefore DEF SameTab, SameCache
<1>4. Holding(u) => Holding(s)
  BY <1>1 DEF Holding, AtWork, SameTab
<1> QED BY <1>1, <1>2, <1>3, <1>4, OneTab DEF serverVars, userVars

(* u, the next state of a tab that was s, knows what it knew or what the   *)
(* store has, and starts no work that s could not start.                    *)
Follow(u, s) ==
  /\ SessionOK(u)
  /\ u.writing \subseteq s.writing
  /\ u.owned => s.owned
  /\ u.stage \in AtWork => Holding(s)
  /\ \/ u.generation = s.generation /\ (u.confirmed = s.confirmed \/ u.confirmed = None)
     \/ u.generation = store.generation /\ u.confirmed = store.confirmed

LEMMA FollowStep ==
  ASSUME SessionInv, NEW t \in Tabs, NEW u, Follow(u, session[t]), Update(t, u),
         UNCHANGED <<serverVars, store, lock, told, online, userVars>>,
         events' = events \/ Event
  PROVE  SessionInv'
<1>1. Fits(session[t], store) /\ store \in Stores
  BY TabsAreOK DEF OtherTypes
<1>2. Fits(u, store)
  BY <1>1, FitsAsBefore, FitsAdopted DEF Follow
<1> QED BY <1>2, OneTab DEF Follow, Holding

LEMMA EnqueueFailsStep ==
  ASSUME SessionInv, NEW t \in Tabs, EnqueueFails(t)
  PROVE  SessionInv'
<1> DEFINE s == session[t]
<1>1. PICK w \in s.writing :
        LET u == [s EXCEPT !.writing = @ \ {w}]
        IN  Update(t, Overtaken(IF s.stage = "entry" /\ s.front.id = w.entry.id THEN Resting(u) ELSE u))
  BY DEF EnqueueFails, Writes
<1> DEFINE u == [s EXCEPT !.writing = s.writing \ {w}]
           v == IF s.stage = "entry" /\ s.front.id = w.entry.id THEN Resting(u) ELSE u
           o == Overtaken(v)
<1>2. s \in SessionType /\ Coherent(s)
  BY TabsAreOK
<1>3. /\ SessionOK(u) /\ u.writing \subseteq s.writing /\ u.owned = s.owned /\ u.stage = s.stage
  BY <1>2 DEF SessionOK, SessionType, Coherent
<1> HIDE DEF u
<1>4. SessionOK(Resting(u)) /\ Resting(u).stage = "rest" /\ SameTab(Resting(u), u)
  BY <1>3, RestFields DEF SessionOK
<1>5. /\ SessionOK(v) /\ v.writing \subseteq s.writing /\ v.owned = s.owned
      /\ v.stage = s.stage \/ v.stage = "rest"
  BY <1>3, <1>4 DEF SameTab
<1> HIDE DEF v
<1>6. /\ SessionOK(o) /\ SameTab(o, v)
      /\ o.stage = v.stage \/ o.stage = "rest"
      /\ o.confirmed = store.confirmed /\ o.generation = store.generation
  BY <1>5, TabsAreOK, OvertakenFields DEF SessionOK
<1>7. Update(t, o)
  BY <1>1, <1>2 DEF o, v, u
<1> HIDE DEF o
<1>8. Follow(o, s)
  BY <1>5, <1>6 DEF Follow, Holding, AtWork, SameTab
<1>9. UNCHANGED <<serverVars, store, lock, told, online, userVars, events>>
  BY DEF EnqueueFails
<1> QED BY <1>7, <1>8, <1>9, FollowStep DEF serverVars, userVars

LEMMA InvalidatedStep ==
  ASSUME SessionInv, NEW t \in Tabs, Invalidated(t)
  PROVE  SessionInv'
<1> DEFINE s == session[t]
           a == Adopted(s)
           b == Blocked(a, "purged")
<1>1. s \in SessionType /\ Coherent(s) /\ SessionOK(s) /\ Fits(s, store) /\ store \in Stores
  BY TabsAreOK DEF OtherTypes
<1>2. /\ SessionOK(a) /\ a.stage = s.stage /\ SameTab(a, s)
      /\ a.confirmed = store.confirmed /\ a.generation = store.generation
  BY <1>1, TabsAreOK, AdoptedFields
<1>3. PICK u \in {s, b, a} : Update(t, u)
  BY DEF Invalidated
<1>4. /\ SessionOK(b) /\ SameTab(b, a) /\ SameCache(b, a)
      /\ b.stage = a.stage \/ (b.stage = "rest" /\ a.stage = "timer")
  <2>1. "purged" \in Kinds
    BY DEF Kinds
  <2> HIDE DEF a
  <2> QED BY <1>2, <2>1, BlockedFields DEF SessionOK
<1> HIDE DEF a, b
<1>5. Follow(u, s)
  BY <1>1, <1>2, <1>3, <1>4 DEF Follow, Holding, AtWork, SameTab, SameCache
<1>6. Fits(u, store)
  BY <1>1, <1>5, FitsAsBefore, FitsAdopted DEF Follow
<1>7. /\ UNCHANGED <<serverVars, store, lock, online, userVars, events>>
      /\ told' \subseteq told
  BY DEF Invalidated
<1>8. OtherTypes'
  BY <1>7, TabsAreOK DEF OtherTypes, serverVars, userVars
<1>9. StoreMoves
  BY <1>7, StoreStays
<1> QED BY <1>3, <1>5, <1>6, <1>7, <1>8, <1>9, TabStep DEF Follow, Holding

LEMMA RestFollows ==
  ASSUME NEW s \in SessionType
  PROVE  Follow(Resting(s), s)
BY RestFields DEF Follow, SameTab, SameCache, AtWork

LEMMA BlockedRestFollows ==
  ASSUME NEW s \in SessionType, NEW kind \in Kinds
  PROVE  /\ Follow(Resting(Blocked(s, kind)), s)
         /\ Coherent(s) => Follow(Blocked(s, kind), s)
         /\ Follow(Blocked(Resting(s), kind), s)
<1>1. /\ SessionOK(Resting(s)) /\ Resting(s).stage = "rest" /\ SameTab(Resting(s), s) /\ SameCache(Resting(s), s)
  BY RestFields
<1>2. \A r \in SessionType : Coherent(r) =>
        /\ SessionOK(Blocked(r, kind)) /\ SameTab(Blocked(r, kind), r) /\ SameCache(Blocked(r, kind), r)
        /\ Blocked(r, kind).stage = r.stage \/ Blocked(r, kind).stage = "rest"
  BY BlockedFields
<1>3. Coherent(s) => Follow(Blocked(s, kind), s)
  BY <1>2 DEF Follow, Holding, AtWork, SameTab, SameCache
<1>4. Follow(Blocked(Resting(s), kind), s)
  BY <1>1, <1>2 DEF Follow, SessionOK, Holding, AtWork, SameTab, SameCache
<1>5. Blocked(s, kind) \in SessionType /\ SameTab(Blocked(s, kind), s) /\ SameCache(Blocked(s, kind), s)
  <2> DEFINE e == [s EXCEPT !.error = kind]
             r == [e EXCEPT !.stage = "rest"]
  <2>1. Blocked(s, kind) = IF s.stage = "timer" THEN r ELSE e
    BY DEF Blocked, SessionType
  <2>2. e \in SessionType /\ SameTab(e, s) /\ SameCache(e, s)
    BY DEF Kinds, SessionType, SameTab, SameCache
  <2> HIDE DEF e
  <2>3. r \in SessionType /\ SameTab(r, s) /\ SameCache(r, s)
    <3>1. "rest" \in Stage
      BY DEF Stage
    <3> QED BY <2>2, <3>1 DEF SessionType, SameTab, SameCache
  <2> QED BY <2>1, <2>2, <2>3
<1>6. Follow(Resting(Blocked(s, kind)), s)
  BY <1>5, RestFields DEF Follow, AtWork, SameTab, SameCache
<1> QED BY <1>3, <1>4, <1>6

LEMMA BegunFollows ==
  ASSUME NEW s \in SessionType, s.view = None, NEW f \in Entry
  PROVE  Follow(Begun(s, f), s)
<1> DEFINE u == [s EXCEPT !.stage = "freezing", !.front = f]
<1>1. Follow(Resting(s), s) /\ Follow(Resting(Blocked(s, "conflict")), s)
  BY RestFollows, BlockedRestFollows DEF Kinds
<1>2. ~ s.owned \/ Follow(u, s)
  <2>1. "freezing" \in Stage
    BY DEF Stage
  <2>2. /\ u \in SessionType /\ u.stage = "freezing" /\ u.front = f /\ u.view = None
        /\ u.owned = s.owned /\ u.writing = s.writing
        /\ u.generation = s.generation /\ u.confirmed = s.confirmed
    BY <2>1 DEF SessionType
  <2>3. f # None
    OBVIOUS
  <2> HIDE DEF u
  <2> QED BY <2>2, <2>3 DEF Follow, SessionOK, Coherent, Holding
<1> QED BY <1>1, <1>2 DEF Begun

LEMMA PassStep ==
  ASSUME SessionInv, NEW t \in Tabs, Pass(t)
  PROVE  SessionInv'
<1> DEFINE s == session[t]
           At(stage) == [s EXCEPT !.stage = stage]
           Wait(f) == [s EXCEPT !.stage = "entry", !.front = f]
<1>1. s \in SessionType /\ Coherent(s) /\ s.stage = "pass"
  BY TabsAreOK DEF Pass
<1>2. s.view = None /\ s.front = None
  BY <1>1 DEF Coherent
<1>3. s.owned => Follow(At("refetch"), s) /\ Follow(At("fresh"), s)
  <2>1. "refetch" \in Stage /\ "fresh" \in Stage
    BY DEF Stage
  <2> QED BY <1>1, <1>2, <2>1 DEF Follow, SessionOK, SessionType, Coherent, Holding
<1>4. s.owned => \A f \in Entry : Follow(Wait(f), s)
  <2> SUFFICES ASSUME NEW f \in Entry, s.owned  PROVE Follow(Wait(f), s)
    OBVIOUS
  <2>1. "entry" \in Stage
    BY DEF Stage
  <2>2. /\ Wait(f) \in SessionType /\ Wait(f).stage = "entry" /\ Wait(f).front = f /\ Wait(f).view = None
        /\ Wait(f).owned = s.owned /\ Wait(f).writing = s.writing
        /\ Wait(f).generation = s.generation /\ Wait(f).confirmed = s.confirmed
    BY <1>1, <1>2, <2>1 DEF SessionType
  <2>3. f # None
    OBVIOUS
  <2> HIDE DEF Wait
  <2> QED BY <2>2, <2>3 DEF Follow, SessionOK, Coherent, Holding
<1>5. \A f \in First(s.entries) : f \in Entry
  BY <1>1 DEF First, SessionType
<1>6. Follow(Resting(s), s) /\ \A f \in Entry : Follow(Begun(s, f), s)
  BY <1>1, <1>2, RestFollows, BegunFollows
<1>7. PICK u : Update(t, u) /\ Follow(u, s)
  <2>1. CASE Stopped(s) /\ Update(t, Resting(s))
    BY <2>1, <1>6
  <2>2. CASE Refetches(s) /\ Update(t, At("refetch"))
    BY <2>2, <1>3 DEF Refetches, Stopped
  <2>3. CASE Refreshes(s) /\ Update(t, At("fresh"))
    BY <2>3, <1>3 DEF Refreshes, Stopped
  <2>4. CASE s.entries = {} /\ Update(t, Resting(s))
    BY <2>4, <1>6
  <2>5. CASE ~ Stopped(s) /\ \E f \in First(s.entries) :
               Update(t, IF Writing(s, f.id) THEN Wait(f) ELSE Begun(s, f))
    <3>1. PICK f \in Entry : Update(t, IF Writing(s, f.id) THEN Wait(f) ELSE Begun(s, f))
      BY <2>5, <1>5
    <3>2. Follow(Wait(f), s) /\ Follow(Begun(s, f), s)
      BY <2>5, <1>4, <1>6 DEF Stopped
    <3> QED BY <3>1, <3>2
  <2> QED BY <2>1, <2>2, <2>3, <2>4, <2>5 DEF Pass
<1> HIDE DEF s
<1> QED BY <1>7, FollowStep DEF Pass, serverVars, userVars, s

LEMMA EntrySavedStep ==
  ASSUME SessionInv, NEW t \in Tabs, EntrySaved(t)
  PROVE  SessionInv'
<1> DEFINE s == session[t]
           f == s.front
           r == [s EXCEPT !.front = None]
<1>1. s \in SessionType /\ f \in Entry /\ s.view = None /\ s.stage = "entry"
  <2>1. s \in SessionType /\ Coherent(s) /\ s.stage = "entry"
    BY TabsAreOK DEF EntrySaved
  <2> QED BY <2>1 DEF Coherent, SessionType
<1>2. /\ r \in SessionType /\ r.view = None /\ r.stage = "entry" /\ r.owned = s.owned
      /\ r.writing = s.writing /\ r.generation = s.generation /\ r.confirmed = s.confirmed
  BY <1>1 DEF SessionType
<1>3. Update(t, Begun(r, f)) /\ UNCHANGED <<serverVars, store, lock, told, online, userVars, events>>
  BY DEF EntrySaved
<1> HIDE DEF r
<1>4. Follow(Begun(r, f), r)
  BY <1>1, <1>2, BegunFollows
<1> DEFINE u == Begun(r, f)
<1> HIDE DEF u
<1>5. Follow(u, s)
  BY <1>1, <1>2, <1>4 DEF u, Follow, Holding, AtWork
<1> QED BY <1>3, <1>5, FollowStep DEF u, serverVars, userVars

LEMMA FetchedStep ==
  ASSUME SessionInv, NEW t \in Tabs, Fetched(t)
  PROVE  SessionInv'
<1> DEFINE s == session[t]
           u == [s EXCEPT !.view = Revision]
<1>1. /\ s \in SessionType /\ Coherent(s) /\ s.stage \in {"fresh", "refetch"}
      /\ OtherTypes
  BY TabsAreOK DEF Fetched, Fetching
<1>2. Revision \in Nat
  BY <1>1 DEF Revision, OtherTypes
<1>3. /\ u \in SessionType /\ u.view = Revision /\ u.stage = s.stage /\ u.front = s.front
      /\ u.owned = s.owned /\ u.writing = s.writing
      /\ u.generation = s.generation /\ u.confirmed = s.confirmed
  BY <1>1, <1>2 DEF SessionType, Snapshot
<1>4. Update(t, u) /\ UNCHANGED <<serverVars, store, lock, told, online, userVars, events>>
  BY DEF Fetched
<1> HIDE DEF u
<1>5. Follow(u, s)
  BY <1>1, <1>3 DEF Follow, SessionOK, Coherent, Holding
<1> QED BY <1>4, <1>5, FollowStep DEF serverVars, userVars

LEMMA FetchFailsStep ==
  ASSUME SessionInv, NEW t \in Tabs, FetchFails(t)
  PROVE  SessionInv'
<1>1. Follow(Resting(Blocked(session[t], "network")), session[t])
  BY TabsAreOK, BlockedRestFollows DEF Kinds
<1>2. /\ Update(t, Resting(Blocked(session[t], "network")))
      /\ UNCHANGED <<serverVars, store, lock, told, online, userVars>> /\ (events' = events \/ Event)
  BY DEF FetchFails
<1> QED BY <1>1, <1>2, FollowStep

LEMMA FreshSkippedStep ==
  ASSUME SessionInv, NEW t \in Tabs, FreshSkipped(t)
  PROVE  SessionInv'
<1> DEFINE s == session[t]
           u == [s EXCEPT !.stage = "pass", !.needsFresh = FALSE]
<1>1. s \in SessionType /\ Coherent(s) /\ s.stage = "fresh" /\ s.view = None
  BY TabsAreOK DEF FreshSkipped
<1>2. "pass" \in Stage
  BY DEF Stage
<1>3. /\ u \in SessionType /\ u.view = None /\ u.stage = "pass" /\ u.front = s.front
      /\ u.owned = s.owned /\ u.writing = s.writing
      /\ u.generation = s.generation /\ u.confirmed = s.confirmed
  BY <1>1, <1>2 DEF SessionType
<1>4. Update(t, u) /\ UNCHANGED <<serverVars, store, lock, told, online, userVars, events>>
  BY DEF FreshSkipped
<1> HIDE DEF u
<1>5. Follow(u, s)
  BY <1>1, <1>3 DEF Follow, SessionOK, Coherent, AtWork
<1> QED BY <1>4, <1>5, FollowStep DEF serverVars, userVars

LEMMA RefusedStep ==
  ASSUME SessionInv, NEW t \in Tabs, Refused(t)
  PROVE  SessionInv'
<1> DEFINE s == session[t]
           r == Resting(s)
           u == [r EXCEPT !.stage = "refetch", !.refetch = TRUE]
<1>1. s \in SessionType /\ s.stage = "sending"
  BY TabsAreOK DEF Refused
<1>2. /\ SessionOK(r) /\ r.stage = "rest" /\ SameTab(r, s) /\ SameCache(r, s)
  BY <1>1, RestFields
<1>3. Follow(r, s) /\ Follow(Resting(Blocked(s, "invalid")), s)
  BY <1>1, RestFollows, BlockedRestFollows DEF Kinds
<1>4. r.view = None /\ r.front = None
  BY <1>2 DEF SessionOK, Coherent
<1>5. "refetch" \in Stage
  BY DEF Stage
<1> HIDE DEF r
<1>6. /\ u \in SessionType /\ u.view = None /\ u.stage = "refetch" /\ u.front = None
      /\ u.owned = r.owned /\ u.writing = r.writing
      /\ u.generation = r.generation /\ u.confirmed = r.confirmed
  BY <1>2, <1>4, <1>5 DEF SessionOK, SessionType
<1>7. PICK v \in {r, u, Resting(Blocked(s, "invalid"))} : Update(t, v)
  BY DEF Refused, r, u
<1> HIDE DEF u
<1>8. Follow(u, s)
  BY <1>1, <1>2, <1>6 DEF Follow, SessionOK, Coherent, Holding, AtWork, SameTab, SameCache
<1> QED BY <1>3, <1>7, <1>8, FollowStep DEF Refused, serverVars, userVars

LEMMA RefreshStep ==
  ASSUME SessionInv, NEW t \in Tabs, Refresh(t) \/ RefreshAnswered(t)
  PROVE  SessionInv'
<1> DEFINE s == session[t]
           asked == [s EXCEPT !.side = "refreshing", !.sideView = None]
           answered == [s EXCEPT !.sideView = Revision]
           b == Blocked(s, "network")
           failed == [b EXCEPT !.side = "none"]
<1>1. s \in SessionType /\ Coherent(s) /\ OtherTypes
  BY TabsAreOK
<1>2. Follow(asked, s)
  BY ZenonT(40), <1>1 DEF Follow, SessionOK, SessionType, Coherent, Snapshot, Holding
<1>3. Follow(answered, s)
  <2>1. Revision \in Snapshot
    BY <1>1 DEF Revision, OtherTypes, Snapshot
  <2> QED BY <1>1, <2>1 DEF Follow, SessionOK, SessionType, Coherent, Holding
<1>4. Follow(failed, s)
  <2>1. Follow(b, s)
    BY <1>1, BlockedRestFollows DEF Kinds
  <2> HIDE DEF b
  <2> QED BY <2>1 DEF Follow, SessionOK, SessionType, Coherent
<1>5. /\ \E u \in {asked, answered, failed} : Update(t, u)
      /\ UNCHANGED <<serverVars, store, lock, told, online, userVars>> /\ (events' = events \/ Event)
  BY DEF Refresh, RefreshAnswered
<1> HIDE DEF asked, answered, failed
<1> QED BY <1>2, <1>3, <1>4, <1>5, FollowStep

----------------------------------------------------------------------------
(* Steps that write the store. *)

LEMMA CountsAreNat ==
  /\ \A n \in Nat : ForeignMade(n) \in Nat
  /\ Cardinality({j \in UserEdits : order[j] > 0}) \in Nat
<1>1. SUFFICES ASSUME NEW n \in Nat
               PROVE  /\ ForeignMade(n) \in Nat
                      /\ Cardinality({j \in UserEdits : order[j] > 0}) \in Nat
  OBVIOUS
<1>2. IsFiniteSet(1..n)
  BY FS_Interval
<1>3. \A S, T : IsFiniteSet(T) /\ S \subseteq T => Cardinality(S) \in Nat
  BY FS_Subset, FS_CardinalityType
<1>4. {m \in 1..n : history[m] = Other} \subseteq 1..n
  OBVIOUS
<1>5. {j \in UserEdits : order[j] > 0} \subseteq UserEdits
  OBVIOUS
<1> QED BY <1>2, <1>3, <1>4, <1>5 DEF ForeignMade

LEMMA FitsRaised ==
  ASSUME SessionTypeOK, NEW s \in SessionType, NEW u \in SessionType, Fits(s, store),
         store'.generation = store.generation + 1,
         u.writing \subseteq s.writing,
         u.generation <= store.generation \/ (u.generation = store'.generation /\ store'.confirmed # None)
  PROVE  Fits(u, store')
<1>1. store.generation \in Nat /\ \A w \in u.writing : w.guard \in Nat /\ w.guard <= store.generation
  BY DEF SessionTypeOK, SessionType, Fits
<1>2. u.generation \in Nat
  BY DEF SessionType
<1> QED BY <1>1, <1>2 DEF Fits

LEMMA EditStep ==
  ASSUME SessionInv, NEW t \in Tabs, NEW i \in Intents, Edit(t, i)
  PROVE  SessionInv'
<1> DEFINE s == session[t]
<1>1. s \in SessionType /\ Coherent(s) /\ Fits(s, store) /\ OtherTypes
  BY TabsAreOK
<1>2. PICK base \in BaseOfLast(s) :
        LET e == [id |-> <<i, 0>>, base |-> base, frozen |-> FALSE]
        IN  Update(t, Awake([s EXCEPT !.entries = @ \cup {e},
                                      !.writing = @ \cup {[entry |-> e, guard |-> s.generation]}]))
  BY DEF Edit
<1> DEFINE e == [id |-> <<i, 0>>, base |-> base, frozen |-> FALSE]
           w == [entry |-> e, guard |-> s.generation]
           n == [s EXCEPT !.entries = s.entries \cup {e}, !.writing = s.writing \cup {w}]
           u == Awake(n)
<1>3. base \in Nat
  BY <1>1 DEF Edit, BaseOfLast, Last, SessionType, Snapshot, Entry
<1>4. <<i, 0>> \in Ids
  BY DEF Ids, UserEdits
<1>5. e \in Entry /\ w \in [entry : Entry, guard : Nat] /\ w.guard = s.generation
  BY <1>1, <1>3, <1>4 DEF Entry, SessionType
<1>6. Update(t, u)
  BY <1>1, <1>2 DEF SessionType
<1> HIDE DEF e, w
<1>7. /\ SessionOK(n) /\ n.stage = s.stage /\ n.owned = s.owned
      /\ n.writing = s.writing \cup {w} /\ n.generation = s.generation /\ n.confirmed = s.confirmed
  BY <1>1, <1>5 DEF SessionOK, SessionType, Coherent
<1> HIDE DEF n
<1>8. /\ SessionOK(u) /\ (u.stage = s.stage \/ u.stage = "pass")
      /\ u.owned = s.owned /\ u.writing = s.writing \cup {w}
      /\ u.generation = s.generation /\ u.confirmed = s.confirmed
  BY <1>7, AwakeFields DEF SessionOK, SameTab, SameCache
<1> HIDE DEF u
<1>9. s.confirmed # None
  BY DEF Edit
<1>10. Fits(u, store)
  BY <1>1, <1>5, <1>8, <1>9 DEF Fits
<1>11. s.owned
  BY DEF Edit
<1>12. /\ order' \in [UserEdits -> Nat] /\ grounds' \in [Ids -> Nat]
  <2>1. ForeignMade(s.confirmed) \in Nat /\ Cardinality({j \in UserEdits : order[j] > 0}) + 1 \in Nat
    BY <1>1, <1>9, CountsAreNat DEF SessionType, Snapshot
  <2> QED BY <1>1, <1>4, <2>1 DEF Edit, OtherTypes, UserEdits
<1>13. OtherTypes'
  BY <1>1, <1>12 DEF Edit, OtherTypes, serverVars
<1>14. StoreMoves /\ store' = store /\ lock' = lock
  BY StoreStays DEF Edit
<1> QED BY <1>6, <1>8, <1>10, <1>11, <1>13, <1>14, TabStep DEF Holding

LEMMA ToldTypes ==
  ASSUME NEW t \in Tabs, told \in SUBSET Tabs, Tell(t)
  PROVE  told' \in SUBSET Tabs
BY DEF Tell

LEMMA EnqueueCommitsStep ==
  ASSUME SessionInv, NEW t \in Tabs, EnqueueCommits(t)
  PROVE  SessionInv'
<1> DEFINE s == session[t]
<1>1. s \in SessionType /\ Coherent(s) /\ Fits(s, store) /\ OtherTypes
  BY TabsAreOK
<1>2. PICK w \in s.writing :
        /\ Guarded(w.guard)
        /\ store' = [store EXCEPT !.queue = @ \cup {w.entry}]
        /\ accepted' = accepted \cup {w.entry.id}
        /\ Update(t, [s EXCEPT !.writing = @ \ {w}])
        /\ Tell(t)
        /\ UNCHANGED <<serverVars, lock, online, order, grounds, reviewed, purged, events>>
  BY DEF EnqueueCommits, Writes
<1> DEFINE u == [s EXCEPT !.writing = s.writing \ {w}]
<1>3. w.entry \in Entry /\ w.entry.id \in Ids
  BY <1>1 DEF SessionType, Entry
<1>4. Update(t, u)
  BY <1>1, <1>2 DEF SessionType
<1>5. /\ store' \in Stores /\ store'.confirmed = store.confirmed /\ store'.generation = store.generation
  BY <1>1, <1>2, <1>3 DEF OtherTypes, Stores
<1>6. store.confirmed # None
  BY <1>1, <1>2 DEF Fits, Guarded
<1>7. StoreMoves
  BY <1>5, <1>6 DEF StoreMoves, NoEditOutlivesAccess
<1>8. /\ SessionOK(u) /\ u.stage = s.stage /\ u.owned = s.owned
      /\ u.writing \subseteq s.writing /\ u.generation = s.generation /\ u.confirmed = s.confirmed
  BY <1>1 DEF SessionOK, SessionType, Coherent
<1> HIDE DEF u
<1>9. Fits(u, store)
  BY <1>1, <1>8, FitsAsBefore
<1>10. Fits(u, store')
  BY <1>5, <1>7, <1>8, <1>9, StillFits, TabsAreOK DEF SessionOK
<1>11. OtherTypes'
  BY <1>1, <1>2, <1>3, <1>5, ToldTypes DEF OtherTypes, serverVars
<1> QED BY <1>2, <1>4, <1>7, <1>8, <1>10, <1>11, TabStep DEF Holding

(* A step that writes the queue and leaves the cached sheet alone, and one *)
(* that raises the generation.                                              *)
LEMMA KeptStep ==
  ASSUME SessionInv, NEW t \in Tabs, NEW u, Follow(u, session[t]), Update(t, u), lock' = lock,
         store' \in Stores, NoEditOutlivesAccess', OtherTypes',
         store'.confirmed = store.confirmed, store'.generation = store.generation
  PROVE  SessionInv'
<1>1. Fits(session[t], store) /\ store \in Stores
  BY TabsAreOK DEF OtherTypes
<1>2. Fits(u, store)
  BY <1>1, FitsAsBefore, FitsAdopted DEF Follow
<1>3. StoreMoves
  BY DEF StoreMoves
<1>4. Fits(u, store')
  BY <1>2, <1>3, StillFits, TabsAreOK DEF Follow, SessionOK
<1> QED BY <1>3, <1>4, TabStep DEF Follow, Holding

LEMMA RaisedStep ==
  ASSUME SessionInv, NEW t \in Tabs, NEW u, SessionOK(u), Update(t, u), lock' = lock,
         u.writing \subseteq session[t].writing, Holding(u) => Holding(session[t]),
         store' \in Stores, NoEditOutlivesAccess', OtherTypes',
         store'.generation = store.generation + 1,
         u.generation <= store.generation \/ (u.generation = store'.generation /\ store'.confirmed # None)
  PROVE  SessionInv'
<1>1. Fits(u, store')
  BY TabsAreOK, FitsRaised DEF SessionOK
<1>2. StoreMoves
  BY TabsAreOK DEF StoreMoves, OtherTypes, Stores
<1> QED BY <1>1, <1>2, TabStep

LEMMA FreezeStep ==
  ASSUME SessionInv, NEW t \in Tabs, Freeze(t)
  PROVE  SessionInv'
<1> DEFINE s == session[t]
           f == s.front
           u == [s EXCEPT !.entries = Froze(s.entries, f.id)]
           n == [u EXCEPT !.stage = "sending", !.guard = s.generation]
           b == Resting(Blocked(s, "storage"))
           ask == [id |-> f.id, base |-> f.base]
<1>1. s \in SessionType /\ Coherent(s) /\ s.stage = "freezing" /\ OtherTypes
  BY TabsAreOK DEF Freeze
<1>2. f \in Entry /\ f # None /\ s.view = None
  BY <1>1 DEF SessionType, Coherent
<1>3. \A queue \in SUBSET Entry : Froze(queue, f.id) \in SUBSET Entry /\ (queue = {} => Froze(queue, f.id) = {})
  <2>1. \A e \in Entry : [e EXCEPT !.frozen = TRUE] \in Entry
    BY DEF Entry
  <2> QED BY <2>1 DEF Froze
<1>4. Follow(b, s)
  BY <1>1, BlockedRestFollows DEF Kinds
<1>5. /\ u \in SessionType /\ u.owned = s.owned /\ u.stage = s.stage /\ u.writing = s.writing
      /\ u.front = s.front /\ u.view = s.view
      /\ u.generation = s.generation /\ u.confirmed = s.confirmed
  <2>1. Froze(s.entries, f.id) \in SUBSET Entry
    BY <1>1, <1>3 DEF SessionType
  <2> HIDE DEF f
  <2> QED BY <1>1, <2>1 DEF SessionType
<1> HIDE DEF u
<1>6. Follow(n, s)
  <2>1. "sending" \in Stage /\ s.generation \in Nat
    BY <1>1 DEF Stage, SessionType
  <2>2. /\ n \in SessionType /\ n.owned = s.owned /\ n.stage = "sending" /\ n.writing = s.writing
        /\ n.front = s.front /\ n.view = s.view
        /\ n.generation = s.generation /\ n.confirmed = s.confirmed
    BY <1>5, <2>1 DEF SessionType
  <2> HIDE DEF n
  <2> QED BY <1>1, <1>2, <2>2 DEF Follow, SessionOK, Coherent, Holding, AtWork
<1>7. Follow(Resting(u), s)
  BY <1>1, <1>5, RestFields DEF Follow, SameTab, SameCache, AtWork
<1>8. PICK v \in {b, n, Resting(u)} : Update(t, v)
  BY <1>1 DEF Freeze, b, n, u, SessionType
<1>9. ask \in Ask
  BY <1>2 DEF Entry, Ask
<1>10. net' \in SUBSET Ask
  BY <1>1, <1>9 DEF Freeze, OtherTypes
<1>11. store' = store \/ store' = [store EXCEPT !.queue = Froze(@, f.id)]
  BY DEF Freeze
<1>12. /\ store' \in Stores /\ NoEditOutlivesAccess'
       /\ store'.confirmed = store.confirmed /\ store'.generation = store.generation
  <2>1. Froze(store.queue, f.id) \in SUBSET Entry
    BY <1>1, <1>3 DEF OtherTypes, Stores
  <2>2. NoEditOutlivesAccess /\ store.queue \in SUBSET Entry
    BY <1>1 DEF SessionInv, CacheInv, OtherTypes, Stores
  <2>3. /\ store' \in Stores /\ store'.queue \in {store.queue, Froze(store.queue, f.id)}
        /\ store'.confirmed = store.confirmed /\ store'.generation = store.generation
    BY <1>1, <1>11, <2>1 DEF OtherTypes, Stores
  <2> QED BY <1>3, <2>2, <2>3 DEF NoEditOutlivesAccess
<1>13. /\ UNCHANGED <<history, receipt, access, lock, told, online, userVars, events>>
  BY DEF Freeze
<1>14. OtherTypes'
  BY <1>1, <1>10, <1>12, <1>13 DEF OtherTypes, userVars
<1>15. Follow(v, s)
  BY <1>4, <1>6, <1>7, <1>8
<1> HIDE DEF s, b, n
<1> QED BY <1>8, <1>12, <1>13, <1>14, <1>15, KeptStep DEF s

LEMMA AcknowledgedStep ==
  ASSUME SessionInv, NEW t \in Tabs, Acknowledged(t)
  PROVE  SessionInv'
<1> DEFINE s == session[t]
           f == s.front
           r == receipt[f.id].revision
           o == Overtaken(s)
           x == Resting(s)
           n == [x EXCEPT !.confirmed = r, !.generation = s.generation + 1,
                          !.entries = Settled(s.entries, f, r), !.stage = "pass"]
<1>1. s \in SessionType /\ Coherent(s) /\ s.stage = "sending" /\ Fits(s, store) /\ OtherTypes /\ SessionTypeOK
  BY TabsAreOK DEF Acknowledged
<1>2. f \in Entry
  BY <1>1 DEF SessionType, Coherent
<1>3. r \in Nat
  <2>1. f.id \in Ids
    BY <1>2 DEF Entry
  <2> QED BY <1>1, <2>1 DEF OtherTypes
<1> HIDE DEF f, r
<1>4. \A queue \in SUBSET Entry : Settled(queue, f, r) \in SUBSET Entry
  <2>1. \A e \in Entry : [e EXCEPT !.base = r] \in Entry
    BY <1>3 DEF Entry
  <2> QED BY <2>1 DEF Settled, Without
<1>5. CASE ~ Guarded(s.guard)
  <2>1. Update(t, Resting(o)) /\ UNCHANGED <<serverVars, store, lock, told, online, userVars, events>>
    BY <1>5 DEF Acknowledged, serverVars, userVars, f, r
  <2>2. /\ SessionOK(o) /\ SameTab(o, s) /\ o.confirmed = store.confirmed /\ o.generation = store.generation
    BY <1>1, OvertakenFields
  <2> HIDE DEF o
  <2>3. Follow(Resting(o), s)
    BY <1>1, <2>2, RestFields DEF SessionOK, Follow, SameTab, SameCache, AtWork
  <2> QED BY <2>1, <2>3, FollowStep DEF serverVars, userVars
<1>6. CASE Guarded(s.guard)
  <2>1. /\ store' = [confirmed |-> r, generation |-> store.generation + 1,
                     queue |-> Settled(store.queue, f, r)]
        /\ Update(t, [Resting(s) EXCEPT !.confirmed = r, !.generation = @ + 1,
                        !.entries = Settled(@, f, r), !.stage = "pass"])
        /\ Tell(t)
        /\ UNCHANGED <<serverVars, lock, online, userVars, events>>
    BY <1>6 DEF Acknowledged, f, r
  <2>2. /\ SessionOK(x) /\ SameTab(x, s) /\ SameCache(x, s) /\ x.stage = "rest"
    BY <1>1, RestFields
  <2>3. x.view = None /\ x.front = None
    BY <2>2 DEF SessionOK, Coherent
  <2> HIDE DEF x
  <2>4. Update(t, n)
    BY <2>1, <2>2 DEF x, SameCache, SessionOK, SessionType
  <2>5. s.generation \in Nat /\ Settled(s.entries, f, r) \in SUBSET Entry /\ Settled(store.queue, f, r) \in SUBSET Entry
    BY <1>1, <1>4 DEF SessionType, OtherTypes, Stores
  <2>6. "pass" \in Stage /\ r \in Snapshot /\ s.generation + 1 \in Nat
    BY <1>3, <2>5 DEF Stage, Snapshot
  <2>7. /\ n \in SessionType /\ n.stage = "pass" /\ n.view = None /\ n.front = None
        /\ n.owned = s.owned /\ n.writing = s.writing
        /\ n.generation = s.generation + 1
    BY <2>2, <2>3, <2>5, <2>6 DEF SessionOK, SessionType, SameTab
  <2> HIDE DEF n
  <2>8. SessionOK(n) /\ (Holding(n) => Holding(s))
    BY <1>1, <2>7 DEF SessionOK, Coherent, Holding, AtWork
  <2>9. /\ store' \in Stores /\ store'.generation = store.generation + 1 /\ store'.confirmed = r /\ r # None
        /\ store.generation \in Nat
    BY <1>1, <1>3, <2>1, <2>5 DEF Stores, OtherTypes, Snapshot
  <2>10. NoEditOutlivesAccess'
    BY <2>9 DEF NoEditOutlivesAccess
  <2>11. s.generation <= store.generation
    BY <1>1 DEF Fits
  <2>12. n.generation <= store.generation \/ n.generation = store'.generation
    BY <2>5, <2>7, <2>9, <2>11
  <2>13. OtherTypes'
    BY <1>1, <2>1, <2>9, ToldTypes DEF OtherTypes, serverVars, userVars
  <2>14. lock' = lock /\ n.writing \subseteq s.writing
    BY <2>1, <2>7
  <2> QED BY <2>4, <2>8, <2>9, <2>10, <2>12, <2>13, <2>14, RaisedStep
<1> QED BY <1>5, <1>6

(* The tab takes what an answer made of its cache, and the store with it. *)
LEMMA ReconcileStep ==
  ASSUME SessionInv, NEW t \in Tabs, NEW v \in Nat, Saves(t, v),
         NEW u, SessionOK(u), Update(t, u),
         u.writing \subseteq session[t].writing, Holding(u) => Holding(session[t]),
         u.confirmed = Reconciled(session[t], v).confirmed,
         u.generation = Reconciled(session[t], v).generation,
         UNCHANGED <<serverVars, lock, online, userVars, events>>
  PROVE  SessionInv'
<1> DEFINE s == session[t]
           c == Reconciled(s, v)
<1>1. s \in SessionType /\ Coherent(s) /\ Fits(s, store) /\ OtherTypes /\ SessionTypeOK /\ NoEditOutlivesAccess
  BY TabsAreOK DEF SessionInv, CacheInv
<1>2. \/ ~ Confirms(s, v) /\ SameCache(c, s)
      \/ /\ ~ Confirms(s, v) /\ c.confirmed = store.confirmed /\ c.entries = store.queue
         /\ c.generation = store.generation
      \/ /\ Confirms(s, v) /\ c.confirmed = v /\ c.entries = s.entries
         /\ c.generation = s.generation + 1 /\ s.generation = store.generation
  BY <1>1, ReconciledFields
<1> HIDE DEF c
<1>3. u.confirmed = c.confirmed /\ u.generation = c.generation
  BY DEF c
<1>4. CASE ~ Confirms(s, v)
  <2>1. store' = store /\ told' = told
    BY <1>4 DEF Saves
  <2>2. OtherTypes' /\ store' \in Stores /\ NoEditOutlivesAccess'
    BY <1>1, <2>1 DEF OtherTypes, serverVars, userVars, NoEditOutlivesAccess
  <2>3. Fits(u, store)
    BY <1>1, <1>2, <1>3, <1>4, FitsAsBefore, FitsAdopted DEF OtherTypes, SameCache
  <2> HIDE DEF s
  <2> QED BY <2>1, <2>2, <2>3, StoreStays, TabStep DEF s
<1>5. CASE Confirms(s, v)
  <2>1. store' = [store EXCEPT !.confirmed = v, !.generation = @ + 1] /\ Tell(t)
    BY <1>5 DEF Saves
  <2>2. v \in Snapshot /\ v # None
    BY DEF Snapshot
  <2>3. /\ store' \in Stores /\ store'.generation = store.generation + 1 /\ store'.confirmed = v
        /\ store.generation \in Nat
    <3>1. store \in Stores /\ store.generation \in Nat
      BY <1>1 DEF OtherTypes, Stores
    <3> DEFINE m == [store EXCEPT !.confirmed = v]
    <3>2. m \in Stores /\ m.confirmed = v /\ m.generation = store.generation
      BY <2>2, <3>1 DEF Stores
    <3>3. store' = [m EXCEPT !.generation = store.generation + 1]
      BY <2>1, <3>1
    <3> HIDE DEF m
    <3> QED BY <3>1, <3>2, <3>3 DEF Stores
  <2>4. OtherTypes' /\ NoEditOutlivesAccess'
    BY <1>1, <2>1, <2>2, <2>3, ToldTypes DEF OtherTypes, serverVars, userVars, NoEditOutlivesAccess
  <2>5. u.generation = store'.generation
    BY <1>2, <1>3, <1>5, <2>3
  <2> HIDE DEF s
  <2> QED BY <2>2, <2>3, <2>4, <2>5, RaisedStep DEF s
<1> QED BY <1>4, <1>5

(* The answer belongs to the drain, which looks again, rests or goes on. *)
LEMMA AnswerStep ==
  ASSUME SessionInv, NEW t \in Tabs, NEW v \in Nat, Saves(t, v),
         session[t].stage \in {"fresh", "refetch"},
         NEW after \in {AfterFresh(Reconciled(session[t], v)), AfterRefetch(Reconciled(session[t], v))},
         Update(t, IF Again(session[t], v) THEN [Reconciled(session[t], v) EXCEPT !.view = None]
                   ELSE after),
         UNCHANGED <<serverVars, lock, online, userVars, events>>
  PROVE  SessionInv'
<1> DEFINE s == session[t]
           c == Reconciled(s, v)
           x == Resting(c)
           again == [c EXCEPT !.view = None]
           on == [x EXCEPT !.stage = "pass", !.needsFresh = FALSE]
           done == [x EXCEPT !.refetch = @ /\ c.error \notin {"none", "conflict"}]
           told1 == Blocked(done, "conflict")
           Good(u) == /\ SessionOK(u) /\ SameTab(u, c)
                      /\ u.confirmed = c.confirmed /\ u.generation = c.generation
<1>1. s \in SessionType /\ Coherent(s) /\ SessionTypeOK
  BY TabsAreOK
<1>2. SessionOK(c) /\ SameTab(c, s) /\ c.stage = s.stage
  BY <1>1, ReconciledFields
<1>3. Holding(s)
  BY DEF Holding, AtWork
<1>4. Update(t, again) \/ Update(t, x) \/ Update(t, on) \/ Update(t, done) \/ Update(t, told1)
  BY DEF AfterFresh, AfterRefetch
<1> HIDE DEF c
<1>5. Good(x) /\ x.stage = "rest" /\ x.view = None /\ x.front = None
  BY <1>2, RestFields DEF SessionOK, SameCache, Coherent
<1>6. Good(again)
  <2>1. /\ again \in SessionType /\ again.stage = c.stage /\ again.front = c.front /\ again.view = None
        /\ SameTab(again, c) /\ again.confirmed = c.confirmed /\ again.generation = c.generation
    BY <1>2 DEF SessionOK, SessionType, SameTab, Snapshot
  <2> HIDE DEF again
  <2> QED BY <1>2, <2>1 DEF SessionOK, Coherent
<1> HIDE DEF x
<1>7. Good(on)
  <2>1. "pass" \in Stage
    BY DEF Stage
  <2>2. /\ on \in SessionType /\ on.stage = "pass" /\ on.front = None /\ on.view = None
        /\ SameTab(on, c) /\ on.confirmed = c.confirmed /\ on.generation = c.generation
    BY <1>5, <2>1 DEF SessionOK, SessionType, SameTab
  <2> HIDE DEF on
  <2> QED BY <2>2 DEF SessionOK, Coherent
<1>8. Good(done)
  <2>1. /\ done \in SessionType /\ done.stage = "rest" /\ done.front = None /\ done.view = None
        /\ SameTab(done, c) /\ done.confirmed = c.confirmed /\ done.generation = c.generation
    BY <1>5 DEF SessionOK, SessionType, SameTab
  <2> HIDE DEF done
  <2> QED BY <2>1 DEF SessionOK, Coherent
<1>9. Good(told1)
  <2> HIDE DEF done
  <2>1. SessionOK(told1) /\ SameTab(told1, done) /\ SameCache(told1, done)
    BY <1>8, BlockedFields DEF SessionOK, Kinds
  <2> QED BY <1>8, <2>1 DEF SameTab, SameCache
<1> HIDE DEF again, on, done, told1
<1>10. PICK u : Update(t, u) /\ Good(u)
  BY <1>4, <1>5, <1>6, <1>7, <1>8, <1>9
<1>11. SessionOK(u) /\ u.writing = s.writing
  BY <1>2, <1>10 DEF SameTab
<1> QED BY <1>3, <1>10, <1>11, ReconcileStep DEF c

LEMMA FreshArrivesStep ==
  ASSUME SessionInv, NEW t \in Tabs, FreshArrives(t)
  PROVE  SessionInv'
<1>1. session[t].view \in Nat /\ session[t].stage = "fresh"
  BY TabsAreOK DEF FreshArrives, SessionType, Snapshot
<1>2. UNCHANGED <<serverVars, lock, online, userVars, events>> /\ Saves(t, session[t].view)
  BY DEF FreshArrives
<1>3. Update(t, IF Again(session[t], session[t].view) THEN [Reconciled(session[t], session[t].view) EXCEPT !.view = None]
                ELSE AfterFresh(Reconciled(session[t], session[t].view)))
  BY DEF FreshArrives
<1> QED BY <1>1, <1>2, <1>3, AnswerStep

LEMMA RefetchArrivesStep ==
  ASSUME SessionInv, NEW t \in Tabs, RefetchArrives(t)
  PROVE  SessionInv'
<1> DEFINE s == session[t]
<1>1. s.view \in Nat /\ s.stage = "refetch" /\ s \in SessionType
  BY TabsAreOK DEF RefetchArrives, SessionType, Snapshot
<1>2. UNCHANGED <<serverVars, lock, online, userVars, events>>
  BY DEF RefetchArrives
<1>3. CASE s.confirmed # None /\ s.view < s.confirmed
  <2>1. Update(t, Resting(Blocked(s, "network"))) /\ UNCHANGED <<store, told>>
    BY <1>3 DEF RefetchArrives
  <2>2. Follow(Resting(Blocked(s, "network")), s)
    BY <1>1, BlockedRestFollows DEF Kinds
  <2> QED BY <1>2, <2>1, <2>2, FollowStep DEF serverVars, userVars
<1>4. CASE ~ (s.confirmed # None /\ s.view < s.confirmed)
  <2>1. /\ Saves(t, s.view)
        /\ Update(t, IF Again(s, s.view) THEN [Reconciled(s, s.view) EXCEPT !.view = None]
                     ELSE AfterRefetch(Reconciled(s, s.view)))
    BY <1>4 DEF RefetchArrives
  <2> QED BY <1>1, <1>2, <2>1, AnswerStep
<1> QED BY <1>3, <1>4

LEMMA RefreshArrivesStep ==
  ASSUME SessionInv, NEW t \in Tabs, RefreshArrives(t)
  PROVE  SessionInv'
<1> DEFINE s == session[t]
           v == s.sideView
           c == Reconciled(s, v)
           after == IF Again(s, v) THEN c.side ELSE "none"
           u == [c EXCEPT !.sideView = None, !.side = after]
<1>1. s \in SessionType /\ Coherent(s) /\ SessionTypeOK /\ v \in Nat
  BY TabsAreOK DEF RefreshArrives, SessionType, Snapshot
<1>2. UNCHANGED <<serverVars, lock, online, userVars, events>> /\ Saves(t, v)
  BY DEF RefreshArrives
<1>3. SessionOK(c) /\ SameTab(c, s) /\ (c.stage = s.stage \/ c.stage = "rest")
  BY <1>1, ReconciledFields
<1>4. Update(t, [c EXCEPT !.sideView = None, !.side = IF Again(s, v) THEN @ ELSE "none"])
  BY DEF RefreshArrives
<1> HIDE DEF c, v
<1>5. Update(t, u)
  BY <1>3, <1>4 DEF SessionOK, SessionType
<1>6. after \in {"none", "forgetting", "refreshing"} /\ None \in Snapshot
  BY <1>3 DEF SessionOK, SessionType, Snapshot
<1> HIDE DEF after
<1>7. /\ u \in SessionType /\ u.stage = c.stage /\ u.view = c.view /\ u.front = c.front
      /\ u.owned = c.owned /\ u.writing = c.writing
      /\ u.confirmed = c.confirmed /\ u.generation = c.generation
  BY <1>3, <1>6 DEF SessionOK, SessionType
<1> HIDE DEF u
<1>8. /\ SessionOK(u) /\ u.writing = s.writing /\ (Holding(u) => Holding(s))
  BY <1>3, <1>7 DEF SessionOK, SameTab, Holding, Coherent, AtWork
<1> HIDE DEF s
<1> QED BY <1>1, <1>2, <1>5, <1>7, <1>8, ReconcileStep DEF s, c

LEMMA ForgetRollStep ==
  ASSUME SessionInv, NEW t \in Tabs, ForgetRoll(t)
  PROVE  SessionInv'
<1> DEFINE s == session[t]
           u == [s EXCEPT !.side = "forgetting"]
<1>1. s \in SessionType /\ Coherent(s) /\ OtherTypes /\ Fits(s, store) /\ NoEditOutlivesAccess
  BY TabsAreOK DEF SessionInv, CacheInv
<1>2. /\ SessionOK(u) /\ u.stage = s.stage /\ u.owned = s.owned /\ u.writing = s.writing
      /\ u.generation = s.generation
  BY <1>1 DEF SessionOK, SessionType, Coherent
<1>3. Update(t, u) /\ store' = [store EXCEPT !.generation = @ + 1] /\ Event
      /\ UNCHANGED <<serverVars, lock, told, online, userVars>>
  BY DEF ForgetRoll
<1> HIDE DEF u
<1>4. /\ store' \in Stores /\ store'.generation = store.generation + 1
      /\ store'.confirmed = store.confirmed /\ store'.queue = store.queue
  <2>1. store \in Stores /\ store.generation \in Nat
    BY <1>1 DEF OtherTypes, Stores
  <2>2. store' = [store EXCEPT !.generation = store.generation + 1]
    BY <1>3, <2>1
  <2> QED BY <2>1, <2>2 DEF Stores
<1>5. OtherTypes' /\ NoEditOutlivesAccess'
  BY <1>1, <1>3, <1>4 DEF OtherTypes, serverVars, userVars, Event, NoEditOutlivesAccess
<1>6. u.generation <= store.generation /\ lock' = lock
  BY <1>1, <1>2, <1>3 DEF Fits
<1> QED BY <1>2, <1>3, <1>4, <1>5, <1>6, RaisedStep DEF Holding

LEMMA RollForgottenStep ==
  ASSUME SessionInv, NEW t \in Tabs, RollForgotten(t)
  PROVE  SessionInv'
<1> DEFINE s == session[t]
           u == [s EXCEPT !.side = "none"]
           a == Adopted(u)
<1>1. s \in SessionType /\ Coherent(s) /\ SessionTypeOK /\ OtherTypes
  BY TabsAreOK
<1>2. /\ SessionOK(u) /\ u.stage = s.stage /\ u.owned = s.owned /\ u.writing = s.writing
      /\ u.generation = s.generation /\ u.confirmed = s.confirmed
  BY <1>1 DEF SessionOK, SessionType, Coherent
<1>3. /\ Update(t, u) \/ Update(t, a)
      /\ told' = told \/ Tell(t)
      /\ UNCHANGED <<serverVars, store, lock, online, userVars, events>>
  BY DEF RollForgotten
<1> HIDE DEF u
<1>4. Follow(u, s) /\ Follow(a, s)
  BY <1>1, <1>2, AdoptedFields DEF SessionOK, Follow, SameTab, Holding
<1>5. OtherTypes'
  BY <1>1, <1>3, ToldTypes DEF OtherTypes, serverVars, userVars
<1>6. StoreMoves
  BY <1>3, StoreStays
<1> HIDE DEF s, a
<1> QED BY <1>3, <1>4, <1>5, <1>6, KeptStep DEF s, StoreMoves

LEMMA PurgeStep ==
  ASSUME SessionInv, NEW t \in Tabs, NEW r \in SessionType, Coherent(r),
         r.writing = session[t].writing, r.generation = session[t].generation,
         r.stage \in AtWork => Holding(session[t]),
         PurgeAccess(t, r), net' \subseteq net, events' = events \/ Event
  PROVE  SessionInv'
<1> DEFINE s == session[t]
           b == Blocked(r, "purged")
           u == [b EXCEPT !.confirmed = None, !.entries = {}, !.owned = FALSE]
<1>1. s \in SessionType /\ OtherTypes /\ Fits(s, store)
  BY TabsAreOK
<1>2. /\ SessionOK(b) /\ SameTab(b, r) /\ SameCache(b, r) /\ (b.stage = r.stage \/ b.stage = "rest")
  BY BlockedFields DEF Kinds
<1>3. Update(t, u)
  BY DEF PurgeAccess
<1> HIDE DEF b
<1>4. /\ u \in SessionType /\ u.stage = b.stage /\ u.view = b.view /\ u.front = b.front
      /\ u.owned = FALSE /\ u.writing = b.writing /\ u.generation = b.generation
  <2>1. None \in Snapshot
    BY DEF Snapshot
  <2> QED BY <1>2, <2>1 DEF SessionOK, SessionType
<1> HIDE DEF u
<1>5. SessionOK(u) /\ (Holding(u) => Holding(s)) /\ u.writing \subseteq s.writing /\ u.generation <= store.generation
  BY <1>1, <1>2, <1>4 DEF SessionOK, Coherent, Holding, AtWork, SameTab, SameCache, Fits
<1>6. /\ store' = [confirmed |-> None, generation |-> store.generation + 1, queue |-> {}]
      /\ lock' = lock /\ Tell(t)
  BY DEF PurgeAccess
<1>7. /\ store' \in Stores /\ store'.generation = store.generation + 1 /\ NoEditOutlivesAccess'
  BY <1>1, <1>6 DEF OtherTypes, Stores, Snapshot, NoEditOutlivesAccess
<1>8. purged' \in SUBSET Ids
  <2>1. store.queue \in SUBSET Entry
    BY <1>1 DEF OtherTypes, Stores
  <2>2. IdsOf(store.queue) \in SUBSET Ids
    BY <2>1 DEF IdsOf, Entry
  <2> QED BY <1>1, <2>2 DEF OtherTypes, PurgeAccess, Revision
<1>9. OtherTypes'
  <2>1. UNCHANGED <<history, receipt, access, lock, online, order, grounds, accepted, reviewed>>
    BY DEF PurgeAccess
  <2>2. events' \in Nat /\ net' \in SUBSET Ask
    BY <1>1 DEF OtherTypes, Event
  <2>3. told' \in SUBSET Tabs
    BY <1>1, <1>6, ToldTypes DEF OtherTypes
  <2> QED BY <1>1, <1>7, <1>8, <2>1, <2>2, <2>3 DEF OtherTypes
<1> HIDE DEF s
<1> QED BY <1>3, <1>5, <1>6, <1>7, <1>9, RaisedStep DEF s

LEMMA DeniedStep ==
  ASSUME SessionInv, NEW t \in Tabs, Denied(t) \/ ActivityDenied(t)
  PROVE  SessionInv'
<1> DEFINE s == session[t]
           u == [s EXCEPT !.side = "none"]
           x == Resting(s)
<1>1. s \in SessionType /\ Coherent(s)
  BY TabsAreOK
<1>2. /\ SessionOK(u) /\ u.stage = s.stage /\ u.owned = s.owned /\ u.writing = s.writing
      /\ u.generation = s.generation
  BY <1>1 DEF SessionOK, SessionType, Coherent
<1>3. /\ SessionOK(x) /\ x.stage = "rest" /\ x.writing = s.writing /\ x.generation = s.generation
  BY <1>1, RestFields DEF SameTab, SameCache
<1>4. \E r \in {u, x, s} : PurgeAccess(t, r)
  BY DEF Denied, ActivityDenied
<1>5. net' \subseteq net /\ (events' = events \/ Event)
  BY DEF Denied, ActivityDenied
<1> HIDE DEF u, x
<1>6. \A r \in {u, x, s} : /\ SessionOK(r) /\ r.writing = s.writing /\ r.generation = s.generation
                           /\ r.stage \in AtWork => Holding(s)
  BY <1>1, <1>2, <1>3 DEF SessionOK, AtWork, Holding
<1> QED BY <1>4, <1>5, <1>6, PurgeStep DEF SessionOK

(* Steps of the coordination, which move the lock. *)

LEMMA AcquireStep ==
  ASSUME SessionInv, NEW t \in Tabs, Acquire(t)
  PROVE  SessionInv'
<1> DEFINE s == session[t]
           a == Adopted(s)
           n == [a EXCEPT !.owned = TRUE, !.needsFresh = TRUE]
           u == Awake(n)
<1>1. s \in SessionType /\ Coherent(s) /\ SessionTypeOK /\ OtherTypes /\ Fits(s, store) /\ lock = None /\ None \notin Tabs
  BY TabsAreOK DEF Acquire
<1>2. /\ SessionOK(a) /\ a.writing = s.writing /\ a.generation = store.generation /\ a.confirmed = store.confirmed
  BY <1>1, AdoptedFields DEF SameTab
<1>3. Update(t, u) /\ lock' = t /\ UNCHANGED <<serverVars, store, told, online, userVars, events>>
  BY DEF Acquire
<1> HIDE DEF a
<1>4. /\ SessionOK(n) /\ n.writing = s.writing /\ n.generation = store.generation /\ n.confirmed = store.confirmed
  BY <1>2 DEF SessionOK, SessionType, Coherent
<1> HIDE DEF n
<1>5. /\ SessionOK(u) /\ u.writing = s.writing /\ u.generation = store.generation /\ u.confirmed = store.confirmed
  BY <1>4, AwakeFields DEF SessionOK, SameTab, SameCache
<1> HIDE DEF u
<1>6. Fits(u, store)
  BY <1>1, <1>5, FitsAdopted DEF OtherTypes
<1>7. \A v \in Tabs : ~ Holding(session[v])
  BY <1>1 DEF SessionInv, LockInv
<1>8. /\ session' \in [Tabs -> SessionType] /\ session'[t] = u
      /\ \A v \in Tabs \ {t} : session'[v] = session[v]
  BY <1>1, <1>3, <1>5 DEF Update, SessionTypeOK, SessionOK
<1>9. LockInv'
  BY <1>3, <1>7, <1>8 DEF LockInv
<1>10. CacheInv'
  BY <1>3, <1>6, <1>8 DEF SessionInv, CacheInv, NoEditOutlivesAccess
<1>11. SessionTypeOK'
  BY <1>1, <1>3, <1>5, <1>8 DEF SessionTypeOK, SessionOK, serverVars, userVars
<1> QED BY <1>9, <1>10, <1>11 DEF SessionInv

LEMMA SteppedDownFields ==
  ASSUME NEW s \in SessionType, Coherent(s)
  PROVE  Follow(SteppedDown(s), s) /\ (Holding(SteppedDown(s)) => Holding(s))
<1> DEFINE o == [s EXCEPT !.owned = FALSE]
           r == [o EXCEPT !.stage = "rest"]
<1>1. SteppedDown(s) = IF s.stage = "timer" THEN r ELSE o
  BY DEF SteppedDown, SessionType
<1>2. /\ o \in SessionType /\ o.stage = s.stage /\ o.view = s.view /\ o.front = s.front /\ o.owned = FALSE
      /\ o.writing = s.writing /\ o.generation = s.generation /\ o.confirmed = s.confirmed
  BY DEF SessionType
<1> HIDE DEF o
<1>3. /\ r \in SessionType /\ r.stage = "rest" /\ r.view = s.view /\ r.front = s.front /\ r.owned = FALSE
      /\ r.writing = s.writing /\ r.generation = s.generation /\ r.confirmed = s.confirmed
  <2>1. "rest" \in Stage
    BY DEF Stage
  <2> QED BY <1>2, <2>1 DEF SessionType
<1> HIDE DEF r
<1> QED BY <1>1, <1>2, <1>3 DEF Follow, SessionOK, Coherent, Holding, AtWork

LEMMA TakeoverStep ==
  ASSUME SessionInv, NEW t \in Tabs, Takeover(t)
  PROVE  SessionInv'
<1>1. lock \in Tabs /\ Update(lock, SteppedDown(session[lock])) /\ Event
      /\ UNCHANGED <<serverVars, store, lock, told, online, userVars>>
  BY DEF Takeover
<1>2. Follow(SteppedDown(session[lock]), session[lock])
  BY <1>1, TabsAreOK, SteppedDownFields
<1> QED BY <1>1, <1>2, FollowStep

LEMMA LetGoStep ==
  ASSUME SessionInv, NEW t \in Tabs, LetGo(t)
  PROVE  SessionInv'
<1>1. lock = t /\ lock' = None /\ UNCHANGED <<serverVars, store, session, told, online, userVars, events>>
  BY DEF LetGo
<1>2. ~ Holding(session[t])
  BY DEF LetGo, Quiet, Holding, AtWork
<1>3. \A v \in Tabs : ~ Holding(session[v])
  BY <1>1, <1>2 DEF SessionInv, LockInv
<1>4. SessionTypeOK' /\ LockInv' /\ CacheInv'
  BY <1>1, <1>3 DEF SessionInv, SessionTypeOK, LockInv, CacheInv, NoEditOutlivesAccess, serverVars, userVars
<1> QED BY <1>4 DEF SessionInv

LEMMA CloseTabStep ==
  ASSUME SessionInv, NEW t \in Tabs, CloseTab(t)
  PROVE  SessionInv'
<1>1. SessionOK(Closed) /\ ~ Holding(Closed)
  BY DEF Closed, SessionOK, SessionType, Coherent, Stage, Snapshot, Holding, AtWork
<1>2. SessionTypeOK
  BY DEF SessionInv
<1>3. Fits(Closed, store)
  BY <1>2 DEF Closed, Fits, SessionTypeOK
<1>4. /\ session' \in [Tabs -> SessionType] /\ session'[t] = Closed
      /\ \A v \in Tabs \ {t} : session'[v] = session[v]
  BY <1>1, <1>2 DEF CloseTab, Update, SessionTypeOK, SessionOK
<1>5. LockInv'
  BY <1>1, <1>4 DEF SessionInv, LockInv, CloseTab
<1>6. CacheInv'
  BY <1>3, <1>4 DEF SessionInv, CacheInv, NoEditOutlivesAccess, CloseTab
<1>7. SessionTypeOK'
  BY <1>1, <1>2, <1>4 DEF SessionTypeOK, SessionOK, CloseTab, Event, serverVars, userVars
<1> QED BY <1>5, <1>6, <1>7 DEF SessionInv

(* A step that touches every tab, and none of its cache or its work. *)
LEMMA AllTabsStep ==
  ASSUME SessionInv,
         session' \in [Tabs -> SessionType],
         \A t \in Tabs : /\ Coherent(session'[t]) /\ session'[t].owned = session[t].owned
                         /\ session'[t].stage \in AtWork => session[t].stage \in AtWork
                         /\ session'[t].writing = session[t].writing
                         /\ session'[t].generation = session[t].generation
                         /\ session'[t].confirmed = session[t].confirmed,
         UNCHANGED <<serverVars, store, lock, told, userVars>>, online' \in BOOLEAN,
         events' = events \/ Event
  PROVE  SessionInv'
<1>1. LockInv'
  BY DEF SessionInv, LockInv, Holding
<1>2. CacheInv'
  BY DEF SessionInv, CacheInv, NoEditOutlivesAccess, Fits
<1>3. SessionTypeOK'
  BY DEF SessionInv, SessionTypeOK, Event, serverVars, userVars
<1> QED BY <1>1, <1>2, <1>3 DEF SessionInv

LEMMA GoOfflineStep ==
  ASSUME SessionInv, GoOffline
  PROVE  SessionInv'
<1> DEFINE Paused(t) == [session[t] EXCEPT !.needsFresh = TRUE]
<1>1. \A t \in Tabs : session[t] \in SessionType /\ Coherent(session[t])
  BY TabsAreOK
<1>2. \A t \in Tabs : /\ Paused(t) \in SessionType /\ Coherent(Paused(t))
                      /\ Paused(t).owned = session[t].owned /\ Paused(t).stage = session[t].stage
                      /\ Paused(t).writing = session[t].writing
                      /\ Paused(t).generation = session[t].generation
                      /\ Paused(t).confirmed = session[t].confirmed
  <2> SUFFICES ASSUME NEW t \in Tabs, NEW s \in SessionType, Coherent(s)
               PROVE  LET p == [s EXCEPT !.needsFresh = TRUE]
                      IN  /\ p \in SessionType /\ Coherent(p)
                          /\ p.owned = s.owned /\ p.stage = s.stage /\ p.writing = s.writing
                          /\ p.generation = s.generation /\ p.confirmed = s.confirmed
    BY <1>1
  <2> QED BY DEF SessionType, Coherent
<1>3. session' = [t \in Tabs |-> Paused(t)]
  BY DEF GoOffline
<1>4. UNCHANGED <<serverVars, store, lock, told, userVars>> /\ online' \in BOOLEAN /\ Event
  BY DEF GoOffline
<1> HIDE DEF Paused
<1> QED BY <1>2, <1>3, <1>4, AllTabsStep

LEMMA ReconnectedFields ==
  ASSUME NEW s \in SessionType, Coherent(s)
  PROVE  LET r == Reconnected(s)
         IN  /\ SessionOK(r) /\ r.owned = s.owned /\ (r.stage \in AtWork => s.stage \in AtWork)
             /\ r.writing = s.writing /\ r.generation = s.generation /\ r.confirmed = s.confirmed
<1> DEFINE u == [s EXCEPT !.error = IF s.error = "network" THEN "none" ELSE s.error]
<1>1. /\ SessionOK(u) /\ u.owned = s.owned /\ u.stage = s.stage
      /\ u.writing = s.writing /\ u.generation = s.generation /\ u.confirmed = s.confirmed
  BY DEF SessionOK, SessionType, Coherent
<1>2. Reconnected(s) = IF u.open /\ u.error = "none" THEN Awake(u) ELSE u
  BY DEF Reconnected, SessionType
<1> HIDE DEF u
<1>3. SessionOK(Awake(u)) /\ SameTab(Awake(u), u) /\ SameCache(Awake(u), u)
      /\ (Awake(u).stage = u.stage \/ Awake(u).stage = "pass")
  BY <1>1, AwakeFields DEF SessionOK
<1> QED BY <1>1, <1>2, <1>3 DEF SameTab, SameCache, AtWork

LEMMA GoOnlineStep ==
  ASSUME SessionInv, GoOnline
  PROVE  SessionInv'
<1>1. \A t \in Tabs : LET r == Reconnected(session[t])
                      IN  /\ SessionOK(r) /\ r.owned = session[t].owned
                          /\ (r.stage \in AtWork => session[t].stage \in AtWork)
                          /\ r.writing = session[t].writing /\ r.generation = session[t].generation
                          /\ r.confirmed = session[t].confirmed
  BY TabsAreOK, ReconnectedFields
<1>2. session' = [t \in Tabs |-> Reconnected(session[t])]
  BY DEF GoOnline
<1>3. UNCHANGED <<serverVars, store, lock, told, userVars, events>> /\ online' \in BOOLEAN
  BY DEF GoOnline
<1> QED BY <1>1, <1>2, <1>3, AllTabsStep DEF SessionOK

LEMMA ServerStep ==
  ASSUME SessionInv, ForeignEdit \/ \E r \in net : Serve(r)
  PROVE  SessionInv'
<1>1. SessionTypeOK
  BY DEF SessionInv
<1>2. UNCHANGED <<store, lock, session, told, online, userVars, events>>
  BY DEF ForeignEdit, Serve, Answered
<1>3. /\ history' \in Seq(Ids \cup {Other})
      /\ receipt' \in [Ids -> [outcome : {"none", "applied", "refused", "conflict"}, revision : Nat]]
      /\ access' \in BOOLEAN /\ net' \in SUBSET Ask
  <2>1. CASE ForeignEdit
    BY <1>1, <2>1 DEF ForeignEdit, SessionTypeOK
  <2>2. CASE \E r \in net : Serve(r)
    <3>1. PICK r \in net : Serve(r)
      BY <2>2
    <3>2. r.id \in Ids /\ Revision + 1 \in Nat
      BY <1>1 DEF SessionTypeOK, Ask, Revision
    <3>3. net' \in SUBSET Ask /\ access' \in BOOLEAN
      BY <1>1, <3>1 DEF Serve, Answered, SessionTypeOK
    <3>4. history' = history \/ history' = Append(history, r.id)
      BY <3>1 DEF Serve, Answered
    <3>5. history' \in Seq(Ids \cup {Other})
      <4>1. history \in Seq(Ids \cup {Other}) /\ r.id \in Ids \cup {Other}
        BY <1>1, <3>2 DEF SessionTypeOK
      <4>2. \A S : history \in Seq(S) /\ r.id \in S => Append(history, r.id) \in Seq(S)
        OBVIOUS
      <4> HIDE DEF Ids
      <4> QED BY <3>4, <4>1, <4>2
    <3>6. \/ receipt' = receipt
          \/ receipt' = [receipt EXCEPT ![r.id] = [outcome |-> "applied", revision |-> Revision + 1]]
          \/ receipt' = [receipt EXCEPT ![r.id].outcome = "refused"]
          \/ receipt' = [receipt EXCEPT ![r.id].outcome = "conflict"]
      BY <3>1 DEF Serve, Answered
    <3>7. receipt' \in [Ids -> [outcome : {"none", "applied", "refused", "conflict"}, revision : Nat]]
      <4> DEFINE R == [outcome : {"none", "applied", "refused", "conflict"}, revision : Nat]
                 applied == [outcome |-> "applied", revision |-> Revision + 1]
                 said(outcome) == [receipt[r.id] EXCEPT !.outcome = outcome]
      <4>1. receipt \in [Ids -> R]
        BY <1>1 DEF SessionTypeOK
      <4>2. applied \in R /\ said("refused") \in R /\ said("conflict") \in R
        BY <3>2, <4>1
      <4>3. receipt' = receipt \/ \E x \in R : receipt' = [receipt EXCEPT ![r.id] = x]
        BY <3>6, <4>2
      <4> HIDE DEF R
      <4>4. receipt' \in [Ids -> R]
        BY <3>2, <4>1, <4>3
      <4> QED BY <4>4 DEF R
    <3> QED BY <3>3, <3>5, <3>7
  <2> QED BY <2>1, <2>2
<1>4. SessionTypeOK'
  BY <1>1, <1>2, <1>3 DEF SessionTypeOK, userVars
<1>5. LockInv' /\ CacheInv'
  BY <1>2 DEF SessionInv, LockInv, CacheInv, NoEditOutlivesAccess
<1> QED BY <1>4, <1>5 DEF SessionInv

LEMMA RenewedType ==
  ASSUME NEW e \in Entry, NEW base \in Nat, Renewed(e, base).id \in Ids
  PROVE  Renewed(e, base) \in Entry
BY DEF Renewed, Entry

LEMMA ReviewStep ==
  ASSUME SessionInv, NEW t \in Tabs, NEW again \in BOOLEAN, Review(t, again)
  PROVE  SessionInv'
<1> DEFINE s == session[t]
<1>1. s \in SessionType /\ Coherent(s) /\ Fits(s, store) /\ OtherTypes /\ SessionTypeOK /\ s.confirmed # None
  BY TabsAreOK DEF Review
<1>2. s.confirmed \in Nat
  BY <1>1 DEF SessionType, Snapshot
<1>3. CASE ~ Guarded(s.generation)
  <2>1. Update(t, Overtaken(s)) /\ UNCHANGED <<serverVars, store, lock, told, online, userVars, events>>
    BY <1>3 DEF Review, serverVars, userVars
  <2>2. Follow(Overtaken(s), s)
    BY <1>1, OvertakenFields DEF Follow, SameTab, Holding, AtWork
  <2> QED BY <2>1, <2>2, FollowStep DEF serverVars, userVars
<1>4. CASE Guarded(s.generation)
  <2> DEFINE New(chosen) == IF again THEN {Renewed(e, s.confirmed) : e \in chosen} ELSE {}
             Queue(chosen) == {e \in store.queue : e.id \notin IdsOf(chosen)} \cup New(chosen)
             Next1(chosen) == [s EXCEPT !.confirmed = store.confirmed, !.entries = Queue(chosen),
                                       !.generation = store.generation + 1,
                                       !.error = "none", !.needsFresh = FALSE]
  <2>1. PICK chosen \in Selections(s) :
          /\ IdsOf(New(chosen)) \subseteq Ids
          /\ store' = [store EXCEPT !.queue = Queue(chosen), !.generation = @ + 1]
          /\ Update(t, Awake(Next1(chosen)))
          /\ reviewed' = reviewed \cup IdsOf(chosen)
          /\ accepted' = accepted \cup IdsOf(New(chosen))
          /\ grounds' = [id \in Ids |-> IF id \in IdsOf(New(chosen)) THEN ForeignMade(s.confirmed)
                                        ELSE grounds[id]]
          /\ Tell(t)
    BY <1>4 DEF Review
  <2>2. chosen \subseteq Entry
    BY <1>1 DEF Selections, ReviewSet, Unmatched, SessionType
  <2> DEFINE new == New(chosen)
             queue == Queue(chosen)
             n == Next1(chosen)
             u == Awake(n)
  <2>3. IdsOf(chosen) \subseteq Ids /\ IdsOf(new) \subseteq Ids
    BY <2>1, <2>2 DEF IdsOf, Entry
  <2>4. new \subseteq Entry
    <3>1. \A e \in chosen : again => Renewed(e, s.confirmed).id \in Ids
      BY <2>3 DEF IdsOf
    <3> QED BY <1>2, <2>2, <3>1, RenewedType
  <2>5. queue \in SUBSET Entry /\ store \in Stores /\ store.generation + 1 \in Nat
    BY <1>1, <2>4 DEF OtherTypes, Stores
  <2>6. UNCHANGED <<serverVars, lock, online, order, purged, events>>
    BY DEF Review
  <2> HIDE DEF New, Queue
  <2>7. /\ SessionOK(n) /\ n.stage = s.stage /\ n.owned = s.owned /\ n.writing = s.writing
        /\ n.generation = store.generation + 1
    BY <1>1, <2>5 DEF SessionOK, SessionType, Coherent, Stores
  <2> HIDE DEF Next1
  <2>8. /\ SessionOK(u) /\ (u.stage = s.stage \/ u.stage = "pass") /\ u.owned = s.owned /\ u.writing = s.writing
        /\ u.generation = store.generation + 1
    BY <2>7, AwakeFields DEF SessionOK, SameTab, SameCache
  <2>9. /\ store' \in Stores /\ store'.generation = store.generation + 1
        /\ store'.confirmed = store.confirmed
    <3> DEFINE m == [store EXCEPT !.queue = queue]
    <3>1. m \in Stores /\ m.confirmed = store.confirmed /\ m.generation = store.generation
      BY <2>5 DEF Stores
    <3>2. store' = [m EXCEPT !.generation = store.generation + 1]
      BY <2>1, <2>5
    <3> HIDE DEF m
    <3> QED BY <2>5, <3>1, <3>2 DEF Stores
  <2>10. store'.confirmed # None /\ NoEditOutlivesAccess'
    BY <1>1, <1>4, <2>9 DEF Fits, Guarded, NoEditOutlivesAccess
  <2>11. grounds' \in [Ids -> Nat]
    <3>1. ForeignMade(s.confirmed) \in Nat
      BY <1>2, CountsAreNat
    <3> QED BY <1>1, <2>1, <3>1 DEF OtherTypes
  <2>12. accepted' \in SUBSET Ids /\ reviewed' \in SUBSET Ids /\ told' \in SUBSET Tabs
    BY <1>1, <2>1, <2>3, ToldTypes DEF OtherTypes
  <2>13. OtherTypes'
    BY <1>1, <2>6, <2>9, <2>11, <2>12 DEF OtherTypes, serverVars
  <2>14. Update(t, u) /\ lock' = lock /\ (Holding(u) => Holding(s))
    BY <2>1, <2>6, <2>8 DEF Holding, AtWork
  <2> HIDE DEF u, s
  <2> QED BY <2>8, <2>9, <2>10, <2>13, <2>14, RaisedStep DEF s
<1> QED BY <1>3, <1>4

----------------------------------------------------------------------------
(* The invariant holds. *)

LEMMA InitSession == SessionInit => SessionInv
<1> SUFFICES ASSUME SessionInit PROVE SessionInv
  OBVIOUS
<1>1. SessionOK(Closed) /\ ~ Holding(Closed) /\ Closed.generation = 0 /\ Closed.confirmed = None /\ Closed.writing = {}
  BY DEF Closed, SessionOK, SessionType, Coherent, Stage, Snapshot, Holding, AtWork
<1>2. session = [t \in Tabs |-> Closed] /\ lock = None
  BY DEF SessionInit
<1>3. /\ store \in Stores /\ store.generation = 0 /\ NoEditOutlivesAccess
      /\ order \in [UserEdits -> Nat] /\ accepted \in SUBSET Ids /\ net \in SUBSET Ask
  <2>1. CASE /\ \E cached \in {None, 0} :
                  store = [confirmed |-> cached, generation |-> 0, queue |-> {}]
             /\ order = [i \in UserEdits |-> 0]
             /\ accepted = {}
             /\ net = {}
    BY <2>1 DEF Stores, Snapshot, NoEditOutlivesAccess
  <2>2. CASE \E i \in Earlier, sent \in BOOLEAN :
               LET e == [id |-> <<i, 0>>, base |-> 0, frozen |-> sent]
               IN  /\ store = [confirmed |-> 0, generation |-> 0, queue |-> {e}]
                   /\ order = [j \in UserEdits |-> IF j = i THEN 1 ELSE 0]
                   /\ accepted = {e.id}
                   /\ net \in {{}, IF sent THEN {[id |-> e.id, base |-> 0]} ELSE {}}
    <3>1. PICK i \in Earlier, sent \in BOOLEAN :
            LET e == [id |-> <<i, 0>>, base |-> 0, frozen |-> sent]
            IN  /\ store = [confirmed |-> 0, generation |-> 0, queue |-> {e}]
                /\ order = [j \in UserEdits |-> IF j = i THEN 1 ELSE 0]
                /\ accepted = {e.id}
                /\ net \in {{}, IF sent THEN {[id |-> e.id, base |-> 0]} ELSE {}}
      BY <2>2
    <3> DEFINE e == [id |-> <<i, 0>>, base |-> 0, frozen |-> sent]
    <3>2. <<i, 0>> \in Ids
      BY DEF Ids, UserEdits
    <3>3. e \in Entry /\ e.id \in Ids /\ [id |-> e.id, base |-> 0] \in Ask
      BY <3>2 DEF Entry, Ask
    <3>4. store = [confirmed |-> 0, generation |-> 0, queue |-> {e}] /\ accepted = {e.id}
      BY <3>1
    <3>5. order \in [UserEdits -> Nat]
      BY <3>1
    <3>6. net \in SUBSET Ask
      BY <3>1, <3>3
    <3> HIDE DEF e
    <3> QED BY <3>3, <3>4, <3>5, <3>6 DEF Stores, Snapshot, NoEditOutlivesAccess
  <2> QED BY <2>1, <2>2 DEF SessionInit
<1>4. /\ history \in Seq(Ids \cup {Other})
      /\ receipt \in [Ids -> [outcome : {"none", "applied", "refused", "conflict"}, revision : Nat]]
      /\ access \in BOOLEAN /\ online \in BOOLEAN /\ lock \in Tabs \cup {None}
      /\ told \in SUBSET Tabs /\ grounds \in [Ids -> Nat]
      /\ reviewed \in SUBSET Ids /\ purged \in SUBSET Ids /\ events \in Nat
  BY DEF SessionInit
<1>5. \A t \in Tabs : session[t] = Closed
  BY <1>2
<1>6. SessionTypeOK
  <2>1. session \in [Tabs -> SessionType] /\ \A t \in Tabs : Coherent(session[t])
    BY <1>1, <1>2, <1>5 DEF SessionOK
  <2> QED BY <1>3, <1>4, <2>1, TypesSplit DEF OtherTypes
<1>7. LockInv
  BY <1>1, <1>5 DEF LockInv
<1>8. CacheInv
  BY <1>1, <1>3, <1>5 DEF CacheInv, Fits
<1> QED BY <1>6, <1>7, <1>8 DEF SessionInv

LEMMA StutterKeeps ==
  ASSUME SessionInv, UNCHANGED sessionVars
  PROVE  SessionInv'
<1>1. OtherTypes' /\ session' \in [Tabs -> SessionType] /\ \A t \in Tabs : Coherent(session'[t])
  BY TypesSplit DEF SessionInv, OtherTypes, sessionVars
<1>2. LockInv' /\ CacheInv'
  BY DEF SessionInv, LockInv, CacheInv, NoEditOutlivesAccess, sessionVars
<1>3. SessionTypeOK'
  BY <1>1 DEF OtherTypes, SessionTypeOK, Stores
<1> QED BY <1>2, <1>3 DEF SessionInv

LEMMA DrainStep ==
  ASSUME SessionInv, NEW t \in Tabs, Drain(t)
  PROVE  SessionInv'
BY PassStep, EntrySavedStep, FreezeStep, TimerStep, AcknowledgedStep, RefusedStep,
   FetchedStep, FreshSkippedStep, FreshArrivesStep, RefetchArrivesStep DEF Drain

LEMMA UserStep ==
  ASSUME SessionInv, NEW t \in Tabs, User(t)
  PROVE  SessionInv'
BY OpenStep, AcquireStep, TakeoverStep, CloseTabStep, EditStep, RefreshStep, ForgetRollStep,
   ReviewStep DEF User

LEMMA OtherStep ==
  ASSUME SessionInv, NEW t \in Tabs, Saving(t) \/ Coordination(t) \/ Beside(t) \/ Failure(t)
  PROVE  SessionInv'
BY EnqueueCommitsStep, EnqueueFailsStep, InvalidatedStep, LetGoStep, RefreshStep,
   RefreshArrivesStep, RollForgottenStep, SendFailsStep, FetchFailsStep, DeniedStep
   DEF Saving, Coordination, Beside, Failure

LEMMA NextStep == SessionInv /\ [SessionNext]_sessionVars => SessionInv'
<1> SUFFICES ASSUME SessionInv, [SessionNext]_sessionVars PROVE SessionInv'
  OBVIOUS
<1>1. CASE \E t \in Tabs : Drain(t) \/ Saving(t) \/ Coordination(t) \/ Beside(t) \/ Failure(t) \/ User(t)
  BY <1>1, DrainStep, UserStep, OtherStep
<1>2. CASE ForeignEdit \/ \E r \in net : Serve(r)
  BY <1>2, ServerStep
<1>3. CASE GoOffline \/ GoOnline
  BY <1>3, GoOfflineStep, GoOnlineStep
<1>4. CASE UNCHANGED sessionVars
  BY <1>4, StutterKeeps
<1> QED BY <1>1, <1>2, <1>3, <1>4 DEF SessionNext

LEMMA SessionInvHolds == SessionSpec => []SessionInv
BY InitSession, NextStep, PTL DEF SessionSpec

(* Every variable keeps its type, and a drain works on one thing at a     *)
(* time, whatever number of tabs run it.                                    *)
THEOREM TypeCorrect == SessionSpec => []SessionTypeOK
<1>1. SessionInv => SessionTypeOK
  BY DEF SessionInv
<1> QED BY <1>1, SessionInvHolds, PTL

(* Whatever number of tabs open, take over from each other and are closed, *)
(* only the one that holds the lock freezes or sends a request.             *)
THEOREM OneTabSends == SessionSpec => []OneSender
<1>1. SessionInv => OneSender
  BY DEF SessionInv, LockInv, Holding, AtWork, OneSender
<1> QED BY <1>1, SessionInvHolds, PTL

(* Once the cached sheet is purged, no write that was under way in a tab,  *)
(* or begins before it hears of the purge, puts an edit back in the queue. *)
THEOREM PurgedStaysEmpty == SessionSpec => []NoEditOutlivesAccess
<1>1. SessionInv => NoEditOutlivesAccess
  BY DEF SessionInv, CacheInv
<1> QED BY <1>1, SessionInvHolds, PTL

----------------------------------------------------------------------------
(* No edit is lost: an edit leaves the queue for the sheet, for a review or *)
(* for a purge.                                                             *)

AnswersInv == \A id \in Ids : receipt[id].outcome = "applied" => id \in Applied

LostInv == SessionInv /\ AnswersInv /\ NothingIsLost

LEMMA AppliedGrows ==
  ASSUME SessionTypeOK, NEW x \in Ids \cup {Other}, history' = Append(history, x)
  PROVE  Applied \subseteq Applied' /\ (x # Other => x \in Applied')
<1>1. /\ Len(history) \in Nat /\ Len(history') = Len(history) + 1
      /\ \A n \in 1..Len(history) : history'[n] = history[n]
      /\ history'[Len(history) + 1] = x
  BY DEF SessionTypeOK
<1>2. 1..Len(history) \subseteq 1..Len(history') /\ Len(history) + 1 \in 1..Len(history')
  BY <1>1
<1> QED BY <1>1, <1>2 DEF Applied, Revision

(* The server's steps, and everything else. *)
LEMMA AnswersStep ==
  ASSUME SessionTypeOK, AnswersInv, [SessionNext]_sessionVars
  PROVE  AnswersInv' /\ Applied \subseteq Applied'
<1>1. CASE \E r \in net : Serve(r)
  <2>1. PICK r \in net : Serve(r)
    BY <1>1
  <2>2. r.id \in Ids /\ r.id # Other
    BY DEF SessionTypeOK, Ask
  <2>3. receipt \in [Ids -> [outcome : {"none", "applied", "refused", "conflict"}, revision : Nat]]
    BY DEF SessionTypeOK
  <2>4. CASE history' = history
    <3>1. Applied' = Applied
      BY <2>4 DEF Applied, Revision
    <3>2. \/ receipt' = receipt
          \/ receipt' = [receipt EXCEPT ![r.id].outcome = "refused"]
          \/ receipt' = [receipt EXCEPT ![r.id].outcome = "conflict"]
      <4>1. Append(history, r.id) # history
        BY DEF SessionTypeOK
      <4> QED BY <2>1, <2>4, <4>1 DEF Serve, Answered
    <3>3. \A id \in Ids : receipt'[id].outcome = "applied" => receipt[id].outcome = "applied"
      BY <2>2, <2>3, <3>2
    <3> QED BY <3>1, <3>3 DEF AnswersInv
  <2>5. CASE history' # history
    <3>1. /\ history' = Append(history, r.id)
          /\ receipt' = [receipt EXCEPT ![r.id] = [outcome |-> "applied", revision |-> Revision + 1]]
      BY <2>1, <2>5 DEF Serve, Answered
    <3>2. Applied \subseteq Applied' /\ r.id \in Applied'
      BY <2>2, <3>1, AppliedGrows
    <3>3. \A id \in Ids : id # r.id => receipt'[id] = receipt[id]
      BY <2>3, <3>1
    <3> QED BY <3>2, <3>3 DEF AnswersInv
  <2> QED BY <2>4, <2>5
<1>2. CASE ForeignEdit
  <2>1. history' = Append(history, Other) /\ receipt' = receipt
    BY <1>2 DEF ForeignEdit
  <2>2. Applied \subseteq Applied'
    BY <2>1, AppliedGrows
  <2> QED BY <2>1, <2>2 DEF AnswersInv
<1>3. CASE UNCHANGED <<history, receipt>>
  BY <1>3 DEF AnswersInv, Applied, Revision
<1>4. CASE \E t \in Tabs : Drain(t) \/ Saving(t) \/ Coordination(t) \/ Beside(t) \/ Failure(t) \/ User(t)
  <2>1. PICK t \in Tabs : Drain(t) \/ Saving(t) \/ Coordination(t) \/ Beside(t) \/ Failure(t) \/ User(t)
    BY <1>4
  <2>2. CASE Drain(t)
    BY <1>3, <2>2 DEF Drain, Pass, EntrySaved, Freeze, TimerFires, Acknowledged, Refused, Fetched,
       FreshSkipped, FreshArrives, RefetchArrives, serverVars
  <2>3. CASE Saving(t) \/ Coordination(t) \/ Beside(t)
    BY <1>3, <2>3 DEF Saving, EnqueueCommits, EnqueueFails, Coordination, Invalidated, LetGo,
       Beside, RefreshAnswered, RefreshArrives, RollForgotten, serverVars
  <2>4. CASE Failure(t)
    BY <1>3, <2>4 DEF Failure, SendFails, FetchFails, Denied, ActivityDenied, PurgeAccess, serverVars
  <2>5. CASE User(t)
    BY <1>3, <2>5 DEF User, Open, Acquire, Takeover, CloseTab, Edit, Refresh, ForgetRoll, Review, serverVars
  <2> QED BY <2>1, <2>2, <2>3, <2>4, <2>5
<1>5. CASE GoOffline \/ GoOnline \/ UNCHANGED sessionVars
  BY <1>3, <1>5 DEF GoOffline, GoOnline, sessionVars, serverVars
<1> QED BY <1>1, <1>2, <1>4, <1>5 DEF SessionNext

(* What becomes of an edit that was in the queue, or that is told saved.   *)
NobodyDropped ==
  /\ accepted' \subseteq accepted \cup IdsOf(store'.queue)
  /\ IdsOf(store.queue) \subseteq IdsOf(store'.queue) \cup Applied \cup reviewed' \cup purged'
  /\ reviewed \subseteq reviewed' /\ purged \subseteq purged'

LEMMA QuietStores ==
  ASSUME UNCHANGED <<accepted, reviewed, purged>>, store'.queue = store.queue
  PROVE  NobodyDropped
BY DEF NobodyDropped

LEMMA FrozeIds ==
  ASSUME NEW queue \in SUBSET Entry, NEW id
  PROVE  IdsOf(queue) \subseteq IdsOf(Froze(queue, id))
<1> SUFFICES ASSUME NEW e \in queue PROVE e.id \in IdsOf(Froze(queue, id))
  BY DEF IdsOf
<1> DEFINE x == IF e.id = id THEN [e EXCEPT !.frozen = TRUE] ELSE e
<1>1. x.id = e.id
  BY DEF Entry
<1>2. x \in Froze(queue, id)
  BY DEF Froze
<1> HIDE DEF x
<1> QED BY <1>1, <1>2 DEF IdsOf

LEMMA SettledIds ==
  ASSUME NEW queue \in SUBSET Entry, NEW f, NEW r
  PROVE  IdsOf(queue) \subseteq IdsOf(Settled(queue, f, r)) \cup {f.id}
<1> SUFFICES ASSUME NEW e \in queue, e.id # f.id PROVE e.id \in IdsOf(Settled(queue, f, r))
  BY DEF IdsOf
<1> DEFINE x == IF Follows(e, f) THEN [e EXCEPT !.base = r] ELSE e
<1>1. x.id = e.id
  BY DEF Entry
<1>2. e \in Without(queue, f.id)
  BY DEF Without
<1>3. x \in Settled(queue, f, r)
  BY <1>2 DEF Settled
<1> HIDE DEF x
<1> QED BY <1>1, <1>3 DEF IdsOf

LEMMA DrainDropsNone ==
  ASSUME LostInv, NEW t \in Tabs, Drain(t)
  PROVE  NobodyDropped
<1> DEFINE s == session[t]
           f == s.front
<1>1. s \in SessionType /\ Coherent(s) /\ store \in Stores
  BY TabsAreOK DEF LostInv, OtherTypes
<1>2. UNCHANGED userVars
  BY DEF Drain, Pass, EntrySaved, Freeze, TimerFires, Acknowledged, Refused, Fetched,
     FreshSkipped, FreshArrives, RefetchArrives
<1>3. CASE store' = store
  BY <1>2, <1>3, QuietStores DEF userVars
<1>4. CASE Freeze(t)
  <2>1. store' = [store EXCEPT !.queue = Froze(@, f.id)] \/ store' = store
    BY <1>4 DEF Freeze
  <2>2. CASE store' = [store EXCEPT !.queue = Froze(@, f.id)]
    <3>1. store'.queue = Froze(store.queue, f.id)
      BY <1>1, <2>2 DEF Stores
    <3>2. IdsOf(store.queue) \subseteq IdsOf(store'.queue)
      BY <1>1, <3>1, FrozeIds DEF Stores
    <3> QED BY <1>2, <3>2 DEF NobodyDropped, userVars
  <2> QED BY <1>3, <2>1, <2>2
<1>5. CASE Acknowledged(t)
  <2>1. f \in Entry /\ s.stage = "sending"
    BY <1>1, <1>5 DEF Acknowledged, SessionType, Coherent
  <2>2. f.id \in Applied
    BY <1>5, <2>1 DEF Acknowledged, Retires, LostInv, AnswersInv, Entry
  <2> DEFINE r == receipt[f.id].revision
  <2>3. store' = store \/ store'.queue = Settled(store.queue, f, r)
    BY <1>5 DEF Acknowledged
  <2>4. CASE store'.queue = Settled(store.queue, f, r)
    <3>1. IdsOf(store.queue) \subseteq IdsOf(store'.queue) \cup {f.id}
      BY <1>1, <2>4, SettledIds DEF Stores
    <3> QED BY <1>2, <2>2, <3>1 DEF NobodyDropped, userVars
  <2> QED BY <1>3, <2>3, <2>4
<1>6. CASE FreshArrives(t) \/ RefetchArrives(t)
  <2>1. store' = store \/ \E v : store' = [store EXCEPT !.confirmed = v, !.generation = @ + 1]
    BY <1>6 DEF FreshArrives, RefetchArrives, Saves
  <2>2. store'.queue = store.queue
    BY <1>1, <2>1 DEF Stores
  <2> QED BY <1>2, <2>2, QuietStores DEF userVars
<1>7. CASE Pass(t) \/ EntrySaved(t) \/ TimerFires(t) \/ Refused(t) \/ Fetched(t) \/ FreshSkipped(t)
  BY <1>3, <1>7 DEF Pass, EntrySaved, TimerFires, Refused, Fetched, FreshSkipped
<1> QED BY <1>4, <1>5, <1>6, <1>7 DEF Drain

LEMMA ReviewDropsNone ==
  ASSUME LostInv, NEW t \in Tabs, NEW again \in BOOLEAN, Review(t, again)
  PROVE  NobodyDropped
<1> DEFINE s == session[t]
<1>1. store \in Stores /\ store.generation \in Nat
  BY TabsAreOK DEF LostInv, OtherTypes, Stores
<1>2. CASE ~ Guarded(s.generation)
  BY <1>2, QuietStores DEF Review
<1>3. CASE Guarded(s.generation)
  <2>1. PICK chosen, new :
          /\ store' = [store EXCEPT !.queue = {e \in store.queue : e.id \notin IdsOf(chosen)} \cup new,
                                    !.generation = @ + 1]
          /\ reviewed' = reviewed \cup IdsOf(chosen)
          /\ accepted' = accepted \cup IdsOf(new)
          /\ purged' = purged
    BY <1>3 DEF Review
  <2>2. store'.queue = {e \in store.queue : e.id \notin IdsOf(chosen)} \cup new
    BY <1>1, <2>1 DEF Stores
  <2> QED BY <2>1, <2>2 DEF NobodyDropped, IdsOf
<1> QED BY <1>2, <1>3

LEMMA OthersDropNone ==
  ASSUME LostInv, NEW t \in Tabs, Saving(t) \/ Coordination(t) \/ Beside(t) \/ Failure(t) \/ User(t)
  PROVE  NobodyDropped
<1>1. store \in Stores
  BY TabsAreOK DEF LostInv, OtherTypes
<1>2. CASE EnqueueCommits(t)
  <2>1. PICK w : /\ store' = [store EXCEPT !.queue = @ \cup {w.entry}]
                 /\ accepted' = accepted \cup {w.entry.id}
                 /\ UNCHANGED <<reviewed, purged>>
    BY <1>2 DEF EnqueueCommits
  <2>2. store'.queue = store.queue \cup {w.entry}
    BY <1>1, <2>1 DEF Stores
  <2> QED BY <2>1, <2>2 DEF NobodyDropped, IdsOf
<1>3. CASE Denied(t) \/ ActivityDenied(t)
  <2>1. purged' = purged \cup IdsOf(store.queue) /\ UNCHANGED <<accepted, reviewed>>
    BY <1>3 DEF Denied, ActivityDenied, PurgeAccess
  <2> QED BY <2>1 DEF NobodyDropped
<1>4. CASE RefreshArrives(t)
  <2>1. store' = store \/ \E v : store' = [store EXCEPT !.confirmed = v, !.generation = @ + 1]
    BY <1>4 DEF RefreshArrives, Saves
  <2>2. store'.queue = store.queue /\ UNCHANGED userVars
    BY <1>1, <1>4, <2>1 DEF Stores, RefreshArrives
  <2> QED BY <2>2, QuietStores DEF userVars
<1>5. CASE ForgetRoll(t)
  <2>1. store'.queue = store.queue /\ UNCHANGED userVars
    BY <1>1, <1>5 DEF Stores, ForgetRoll
  <2> QED BY <2>1, QuietStores DEF userVars
<1>6. CASE \E again \in BOOLEAN : Review(t, again)
  BY <1>6, ReviewDropsNone
<1>7. CASE EnqueueFails(t) \/ Coordination(t) \/ RefreshAnswered(t) \/ RollForgotten(t)
  BY <1>7, QuietStores DEF EnqueueFails, Coordination, Invalidated, LetGo, RefreshAnswered, RollForgotten, userVars
<1>8. CASE SendFails(t) \/ FetchFails(t)
  BY <1>8, QuietStores DEF SendFails, FetchFails, userVars
<1>9. CASE \/ Open(t) \/ Acquire(t) \/ Takeover(t) \/ CloseTab(t) \/ Refresh(t)
           \/ \E i \in Intents : Edit(t, i)
  BY <1>9, QuietStores DEF Open, Acquire, Takeover, CloseTab, Refresh, Edit, userVars
<1> QED BY <1>2, <1>3, <1>4, <1>5, <1>6, <1>7, <1>8, <1>9 DEF Saving, Beside, Failure, User

LEMMA LostStep == LostInv /\ [SessionNext]_sessionVars => LostInv'
<1> SUFFICES ASSUME LostInv, [SessionNext]_sessionVars PROVE LostInv'
  OBVIOUS
<1>1. SessionInv' /\ SessionTypeOK
  BY NextStep DEF LostInv, SessionInv
<1>2. AnswersInv' /\ Applied \subseteq Applied'
  BY <1>1, AnswersStep DEF LostInv
<1>3. NobodyDropped
  <2>1. CASE \E t \in Tabs : Drain(t) \/ Saving(t) \/ Coordination(t) \/ Beside(t) \/ Failure(t) \/ User(t)
    BY <2>1, DrainDropsNone, OthersDropNone
  <2>2. CASE ForeignEdit \/ (\E r \in net : Serve(r)) \/ GoOffline \/ GoOnline \/ UNCHANGED sessionVars
    BY <2>2, QuietStores DEF ForeignEdit, Serve, Answered, GoOffline, GoOnline, sessionVars, userVars
  <2> QED BY <2>1, <2>2 DEF SessionNext
<1>4. NothingIsLost'
  BY <1>2, <1>3 DEF LostInv, NothingIsLost, NobodyDropped
<1> QED BY <1>1, <1>2, <1>4 DEF LostInv

LEMMA InitLost == SessionInit => LostInv
<1> SUFFICES ASSUME SessionInit PROVE LostInv
  OBVIOUS
<1>1. AnswersInv
  BY DEF SessionInit, AnswersInv
<1>2. NothingIsLost
  <2>1. accepted \subseteq IdsOf(store.queue)
    <3>1. CASE accepted = {}
      BY <3>1
    <3>2. CASE \E e : store.queue = {e} /\ accepted = {e.id}
      BY <3>2 DEF IdsOf
    <3>3. ASSUME NEW i \in Earlier, NEW sent \in BOOLEAN,
                 LET e == [id |-> <<i, 0>>, base |-> 0, frozen |-> sent]
                 IN  /\ store = [confirmed |-> 0, generation |-> 0, queue |-> {e}]
                     /\ accepted = {e.id}
          PROVE  \E e : store.queue = {e} /\ accepted = {e.id}
      BY <3>3
    <3> QED BY <3>1, <3>2, <3>3 DEF SessionInit
  <2> QED BY <2>1 DEF NothingIsLost
<1> QED BY <1>1, <1>2, InitSession DEF LostInv

(* An edit whose user was told that it is saved is queued, applied, left to *)
(* the user's own review or deleted with the access: whatever tabs close,   *)
(* take over or write at the same time, and whatever answers are lost.      *)
THEOREM NoEditIsLost == SessionSpec => []NothingIsLost
<1>1. LostInv => NothingIsLost
  BY DEF LostInv
<1> QED BY <1>1, InitLost, LostStep, PTL DEF SessionSpec

----------------------------------------------------------------------------
(* What the editing tab shows as queued is stored.  An edit it shows is    *)
(* still being written, is in the queue, or went with a purge the tab has  *)
(* been told of; the purge raised the generation, which the tab compares   *)
(* with its own when it reads the message.                                  *)

Shown(s, st, hears) ==
  s.owned => /\ s.open
             /\ \A e \in s.entries : \/ Writing(s, e.id) \/ e.id \in IdsOf(st.queue)
                                     \/ hears /\ s.generation < st.generation

ShownInv == SessionInv /\ \A t \in Tabs : Shown(session[t], store, t \in told)

(* u shows and writes what s does. *)
Same(u, s) ==
  /\ u.open = s.open /\ u.owned = s.owned /\ u.writing = s.writing
  /\ u.entries = s.entries /\ u.generation = s.generation

(* A tab that steps down has nothing to promise; one that takes the queue  *)
(* of the store, or shows what it showed, keeps the promise.                *)
Honest(u, s) ==
  \/ ~ u.owned
  \/ u.entries = store.queue /\ (u.owned => u.open)
  \/ Same(u, s)

LEMMA SameFields ==
  ASSUME NEW s \in SessionType
  PROVE  /\ Resting(s) \in SessionType /\ Same(Resting(s), s)
         /\ Awake(s) \in SessionType /\ Same(Awake(s), s)
         /\ \A kind \in Kinds : Blocked(s, kind) \in SessionType /\ Same(Blocked(s, kind), s)
<1>1. Resting(s) \in SessionType /\ Same(Resting(s), s)
  BY RestFields DEF SessionOK, SameTab, SameCache, Same, Resting
<1>2. Awake(s) \in SessionType /\ Same(Awake(s), s)
  BY DEF Awake, SessionType, Stage, Same
<1>3. ASSUME NEW kind \in Kinds  PROVE Blocked(s, kind) \in SessionType /\ Same(Blocked(s, kind), s)
  <2> DEFINE e == [s EXCEPT !.error = kind]
             r == [e EXCEPT !.stage = "rest"]
  <2>1. Blocked(s, kind) = IF s.stage = "timer" THEN r ELSE e
    BY DEF Blocked, SessionType
  <2>2. e \in SessionType /\ Same(e, s)
    BY DEF Kinds, SessionType, Same
  <2> HIDE DEF e
  <2>3. r \in SessionType /\ Same(r, e)
    <3>1. "rest" \in Stage
      BY DEF Stage
    <3> QED BY <2>2, <3>1 DEF SessionType, Same
  <2> QED BY <2>1, <2>2, <2>3 DEF Same
<1> QED BY <1>1, <1>2, <1>3

LEMMA HonestShows ==
  ASSUME NEW s, NEW u, NEW hears, NEW tells, Honest(u, s), Shown(s, store, hears), hears => tells,
         store'.queue = store.queue, store'.generation = store.generation
  PROVE  Shown(u, store', tells)
<1>1. CASE u.entries = store.queue /\ (u.owned => u.open)
  BY <1>1 DEF Shown, IdsOf
<1>2. CASE Same(u, s)
  BY <1>2 DEF Same, Shown, Writing
<1> QED BY <1>1, <1>2 DEF Honest, Shown

(* The other tabs: the queue keeps its edits, or they hear of the purge,    *)
(* or none of them is editing.                                              *)
LEMMA OthersShow ==
  ASSUME ShownInv, NEW t \in Tabs, NEW u, Update(t, u), SessionInv',
         told \ {t} \subseteq told',
         \/ IdsOf(store.queue) \subseteq IdsOf(store'.queue) /\ store'.generation >= store.generation
         \/ Tell(t) /\ store'.generation > store.generation
         \/ lock = t,
         Shown(u, store', t \in told')
  PROVE  ShownInv'
<1>1. /\ session'[t] = u /\ \A v \in Tabs \ {t} : session'[v] = session[v]
  BY DEF Update, ShownInv, SessionInv, SessionTypeOK
<1>2. ASSUME NEW v \in Tabs \ {t}  PROVE Shown(session[v], store', v \in told')
  <2> DEFINE s == session[v]
  <2>1. /\ s.generation \in Nat /\ store.generation \in Nat /\ store'.generation \in Nat
        /\ s.generation <= store.generation
        /\ s.owned => lock = v
        /\ Shown(s, store, v \in told)
    <3>1. s \in SessionType /\ store \in Stores /\ Fits(s, store) /\ (Holding(s) => lock = v)
      BY TabsAreOK DEF ShownInv, OtherTypes, SessionInv, LockInv
    <3>2. store' \in Stores
      BY DEF SessionInv, SessionTypeOK, Stores
    <3> QED BY <3>1, <3>2 DEF SessionType, Stores, Fits, Holding, ShownInv
  <2>2. CASE IdsOf(store.queue) \subseteq IdsOf(store'.queue) /\ store'.generation >= store.generation
    BY <2>1, <2>2 DEF Shown
  <2>3. CASE Tell(t) /\ store'.generation > store.generation
    BY <2>1, <2>3 DEF Shown, Tell
  <2>4. CASE lock = t
    BY <2>1, <2>4 DEF Shown
  <2> QED BY <2>2, <2>3, <2>4
<1> QED BY <1>1, <1>2 DEF ShownInv

(* A step that leaves the store alone. *)
LEMMA HonestStep ==
  ASSUME ShownInv, SessionInv', NEW t \in Tabs, NEW u, Update(t, u),
         Honest(u, session[t]), told \subseteq told', store' = store
  PROVE  ShownInv'
<1>1. Shown(session[t], store, t \in told)
  BY DEF ShownInv
<1>2. t \in told => t \in told'
  OBVIOUS
<1> DEFINE hears == t \in told
           tells == t \in told'
<1>3. Shown(session[t], store, hears) /\ (hears => tells)
  BY <1>1, <1>2
<1> HIDE DEF hears, tells
<1>4. Shown(u, store', tells)
  BY <1>3, HonestShows
<1>5. store'.generation >= store.generation
  BY TabsAreOK DEF ShownInv, OtherTypes, Stores
<1> QED BY <1>4, <1>5, OthersShow DEF tells
LEMMA BegunSame ==
  ASSUME NEW s \in SessionType, NEW f
  PROVE  Same(Begun(s, f), s)
<1>1. Same(Resting(s), s) /\ Blocked(s, "conflict") \in SessionType /\ Same(Blocked(s, "conflict"), s)
  BY SameFields DEF Kinds
<1>2. Same(Resting(Blocked(s, "conflict")), Blocked(s, "conflict"))
  BY <1>1, SameFields
<1>3. Same([s EXCEPT !.stage = "freezing", !.front = f], s)
  BY DEF SessionType, Same
<1> QED BY <1>1, <1>2, <1>3 DEF Begun, Same

(* Steps of the drain that change what the tab is doing, not what it shows. *)
LEMMA PassShows ==
  ASSUME ShownInv, SessionInv', NEW t \in Tabs, Pass(t) \/ EntrySaved(t)
  PROVE  ShownInv'
<1> DEFINE s == session[t]
           At(stage) == [s EXCEPT !.stage = stage]
           Wait(f) == [s EXCEPT !.stage = "entry", !.front = f]
           r == [s EXCEPT !.front = None]
<1>1. s \in SessionType
  BY TabsAreOK DEF ShownInv
<1>2. \A stage : Same(At(stage), s)
  BY <1>1 DEF SessionType, Same
<1>3. \A f : Same(Wait(f), s)
  BY <1>1 DEF SessionType, Same
<1>4. Same(Resting(s), s) /\ \A f : Same(Begun(s, f), s)
  BY <1>1, SameFields, BegunSame
<1>5. r \in SessionType /\ Same(r, s)
  BY <1>1 DEF SessionType, Same
<1>6. Same(Begun(r, s.front), r)
  BY <1>5, BegunSame
<1>7. PICK u : Update(t, u) /\ Same(u, s)
  <2>1. CASE Pass(t)
    BY <2>1, <1>2, <1>3, <1>4 DEF Pass
  <2>2. CASE EntrySaved(t)
    <3>1. Update(t, Begun(r, s.front))
      BY <2>2 DEF EntrySaved
    <3> HIDE DEF r
    <3> QED BY <3>1, <1>5, <1>6 DEF Same
  <2> QED BY <2>1, <2>2
<1>8. store' = store /\ told' = told
  BY DEF Pass, EntrySaved
<1> QED BY <1>7, <1>8, HonestStep DEF Honest

LEMMA QuietShows ==
  ASSUME ShownInv, SessionInv', NEW t \in Tabs,
         \/ TimerFires(t) \/ SendFails(t) \/ Refused(t) \/ Fetched(t) \/ FetchFails(t)
         \/ FreshSkipped(t) \/ Refresh(t) \/ RefreshAnswered(t)
  PROVE  ShownInv'
<1> DEFINE s == session[t]
           r == Resting(s)
           At(x, stage) == [x EXCEPT !.stage = stage]
           Again1(x) == [x EXCEPT !.stage = "refetch", !.refetch = TRUE]
           Looked == [s EXCEPT !.view = Revision]
           Skipped == [s EXCEPT !.stage = "pass", !.needsFresh = FALSE]
           Asked == [s EXCEPT !.side = "refreshing", !.sideView = None]
           Heard == [s EXCEPT !.sideView = Revision]
           Failed(x) == [x EXCEPT !.side = "none"]
<1>1. s \in SessionType
  BY TabsAreOK DEF ShownInv
<1>2. \A x \in SessionType : /\ Same(Resting(x), x) /\ Resting(x) \in SessionType
                             /\ Same(Awake(x), x)
                             /\ \A kind \in {"invalid", "network"} :
                                  Blocked(x, kind) \in SessionType /\ Same(Blocked(x, kind), x)
  BY SameFields DEF Kinds
<1>3. \A x \in SessionType : /\ \A stage : Same(At(x, stage), x)
                             /\ Same(Again1(x), x) /\ Same(Failed(x), x)
  BY DEF SessionType, Same
<1>4. Same(Looked, s) /\ Same(Skipped, s) /\ Same(Asked, s) /\ Same(Heard, s)
  BY <1>1 DEF SessionType, Same
<1>5. \A x, y : Same(x, y) /\ Same(y, s) => Same(x, s)
  BY DEF Same
<1>6. store' = store /\ told' = told
  BY DEF TimerFires, SendFails, Refused, Fetched, FetchFails, FreshSkipped, Refresh, RefreshAnswered
<1>7. \/ \E u \in {Awake(s), At(r, "timer"), r, Again1(r), Looked, Skipped, Asked, Heard} : Update(t, u)
      \/ \E kind \in {"invalid", "network"} : Update(t, Resting(Blocked(s, kind)))
      \/ Update(t, Failed(Blocked(s, "network")))
  BY DEF TimerFires, SendFails, Refused, Fetched, FetchFails, FreshSkipped, Refresh, RefreshAnswered
<1> HIDE DEF s, r, At, Again1, Looked, Skipped, Asked, Heard, Failed
<1>8. r \in SessionType /\ Same(r, s)
  BY <1>1, <1>2 DEF r
<1>9. \A kind \in {"invalid", "network"} : Same(Resting(Blocked(s, kind)), s)
  BY <1>1, <1>2, <1>5
<1>10. Same(Failed(Blocked(s, "network")), s)
  BY <1>1, <1>2, <1>3, <1>5
<1>11. Same(Awake(s), s) /\ Same(At(r, "timer"), s) /\ Same(Again1(r), s)
  BY <1>1, <1>2, <1>3, <1>5, <1>8
<1>12. PICK u : Update(t, u) /\ Same(u, s)
  BY <1>4, <1>7, <1>8, <1>9, <1>10, <1>11
<1> QED BY <1>6, <1>12, HonestStep DEF Honest, s

(* A tab that takes what the store has. *)
Takes(u, s) ==
  u \in SessionType /\ u.open = s.open /\ u.owned = s.owned /\ u.entries = store.queue

LEMMA AdoptedTakes ==
  ASSUME NEW s \in SessionType, store \in Stores
  PROVE  Takes(Adopted(s), s) /\ Takes(Overtaken(s), s) /\ Takes(Blocked(Adopted(s), "purged"), s)
         /\ Takes(Resting(Overtaken(s)), s)
<1>1. Takes(Adopted(s), s)
  BY DEF Adopted, SessionType, Snapshot, Stores, Takes
<1> DEFINE a == Adopted(s)
<1> HIDE DEF a
<1>2. a \in SessionType /\ Takes(a, s)
  BY <1>1 DEF Takes, a
<1>3. \A kind \in {"purged", "conflict"} : Blocked(a, kind) \in SessionType /\ Same(Blocked(a, kind), a)
  BY <1>2, SameFields DEF Kinds
<1>4. \A kind \in {"purged", "conflict"} : Takes(Blocked(a, kind), s)
  BY <1>2, <1>3 DEF Takes, Same
<1>5. Takes(Overtaken(s), s)
  BY <1>4 DEF Overtaken, a
<1>6. Takes(Resting(Overtaken(s)), s)
  BY <1>5, SameFields DEF Takes, Same
<1> QED BY <1>1, <1>4, <1>5, <1>6 DEF a

LEMMA TakesIsHonest ==
  ASSUME ShownInv, NEW t \in Tabs, NEW u, Takes(u, session[t])
  PROVE  Honest(u, session[t])
BY DEF ShownInv, Shown, Takes, Honest

LEMMA TakingShows ==
  ASSUME ShownInv, SessionInv', NEW t \in Tabs, EnqueueFails(t) \/ RollForgotten(t)
  PROVE  ShownInv'
<1> DEFINE s == session[t]
<1>1. s \in SessionType /\ store \in Stores /\ told \in SUBSET Tabs
  BY TabsAreOK DEF ShownInv, OtherTypes
<1>2. CASE EnqueueFails(t)
  <2>1. PICK w \in s.writing :
          LET u == [s EXCEPT !.writing = @ \ {w}]
          IN  Update(t, Overtaken(IF s.stage = "entry" /\ s.front.id = w.entry.id THEN Resting(u) ELSE u))
    BY <1>2 DEF EnqueueFails, Writes
  <2> DEFINE u == [s EXCEPT !.writing = @ \ {w}]
             v == IF s.stage = "entry" /\ s.front.id = w.entry.id THEN Resting(u) ELSE u
  <2>2. u \in SessionType /\ u.open = s.open /\ u.owned = s.owned
    BY <1>1 DEF SessionType
  <2>3. Update(t, Overtaken(v))
    BY <2>1
  <2> HIDE DEF u
  <2>4. v \in SessionType /\ v.open = s.open /\ v.owned = s.owned
    BY <2>2, SameFields DEF Same
  <2> HIDE DEF v
  <2>5. Takes(Overtaken(v), v)
    BY <1>1, <2>4, AdoptedTakes
  <2>6. Takes(Overtaken(v), s)
    BY <2>4, <2>5 DEF Takes
  <2>7. store' = store /\ told' = told
    BY <1>2 DEF EnqueueFails
  <2> QED BY <2>3, <2>6, <2>7, TakesIsHonest, HonestStep
<1>3. CASE RollForgotten(t)
  <2> DEFINE u == [s EXCEPT !.side = "none"]
  <2>1. u \in SessionType /\ Same(u, s)
    BY <1>1 DEF SessionType, Same
  <2>2. Update(t, u) \/ Update(t, Adopted(u))
    BY <1>3 DEF RollForgotten
  <2> HIDE DEF u
  <2>3. Takes(Adopted(u), s)
    BY <1>1, <2>1, AdoptedTakes DEF Takes, Same
  <2>4. Honest(u, s) /\ Honest(Adopted(u), s)
    BY <2>1, <2>3, TakesIsHonest DEF Honest
  <2>5. store' = store /\ told \subseteq told'
    BY <1>3 DEF RollForgotten, Tell
  <2> QED BY <2>2, <2>4, <2>5, HonestStep
<1> QED BY <1>2, <1>3

(* The message is read: what the tab showed that is stored nowhere belongs *)
(* to an older generation, and the tab takes what there is.                 *)
LEMMA InvalidatedShows ==
  ASSUME ShownInv, SessionInv', NEW t \in Tabs, Invalidated(t)
  PROVE  ShownInv'
<1> DEFINE s == session[t]
           known == store.generation < s.generation \/ (s.owned /\ store.generation = s.generation)
           u == IF known THEN s
                ELSE IF store.confirmed = None THEN Blocked(Adopted(s), "purged")
                ELSE Adopted(s)
<1>1. /\ s \in SessionType /\ store \in Stores /\ s.generation \in Nat /\ store.generation \in Nat
      /\ s.generation <= store.generation
      /\ Shown(s, store, t \in told)
  BY TabsAreOK DEF ShownInv, OtherTypes, Fits, SessionType, Stores
<1>2. /\ Update(t, u) /\ store' = store /\ told' = told \ {t}
  BY DEF Invalidated
<1>3. Shown(u, store', t \in told')
  <2>1. CASE known
    BY <1>1, <1>2, <2>1 DEF Shown
  <2>2. CASE ~ known
    <3>1. Takes(u, s)
      BY <1>1, <2>2, AdoptedTakes
    <3> HIDE DEF u
    <3>2. u.entries = store'.queue /\ (u.owned => u.open)
      BY <1>1, <1>2, <3>1 DEF Takes, Shown
    <3> QED BY <3>2 DEF Shown, IdsOf
  <2> QED BY <2>1, <2>2
<1>4. store'.generation >= store.generation
  BY <1>1, <1>2
<1> HIDE DEF u
<1> QED BY <1>2, <1>3, <1>4, OthersShow

LEMMA OpensShow ==
  ASSUME ShownInv, SessionInv', NEW t \in Tabs, Open(t) \/ Acquire(t) \/ Takeover(t) \/ CloseTab(t) \/ LetGo(t)
  PROVE  ShownInv'
<1>1. store \in Stores /\ store.generation \in Nat
  BY TabsAreOK DEF ShownInv, OtherTypes, Stores
<1>2. CASE Open(t)
  <2> DEFINE u == [Adopted(Closed) EXCEPT !.open = TRUE]
  <2>1. u.owned = FALSE
    BY DEF Adopted, Closed
  <2>2. Update(t, u) /\ store' = store /\ told' = told
    BY <1>2 DEF Open
  <2> HIDE DEF u
  <2> QED BY <2>1, <2>2, HonestStep DEF Honest
<1>3. CASE Acquire(t)
  <2> DEFINE s == session[t]
             n == [Adopted(s) EXCEPT !.owned = TRUE, !.needsFresh = TRUE]
  <2>1. s \in SessionType /\ s.open
    BY <1>3, TabsAreOK DEF ShownInv, Acquire
  <2>2. Takes(Adopted(s), s)
    BY <1>1, <2>1, AdoptedTakes
  <2>3. n \in SessionType /\ n.entries = store.queue /\ n.open
    <3> DEFINE a == Adopted(s)
    <3> HIDE DEF a
    <3>1. a \in SessionType /\ a.entries = store.queue /\ a.open
      BY <2>1, <2>2 DEF Takes, a
    <3>2. /\ [a EXCEPT !.owned = TRUE, !.needsFresh = TRUE] \in SessionType
          /\ [a EXCEPT !.owned = TRUE, !.needsFresh = TRUE].entries = store.queue
          /\ [a EXCEPT !.owned = TRUE, !.needsFresh = TRUE].open
      BY <3>1 DEF SessionType
    <3> QED BY <3>2 DEF a
  <2>4. Update(t, Awake(n)) /\ store' = store /\ told' = told
    BY <1>3 DEF Acquire
  <2> HIDE DEF n
  <2>5. Awake(n).entries = store.queue /\ Awake(n).open
    BY <2>3, SameFields DEF Same
  <2> QED BY <2>4, <2>5, HonestStep DEF Honest
<1>4. CASE Takeover(t)
  <2>1. lock \in Tabs /\ Update(lock, SteppedDown(session[lock])) /\ store' = store /\ told' = told
    BY <1>4 DEF Takeover
  <2>2. session[lock] \in SessionType
    BY <2>1, TabsAreOK DEF ShownInv
  <2>3. SteppedDown(session[lock]).owned = FALSE
    BY <2>2 DEF SteppedDown, SessionType
  <2> QED BY <2>1, <2>3, HonestStep DEF Honest
<1>5. CASE CloseTab(t)
  <2>1. Update(t, Closed) /\ store' = store /\ told' = told \ {t}
    BY <1>5 DEF CloseTab
  <2>2. Shown(Closed, store', t \in told')
    BY DEF Shown, Closed
  <2>3. store'.generation >= store.generation
    BY <1>1, <2>1
  <2> HIDE DEF Closed
  <2> QED BY <2>1, <2>2, <2>3, OthersShow
<1>6. CASE LetGo(t)
  BY <1>6 DEF LetGo, ShownInv
<1> QED BY <1>2, <1>3, <1>4, <1>5, <1>6

LEMMA AllTabsShow ==
  ASSUME ShownInv, SessionInv',
         \/ GoOffline \/ GoOnline \/ ForeignEdit \/ (\E r \in net : Serve(r)) \/ UNCHANGED sessionVars
  PROVE  ShownInv'
<1>1. \A t \in Tabs : session[t] \in SessionType /\ Shown(session[t], store, t \in told)
  BY TabsAreOK DEF ShownInv
<1>2. \A s \in SessionType : LET p == [s EXCEPT !.needsFresh = TRUE] IN Same(p, s)
  BY DEF SessionType, Same
<1>3. \A s \in SessionType : Same(Reconnected(s), s)
  <2> SUFFICES ASSUME NEW s \in SessionType  PROVE Same(Reconnected(s), s)
    OBVIOUS
  <2> DEFINE u == [s EXCEPT !.error = IF @ = "network" THEN "none" ELSE @]
  <2>1. u \in SessionType /\ Same(u, s)
    BY DEF SessionType, Same
  <2>2. Reconnected(s) = IF u.open /\ u.error = "none" THEN Awake(u) ELSE u
    BY DEF Reconnected
  <2> HIDE DEF u
  <2>3. Same(Awake(u), u)
    BY <2>1, SameFields
  <2> QED BY <2>1, <2>2, <2>3 DEF Same
<1>4. store' = store /\ told' = told
  BY DEF GoOffline, GoOnline, ForeignEdit, Serve, Answered, sessionVars
<1>5. \A t \in Tabs : Same(session'[t], session[t])
  <2>1. CASE GoOffline
    <3>1. session' = [t \in Tabs |-> [session[t] EXCEPT !.needsFresh = TRUE]]
      BY <2>1 DEF GoOffline
    <3> QED BY <1>1, <1>2, <3>1
  <2>2. CASE GoOnline
    <3>1. session' = [t \in Tabs |-> Reconnected(session[t])]
      BY <2>2 DEF GoOnline
    <3> QED BY <1>1, <1>3, <3>1
  <2>3. CASE ForeignEdit \/ (\E r \in net : Serve(r)) \/ UNCHANGED sessionVars
    <3>1. session' = session
      BY <2>3 DEF ForeignEdit, Serve, Answered, sessionVars
    <3> QED BY <3>1 DEF Same
  <2> QED BY <2>1, <2>2, <2>3
<1>6. ASSUME NEW t \in Tabs  PROVE Shown(session'[t], store', t \in told')
  <2>1. Shown(session[t], store, t \in told) /\ Same(session'[t], session[t])
    BY <1>1, <1>5
  <2> QED BY <1>4, <2>1 DEF Same, Shown, Writing
<1> QED BY <1>6 DEF ShownInv

(* A new edit is being written; then it is in the queue. *)
LEMMA EditShows ==
  ASSUME ShownInv, SessionInv', NEW t \in Tabs, NEW i \in Intents, Edit(t, i)
  PROVE  ShownInv'
<1> DEFINE s == session[t]
<1>1. s \in SessionType /\ store \in Stores /\ store.generation \in Nat /\ Shown(s, store, t \in told)
  BY TabsAreOK DEF ShownInv, OtherTypes, Stores
<1>2. PICK base :
        LET e == [id |-> <<i, 0>>, base |-> base, frozen |-> FALSE]
        IN  Update(t, Awake([s EXCEPT !.entries = @ \cup {e},
                                      !.writing = @ \cup {[entry |-> e, guard |-> s.generation]}]))
            /\ base \in BaseOfLast(s)
  BY DEF Edit
<1> DEFINE e == [id |-> <<i, 0>>, base |-> base, frozen |-> FALSE]
           w == [entry |-> e, guard |-> s.generation]
           n == [s EXCEPT !.entries = s.entries \cup {e}, !.writing = s.writing \cup {w}]
<1>3. base \in Nat
  BY <1>1, <1>2 DEF Edit, BaseOfLast, Last, SessionType, Snapshot, Entry
<1>4. <<i, 0>> \in Ids
  BY DEF Ids, UserEdits
<1>5. e \in Entry /\ w \in [entry : Entry, guard : Nat] /\ w.entry = e
  BY <1>1, <1>3, <1>4 DEF Entry, SessionType
<1>6. Update(t, Awake(n)) /\ store' = store /\ told' = told
  BY <1>1, <1>2 DEF SessionType, Edit
<1> HIDE DEF e, w
<1>7. /\ n \in SessionType /\ n.open = s.open /\ n.owned = s.owned /\ n.generation = s.generation
      /\ n.entries = s.entries \cup {e} /\ n.writing = s.writing \cup {w}
  BY <1>1, <1>5 DEF SessionType
<1> HIDE DEF n
<1>8. Same(Awake(n), n)
  BY <1>7, SameFields
<1>9. Shown(Awake(n), store', t \in told')
  BY <1>1, <1>5, <1>6, <1>7, <1>8 DEF Shown, Same, Writing
<1>10. store'.generation >= store.generation
  BY <1>1, <1>6
<1> QED BY <1>6, <1>9, <1>10, OthersShow

LEMMA EnqueueShows ==
  ASSUME ShownInv, SessionInv', NEW t \in Tabs, EnqueueCommits(t)
  PROVE  ShownInv'
<1> DEFINE s == session[t]
<1>1. s \in SessionType /\ store \in Stores /\ store.generation \in Nat /\ Shown(s, store, t \in told)
  BY TabsAreOK DEF ShownInv, OtherTypes, Stores
<1>2. PICK w \in s.writing :
        /\ store' = [store EXCEPT !.queue = @ \cup {w.entry}]
        /\ Update(t, [s EXCEPT !.writing = @ \ {w}])
        /\ Tell(t)
  BY DEF EnqueueCommits, Writes
<1> DEFINE u == [s EXCEPT !.writing = s.writing \ {w}]
<1>3. /\ u.open = s.open /\ u.owned = s.owned /\ u.generation = s.generation
      /\ u.entries = s.entries /\ u.writing = s.writing \ {w}
  BY <1>1 DEF SessionType
<1>4. store'.queue = store.queue \cup {w.entry} /\ store'.generation = store.generation
  BY <1>1, <1>2 DEF Stores
<1>5. Update(t, u) /\ told \subseteq told'
  BY <1>2 DEF Tell
<1> HIDE DEF u
<1>6. IdsOf(store'.queue) = IdsOf(store.queue) \cup {w.entry.id}
  BY <1>4 DEF IdsOf
<1>7. Shown(u, store', t \in told')
  BY <1>1, <1>3, <1>4, <1>5, <1>6 DEF Shown, Writing
<1> QED BY SMTT(20), <1>1, <1>4, <1>5, <1>6, <1>7, OthersShow

LEMMA FrozeSameIds ==
  ASSUME NEW queue \in SUBSET Entry, NEW id
  PROVE  IdsOf(Froze(queue, id)) = IdsOf(queue)
<1>1. \A e \in Entry : [e EXCEPT !.frozen = TRUE].id = e.id
  BY DEF Entry
<1>2. IdsOf(Froze(queue, id)) \subseteq IdsOf(queue)
  BY <1>1 DEF IdsOf, Froze
<1> QED BY <1>2, FrozeIds

LEMMA SettledOldIds ==
  ASSUME NEW queue \in SUBSET Entry, NEW f, NEW r
  PROVE  IdsOf(Settled(queue, f, r)) \subseteq IdsOf(queue) \ {f.id}
<1>1. \A e \in Entry : [e EXCEPT !.base = r].id = e.id
  BY DEF Entry
<1> QED BY <1>1 DEF IdsOf, Settled, Without

LEMMA FreezeShows ==
  ASSUME ShownInv, SessionInv', NEW t \in Tabs, Freeze(t)
  PROVE  ShownInv'
<1> DEFINE s == session[t]
           f == s.front
           u == [s EXCEPT !.entries = Froze(s.entries, f.id)]
           n == [u EXCEPT !.stage = "sending", !.guard = s.generation]
<1>1. s \in SessionType /\ store \in Stores /\ store.generation \in Nat /\ Shown(s, store, t \in told)
      /\ s.stage = "freezing" /\ s.generation \in Nat /\ s.entries \in SUBSET Entry /\ store.queue \in SUBSET Entry
  BY TabsAreOK DEF ShownInv, OtherTypes, Stores, Freeze, SessionType
<1>2. told' = told
  BY DEF Freeze
<1>3. CASE Update(t, Resting(Blocked(s, "storage"))) /\ store' = store
  <2>1. Blocked(s, "storage") \in SessionType /\ Same(Blocked(s, "storage"), s)
    BY <1>1, SameFields DEF Kinds
  <2>2. Same(Resting(Blocked(s, "storage")), s)
    BY <2>1, SameFields DEF Same
  <2> QED BY <1>2, <1>3, <2>2, HonestStep DEF Honest
<1>4. CASE store' = [store EXCEPT !.queue = Froze(@, f.id)] /\ (Update(t, n) \/ Update(t, Resting(u)))
  <2>1. store'.queue = Froze(store.queue, f.id) /\ store'.generation = store.generation
    BY <1>1, <1>4 DEF Stores
  <2>2. IdsOf(store'.queue) = IdsOf(store.queue) /\ IdsOf(Froze(s.entries, f.id)) = IdsOf(s.entries)
        /\ Froze(s.entries, f.id) \in SUBSET Entry
    <3>1. \A e \in Entry : [e EXCEPT !.frozen = TRUE] \in Entry
      BY DEF Entry
    <3>2. Froze(s.entries, f.id) \in SUBSET Entry
      BY <1>1, <3>1 DEF Froze
    <3> QED BY <1>1, <2>1, <3>2, FrozeSameIds
  <2> DEFINE Like(x) == /\ x.open = s.open /\ x.owned = s.owned /\ x.writing = s.writing
                        /\ x.entries = Froze(s.entries, f.id) /\ x.generation = s.generation
  <2> HIDE DEF f
  <2>3. u \in SessionType /\ Like(u)
    BY <1>1, <2>2 DEF SessionType
  <2> HIDE DEF u
  <2>4. Like(n) /\ Like(Resting(u))
    BY <2>3, SameFields DEF SessionType, Same
  <2>5. ASSUME NEW x, Like(x)  PROVE Shown(x, store', t \in told')
    <3>1. \A e \in x.entries : \E d \in s.entries : d.id = e.id
      BY <2>2, <2>5 DEF IdsOf
    <3> QED BY <1>1, <1>2, <2>1, <2>2, <2>5, <3>1 DEF Shown, Writing
  <2>6. PICK x : Update(t, x) /\ Like(x)
    BY <1>4, <2>4
  <2> QED BY <1>1, <1>2, <2>1, <2>2, <2>5, <2>6, OthersShow
<1> QED BY <1>1, <1>3, <1>4 DEF Freeze, SessionType

(* The answer retires the edit in the queue and in the tab alike. *)
LEMMA AcknowledgedShows ==
  ASSUME ShownInv, SessionInv', NEW t \in Tabs, Acknowledged(t)
  PROVE  ShownInv'
<1> DEFINE s == session[t]
           f == s.front
           r == receipt[f.id].revision
           x == Resting(s)
           n == [x EXCEPT !.confirmed = r, !.generation = s.generation + 1,
                          !.entries = Settled(s.entries, f, r), !.stage = "pass"]
<1>1. /\ s \in SessionType /\ store \in Stores /\ store.generation \in Nat /\ Shown(s, store, t \in told)
      /\ s.generation \in Nat /\ s.entries \in SUBSET Entry /\ store.queue \in SUBSET Entry
      /\ lock = t
  <2>1. Holding(s)
    BY DEF Acknowledged, Holding, AtWork
  <2> QED BY <2>1, TabsAreOK DEF ShownInv, OtherTypes, Stores, SessionType, SessionInv, LockInv
<1>2. CASE ~ Guarded(s.guard)
  <2>1. Update(t, Resting(Overtaken(s))) /\ store' = store /\ told' = told
    BY <1>2 DEF Acknowledged
  <2> QED BY <1>1, <2>1, AdoptedTakes, TakesIsHonest, HonestStep
<1>3. CASE Guarded(s.guard)
  <2>1. /\ store' = [confirmed |-> r, generation |-> store.generation + 1,
                     queue |-> Settled(store.queue, f, r)]
        /\ Update(t, [Resting(s) EXCEPT !.confirmed = r, !.generation = @ + 1,
                        !.entries = Settled(@, f, r), !.stage = "pass"])
        /\ told \subseteq told'
    BY <1>3 DEF Acknowledged, Tell
  <2>2. x \in SessionType /\ Same(x, s)
    BY <1>1, SameFields
  <2> HIDE DEF f, r, x
  <2>3. Update(t, n)
    BY <2>1, <2>2 DEF x, SessionType, Same
  <2>4. /\ n.open = s.open /\ n.owned = s.owned /\ n.writing = s.writing
        /\ n.entries = Settled(s.entries, f, r) /\ n.generation = s.generation + 1
    BY <2>2 DEF SessionType, Same
  <2> HIDE DEF n
  <2>5. /\ IdsOf(n.entries) \subseteq IdsOf(s.entries) \ {f.id}
        /\ IdsOf(store.queue) \subseteq IdsOf(store'.queue) \cup {f.id}
        /\ store'.generation = store.generation + 1
    BY <1>1, <2>1, <2>4, SettledOldIds, SettledIds
  <2>6. \A e \in n.entries : \E d \in s.entries : d.id = e.id /\ e.id # f.id
    BY <2>5 DEF IdsOf
  <2>7. Shown(n, store', t \in told')
    BY <1>1, <2>1, <2>4, <2>5, <2>6 DEF Shown, Writing
  <2> QED BY <1>1, <2>1, <2>3, <2>7, OthersShow
<1> QED BY <1>2, <1>3

LEMMA ReconciledShows ==
  ASSUME ShownInv, SessionInv', NEW t \in Tabs, NEW v \in Nat, Saves(t, v),
         NEW u, Update(t, u), Same(u, Reconciled(session[t], v))
  PROVE  ShownInv'
<1> DEFINE s == session[t]
           c == Reconciled(s, v)
<1>1. s \in SessionType /\ Coherent(s) /\ SessionTypeOK /\ Shown(s, store, t \in told)
      /\ store \in Stores /\ store.generation \in Nat
  BY TabsAreOK DEF ShownInv, OtherTypes, Stores
<1>2. /\ c.open = s.open /\ c.owned = s.owned /\ c.writing = s.writing
      /\ \/ ~ Confirms(s, v) /\ SameCache(c, s)
         \/ ~ Confirms(s, v) /\ c.entries = store.queue
         \/ /\ Confirms(s, v) /\ c.entries = s.entries
            /\ c.generation = s.generation + 1 /\ s.generation = store.generation
  BY <1>1, ReconciledFields DEF SameTab
<1> HIDE DEF c
<1>3. Same(u, c)
  BY DEF c
<1>4. CASE ~ Confirms(s, v)
  <2>1. store' = store /\ told' = told
    BY <1>4 DEF Saves
  <2>2. Honest(u, s)
    BY <1>1, <1>2, <1>3, <1>4 DEF Honest, Same, SameCache, Shown
  <2> QED BY <2>1, <2>2, HonestStep
<1>5. CASE Confirms(s, v)
  <2>1. store' = [store EXCEPT !.confirmed = v, !.generation = @ + 1] /\ told \subseteq told'
    BY <1>5 DEF Saves, Tell
  <2>2. store'.queue = store.queue /\ store'.generation = store.generation + 1
    BY <1>1, <2>1 DEF Stores
  <2>3. Shown(u, store', t \in told')
    BY <1>1, <1>2, <1>3, <1>5, <2>2 DEF Shown, Same, Writing
  <2>4. store'.generation >= store.generation
    BY <1>1, <2>2
  <2> QED BY <2>1, <2>2, <2>3, <2>4, OthersShow
<1> QED BY <1>4, <1>5

LEMMA ArrivesShows ==
  ASSUME ShownInv, SessionInv', NEW t \in Tabs, FreshArrives(t) \/ RefetchArrives(t)
  PROVE  ShownInv'
<1> DEFINE s == session[t]
           v == s.view
           c == Reconciled(s, v)
           x == Resting(c)
           again == [c EXCEPT !.view = None]
           on == [x EXCEPT !.stage = "pass", !.needsFresh = FALSE]
           done == [x EXCEPT !.refetch = @ /\ c.error \notin {"none", "conflict"}]
<1>1. s \in SessionType /\ Coherent(s) /\ SessionTypeOK /\ v \in Nat
  BY TabsAreOK DEF ShownInv, FreshArrives, RefetchArrives, SessionType, Snapshot
<1>2. CASE RefetchArrives(t) /\ s.confirmed # None /\ v < s.confirmed
  <2>1. Update(t, Resting(Blocked(s, "network"))) /\ store' = store /\ told' = told
    BY <1>2 DEF RefetchArrives
  <2>2. Blocked(s, "network") \in SessionType /\ Same(Blocked(s, "network"), s)
    BY <1>1, SameFields DEF Kinds
  <2>3. Same(Resting(Blocked(s, "network")), s)
    BY <2>2, SameFields DEF Same
  <2> QED BY <2>1, <2>3, HonestStep DEF Honest
<1>3. CASE FreshArrives(t) \/ ~ (s.confirmed # None /\ v < s.confirmed)
  <2>1. Saves(t, v)
    BY <1>3 DEF FreshArrives, RefetchArrives
  <2>2. \/ Update(t, again) \/ Update(t, x) \/ Update(t, on)
        \/ Update(t, done) \/ Update(t, Blocked(done, "conflict"))
    BY <1>3 DEF FreshArrives, RefetchArrives, AfterFresh, AfterRefetch
  <2>3. c \in SessionType
    BY <1>1, ReconciledFields DEF SessionOK
  <2> HIDE DEF c
  <2>4. Same(again, c)
    BY <2>3 DEF SessionType, Same
  <2>5. x \in SessionType /\ Same(x, c)
    BY <2>3, SameFields
  <2> HIDE DEF x
  <2>6. Same(on, x) /\ Same(done, x) /\ done \in SessionType
    BY <2>5 DEF SessionType, Same
  <2> HIDE DEF done
  <2>7. Same(Blocked(done, "conflict"), done)
    BY <2>6, SameFields DEF Kinds
  <2>8. PICK u : Update(t, u) /\ Same(u, c)
    BY <2>2, <2>4, <2>5, <2>6, <2>7 DEF Same
  <2> QED BY <1>1, <2>1, <2>8, ReconciledShows DEF c
<1> QED BY <1>2, <1>3

LEMMA BesideShows ==
  ASSUME ShownInv, SessionInv', NEW t \in Tabs, RefreshArrives(t) \/ ForgetRoll(t)
  PROVE  ShownInv'
<1> DEFINE s == session[t]
<1>1. s \in SessionType /\ Coherent(s) /\ SessionTypeOK /\ Shown(s, store, t \in told)
      /\ store \in Stores /\ store.generation \in Nat
  BY TabsAreOK DEF ShownInv, OtherTypes, Stores
<1>2. CASE RefreshArrives(t)
  <2> DEFINE v == s.sideView
             c == Reconciled(s, v)
             u == [c EXCEPT !.sideView = None, !.side = IF Again(s, v) THEN @ ELSE "none"]
  <2>1. v \in Nat /\ Saves(t, v) /\ Update(t, u)
    BY <1>1, <1>2 DEF RefreshArrives, SessionType, Snapshot
  <2>2. c \in SessionType
    BY <1>1, <2>1, ReconciledFields DEF SessionOK
  <2> HIDE DEF c
  <2>3. Same(u, c)
    BY <2>2 DEF SessionType, Same
  <2> HIDE DEF u
  <2> QED BY <2>1, <2>3, ReconciledShows DEF c
<1>3. CASE ForgetRoll(t)
  <2> DEFINE u == [s EXCEPT !.side = "forgetting"]
  <2>1. Same(u, s)
    BY <1>1 DEF SessionType, Same
  <2>2. Update(t, u) /\ store' = [store EXCEPT !.generation = @ + 1] /\ told' = told
    BY <1>3 DEF ForgetRoll
  <2> HIDE DEF u
  <2>3. store'.queue = store.queue /\ store'.generation = store.generation + 1
    BY <1>1, <2>2 DEF Stores
  <2>4. s.generation \in Nat
    BY <1>1 DEF SessionType
  <2>5. Shown(u, store', t \in told')
    BY <1>1, <2>1, <2>2, <2>3, <2>4 DEF Shown, Same, Writing
  <2>6. store'.generation >= store.generation
    BY <1>1, <2>3
  <2> QED BY <2>2, <2>3, <2>5, <2>6, OthersShow
<1> QED BY <1>2, <1>3

(* A review writes the queue and shows what it wrote; a purge leaves the   *)
(* tab without the right to edit, and tells the others.                     *)
LEMMA ReviewShows ==
  ASSUME ShownInv, SessionInv', NEW t \in Tabs, NEW again \in BOOLEAN, Review(t, again)
  PROVE  ShownInv'
<1> DEFINE s == session[t]
<1>1. s \in SessionType /\ Shown(s, store, t \in told) /\ store \in Stores /\ s.owned /\ lock = t
  BY TabsAreOK DEF ShownInv, OtherTypes, Review, SessionInv, LockInv, Holding
<1>2. CASE ~ Guarded(s.generation)
  <2>1. Update(t, Overtaken(s)) /\ store' = store /\ told' = told
    BY <1>2 DEF Review
  <2> QED BY <1>1, <2>1, AdoptedTakes, TakesIsHonest, HonestStep
<1>3. CASE Guarded(s.generation)
  <2>1. PICK queue :
          /\ queue \in SUBSET Entry
          /\ store' = [store EXCEPT !.queue = queue, !.generation = @ + 1]
          /\ Update(t, Awake([s EXCEPT !.confirmed = store.confirmed, !.entries = queue,
                                       !.generation = store.generation + 1,
                                       !.error = "none", !.needsFresh = FALSE]))
          /\ told \subseteq told'
    <3>1. PICK queue :
          /\ store' = [store EXCEPT !.queue = queue, !.generation = @ + 1]
          /\ Update(t, Awake([s EXCEPT !.confirmed = store.confirmed, !.entries = queue,
                                       !.generation = store.generation + 1,
                                       !.error = "none", !.needsFresh = FALSE]))
          /\ Tell(t)
      BY <1>3 DEF Review
    <3>2. store'.queue = queue /\ store'.queue \in SUBSET Entry
      BY <1>1, <3>1 DEF Stores, SessionInv, SessionTypeOK
    <3> QED BY <3>1, <3>2 DEF Tell
  <2> DEFINE n == [s EXCEPT !.confirmed = store.confirmed, !.entries = queue,
                            !.generation = store.generation + 1,
                            !.error = "none", !.needsFresh = FALSE]
  <2>2. store'.queue = queue /\ store.generation + 1 \in Nat /\ store.confirmed \in Snapshot
    BY <1>1, <2>1 DEF Stores
  <2>3. n \in SessionType /\ n.entries = queue /\ n.open = s.open
    BY <1>1, <2>1, <2>2 DEF SessionType
  <2>4. Update(t, Awake(n))
    BY <2>1
  <2> HIDE DEF n
  <2>5. Awake(n).entries = queue /\ Awake(n).open
    BY <1>1, <2>3, SameFields DEF Same, Shown
  <2>6. Shown(Awake(n), store', t \in told')
    BY <2>2, <2>5 DEF Shown, IdsOf
  <2> QED BY <1>1, <2>1, <2>4, <2>6, OthersShow
<1> QED BY <1>2, <1>3

LEMMA PurgeShows ==
  ASSUME ShownInv, SessionInv', NEW t \in Tabs, Denied(t) \/ ActivityDenied(t)
  PROVE  ShownInv'
<1> DEFINE s == session[t]
           side == [s EXCEPT !.side = "none"]
<1>1. s \in SessionType /\ store \in Stores /\ store.generation \in Nat
  BY TabsAreOK DEF ShownInv, OtherTypes, Stores
<1>2. PICK r \in {Resting(s), side, s} : PurgeAccess(t, r)
  BY DEF Denied, ActivityDenied
<1>3. r \in SessionType
  <2>1. side \in SessionType
    BY <1>1 DEF SessionType
  <2> QED BY <1>1, <2>1, SameFields
<1>4. Blocked(r, "purged") \in SessionType
  BY <1>3, SameFields DEF Kinds
<1> DEFINE u == [Blocked(r, "purged") EXCEPT !.confirmed = None, !.entries = {}, !.owned = FALSE]
<1>5. u.owned = FALSE
  BY <1>4 DEF SessionType
<1>6. Update(t, u) /\ Tell(t) /\ store'.generation = store.generation + 1 /\ told \subseteq told'
  BY <1>2 DEF PurgeAccess, Tell
<1> HIDE DEF u
<1>7. Shown(u, store', t \in told')
  BY <1>5 DEF Shown
<1>8. store'.generation > store.generation
  BY <1>1, <1>6
<1> QED BY <1>6, <1>7, <1>8, OthersShow

LEMMA ShownStep == ShownInv /\ [SessionNext]_sessionVars => ShownInv'
<1> SUFFICES ASSUME ShownInv, [SessionNext]_sessionVars  PROVE ShownInv'
  OBVIOUS
<1>1. SessionInv'
  BY NextStep DEF ShownInv
<1>2. ASSUME NEW t \in Tabs, Drain(t)  PROVE ShownInv'
  BY <1>1, <1>2, PassShows, QuietShows, FreezeShows, AcknowledgedShows, ArrivesShows DEF Drain
<1>3. ASSUME NEW t \in Tabs, Saving(t) \/ Coordination(t) \/ Beside(t)  PROVE ShownInv'
  BY <1>1, <1>3, EnqueueShows, TakingShows, InvalidatedShows, OpensShow, QuietShows, BesideShows
     DEF Saving, Coordination, Beside
<1>4. ASSUME NEW t \in Tabs, Failure(t) \/ User(t)  PROVE ShownInv'
  BY <1>1, <1>4, QuietShows, PurgeShows, OpensShow, EditShows, BesideShows, ReviewShows DEF Failure, User
<1> QED BY <1>1, <1>2, <1>3, <1>4, AllTabsShow DEF SessionNext

LEMMA InitShown == SessionInit => ShownInv
<1> SUFFICES ASSUME SessionInit  PROVE ShownInv
  OBVIOUS
<1>1. \A t \in Tabs : session[t].owned = FALSE
  BY DEF SessionInit, Closed
<1> QED BY <1>1, InitSession DEF ShownInv, Shown

(* What the editing tab shows as queued is stored, or being stored, or the *)
(* tab has yet to read that it was purged: whatever other tabs and its own *)
(* refresh, reviews and forgotten rolls write meanwhile.                    *)
THEOREM ShownIsStored == SessionSpec => []QueuedIsStored
<1>1. ShownInv => QueuedIsStored
  BY DEF ShownInv, Shown, QueuedIsStored
<1> QED BY <1>1, InitShown, ShownStep, PTL DEF SessionSpec

----------------------------------------------------------------------------
(* An edit is applied to the sheet its user saw.  First, what each step    *)
(* does to the tab it is of, and to the others (Moving); then what a tab    *)
(* and the store know of each other and of the server (SeatInv,             *)
(* ServedInv); then what is known of every edit, wherever it is stored,     *)
(* shown, sent or answered (GroundsInv).                                    *)

(* What a step does to a tab: it leaves alone what the tab works on, or    *)
(* puts it down; it keeps the cache, or takes the one of the store.         *)

Carries(u, s) == u.front = None \/ (u.front = s.front /\ u.stage = s.stage /\ u.guard = s.guard)

(* u has no view and no side work that s has not. *)
Looks(u, s) ==
  /\ u \in SessionType /\ u.open = s.open
  /\ u.view \in {None, s.view} /\ u.sideView \in {None, s.sideView} /\ u.side \in {"none", s.side}

Plain(u, s) == Looks(u, s) /\ u.writing = s.writing /\ SameCache(u, s)

FromStore(u) == u.confirmed = store.confirmed /\ u.entries = store.queue /\ u.generation = store.generation

Adopts(u, s) == Looks(u, s) /\ u.writing \subseteq s.writing /\ FromStore(u)

Renews(u, s, v) ==
  /\ Looks(u, s) /\ u.writing = s.writing /\ u.entries = s.entries
  /\ u.confirmed = v /\ u.generation = s.generation + 1

(* A purged sheet would be stored again by the answer this tab waits for,  *)
(* because the tab has seen the purge and not been blocked by it.           *)
Risky(s, st) ==
  s.side = "refreshing" /\ s.confirmed = None /\ s.generation = st.generation /\ s.error # "purged"

Drifts(u, s) ==
  /\ u \in SessionType /\ u.open = s.open
  /\ \/ SameCache(u, s) /\ u.writing = s.writing
     \/ FromStore(u) /\ u.writing \subseteq s.writing
  /\ Carries(u, s)
  /\ u.view \in {None, s.view, Revision} /\ u.sideView \in {None, s.sideView, Revision}
  /\ u.side \in {"none", s.side} \/ Holding(s)
  /\ Risky(u, store) => Risky(s, store) \/ (Holding(s) /\ u.front = None)

LEMMA PlainFields ==
  ASSUME NEW s \in SessionType
  PROVE  /\ Plain(Resting(s), s) /\ Resting(s).front = None /\ Resting(s).error = s.error
         /\ Plain(Awake(s), s) /\ Awake(s).error = s.error /\ Awake(s).front = s.front
         /\ Coherent(s) => Carries(Awake(s), s)
<1>1. Plain(Resting(s), s) /\ Resting(s).front = None /\ Resting(s).error = s.error
  <2>1. "rest" \in Stage
    BY DEF Stage
  <2> QED BY <2>1 DEF Resting, SessionType, Plain, Looks, SameCache, Snapshot
<1>2. Plain(Awake(s), s) /\ Awake(s).error = s.error /\ Awake(s).front = s.front
  BY DEF Awake, SessionType, Plain, Looks, SameCache, Stage
<1>3. Coherent(s) => Carries(Awake(s), s)
  BY <1>2 DEF Coherent, Awake, Carries
<1> QED BY <1>1, <1>2, <1>3

LEMMA PlainBlocked ==
  ASSUME NEW s \in SessionType, NEW kind \in Kinds
  PROVE  /\ Plain(Blocked(s, kind), s) /\ Blocked(s, kind).error = kind /\ Blocked(s, kind).front = s.front
         /\ Coherent(s) => Carries(Blocked(s, kind), s)
<1> DEFINE e == [s EXCEPT !.error = kind]
           r == [e EXCEPT !.stage = "rest"]
<1>1. Blocked(s, kind) = IF s.stage = "timer" THEN r ELSE e
  BY DEF Blocked, SessionType
<1>2. Plain(e, s) /\ e.error = kind /\ e.front = s.front /\ e.stage = s.stage /\ e.guard = s.guard
  BY DEF Kinds, SessionType, Plain, Looks, SameCache
<1> HIDE DEF e
<1>3. Plain(r, s) /\ r.error = kind /\ r.front = s.front
  <2>1. "rest" \in Stage
    BY DEF Stage
  <2> QED BY <1>2, <2>1 DEF SessionType, Plain, Looks, SameCache
<1> HIDE DEF r
<1> QED BY <1>1, <1>2, <1>3 DEF Carries, Coherent

LEMMA PlainTwice ==
  ASSUME NEW s, NEW r, NEW u, Plain(u, r)
  PROVE  /\ Plain(r, s) => Plain(u, s)
         /\ Adopts(r, s) => Adopts(u, s)
         /\ \A v : Renews(r, s, v) => Renews(u, s, v)
BY DEF Plain, Looks, SameCache, Adopts, Renews, FromStore

LEMMA AdoptFields ==
  ASSUME SessionTypeOK, NEW s \in SessionType
  PROVE  /\ Adopts(Adopted(s), s) /\ Adopted(s).error = s.error /\ Adopted(s).front = s.front
         /\ Adopted(s).stage = s.stage /\ Adopted(s).guard = s.guard
         /\ Coherent(s) => Coherent(Adopted(s))
BY DEF Adopted, SessionTypeOK, SessionType, Adopts, Looks, FromStore, Coherent

LEMMA OvertakenAdopts ==
  ASSUME SessionTypeOK, NEW s \in SessionType, Coherent(s)
  PROVE  /\ Adopts(Overtaken(s), s) /\ Carries(Overtaken(s), s)
         /\ Overtaken(s).error = "purged" \/ store.confirmed # None
<1> DEFINE a == Adopted(s)
<1>1. /\ Adopts(a, s) /\ a \in SessionType /\ a.front = s.front /\ a.stage = s.stage /\ a.guard = s.guard
      /\ Coherent(a)
  BY AdoptFields DEF Adopts, Looks
<1> HIDE DEF a
<1>2. \A kind \in {"purged", "conflict"} :
        /\ Adopts(Blocked(a, kind), s) /\ Carries(Blocked(a, kind), a) /\ Blocked(a, kind).error = kind
  <2> SUFFICES ASSUME NEW kind \in {"purged", "conflict"}
               PROVE  /\ Adopts(Blocked(a, kind), s) /\ Carries(Blocked(a, kind), a)
                      /\ Blocked(a, kind).error = kind
    OBVIOUS
  <2>1. kind \in Kinds
    BY DEF Kinds
  <2>2. Plain(Blocked(a, kind), a) /\ Carries(Blocked(a, kind), a) /\ Blocked(a, kind).error = kind
    BY <1>1, <2>1, PlainBlocked
  <2>3. Adopts(Blocked(a, kind), s)
    BY <1>1, <2>2, PlainTwice
  <2> QED BY <2>2, <2>3
<1> QED BY <1>1, <1>2 DEF Overtaken, a, Carries

(* When a step drifts. *)
LEMMA PlainDrifts ==
  ASSUME NEW s, NEW u, Plain(u, s), Carries(u, s),
         \/ s.error = "purged" => u.error = "purged"
         \/ s.confirmed # None
         \/ Holding(s) /\ u.front = None
  PROVE  Drifts(u, s)
BY DEF Plain, Looks, SameCache, Drifts, Risky

LEMMA AdoptsDrifts ==
  ASSUME NEW s, NEW u, Adopts(u, s), Carries(u, s),
         \/ u.error = "purged" \/ store.confirmed # None
         \/ u.side # "refreshing" \/ (Holding(s) /\ u.front = None)
  PROVE  Drifts(u, s)
BY DEF Adopts, Looks, FromStore, Drifts, Risky

(* A step after which every tab has drifted, and nothing else has moved. *)
QuietStep ==
  /\ UNCHANGED <<history, receipt, net, store, lock, order, grounds>>
  /\ \A t \in Tabs : Drifts(session'[t], session[t])

(* One tab moves. *)
Alone(t) == \A v \in Tabs \ {t} : session'[v] = session[v]

LEMMA DriftsItself ==
  ASSUME NEW s \in SessionType
  PROVE  Drifts(s, s)
BY DEF Drifts, SameCache, Carries

LEMMA Moved ==
  ASSUME SessionInv, NEW t \in Tabs, NEW u, Update(t, u)
  PROVE  session'[t] = u /\ Alone(t)
BY DEF SessionInv, SessionTypeOK, Update, Alone

LEMMA OneDrifts ==
  ASSUME SessionInv, NEW t \in Tabs, NEW u, Update(t, u), Drifts(u, session[t]),
         UNCHANGED <<history, receipt, net, store, lock, order, grounds>>
  PROVE  QuietStep
<1>1. session'[t] = u /\ \A v \in Tabs \ {t} : session'[v] = session[v]
  BY Moved DEF Alone
<1>2. \A v \in Tabs : Drifts(session[v], session[v])
  BY TabsAreOK, DriftsItself
<1> QED BY <1>1, <1>2 DEF QuietStep

LEMMA RestsDrift ==
  ASSUME NEW s \in SessionType, NEW r \in SessionType, Plain(r, s),
         \/ s.error = "purged" => r.error = "purged"
         \/ s.confirmed # None
         \/ Holding(s)
  PROVE  Drifts(Resting(r), s)
<1>1. Plain(Resting(r), s) /\ Resting(r).front = None /\ Resting(r).error = r.error
  BY PlainFields, PlainTwice
<1> QED BY <1>1, PlainDrifts DEF Carries

(* The steps of one tab that wait, rest, look or give up. *)
LEMMA SendFailsDrifts ==
  ASSUME SessionInv, NEW t \in Tabs, SendFails(t)
  PROVE  QuietStep
<1> DEFINE s == session[t]
           r == Resting(s)
           u == [r EXCEPT !.stage = "timer"]
<1>1. s \in SessionType
  BY TabsAreOK
<1>2. Plain(r, s) /\ r \in SessionType /\ r.front = None /\ r.error = s.error
  BY <1>1, PlainFields DEF Plain, Looks
<1>3. Update(t, u) /\ UNCHANGED <<history, receipt, net, store, lock, order, grounds>>
  BY DEF SendFails, serverVars, userVars
<1> HIDE DEF r
<1>4. Plain(u, s) /\ u.front = None /\ u.error = s.error
  BY <1>2 DEF SessionType, Stage, Plain, Looks, SameCache
<1> HIDE DEF u
<1> QED BY <1>3, <1>4, PlainDrifts, OneDrifts DEF Carries

LEMMA TimerDrifts ==
  ASSUME SessionInv, NEW t \in Tabs, TimerFires(t)
  PROVE  QuietStep
<1>1. session[t] \in SessionType /\ Coherent(session[t])
  BY TabsAreOK
<1>2. Drifts(Awake(session[t]), session[t])
  BY <1>1, PlainFields, PlainDrifts
<1>3. Update(t, Awake(session[t])) /\ UNCHANGED <<history, receipt, net, store, lock, order, grounds>>
  BY DEF TimerFires, serverVars, userVars
<1> QED BY <1>2, <1>3, OneDrifts

LEMMA EnqueueFailsDrifts ==
  ASSUME SessionInv, NEW t \in Tabs, EnqueueFails(t)
  PROVE  QuietStep
<1> DEFINE s == session[t]
<1>1. s \in SessionType /\ Coherent(s) /\ SessionTypeOK
  BY TabsAreOK
<1>2. PICK w \in s.writing :
        LET u == [s EXCEPT !.writing = @ \ {w}]
        IN  Update(t, Overtaken(IF s.stage = "entry" /\ s.front.id = w.entry.id THEN Resting(u) ELSE u))
  BY DEF EnqueueFails, Writes
<1> DEFINE u == [s EXCEPT !.writing = @ \ {w}]
           v == IF s.stage = "entry" /\ s.front.id = w.entry.id THEN Resting(u) ELSE u
<1>3. Update(t, Overtaken(v))
  BY <1>2
<1>4. /\ u \in SessionType /\ Looks(u, s) /\ u.writing \subseteq s.writing /\ Coherent(u)
      /\ u.front = s.front /\ u.stage = s.stage /\ u.guard = s.guard
  BY <1>1 DEF SessionType, Looks, Coherent
<1> HIDE DEF u
<1>5. Plain(Resting(u), u) /\ Resting(u).front = None /\ SessionOK(Resting(u))
  BY <1>4, PlainFields, RestFields
<1>6. /\ v \in SessionType /\ Looks(v, s) /\ v.writing \subseteq s.writing /\ Coherent(v) /\ Carries(v, s)
  BY <1>4, <1>5 DEF Plain, Looks, SessionOK, Carries
<1> HIDE DEF v
<1>7. /\ Adopts(Overtaken(v), v) /\ Carries(Overtaken(v), v)
      /\ Overtaken(v).error = "purged" \/ store.confirmed # None
  BY <1>1, <1>6, OvertakenAdopts
<1>8. Adopts(Overtaken(v), s) /\ Carries(Overtaken(v), s)
  BY <1>6, <1>7 DEF Adopts, Looks, Carries
<1>9. UNCHANGED <<history, receipt, net, store, lock, order, grounds>>
  BY DEF EnqueueFails, serverVars, userVars
<1> QED BY <1>3, <1>7, <1>8, <1>9, AdoptsDrifts, OneDrifts

LEMMA InvalidatedDrifts ==
  ASSUME SessionInv, NEW t \in Tabs, Invalidated(t)
  PROVE  QuietStep
<1> DEFINE s == session[t]
           a == Adopted(s)
           b == Blocked(a, "purged")
<1>1. s \in SessionType /\ Coherent(s) /\ SessionTypeOK
  BY TabsAreOK
<1>2. /\ Adopts(a, s) /\ a \in SessionType /\ a.front = s.front /\ a.stage = s.stage /\ a.guard = s.guard
      /\ Coherent(a)
  BY <1>1, AdoptFields DEF Adopts, Looks
<1>3. PICK u \in {s, b, a} : Update(t, u) /\ (u \in {s, b} \/ store.confirmed # None)
  BY DEF Invalidated
<1> HIDE DEF a
<1>4. Adopts(b, s) /\ Carries(b, a) /\ b.error = "purged"
  BY <1>2, PlainBlocked, PlainTwice DEF Kinds
<1> HIDE DEF b
<1>5. Drifts(b, s)
  BY <1>2, <1>4, AdoptsDrifts DEF Carries
<1>6. store.confirmed # None => Drifts(a, s)
  BY <1>2, AdoptsDrifts DEF Carries
<1>7. Drifts(s, s)
  BY <1>1, DriftsItself
<1>8. UNCHANGED <<history, receipt, net, store, lock, order, grounds>>
  BY DEF Invalidated, serverVars, userVars
<1> HIDE DEF s
<1> QED BY <1>3, <1>5, <1>6, <1>7, <1>8, OneDrifts DEF s

LEMMA LooksDrift ==
  ASSUME SessionInv, NEW t \in Tabs,
         Fetched(t) \/ FetchFails(t) \/ FreshSkipped(t) \/ Refused(t) \/ RefreshAnswered(t)
  PROVE  QuietStep
<1> DEFINE s == session[t]
           fetched == [s EXCEPT !.view = Revision]
           skipped == [s EXCEPT !.stage = "pass", !.needsFresh = FALSE]
           answered == [s EXCEPT !.sideView = Revision]
           b == Blocked(s, "network")
           failed == [b EXCEPT !.side = "none"]
           r == Resting(s)
           refetch == [r EXCEPT !.stage = "refetch", !.refetch = TRUE]
<1>1. s \in SessionType /\ Coherent(s) /\ Revision \in Snapshot
  BY TabsAreOK DEF OtherTypes, Revision, Snapshot
<1>2. UNCHANGED <<history, receipt, net, store, lock, order, grounds>>
  BY DEF Fetched, FetchFails, FreshSkipped, Refused, RefreshAnswered, serverVars, userVars
<1>3. Drifts(fetched, s) /\ Drifts(answered, s)
  BY <1>1 DEF SessionType, Drifts, SameCache, Carries, Risky
<1>4. s.stage = "fresh" => Drifts(skipped, s)
  <2>1. "pass" \in Stage
    BY DEF Stage
  <2>2. s.stage = "fresh" => s.front = None
    BY <1>1 DEF Coherent
  <2>3. s.stage = "fresh" => Plain(skipped, s) /\ skipped.front = None /\ skipped.error = s.error
    BY <1>1, <2>1, <2>2 DEF SessionType, Plain, Looks, SameCache
  <2> HIDE DEF skipped
  <2> QED BY <2>3, PlainDrifts DEF Carries
<1>5. s.side = "refreshing" => Drifts(failed, s)
  <2>1. Plain(b, s) /\ Carries(b, s) /\ b \in SessionType
    BY <1>1, PlainBlocked DEF Kinds, Plain, Looks
  <2> HIDE DEF b
  <2>2. /\ failed \in SessionType /\ failed.side = "none" /\ failed.open = b.open /\ failed.view = b.view
        /\ failed.sideView = b.sideView /\ SameCache(failed, b) /\ failed.writing = b.writing
        /\ failed.front = b.front /\ failed.stage = b.stage /\ failed.guard = b.guard
    BY <2>1 DEF SessionType, SameCache
  <2> HIDE DEF failed
  <2> QED BY <2>1, <2>2 DEF Drifts, Plain, Looks, SameCache, Carries, Risky
<1>6. s.stage \in AtWork => Drifts(r, s) /\ \A kind \in Kinds : Drifts(Resting(Blocked(s, kind)), s)
  <2>1. \A kind \in Kinds : Plain(Blocked(s, kind), s) /\ Blocked(s, kind) \in SessionType
    BY <1>1, PlainBlocked DEF Plain, Looks
  <2>2. Plain(s, s)
    BY <1>1 DEF Plain, Looks, SameCache
  <2> QED BY <1>1, <2>1, <2>2, RestsDrift DEF Holding
<1>7. s.stage \in AtWork => Drifts(refetch, s)
  <2>1. Plain(r, s) /\ r \in SessionType /\ r.front = None
    BY <1>1, PlainFields DEF Plain, Looks
  <2> HIDE DEF r
  <2>2. Plain(refetch, s) /\ refetch.front = None
    BY <2>1 DEF SessionType, Stage, Plain, Looks, SameCache
  <2> HIDE DEF refetch
  <2> QED BY <2>2, PlainDrifts DEF Carries, Holding
<1>8. \/ Update(t, fetched)
      \/ Update(t, answered)
      \/ s.stage = "fresh" /\ Update(t, skipped)
      \/ s.side = "refreshing" /\ Update(t, failed)
      \/ /\ s.stage \in AtWork
         /\ Update(t, r) \/ Update(t, refetch) \/ \E kind \in Kinds : Update(t, Resting(Blocked(s, kind)))
  BY DEF Fetched, FetchFails, Fetching, FreshSkipped, Refused, RefreshAnswered, AtWork, Kinds
<1> HIDE DEF s, fetched, answered, skipped, failed, r, refetch
<1> QED BY <1>2, <1>3, <1>4, <1>5, <1>6, <1>7, <1>8, OneDrifts DEF s

LEMMA RefreshDrifts ==
  ASSUME SessionInv, NEW t \in Tabs, Refresh(t)
  PROVE  QuietStep
<1> DEFINE s == session[t]
           u == [s EXCEPT !.side = "refreshing", !.sideView = None]
<1>1. s \in SessionType /\ s.confirmed # None /\ Holding(s)
  BY TabsAreOK DEF Refresh, MaySend, Holding
<1>2. Update(t, u) /\ UNCHANGED <<history, receipt, net, store, lock, order, grounds>>
  BY DEF Refresh, serverVars, userVars
<1>3. Drifts(u, s)
  BY <1>1 DEF SessionType, Snapshot, Drifts, SameCache, Carries, Risky
<1> HIDE DEF u
<1> QED BY <1>2, <1>3, OneDrifts

LEMMA RollForgottenDrifts ==
  ASSUME SessionInv, NEW t \in Tabs, RollForgotten(t)
  PROVE  QuietStep
<1> DEFINE s == session[t]
           u == [s EXCEPT !.side = "none"]
           a == Adopted(u)
<1>1. s \in SessionType /\ SessionTypeOK
  BY TabsAreOK
<1>2. /\ Plain(u, s) /\ u \in SessionType /\ u.side = "none" /\ u.error = s.error
      /\ u.front = s.front /\ u.stage = s.stage /\ u.guard = s.guard
  BY <1>1 DEF SessionType, Plain, Looks, SameCache
<1>3. Update(t, u) \/ Update(t, a)
  BY DEF RollForgotten
<1>4. UNCHANGED <<history, receipt, net, store, lock, order, grounds>>
  BY DEF RollForgotten, serverVars, userVars
<1> HIDE DEF u
<1>5. /\ Adopts(a, u) /\ a.front = u.front /\ a.stage = u.stage /\ a.guard = u.guard
  BY <1>1, <1>2, AdoptFields
<1>6. Adopts(a, s) /\ a.side = "none" /\ Carries(a, s)
  BY <1>2, <1>5 DEF Adopts, Looks, Plain, Carries
<1>7. Drifts(u, s) /\ Drifts(a, s)
  BY <1>2, <1>6, PlainDrifts, AdoptsDrifts DEF Carries
<1> HIDE DEF s, a
<1> QED BY <1>3, <1>4, <1>7, OneDrifts DEF s

LEMMA TakeoverDrifts ==
  ASSUME SessionInv, NEW t \in Tabs, Takeover(t)
  PROVE  QuietStep
<1> DEFINE s == session[lock]
           o == [s EXCEPT !.owned = FALSE]
           r == [o EXCEPT !.stage = "rest"]
<1>1. lock \in Tabs /\ Update(lock, SteppedDown(s)) /\ UNCHANGED <<history, receipt, net, store, lock, order, grounds>>
  BY DEF Takeover, serverVars, userVars
<1>2. s \in SessionType /\ Coherent(s)
  BY <1>1, TabsAreOK
<1>3. SteppedDown(s) = IF s.stage = "timer" THEN r ELSE o
  BY <1>2 DEF SteppedDown, SessionType
<1>4. Plain(o, s) /\ o.error = s.error /\ o.front = s.front /\ o.stage = s.stage /\ o.guard = s.guard
  BY <1>2 DEF SessionType, Plain, Looks, SameCache
<1> HIDE DEF o
<1>5. Plain(r, s) /\ r.error = s.error /\ r.front = s.front
  <2>1. "rest" \in Stage
    BY DEF Stage
  <2> QED BY <1>4, <2>1 DEF SessionType, Plain, Looks, SameCache
<1> HIDE DEF r
<1>6. Drifts(SteppedDown(s), s)
  BY <1>2, <1>3, <1>4, <1>5, PlainDrifts DEF Carries, Coherent
<1> QED BY <1>1, <1>6, OneDrifts

LEMMA OnlineDrifts ==
  ASSUME SessionInv, GoOffline \/ GoOnline
  PROVE  QuietStep
<1>1. \A t \in Tabs : session[t] \in SessionType /\ Coherent(session[t])
  BY TabsAreOK
<1>2. ASSUME NEW s \in SessionType  PROVE Drifts([s EXCEPT !.needsFresh = TRUE], s)
  <2> DEFINE u == [s EXCEPT !.needsFresh = TRUE]
  <2>1. Plain(u, s) /\ u.error = s.error /\ u.front = s.front /\ u.stage = s.stage /\ u.guard = s.guard
    BY DEF SessionType, Plain, Looks, SameCache
  <2> HIDE DEF u
  <2> QED BY <2>1, PlainDrifts DEF Carries, u
<1>3. ASSUME NEW s \in SessionType, Coherent(s)  PROVE Drifts(Reconnected(s), s)
  <2> DEFINE u == [s EXCEPT !.error = IF s.error = "network" THEN "none" ELSE s.error]
  <2>1. Reconnected(s) = IF u.open /\ u.error = "none" THEN Awake(u) ELSE u
    BY DEF Reconnected, SessionType
  <2>2. /\ Plain(u, s) /\ (s.error = "purged" => u.error = "purged") /\ u \in SessionType
        /\ u.front = s.front /\ u.stage = s.stage /\ u.guard = s.guard /\ u.view = s.view
    BY DEF SessionType, Plain, Looks, SameCache
  <2> HIDE DEF u
  <2>3. Coherent(u)
    BY <1>3, <2>2 DEF Coherent
  <2>4. Plain(Awake(u), s) /\ Awake(u).error = u.error /\ Carries(Awake(u), u)
    BY <2>2, <2>3, PlainFields, PlainTwice
  <2> QED BY <2>1, <2>2, <2>4, PlainDrifts DEF Carries
<1>4. UNCHANGED <<history, receipt, net, store, lock, order, grounds>>
  BY DEF GoOffline, GoOnline, serverVars, userVars
<1>5. \A t \in Tabs : Drifts(session'[t], session[t])
  <2>1. CASE GoOffline
    <3>1. session' = [t \in Tabs |-> [session[t] EXCEPT !.needsFresh = TRUE]]
      BY <2>1 DEF GoOffline
    <3> QED BY <1>1, <1>2, <3>1
  <2>2. CASE GoOnline
    <3>1. session' = [t \in Tabs |-> Reconnected(session[t])]
      BY <2>2 DEF GoOnline
    <3> QED BY <1>1, <1>3, <3>1
  <2> QED BY <2>1, <2>2
<1> QED BY <1>4, <1>5 DEF QuietStep

(* The steps that are not quiet, by what the invariants must know of them. *)

Confirming(t) ==
  LET s == session[t]
      u == session'[t]
  IN  /\ s.side = "refreshing" \/ (Holding(s) /\ s.front = None)
      /\ \E v \in Nat \cap {s.view, s.sideView} :
           /\ Confirms(s, v)
           /\ store' = [store EXCEPT !.confirmed = v, !.generation = @ + 1]
           /\ Renews(u, s, v) /\ Carries(u, s)
      /\ Alone(t)
      /\ UNCHANGED <<history, receipt, net, lock, order, grounds>>

Beginning(t) ==
  LET s == session[t]
      u == session'[t]
      f == u.front
  IN  /\ s.owned /\ f \in Entry
      /\ \/ s.stage = "pass" /\ f \in s.entries /\ u.stage = (IF Writing(s, f.id) THEN "entry" ELSE "freezing")
         \/ s.stage = "entry" /\ f = s.front /\ ~ Writing(s, f.id) /\ u.stage = "freezing"
      /\ u.stage = "freezing" => s.confirmed = None \/ f.base = s.confirmed
      /\ Plain(u, s) /\ u.error = s.error
      /\ Alone(t)
      /\ UNCHANGED <<history, receipt, net, store, lock, order, grounds>>

LEMMA ReconciledKinds ==
  ASSUME SessionTypeOK, NEW s \in SessionType, Coherent(s), NEW v \in Nat
  PROVE  LET u == Reconciled(s, v)
         IN  /\ Carries(u, s)
             /\ \/ ~ Confirms(s, v) /\ Plain(u, s) /\ s.confirmed # None
                \/ ~ Confirms(s, v) /\ Adopts(u, s) /\ (u.error = "purged" \/ store.confirmed # None)
                \/ Confirms(s, v) /\ Renews(u, s, v)
<1> DEFINE a == Adopted(s)
           c == [s EXCEPT !.confirmed = v, !.generation = s.generation + 1]
<1>1. /\ Adopts(a, s) /\ a \in SessionType /\ Coherent(a)
      /\ a.front = s.front /\ a.stage = s.stage /\ a.guard = s.guard
  BY AdoptFields DEF Adopts, Looks
<1>2. Renews(c, s, v) /\ c \in SessionType /\ Coherent(c)
      /\ c.front = s.front /\ c.stage = s.stage /\ c.guard = s.guard
  <2>1. v \in Snapshot /\ s.generation + 1 \in Nat
    BY DEF Snapshot, SessionType
  <2>2. Renews(c, s, v) /\ c.front = s.front /\ c.stage = s.stage /\ c.guard = s.guard /\ c.view = s.view
    BY <2>1 DEF SessionType, Renews, Looks
  <2> QED BY <2>2 DEF Renews, Looks, Coherent
<1>3. \A x \in {s, a, c}, kind \in {"purged", "conflict", "network"} :
        Plain(Blocked(x, kind), x) /\ Carries(Blocked(x, kind), x) /\ Blocked(x, kind).error = kind
  BY <1>1, <1>2, PlainBlocked DEF Kinds
<1>4. Confirms(s, v) => ~ Gone(s) /\ ~ Overtook(s) /\ ~ Behind(s, v)
  BY DEF Confirms
<1>5. CASE Gone(s) \/ (Overtook(s) /\ store.confirmed = None)
  <2>1. Reconciled(s, v) = Blocked(a, "purged")
    BY <1>5 DEF Reconciled
  <2> HIDE DEF a, c
  <2> QED BY <1>1, <1>3, <1>4, <1>5, <2>1, PlainTwice DEF Carries
<1>6. CASE ~ Gone(s) /\ Overtook(s) /\ store.confirmed # None
  <2>1. Reconciled(s, v) = a
    BY <1>6 DEF Reconciled
  <2> HIDE DEF a, c
  <2> QED BY <1>1, <1>4, <1>6, <2>1 DEF Carries
<1>7. CASE ~ Gone(s) /\ ~ Overtook(s) /\ Behind(s, v)
  <2>1. Reconciled(s, v) = Blocked(s, "network")
    BY <1>7 DEF Reconciled
  <2>2. s.confirmed # None
    BY <1>7 DEF Behind
  <2> HIDE DEF a, c
  <2> QED BY <1>3, <1>4, <1>7, <2>1, <2>2
<1>8. CASE ~ Gone(s) /\ ~ Overtook(s) /\ ~ Behind(s, v)
  <2>1. Reconciled(s, v) = Confirmed(s, v)
    BY <1>8 DEF Reconciled
  <2>2. CASE Confirms(s, v)
    <3>1. Confirmed(s, v) \in {c, Blocked(c, "conflict")}
      BY <2>2 DEF Confirmed, SessionType
    <3> HIDE DEF a, c
    <3> QED BY <1>2, <1>3, <2>1, <2>2, <3>1, PlainTwice DEF Carries
  <2>3. CASE ~ Confirms(s, v)
    <3>1. Confirmed(s, v) \in {s, Blocked(s, "conflict")}
      BY <2>3 DEF Confirmed
    <3>2. s.confirmed # None
      <4>1. v = s.confirmed
        BY <1>8, <2>3 DEF Confirms
      <4> QED BY <4>1
    <3>3. Plain(s, s) /\ Carries(s, s)
      BY DEF Plain, Looks, SameCache, Carries
    <3> HIDE DEF a, c
    <3> QED BY <1>3, <2>1, <2>3, <3>1, <3>2, <3>3
  <2> QED BY <2>2, <2>3
<1> QED BY <1>5, <1>6, <1>7, <1>8

(* An answer of a GET arrives. *)
LEMMA ArrivalMoves ==
  ASSUME SessionInv, NEW t \in Tabs, NEW v \in Nat \cap {session[t].view, session[t].sideView}, Saves(t, v),
         NEW u, Update(t, u), Plain(u, Reconciled(session[t], v)),
         \/ Carries(u, Reconciled(session[t], v)) /\ u.error = Reconciled(session[t], v).error
         \/ u.front = None /\ Holding(session[t]),
         session[t].side = "refreshing" \/ (Holding(session[t]) /\ session[t].front = None),
         UNCHANGED <<history, receipt, net, lock, order, grounds>>
  PROVE  QuietStep \/ Confirming(t)
<1> DEFINE s == session[t]
           c == Reconciled(s, v)
<1>1. s \in SessionType /\ Coherent(s) /\ SessionTypeOK
  BY TabsAreOK
<1>2. /\ Carries(c, s)
      /\ \/ ~ Confirms(s, v) /\ Plain(c, s) /\ s.confirmed # None
         \/ ~ Confirms(s, v) /\ Adopts(c, s) /\ (c.error = "purged" \/ store.confirmed # None)
         \/ Confirms(s, v) /\ Renews(c, s, v)
  BY <1>1, ReconciledKinds
<1> HIDE DEF c
<1>3. Plain(u, c) /\ (Carries(u, c) \/ u.front = None)
      /\ (u.error = c.error \/ (u.front = None /\ Holding(s)))
  BY DEF c
<1>4. Carries(u, s)
  BY <1>2, <1>3 DEF Carries
<1>5. CASE ~ Confirms(s, v)
  <2>1. store' = store
    BY <1>5 DEF Saves
  <2>2. CASE Plain(c, s) /\ s.confirmed # None
    <3>1. Plain(u, s)
      BY <1>3, <2>2, PlainTwice
    <3> HIDE DEF s
    <3> QED BY <1>4, <2>1, <2>2, <3>1, PlainDrifts, OneDrifts DEF s
  <2>3. CASE Adopts(c, s) /\ (c.error = "purged" \/ store.confirmed # None)
    <3>1. Adopts(u, s)
      BY <1>3, <2>3, PlainTwice
    <3>2. u.error = "purged" \/ store.confirmed # None \/ (Holding(s) /\ u.front = None)
      BY <1>3, <2>3
    <3>3. Drifts(u, s)
      BY <1>4, <3>1, <3>2, AdoptsDrifts
    <3> HIDE DEF s
    <3> QED BY <2>1, <3>3, OneDrifts DEF s
  <2> QED BY <1>2, <1>5, <2>2, <2>3
<1>6. CASE Confirms(s, v)
  <2>1. Renews(u, s, v)
    BY <1>2, <1>3, <1>6, PlainTwice
  <2>2. store' = [store EXCEPT !.confirmed = v, !.generation = @ + 1]
    BY <1>6 DEF Saves
  <2>3. session'[t] = u /\ Alone(t)
    BY Moved
  <2>4. v \in Nat \cap {s.view, s.sideView}
    OBVIOUS
  <2> HIDE DEF s
  <2> QED BY <1>4, <1>6, <2>1, <2>2, <2>3, <2>4 DEF Confirming, s
<1> QED BY <1>5, <1>6

LEMMA ArrivesMoves ==
  ASSUME SessionInv, NEW t \in Tabs, FreshArrives(t) \/ RefetchArrives(t)
  PROVE  QuietStep \/ Confirming(t)
<1> DEFINE s == session[t]
           v == s.view
           c == Reconciled(s, v)
           x == Resting(c)
           again == [c EXCEPT !.view = None]
           on == [x EXCEPT !.stage = "pass", !.needsFresh = FALSE]
           done == [x EXCEPT !.refetch = @ /\ c.error \notin {"none", "conflict"}]
<1>1. s \in SessionType /\ Coherent(s) /\ SessionTypeOK /\ v \in Nat /\ s.stage \in {"fresh", "refetch"}
  BY TabsAreOK DEF FreshArrives, RefetchArrives, SessionType, Snapshot
<1>2. s.front = None /\ Holding(s)
  BY <1>1 DEF Coherent, Holding, AtWork
<1>3. UNCHANGED <<history, receipt, net, lock, order, grounds>>
  BY DEF FreshArrives, RefetchArrives, serverVars, userVars
<1>4. CASE RefetchArrives(t) /\ s.confirmed # None /\ v < s.confirmed
  <2>1. Update(t, Resting(Blocked(s, "network"))) /\ store' = store
    BY <1>4 DEF RefetchArrives
  <2>2. Plain(Blocked(s, "network"), s) /\ Blocked(s, "network") \in SessionType
    BY <1>1, PlainBlocked DEF Kinds, Plain, Looks
  <2>3. Drifts(Resting(Blocked(s, "network")), s)
    BY <1>1, <1>2, <2>2, RestsDrift
  <2> HIDE DEF s
  <2> QED BY <1>3, <2>1, <2>3, OneDrifts DEF s
<1>5. CASE FreshArrives(t) \/ ~ (s.confirmed # None /\ v < s.confirmed)
  <2>1. Saves(t, v)
    BY <1>5 DEF FreshArrives, RefetchArrives
  <2>2. \/ Update(t, again) \/ Update(t, x) \/ Update(t, on)
        \/ Update(t, done) \/ Update(t, Blocked(done, "conflict"))
    BY <1>5 DEF FreshArrives, RefetchArrives, AfterFresh, AfterRefetch
  <2>3. c \in SessionType /\ c.front = None
    <3>1. c \in SessionType /\ Carries(c, s)
      BY <1>1, ReconciledFields, ReconciledKinds DEF SessionOK
    <3> HIDE DEF c
    <3> QED BY <1>2, <3>1 DEF Carries
  <2> HIDE DEF c
  <2>4. Plain(again, c) /\ again.front = None
    BY <2>3 DEF SessionType, Plain, Looks, SameCache, Snapshot
  <2>5. x \in SessionType /\ Plain(x, c) /\ x.front = None
    BY <2>3, PlainFields DEF Plain, Looks
  <2> HIDE DEF x
  <2>6. Plain(on, x) /\ Plain(done, x) /\ done \in SessionType /\ on.front = None /\ done.front = None
    <3>1. "pass" \in Stage
      BY DEF Stage
    <3> QED BY ZenonT(40), <2>5, <3>1 DEF SessionType, Plain, Looks, SameCache
  <2> HIDE DEF done
  <2>7. Plain(Blocked(done, "conflict"), done) /\ Blocked(done, "conflict").front = None
    BY <2>6, PlainBlocked DEF Kinds
  <2> HIDE DEF again, on
  <2>8. PICK u : Update(t, u) /\ Plain(u, c) /\ u.front = None
    BY <2>2, <2>4, <2>5, <2>6, <2>7, PlainTwice
  <2>9. v \in Nat \cap {s.view, s.sideView}
    BY <1>1
  <2> HIDE DEF v
  <2> QED BY <1>2, <1>3, <2>1, <2>8, <2>9, ArrivalMoves DEF c
<1> QED BY <1>4, <1>5

LEMMA RefreshArrivesMoves ==
  ASSUME SessionInv, NEW t \in Tabs, RefreshArrives(t)
  PROVE  QuietStep \/ Confirming(t)
<1> DEFINE s == session[t]
           v == s.sideView
           c == Reconciled(s, v)
           after == IF Again(s, v) THEN c.side ELSE "none"
           u == [c EXCEPT !.sideView = None, !.side = after]
<1>1. s \in SessionType /\ Coherent(s) /\ SessionTypeOK /\ v \in Nat
  BY TabsAreOK DEF RefreshArrives, SessionType, Snapshot
<1>2. UNCHANGED <<history, receipt, net, lock, order, grounds>> /\ Saves(t, v)
  BY DEF RefreshArrives, serverVars, userVars
<1>3. c \in SessionType
  BY <1>1, ReconciledFields DEF SessionOK
<1>4. Update(t, [c EXCEPT !.sideView = None, !.side = IF Again(s, v) THEN @ ELSE "none"])
  BY DEF RefreshArrives
<1> HIDE DEF c, v
<1>5. Update(t, u)
  BY <1>3, <1>4 DEF SessionType
<1>6. after \in {c.side, "none"} /\ c.side \in {"none", "forgetting", "refreshing"} /\ None \in Snapshot
  BY <1>3 DEF SessionType, Snapshot
<1> HIDE DEF after
<1>7. Plain(u, c) /\ u.error = c.error /\ Carries(u, c)
  BY <1>3, <1>6 DEF SessionType, Plain, Looks, SameCache, Carries
<1> HIDE DEF u
<1>8. v \in Nat \cap {s.view, s.sideView}
  BY <1>1 DEF v
<1>9. s.side = "refreshing"
  BY DEF RefreshArrives
<1> QED BY <1>2, <1>5, <1>7, <1>8, <1>9, ArrivalMoves DEF c

LEMMA BegunMoves ==
  ASSUME NEW s \in SessionType, s.view = None, NEW f \in Entry
  PROVE  LET u == Begun(s, f)
         IN  /\ Plain(u, s)
             /\ \/ u.front = None /\ (u.error = s.error \/ s.confirmed # None)
                \/ /\ u.front = f /\ u.stage = "freezing" /\ u.error = s.error /\ s.owned
                   /\ s.confirmed = None \/ f.base = s.confirmed
<1> DEFINE b == Blocked(s, "conflict")
           n == [s EXCEPT !.stage = "freezing", !.front = f]
<1>1. Plain(Resting(s), s) /\ Resting(s).front = None /\ Resting(s).error = s.error
  BY PlainFields
<1>2. Plain(b, s) /\ b \in SessionType
  BY PlainBlocked DEF Kinds, Plain, Looks
<1>3. Plain(Resting(b), s) /\ Resting(b).front = None
  BY <1>2, PlainFields, PlainTwice
<1>4. Plain(n, s) /\ n.front = f /\ n.stage = "freezing" /\ n.error = s.error
  <2>1. "freezing" \in Stage
    BY DEF Stage
  <2> QED BY <2>1 DEF SessionType, Plain, Looks, SameCache
<1> HIDE DEF n, b
<1>5. Begun(s, f) = IF ~ online \/ ~ s.owned THEN Resting(s)
                    ELSE IF s.confirmed # None /\ f.base # s.confirmed THEN Resting(b)
                    ELSE n
  BY DEF Begun, n, b
<1> QED BY <1>1, <1>3, <1>4, <1>5

LEMMA PassMoves ==
  ASSUME SessionInv, NEW t \in Tabs, Pass(t)
  PROVE  QuietStep \/ Beginning(t)
<1> DEFINE s == session[t]
           At(stage) == [s EXCEPT !.stage = stage]
           Wait(f) == [s EXCEPT !.stage = "entry", !.front = f]
<1>1. s \in SessionType /\ Coherent(s) /\ s.stage = "pass"
  BY TabsAreOK DEF Pass
<1>2. s.view = None /\ s.front = None
  BY <1>1 DEF Coherent
<1>3. UNCHANGED <<history, receipt, net, store, lock, order, grounds>>
  BY DEF Pass, serverVars, userVars
<1>4. Drifts(Resting(s), s)
  <2>1. Plain(s, s)
    BY <1>1 DEF Plain, Looks, SameCache
  <2> QED BY <1>1, <2>1, RestsDrift
<1>5. \A stage \in {"refetch", "fresh"} : Drifts(At(stage), s)
  <2> SUFFICES ASSUME NEW stage \in {"refetch", "fresh"}  PROVE Drifts(At(stage), s)
    OBVIOUS
  <2>1. stage \in Stage
    BY DEF Stage
  <2>2. Plain(At(stage), s) /\ At(stage).front = None /\ At(stage).error = s.error
    BY <1>1, <1>2, <2>1 DEF SessionType, Plain, Looks, SameCache
  <2> HIDE DEF At
  <2> QED BY <2>2, PlainDrifts DEF Carries
<1>6. ASSUME NEW f \in First(s.entries), ~ Stopped(s),
             Update(t, IF Writing(s, f.id) THEN Wait(f) ELSE Begun(s, f))
      PROVE  QuietStep \/ Beginning(t)
  <2>1. f \in s.entries /\ f \in Entry /\ f # None /\ s.owned
    BY <1>1, <1>6 DEF First, SessionType, Stopped
  <2>2. CASE Writing(s, f.id)
    <3>1. Plain(Wait(f), s) /\ Wait(f).front = f /\ Wait(f).stage = "entry" /\ Wait(f).error = s.error
      <4>1. "entry" \in Stage
        BY DEF Stage
      <4> QED BY <1>1, <1>2, <2>1, <4>1 DEF SessionType, Plain, Looks, SameCache
    <3> HIDE DEF Wait
    <3>2. session'[t] = Wait(f) /\ Alone(t)
      BY <1>6, <2>2, Moved
    <3> QED BY <1>1, <1>3, <2>1, <2>2, <3>1, <3>2 DEF Beginning
  <2>3. CASE ~ Writing(s, f.id)
    <3> DEFINE u == Begun(s, f)
    <3>1. /\ Plain(u, s)
          /\ \/ u.front = None /\ (u.error = s.error \/ s.confirmed # None)
             \/ /\ u.front = f /\ u.stage = "freezing" /\ u.error = s.error /\ s.owned
                /\ s.confirmed = None \/ f.base = s.confirmed
      BY <1>1, <1>2, <2>1, BegunMoves
    <3>2. Update(t, u)
      BY <1>6, <2>3
    <3> HIDE DEF u
    <3>3. CASE u.front = None /\ (u.error = s.error \/ s.confirmed # None)
      <4>1. Drifts(u, s)
        BY <3>1, <3>3, PlainDrifts DEF Carries
      <4> HIDE DEF s
      <4> QED BY <1>3, <3>2, <4>1, OneDrifts DEF s
    <3>4. CASE /\ u.front = f /\ u.stage = "freezing" /\ u.error = s.error /\ s.owned
               /\ s.confirmed = None \/ f.base = s.confirmed
      <4>1. session'[t] = u /\ Alone(t)
        BY <3>2, Moved
      <4> QED BY <1>1, <1>3, <2>1, <2>3, <3>1, <3>4, <4>1 DEF Beginning
    <3> QED BY <3>1, <3>3, <3>4
  <2> QED BY <2>2, <2>3
<1>7. \/ Update(t, Resting(s))
      \/ \E stage \in {"refetch", "fresh"} : Update(t, At(stage))
      \/ /\ ~ Stopped(s)
         /\ \E f \in First(s.entries) : Update(t, IF Writing(s, f.id) THEN Wait(f) ELSE Begun(s, f))
  BY DEF Pass
<1> HIDE DEF At, Wait
<1>8. CASE Update(t, Resting(s))
  <2> HIDE DEF s
  <2> QED BY <1>3, <1>4, <1>8, OneDrifts DEF s
<1>9. CASE \E stage \in {"refetch", "fresh"} : Update(t, At(stage))
  <2> HIDE DEF s
  <2> QED BY <1>3, <1>5, <1>9, OneDrifts DEF s
<1> QED BY <1>6, <1>7, <1>8, <1>9

LEMMA EntrySavedMoves ==
  ASSUME SessionInv, NEW t \in Tabs, EntrySaved(t)
  PROVE  QuietStep \/ Beginning(t)
<1> DEFINE s == session[t]
           f == s.front
           r == [s EXCEPT !.front = None]
           u == Begun(r, f)
<1>1. s \in SessionType /\ f \in Entry /\ s.view = None /\ s.stage = "entry" /\ ~ Writing(s, f.id)
  <2>1. s \in SessionType /\ Coherent(s) /\ s.stage = "entry" /\ ~ Writing(s, f.id)
    BY TabsAreOK DEF EntrySaved
  <2> QED BY <2>1 DEF Coherent, SessionType
<1>2. /\ r \in SessionType /\ r.view = None /\ Plain(r, s) /\ r.error = s.error /\ r.confirmed = s.confirmed
      /\ r.owned = s.owned
  BY <1>1 DEF SessionType, Plain, Looks, SameCache
<1>3. Update(t, u) /\ UNCHANGED <<history, receipt, net, store, lock, order, grounds>>
  BY DEF EntrySaved, serverVars, userVars
<1> HIDE DEF r, f
<1>4. /\ Plain(u, r)
      /\ \/ u.front = None /\ (u.error = r.error \/ r.confirmed # None)
         \/ /\ u.front = f /\ u.stage = "freezing" /\ u.error = r.error /\ r.owned
            /\ r.confirmed = None \/ f.base = r.confirmed
  BY <1>1, <1>2, BegunMoves
<1> HIDE DEF u
<1>5. Plain(u, s)
  BY <1>2, <1>4, PlainTwice
<1>6. CASE u.front = None /\ (u.error = r.error \/ r.confirmed # None)
  <2>1. Drifts(u, s)
    BY <1>2, <1>5, <1>6, PlainDrifts DEF Carries
  <2> HIDE DEF s
  <2> QED BY <1>3, <2>1, OneDrifts DEF s
<1>7. CASE /\ u.front = f /\ u.stage = "freezing" /\ u.error = r.error /\ r.owned
           /\ r.confirmed = None \/ f.base = r.confirmed
  <2>1. session'[t] = u /\ Alone(t)
    BY <1>3, Moved
  <2> QED BY <1>1, <1>2, <1>3, <1>5, <1>7, <2>1 DEF Beginning, f
<1> QED BY <1>4, <1>6, <1>7

(* A request carries the key of an edit and the revision it is made on. *)
AskOf(x) == [id |-> x.id, base |-> x.base]

Freezing(t) ==
  LET s == session[t]
      u == session'[t]
      f == s.front
  IN  /\ s.stage = "freezing"
      /\ f.frozen \/ f.id \in IdsOf(store.queue)
      /\ store' = [store EXCEPT !.queue = Froze(@, f.id)]
      /\ Looks(u, s) /\ u.writing = s.writing /\ u.entries = Froze(s.entries, f.id)
      /\ u.confirmed = s.confirmed /\ u.generation = s.generation /\ u.error = s.error
      /\ \/ net' = net \cup {AskOf(f)} /\ u.stage = "sending" /\ u.front = f /\ u.guard = s.generation
         \/ net' = net /\ u.front = None
      /\ Alone(t)
      /\ UNCHANGED <<history, receipt, lock, order, grounds>>

Retiring(t) ==
  LET s == session[t]
      u == session'[t]
      f == s.front
      r == receipt[f.id].revision
  IN  /\ s.stage = "sending" /\ receipt[f.id].outcome = "applied" /\ Guarded(s.guard)
      /\ store' = [confirmed |-> r, generation |-> store.generation + 1, queue |-> Settled(store.queue, f, r)]
      /\ Looks(u, s) /\ u.writing = s.writing /\ u.entries = Settled(s.entries, f, r)
      /\ u.confirmed = r /\ u.generation = s.generation + 1 /\ u.front = None
      /\ Alone(t)
      /\ UNCHANGED <<history, receipt, net, lock, order, grounds>>

Reviewing(t) ==
  LET s == session[t]
      u == session'[t]
  IN  /\ s.owned /\ s.front = None /\ s.confirmed # None /\ Guarded(s.generation)
      /\ \E chosen \in SUBSET s.entries, new \in SUBSET Entry :
           /\ \A d \in new : \E e \in chosen : d = Renewed(e, s.confirmed)
           /\ IdsOf(chosen) \subseteq IdsOf(store.queue)
           /\ store' = [store EXCEPT !.queue = {e \in store.queue : e.id \notin IdsOf(chosen)} \cup new,
                                     !.generation = @ + 1]
           /\ grounds' = [id \in Ids |-> IF id \in IdsOf(new) THEN ForeignMade(s.confirmed) ELSE grounds[id]]
      /\ Looks(u, s) /\ u.writing = s.writing /\ u.entries = store'.queue
      /\ u.confirmed = store.confirmed /\ u.generation = store.generation + 1 /\ u.front = None
      /\ Alone(t)
      /\ UNCHANGED <<history, receipt, net, lock, order>>

Purging(t) ==
  LET s == session[t]
      u == session'[t]
  IN  /\ store' = [confirmed |-> None, generation |-> store.generation + 1, queue |-> {}]
      /\ Looks(u, s) /\ u.writing = s.writing /\ u.entries = {}
      /\ u.confirmed = None /\ u.generation = s.generation /\ Carries(u, s)
      /\ Alone(t)
      /\ net' \subseteq net
      /\ UNCHANGED <<history, receipt, lock, order, grounds>>

Forgetting(t) ==
  LET s == session[t]
      u == session'[t]
  IN  /\ s.open
      /\ store' = [store EXCEPT !.generation = @ + 1]
      /\ u \in SessionType /\ u.open /\ u.writing = s.writing /\ SameCache(u, s)
      /\ u.view = s.view /\ u.sideView = s.sideView /\ u.side = "forgetting" /\ Carries(u, s)
      /\ Alone(t)
      /\ UNCHANGED <<history, receipt, net, lock, order, grounds>>

Edited(i, base) == [id |-> <<i, 0>>, base |-> base, frozen |-> FALSE]

Editing(t) ==
  LET s == session[t]
      u == session'[t]
  IN  /\ s.owned /\ s.confirmed # None
      /\ \E i \in Intents, base \in BaseOfLast(s) :
           /\ order[i] = 0 /\ order' = [order EXCEPT ![i] = order'[i]] /\ order'[i] > 0
           /\ grounds' = [grounds EXCEPT ![<<i, 0>>] = ForeignMade(s.confirmed)]
           /\ Edited(i, base) \in Entry
           /\ u.entries = s.entries \cup {Edited(i, base)}
           /\ u.writing = s.writing \cup {[entry |-> Edited(i, base), guard |-> s.generation]}
      /\ Looks(u, s) /\ Carries(u, s) /\ u.error = s.error
      /\ u.confirmed = s.confirmed /\ u.generation = s.generation
      /\ Alone(t)
      /\ UNCHANGED <<history, receipt, net, store, lock>>

Enqueuing(t) ==
  LET s == session[t]
      u == session'[t]
  IN  /\ \E w \in s.writing :
           /\ Guarded(w.guard)
           /\ store' = [store EXCEPT !.queue = @ \cup {w.entry}]
           /\ u.writing = s.writing \ {w}
      /\ Looks(u, s) /\ SameCache(u, s) /\ Carries(u, s) /\ u.error = s.error
      /\ Alone(t)
      /\ UNCHANGED <<history, receipt, net, lock, order, grounds>>

Acquiring(t) ==
  LET s == session[t]
      u == session'[t]
  IN  /\ s.open /\ lock = None /\ lock' = t
      /\ Looks(u, s) /\ FromStore(u) /\ u.writing = s.writing /\ u.front = None
      /\ Alone(t)
      /\ UNCHANGED <<history, receipt, net, store, order, grounds>>

Opening(t) ==
  LET u == session'[t]
  IN  /\ ~ session[t].open
      /\ u \in SessionType /\ u.open /\ FromStore(u) /\ u.writing = {} /\ u.front = None
      /\ u.view = None /\ u.sideView = None /\ u.side = "none"
      /\ Alone(t)
      /\ UNCHANGED <<history, receipt, net, store, lock, order, grounds>>

Leaving(t) ==
  /\ lock' = IF lock = t THEN None ELSE lock
  /\ session'[t] \in {session[t], Closed} /\ session'[t].writing = {}
  /\ Alone(t)
  /\ UNCHANGED <<history, receipt, net, store, order, grounds>>

Serving ==
  /\ \E r \in net :
       /\ net' = net \ {r}
       /\ \/ UNCHANGED <<history, receipt>>
          \/ /\ receipt[r.id].outcome = "none" /\ r.base = Revision
             /\ history' = Append(history, r.id)
             /\ receipt' = [receipt EXCEPT ![r.id] = [outcome |-> "applied", revision |-> Revision + 1]]
          \/ /\ receipt[r.id].outcome = "none"
             /\ receipt' = [receipt EXCEPT ![r.id].outcome = "refused"]
                  \/ receipt' = [receipt EXCEPT ![r.id].outcome = "conflict"]
             /\ UNCHANGED history
  /\ UNCHANGED <<store, lock, session, order, grounds>>

EditingElsewhere ==
  history' = Append(history, Other) /\ UNCHANGED <<receipt, net, store, lock, session, order, grounds>>

----------------------------------------------------------------------------

LEMMA FreezeMoves ==
  ASSUME SessionInv, NEW t \in Tabs, Freeze(t)
  PROVE  QuietStep \/ Freezing(t)
<1> DEFINE s == session[t]
           f == s.front
           u == [s EXCEPT !.entries = Froze(s.entries, f.id)]
           n == [u EXCEPT !.stage = "sending", !.guard = s.generation]
           b == Blocked(s, "storage")
           Like(x) == /\ x \in SessionType /\ Looks(x, s) /\ x.writing = s.writing
                      /\ x.entries = Froze(s.entries, f.id)
                      /\ x.confirmed = s.confirmed /\ x.generation = s.generation /\ x.error = s.error
<1>1. s \in SessionType /\ Coherent(s) /\ s.stage = "freezing" /\ OtherTypes
  BY TabsAreOK DEF Freeze
<1>2. f \in Entry
  BY <1>1 DEF SessionType, Coherent
<1>3. UNCHANGED <<history, receipt, lock, order, grounds>>
  BY DEF Freeze, userVars
<1>4. CASE Update(t, Resting(b)) /\ UNCHANGED <<store, net>>
  <2>1. Plain(b, s) /\ b \in SessionType
    BY <1>1, PlainBlocked DEF Kinds, Plain, Looks
  <2>2. Drifts(Resting(b), s)
    <3>1. Holding(s)
      BY <1>1 DEF Holding, AtWork
    <3> QED BY <1>1, <2>1, <3>1, RestsDrift
  <2> HIDE DEF s, b
  <2> QED BY <1>3, <1>4, <2>2, OneDrifts DEF s
<1>5. CASE /\ f.frozen \/ f.id \in IdsOf(store.queue)
           /\ store' = [store EXCEPT !.queue = Froze(@, f.id)]
           /\ \/ net' = net \cup {AskOf(f)} /\ Update(t, n)
              \/ Update(t, Resting(u)) /\ UNCHANGED net
  <2>1. Froze(s.entries, f.id) \in SUBSET Entry
    <3>1. \A e \in Entry : [e EXCEPT !.frozen = TRUE] \in Entry
      BY DEF Entry
    <3> QED BY <1>1, <3>1 DEF Froze, SessionType
  <2> HIDE DEF f
  <2>2. Like(u) /\ u.front = s.front
    BY <1>1, <2>1 DEF SessionType, Looks
  <2> HIDE DEF u
  <2>3. Like(n) /\ n.stage = "sending" /\ n.front = s.front /\ n.guard = s.generation
    <3>1. "sending" \in Stage /\ s.generation \in Nat
      BY <1>1 DEF Stage, SessionType
    <3> QED BY <2>2, <3>1 DEF SessionType, Looks
  <2> HIDE DEF n
  <2>4. Like(Resting(u)) /\ Resting(u).front = None
    <3>1. Plain(Resting(u), u) /\ Resting(u).front = None /\ Resting(u).error = u.error
      BY <2>2, PlainFields
    <3> QED BY <2>2, <3>1 DEF Plain, Looks, SameCache
  <2>5. CASE net' = net \cup {AskOf(f)} /\ Update(t, n)
    <3>1. session'[t] = n /\ Alone(t)
      BY <2>5, Moved
    <3> QED BY <1>1, <1>3, <1>5, <2>3, <2>5, <3>1 DEF Freezing, f
  <2>6. CASE Update(t, Resting(u)) /\ UNCHANGED net
    <3>1. session'[t] = Resting(u) /\ Alone(t)
      BY <2>6, Moved
    <3> QED BY <1>1, <1>3, <1>5, <2>4, <2>6, <3>1 DEF Freezing, f
  <2> QED BY <1>5, <2>5, <2>6
<1>6. f.frozen \in BOOLEAN /\ \A e \in store.queue : e.frozen \in BOOLEAN
  BY <1>1, <1>2 DEF Entry, OtherTypes, Stores
<1>7. \/ Update(t, Resting(b)) /\ UNCHANGED <<store, net>>
      \/ /\ ~ (~ f.frozen /\ \A e \in store.queue : e.id = f.id => e.frozen)
         /\ store' = [store EXCEPT !.queue = Froze(@, f.id)]
         /\ \/ net' = net \cup {AskOf(f)} /\ Update(t, n)
            \/ Update(t, Resting(u)) /\ UNCHANGED net
  <2>1. u = [s EXCEPT !.entries = Froze(@, f.id)]
    BY <1>1 DEF SessionType
  <2>2. AskOf(f) = [id |-> f.id, base |-> f.base]
    BY DEF AskOf
  <2>3. n = [[s EXCEPT !.entries = Froze(@, f.id)] EXCEPT !.stage = "sending", !.guard = s.generation]
    BY <2>1
  <2> HIDE DEF u, n, b
  <2> QED BY <2>1, <2>2, <2>3 DEF Freeze, b
<1>8. ~ (~ f.frozen /\ \A e \in store.queue : e.id = f.id => e.frozen) => f.frozen \/ f.id \in IdsOf(store.queue)
  BY <1>6 DEF IdsOf
<1> HIDE DEF f, u, n, b
<1> QED BY <1>4, <1>5, <1>7, <1>8

LEMMA AcknowledgedMoves ==
  ASSUME SessionInv, NEW t \in Tabs, Acknowledged(t)
  PROVE  QuietStep \/ Retiring(t)
<1> DEFINE s == session[t]
           f == s.front
           r == receipt[f.id].revision
           o == Overtaken(s)
           x == Resting(s)
           n == [x EXCEPT !.confirmed = r, !.generation = s.generation + 1,
                          !.entries = Settled(s.entries, f, r), !.stage = "pass"]
<1>1. s \in SessionType /\ Coherent(s) /\ s.stage = "sending" /\ OtherTypes /\ SessionTypeOK
  BY TabsAreOK DEF Acknowledged
<1>2. UNCHANGED <<history, receipt, net, lock, order, grounds>>
  BY DEF Acknowledged, serverVars, userVars
<1>3. CASE ~ Guarded(s.guard)
  <2>1. Update(t, Resting(o)) /\ store' = store
    BY <1>3 DEF Acknowledged
  <2>2. Adopts(o, s) /\ o \in SessionType
    BY <1>1, OvertakenAdopts DEF Adopts, Looks
  <2> HIDE DEF o
  <2>3. Adopts(Resting(o), s) /\ Resting(o).front = None
    BY <2>2, PlainFields, PlainTwice
  <2>4. Holding(s)
    BY <1>1 DEF Holding, AtWork
  <2>5. Drifts(Resting(o), s)
    BY <2>3, <2>4, AdoptsDrifts DEF Carries
  <2> HIDE DEF s
  <2> QED BY <1>2, <2>1, <2>5, OneDrifts DEF s
<1>4. CASE Guarded(s.guard)
  <2>1. /\ receipt[f.id].outcome = "applied"
        /\ store' = [confirmed |-> r, generation |-> store.generation + 1,
                     queue |-> Settled(store.queue, f, r)]
        /\ Update(t, [Resting(s) EXCEPT !.confirmed = r, !.generation = @ + 1,
                        !.entries = Settled(@, f, r), !.stage = "pass"])
    BY <1>4 DEF Acknowledged, Retires
  <2>2. f \in Entry
    BY <1>1 DEF SessionType, Coherent
  <2>3. r \in Nat
    <3>1. f.id \in Ids
      BY <2>2 DEF Entry
    <3> QED BY <1>1, <3>1 DEF OtherTypes
  <2>4. Settled(s.entries, f, r) \in SUBSET Entry /\ s.generation \in Nat /\ "pass" \in Stage /\ r \in Snapshot
    <3>1. \A e \in Entry : [e EXCEPT !.base = r] \in Entry
      BY <2>3 DEF Entry
    <3> QED BY <1>1, <2>3, <3>1 DEF Settled, Without, SessionType, Stage, Snapshot
  <2>5. x \in SessionType /\ Plain(x, s) /\ x.front = None
    BY <1>1, PlainFields DEF Plain, Looks
  <2> HIDE DEF f, r, x
  <2>6. Update(t, n)
    BY <2>1, <2>5 DEF x, SameCache, Plain, SessionType
  <2>7. /\ Looks(n, s) /\ n.writing = s.writing /\ n.entries = Settled(s.entries, f, r)
        /\ n.confirmed = r /\ n.generation = s.generation + 1 /\ n.front = None
    <3>1. s.generation + 1 \in Nat /\ Looks(x, s) /\ x.writing = s.writing
      BY <2>4, <2>5 DEF Plain
    <3>2. n \in SessionType /\ n.open = x.open /\ n.view = x.view /\ n.sideView = x.sideView
          /\ n.side = x.side /\ n.writing = x.writing /\ n.front = x.front
          /\ n.entries = Settled(s.entries, f, r) /\ n.confirmed = r /\ n.generation = s.generation + 1
      BY <2>4, <2>5, <3>1 DEF SessionType
    <3> HIDE DEF n
    <3> QED BY <2>5, <3>1, <3>2 DEF Looks
  <2> HIDE DEF n
  <2>8. session'[t] = n /\ Alone(t)
    BY <2>6, Moved
  <2> QED BY <1>1, <1>2, <1>4, <2>1, <2>7, <2>8 DEF Retiring, f, r
<1> QED BY <1>3, <1>4

LEMMA ReviewMoves ==
  ASSUME SessionInv, NEW t \in Tabs, NEW again \in BOOLEAN, Review(t, again)
  PROVE  QuietStep \/ Reviewing(t)
<1> DEFINE s == session[t]
<1>1. /\ s \in SessionType /\ Coherent(s) /\ OtherTypes /\ SessionTypeOK
      /\ s.confirmed # None /\ s.owned /\ s.stage = "rest"
  BY TabsAreOK DEF Review
<1>2. s.front = None /\ s.confirmed \in Nat
  BY <1>1 DEF Coherent, SessionType, Snapshot
<1>3. UNCHANGED <<history, receipt, net, lock, order>>
  BY DEF Review, serverVars
<1>4. CASE ~ Guarded(s.generation)
  <2>1. Update(t, Overtaken(s)) /\ store' = store /\ grounds' = grounds
    BY <1>4 DEF Review
  <2>2. Drifts(Overtaken(s), s)
    BY <1>1, OvertakenAdopts, AdoptsDrifts
  <2> HIDE DEF s
  <2> QED BY <1>3, <2>1, <2>2, OneDrifts DEF s
<1>5. CASE Guarded(s.generation)
  <2> DEFINE New(chosen) == IF again THEN {Renewed(e, s.confirmed) : e \in chosen} ELSE {}
             Queue(chosen) == {e \in store.queue : e.id \notin IdsOf(chosen)} \cup New(chosen)
             Next1(chosen) == [s EXCEPT !.confirmed = store.confirmed, !.entries = Queue(chosen),
                                       !.generation = store.generation + 1,
                                       !.error = "none", !.needsFresh = FALSE]
  <2>1. PICK chosen \in Selections(s) :
          /\ IdsOf(New(chosen)) \subseteq Ids
          /\ IdsOf(chosen) \subseteq IdsOf(store.queue)
          /\ store' = [store EXCEPT !.queue = Queue(chosen), !.generation = @ + 1]
          /\ Update(t, Awake(Next1(chosen)))
          /\ grounds' = [id \in Ids |-> IF id \in IdsOf(New(chosen)) THEN ForeignMade(s.confirmed)
                                        ELSE grounds[id]]
    BY <1>5 DEF Review
  <2>2. chosen \subseteq s.entries /\ chosen \subseteq Entry
    BY <1>1 DEF Selections, ReviewSet, Unmatched, SessionType
  <2> DEFINE new == New(chosen)
             queue == Queue(chosen)
             n == Next1(chosen)
             u == Awake(n)
  <2>3. IdsOf(new) \subseteq Ids /\ \A d \in new : \E e \in chosen : d = Renewed(e, s.confirmed)
    BY <2>1
  <2>4. new \in SUBSET Entry
    <3>1. \A e \in chosen : again => Renewed(e, s.confirmed).id \in Ids
      BY <2>3 DEF IdsOf
    <3> QED BY <1>2, <2>2, <3>1, RenewedType
  <2>5. queue \in SUBSET Entry /\ store \in Stores /\ store.generation + 1 \in Nat /\ store.confirmed \in Snapshot
    BY <1>1, <2>4 DEF OtherTypes, Stores
  <2>6. queue = {e \in store.queue : e.id \notin IdsOf(chosen)} \cup new
    OBVIOUS
  <2> HIDE DEF New, Queue
  <2>7. /\ n \in SessionType /\ Looks(n, s) /\ n.writing = s.writing /\ n.entries = queue
        /\ n.generation = store.generation + 1 /\ n.confirmed = store.confirmed /\ n.front = None
    BY <1>1, <1>2, <2>5 DEF SessionType, Looks
  <2> HIDE DEF Next1
  <2>8. Plain(u, n) /\ u.front = None
    BY <2>7, PlainFields
  <2>9. session'[t] = u /\ Alone(t)
    BY <2>1, Moved
  <2>10. store'.queue = queue
    BY <2>1, <2>5 DEF Stores
  <2>11. /\ Looks(u, s) /\ u.writing = s.writing /\ u.entries = queue
         /\ u.generation = store.generation + 1 /\ u.confirmed = store.confirmed
    BY <2>7, <2>8 DEF Plain, Looks, SameCache
  <2> HIDE DEF u, n
  <2>12. \E c \in SUBSET s.entries, d \in SUBSET Entry :
           /\ \A x \in d : \E e \in c : x = Renewed(e, s.confirmed)
           /\ IdsOf(c) \subseteq IdsOf(store.queue)
           /\ store' = [store EXCEPT !.queue = {e \in store.queue : e.id \notin IdsOf(c)} \cup d,
                                     !.generation = @ + 1]
           /\ grounds' = [id \in Ids |-> IF id \in IdsOf(d) THEN ForeignMade(s.confirmed) ELSE grounds[id]]
    <3> chosen \in SUBSET s.entries /\ new \in SUBSET Entry
      BY <2>2, <2>4
    <3> WITNESS chosen \in SUBSET s.entries, new \in SUBSET Entry
    <3> QED BY <2>1, <2>3, <2>6
  <2> QED BY <1>1, <1>2, <1>3, <1>5, <2>8, <2>9, <2>10, <2>11, <2>12 DEF Reviewing
<1> QED BY <1>4, <1>5

LEMMA PurgeMoves ==
  ASSUME SessionInv, NEW t \in Tabs, Denied(t) \/ ActivityDenied(t)
  PROVE  Purging(t)
<1> DEFINE s == session[t]
           side == [s EXCEPT !.side = "none"]
           x == Resting(s)
<1>1. s \in SessionType /\ Coherent(s)
  BY TabsAreOK
<1>2. PICK r \in {side, x, s} : PurgeAccess(t, r)
  BY DEF Denied, ActivityDenied
<1>3. net' \subseteq net
  BY DEF Denied, ActivityDenied
<1>4. /\ Plain(side, s) /\ side.front = s.front /\ side.stage = s.stage /\ side.guard = s.guard
      /\ side.view = s.view
  BY <1>1 DEF SessionType, Plain, Looks, SameCache
<1>5. Plain(x, s) /\ x.front = None /\ Coherent(x) /\ Plain(s, s)
  BY <1>1, PlainFields, RestFields DEF SessionOK, Plain, Looks, SameCache
<1> HIDE DEF side, x
<1>6. r \in SessionType /\ Plain(r, s) /\ Carries(r, s) /\ Coherent(r)
  BY <1>1, <1>2, <1>4, <1>5 DEF Plain, Looks, Carries, Coherent
<1> DEFINE b == Blocked(r, "purged")
           u == [b EXCEPT !.confirmed = None, !.entries = {}, !.owned = FALSE]
<1>7. Update(t, u) /\ store' = [confirmed |-> None, generation |-> store.generation + 1, queue |-> {}]
      /\ UNCHANGED <<history, receipt, lock, order, grounds>>
  BY <1>2 DEF PurgeAccess
<1>8. Plain(b, s) /\ Carries(b, r) /\ b \in SessionType
  BY <1>6, PlainBlocked, PlainTwice DEF Kinds, Plain, Looks
<1> HIDE DEF b
<1>9. /\ Looks(u, s) /\ u.writing = s.writing /\ u.entries = {} /\ u.confirmed = None
      /\ u.generation = s.generation /\ u.front = b.front /\ u.stage = b.stage /\ u.guard = b.guard
  BY <1>8 DEF SessionType, Snapshot, Plain, Looks, SameCache
<1> HIDE DEF u
<1>10. Carries(u, s)
  BY <1>6, <1>8, <1>9 DEF Carries
<1>11. session'[t] = u /\ Alone(t)
  BY <1>7, Moved
<1> QED BY <1>3, <1>7, <1>9, <1>10, <1>11 DEF Purging

LEMMA ForgetRollMoves ==
  ASSUME SessionInv, NEW t \in Tabs, ForgetRoll(t)
  PROVE  Forgetting(t)
<1> DEFINE s == session[t]
           u == [s EXCEPT !.side = "forgetting"]
<1>1. s \in SessionType /\ s.open
  BY TabsAreOK DEF ForgetRoll
<1>2. /\ u \in SessionType /\ u.open /\ u.writing = s.writing /\ SameCache(u, s)
      /\ u.view = s.view /\ u.sideView = s.sideView /\ u.side = "forgetting" /\ Carries(u, s)
  BY <1>1 DEF SessionType, SameCache, Carries
<1>3. Update(t, u) /\ store' = [store EXCEPT !.generation = @ + 1]
      /\ UNCHANGED <<history, receipt, net, lock, order, grounds>>
  BY DEF ForgetRoll, serverVars, userVars
<1> HIDE DEF u
<1>4. session'[t] = u /\ Alone(t)
  BY <1>3, Moved
<1> QED BY <1>1, <1>2, <1>3, <1>4 DEF Forgetting

LEMMA EditMoves ==
  ASSUME SessionInv, NEW t \in Tabs, NEW i \in Intents, Edit(t, i)
  PROVE  Editing(t)
<1> DEFINE s == session[t]
<1>1. s \in SessionType /\ Coherent(s) /\ OtherTypes /\ s.confirmed # None /\ s.owned
  BY TabsAreOK DEF Edit
<1>2. PICK base \in BaseOfLast(s) :
        LET e == [id |-> <<i, 0>>, base |-> base, frozen |-> FALSE]
        IN  Update(t, Awake([s EXCEPT !.entries = @ \cup {e},
                                      !.writing = @ \cup {[entry |-> e, guard |-> s.generation]}]))
  BY DEF Edit
<1> DEFINE e == Edited(i, base)
           w == [entry |-> e, guard |-> s.generation]
           n == [s EXCEPT !.entries = s.entries \cup {e}, !.writing = s.writing \cup {w}]
           u == Awake(n)
<1>3. base \in Nat
  BY <1>1 DEF Edit, BaseOfLast, Last, SessionType, Snapshot, Entry
<1>4. <<i, 0>> \in Ids
  BY DEF Ids, UserEdits
<1>5. e \in Entry /\ w \in [entry : Entry, guard : Nat]
  BY <1>1, <1>3, <1>4 DEF Entry, SessionType, Edited
<1>6. Update(t, u)
  BY <1>1, <1>2 DEF SessionType, Edited
<1> HIDE DEF e, w
<1>7. /\ n \in SessionType /\ Looks(n, s) /\ Coherent(n) /\ n.error = s.error
      /\ n.front = s.front /\ n.stage = s.stage /\ n.guard = s.guard
      /\ n.writing = s.writing \cup {w} /\ n.entries = s.entries \cup {e}
      /\ n.generation = s.generation /\ n.confirmed = s.confirmed
  BY <1>1, <1>5 DEF SessionType, Looks, Coherent
<1> HIDE DEF n
<1>8. Plain(u, n) /\ Carries(u, n) /\ u.error = n.error
  BY <1>7, PlainFields
<1> HIDE DEF u
<1>9. /\ Looks(u, s) /\ Carries(u, s) /\ u.error = s.error
      /\ u.entries = s.entries \cup {e} /\ u.writing = s.writing \cup {w}
      /\ u.confirmed = s.confirmed /\ u.generation = s.generation
  BY <1>7, <1>8 DEF Plain, Looks, SameCache, Carries
<1>10. session'[t] = u /\ Alone(t)
  BY <1>6, Moved
<1>11. UNCHANGED <<history, receipt, net, store, lock>>
  BY DEF Edit, serverVars
<1>12. /\ order[i] = 0 /\ order' = [order EXCEPT ![i] = order'[i]] /\ order'[i] > 0
       /\ grounds' = [grounds EXCEPT ![<<i, 0>>] = ForeignMade(s.confirmed)]
  <2>1. Cardinality({j \in UserEdits : order[j] > 0}) \in Nat /\ order \in [UserEdits -> Nat] /\ i \in UserEdits
    BY <1>1, CountsAreNat DEF OtherTypes, UserEdits
  <2> QED BY <2>1 DEF Edit
<1>13. e = Edited(i, base) /\ w = [entry |-> Edited(i, base), guard |-> s.generation]
  BY DEF e, w
<1>14. \E j \in Intents, b \in BaseOfLast(s) :
         /\ order[j] = 0 /\ order' = [order EXCEPT ![j] = order'[j]] /\ order'[j] > 0
         /\ grounds' = [grounds EXCEPT ![<<j, 0>>] = ForeignMade(s.confirmed)]
         /\ Edited(j, b) \in Entry
         /\ u.entries = s.entries \cup {Edited(j, b)}
         /\ u.writing = s.writing \cup {[entry |-> Edited(j, b), guard |-> s.generation]}
  <2> WITNESS i \in Intents, base \in BaseOfLast(s)
  <2> QED BY <1>5, <1>9, <1>12, <1>13
<1> QED BY <1>1, <1>9, <1>10, <1>11, <1>14 DEF Editing

LEMMA EnqueueMoves ==
  ASSUME SessionInv, NEW t \in Tabs, EnqueueCommits(t)
  PROVE  Enqueuing(t)
<1> DEFINE s == session[t]
<1>1. s \in SessionType
  BY TabsAreOK
<1>2. PICK w \in s.writing :
        /\ Guarded(w.guard)
        /\ store' = [store EXCEPT !.queue = @ \cup {w.entry}]
        /\ Update(t, [s EXCEPT !.writing = @ \ {w}])
  BY DEF EnqueueCommits, Writes
<1> DEFINE u == [s EXCEPT !.writing = s.writing \ {w}]
<1>3. /\ Looks(u, s) /\ SameCache(u, s) /\ Carries(u, s) /\ u.error = s.error
      /\ u.writing = s.writing \ {w}
  BY <1>1 DEF SessionType, Looks, SameCache, Carries
<1>4. Update(t, u)
  BY <1>2
<1>5. UNCHANGED <<history, receipt, net, lock, order, grounds>>
  BY DEF EnqueueCommits, serverVars
<1> HIDE DEF u
<1>6. session'[t] = u /\ Alone(t)
  BY <1>4, Moved
<1> QED BY <1>2, <1>3, <1>5, <1>6 DEF Enqueuing

LEMMA AcquireMoves ==
  ASSUME SessionInv, NEW t \in Tabs, Acquire(t)
  PROVE  Acquiring(t)
<1> DEFINE s == session[t]
           a == Adopted(s)
           n == [a EXCEPT !.owned = TRUE, !.needsFresh = TRUE]
           u == Awake(n)
<1>1. s \in SessionType /\ Coherent(s) /\ SessionTypeOK /\ lock = None /\ None \notin Tabs /\ s.open
  BY TabsAreOK DEF Acquire
<1>2. s.front = None
  <2>1. ~ Holding(s)
    BY <1>1 DEF SessionInv, LockInv
  <2> QED BY <1>1, <2>1 DEF Holding, AtWork, Coherent
<1>3. /\ Adopts(a, s) /\ a \in SessionType /\ a.front = None /\ a.writing = s.writing
  BY <1>1, <1>2, AdoptFields, AdoptedFields DEF Adopts, Looks, SameTab
<1>4. Update(t, u) /\ lock' = t /\ UNCHANGED <<history, receipt, net, store, order, grounds>>
  BY DEF Acquire, serverVars, userVars
<1> HIDE DEF a
<1>5. /\ n \in SessionType /\ Looks(n, s) /\ FromStore(n) /\ n.writing = s.writing /\ n.front = None
  BY <1>3 DEF SessionType, Adopts, Looks, FromStore
<1> HIDE DEF n
<1>6. Plain(u, n) /\ u.front = None
  BY <1>5, PlainFields
<1> HIDE DEF u
<1>7. Looks(u, s) /\ FromStore(u) /\ u.writing = s.writing
  BY <1>5, <1>6 DEF Plain, Looks, SameCache, FromStore
<1>8. session'[t] = u /\ Alone(t)
  BY <1>4, Moved
<1> QED BY <1>1, <1>4, <1>6, <1>7, <1>8 DEF Acquiring

LEMMA OpenMoves ==
  ASSUME SessionInv, NEW t \in Tabs, Open(t)
  PROVE  Opening(t)
<1> DEFINE a == Adopted(Closed)
           u == [a EXCEPT !.open = TRUE]
<1>1. SessionTypeOK /\ Closed \in SessionType /\ Coherent(Closed)
  BY TabsAreOK DEF Closed, SessionType, Coherent, Stage, Snapshot
<1>2. /\ Adopts(a, Closed) /\ a \in SessionType /\ a.front = None
  BY <1>1, AdoptFields DEF Adopts, Looks, Closed
<1>3. Update(t, u) /\ UNCHANGED <<history, receipt, net, store, lock, order, grounds>> /\ ~ session[t].open
  BY DEF Open, serverVars, userVars
<1>4. /\ a.view = None /\ a.sideView = None /\ a.side = "none" /\ a.writing = {} /\ FromStore(a)
  BY <1>2 DEF Adopts, Looks, Closed
<1> HIDE DEF a
<1>5. /\ u \in SessionType /\ u.open /\ FromStore(u) /\ u.writing = {} /\ u.front = None
      /\ u.view = None /\ u.sideView = None /\ u.side = "none"
  BY <1>2, <1>4 DEF SessionType, FromStore
<1> HIDE DEF u
<1>6. session'[t] = u /\ Alone(t)
  BY <1>3, Moved
<1> QED BY <1>3, <1>5, <1>6 DEF Opening

LEMMA LeaveMoves ==
  ASSUME SessionInv, NEW t \in Tabs, LetGo(t) \/ CloseTab(t)
  PROVE  Leaving(t)
<1>1. CASE LetGo(t)
  BY <1>1 DEF LetGo, Quiet, Leaving, Alone, serverVars, userVars
<1>2. CASE CloseTab(t)
  <2>1. Update(t, Closed)
    BY <1>2 DEF CloseTab
  <2>2. session'[t] = Closed /\ Alone(t)
    BY <2>1, Moved
  <2>3. Closed.writing = {}
    BY DEF Closed
  <2> QED BY <1>2, <2>2, <2>3 DEF CloseTab, Leaving, serverVars, userVars
<1> QED BY <1>1, <1>2

LEMMA ServerMoves ==
  /\ ForeignEdit => EditingElsewhere
  /\ (\E r \in net : Serve(r)) => Serving
  /\ SessionInv /\ UNCHANGED sessionVars => QuietStep
<1>1. ForeignEdit => EditingElsewhere
  BY DEF ForeignEdit, EditingElsewhere, userVars
<1>2. (\E r \in net : Serve(r)) => Serving
  BY DEF Serve, Answered, Serving, userVars
<1>3. SessionInv /\ UNCHANGED sessionVars => QuietStep
  <2> SUFFICES ASSUME SessionInv, UNCHANGED sessionVars  PROVE QuietStep
    OBVIOUS
  <2>1. \A t \in Tabs : Drifts(session[t], session[t])
    BY TabsAreOK, DriftsItself
  <2> QED BY <2>1 DEF sessionVars, QuietStep
<1> QED BY <1>1, <1>2, <1>3

Working(t) ==
  \/ Confirming(t) \/ Beginning(t) \/ Freezing(t) \/ Retiring(t) \/ Reviewing(t)
  \/ Purging(t) \/ Forgetting(t) \/ Editing(t) \/ Enqueuing(t)

Moving == \/ QuietStep \/ Serving \/ EditingElsewhere
          \/ \E t \in Tabs : Working(t) \/ Acquiring(t) \/ Opening(t) \/ Leaving(t)

(* Every step is one of these. *)
LEMMA StepMoves ==
  ASSUME SessionInv, [SessionNext]_sessionVars
  PROVE  Moving
<1>1. ASSUME NEW t \in Tabs, Drain(t)  PROVE QuietStep \/ Working(t)
  BY <1>1, PassMoves, EntrySavedMoves, FreezeMoves, TimerDrifts, AcknowledgedMoves, LooksDrift, ArrivesMoves
     DEF Drain, Working
<1>2. ASSUME NEW t \in Tabs, Saving(t) \/ Coordination(t) \/ Beside(t)
      PROVE  QuietStep \/ Working(t) \/ Leaving(t)
  BY <1>2, EnqueueMoves, EnqueueFailsDrifts, InvalidatedDrifts, LeaveMoves, LooksDrift, RefreshArrivesMoves,
     RollForgottenDrifts DEF Saving, Coordination, Beside, Working
<1>3. ASSUME NEW t \in Tabs, Failure(t)  PROVE QuietStep \/ Working(t)
  BY <1>3, SendFailsDrifts, LooksDrift, PurgeMoves DEF Failure, Working
<1>4. ASSUME NEW t \in Tabs, User(t)
      PROVE  QuietStep \/ Working(t) \/ Leaving(t) \/ Opening(t) \/ Acquiring(t)
  BY <1>4, OpenMoves, AcquireMoves, TakeoverDrifts, LeaveMoves, EditMoves, RefreshDrifts, ForgetRollMoves, ReviewMoves
     DEF User, Working
<1> QED BY <1>1, <1>2, <1>3, <1>4, OnlineDrifts, ServerMoves DEF SessionNext, Moving

----------------------------------------------------------------------------
(* What the tabs know of the store and of the server.                      *)

(* Every answer names the revision it made. *)
ServedInv ==
  /\ \A id \in Ids : receipt[id].outcome = "applied"
                       => receipt[id].revision \in 1..Revision /\ history[receipt[id].revision] = id
  /\ \A n \in 1..Revision : history[n] # Other
                              => receipt[history[n]] = [outcome |-> "applied", revision |-> n]

Seated(s, st) ==
  /\ s.open /\ s.generation = st.generation => s.confirmed = st.confirmed
  /\ s.confirmed = None => s.entries = {}
  /\ s.side # "none" => s.open
  /\ \A w \in s.writing : w.guard <= s.generation
  /\ s.stage = "sending" => s.guard <= s.generation

Seen(s, n) == \A v \in Nat \cap {s.confirmed, s.view, s.sideView} : v <= n

Exposed(t, v) == lock = t /\ (session[t].front # None \/ (v # t /\ session[t].confirmed # None))

SeatInv ==
  /\ \A t \in Tabs : Seated(session[t], store) /\ Seen(session[t], Revision)
  /\ \A v \in Nat \cap {store.confirmed} : v <= Revision
  /\ \A t \in Tabs : (lock = t => session[t].open) /\ (session[t].writing # {} => lock = t)
  /\ \A t, v \in Tabs : Exposed(t, v) => ~ Risky(session[v], store)

LEMMA ServedStep ==
  ASSUME SessionInv, ServedInv, Moving
  PROVE  ServedInv'
<1>1. history \in Seq(Ids \cup {Other}) /\ net \in SUBSET Ask
      /\ receipt \in [Ids -> [outcome : {"none", "applied", "refused", "conflict"}, revision : Nat]]
  BY DEF SessionInv, SessionTypeOK
<1>2. CASE UNCHANGED <<history, receipt>>
  BY <1>2 DEF ServedInv, Revision
<1>3. CASE EditingElsewhere
  <2>1. Len(history') = Len(history) + 1 /\ history'[Len(history) + 1] = Other
        /\ \A n \in 1..Len(history) : history'[n] = history[n]
    BY <1>1, <1>3 DEF EditingElsewhere
  <2>2. receipt' = receipt /\ Len(history) \in Nat
    BY <1>1, <1>3 DEF EditingElsewhere
  <2> QED BY <2>1, <2>2 DEF ServedInv, Revision
<1>4. CASE Serving
  <2>1. PICK r \in net :
          \/ UNCHANGED <<history, receipt>>
          \/ /\ receipt[r.id].outcome = "none" /\ r.base = Revision
             /\ history' = Append(history, r.id)
             /\ receipt' = [receipt EXCEPT ![r.id] = [outcome |-> "applied", revision |-> Revision + 1]]
          \/ /\ receipt[r.id].outcome = "none"
             /\ receipt' = [receipt EXCEPT ![r.id].outcome = "refused"]
                  \/ receipt' = [receipt EXCEPT ![r.id].outcome = "conflict"]
             /\ UNCHANGED history
    BY <1>4 DEF Serving
  <2>2. r.id \in Ids /\ r.id # Other /\ Len(history) \in Nat
    BY <1>1 DEF Ask
  <2>3. CASE /\ receipt[r.id].outcome = "none"
             /\ history' = Append(history, r.id)
             /\ receipt' = [receipt EXCEPT ![r.id] = [outcome |-> "applied", revision |-> Revision + 1]]
    <3>1. Len(history') = Len(history) + 1 /\ history'[Len(history) + 1] = r.id
          /\ \A n \in 1..Len(history) : history'[n] = history[n]
      BY <1>1, <2>2, <2>3
    <3>2. /\ receipt'[r.id] = [outcome |-> "applied", revision |-> Len(history) + 1]
          /\ \A id \in Ids \ {r.id} : receipt'[id] = receipt[id]
      BY <1>1, <2>2, <2>3 DEF Revision
    <3>3. ASSUME NEW n \in 1..Len(history), history[n] = r.id  PROVE FALSE
      <4>1. receipt[r.id] = [outcome |-> "applied", revision |-> n]
        BY <2>2, <3>3 DEF ServedInv, Revision
      <4> QED BY <2>3, <4>1
    <3>4. \A n \in 1..Len(history) : history[n] # Other => history[n] \in Ids
      BY <1>1
    <3> QED BY <2>2, <3>1, <3>2, <3>3, <3>4 DEF ServedInv, Revision
  <2>4. CASE /\ receipt[r.id].outcome = "none"
             /\ receipt' = [receipt EXCEPT ![r.id].outcome = "refused"]
                  \/ receipt' = [receipt EXCEPT ![r.id].outcome = "conflict"]
             /\ UNCHANGED history
    <3>1. /\ receipt'[r.id].outcome # "applied"
          /\ \A id \in Ids \ {r.id} : receipt'[id] = receipt[id]
      BY <1>1, <2>2, <2>4
    <3>2. ASSUME NEW n \in 1..Len(history), history[n] = r.id  PROVE FALSE
      <4>1. receipt[r.id] = [outcome |-> "applied", revision |-> n]
        BY <2>2, <3>2 DEF ServedInv, Revision
      <4> QED BY <2>4, <4>1
    <3>3. \A n \in 1..Len(history) : history[n] # Other => history[n] \in Ids
      BY <1>1
    <3> QED BY <2>2, <2>4, <3>1, <3>2, <3>3 DEF ServedInv, Revision
  <2> QED BY <1>2, <2>1, <2>3, <2>4
<1>5. CASE ~ (Serving \/ EditingElsewhere)
  <2>1. UNCHANGED <<history, receipt>>
    BY ZenonT(40), <1>5 DEF Moving, QuietStep, Working, Confirming, Beginning, Freezing, Retiring, Reviewing, Purging,
                Forgetting, Editing, Enqueuing, Acquiring, Opening, Leaving
  <2> QED BY <1>2, <2>1
<1> QED BY <1>3, <1>4, <1>5

(* The store moved on: what a tab remembers is older. *)
Raised == store'.generation = store.generation + 1

LEMMA SeatedRaised ==
  ASSUME SessionInv, NEW t \in Tabs, Seated(session[t], store), Raised
  PROVE  Seated(session[t], store')
<1>1. session[t].generation <= store.generation /\ session[t].generation \in Nat /\ store.generation \in Nat
  BY TabsAreOK DEF OtherTypes, Stores, SessionType, Fits
<1> QED BY <1>1 DEF Seated, Raised

LEMMA SeatedDrifts ==
  ASSUME SessionInv, SeatInv, NEW t \in Tabs, NEW u, Drifts(u, session[t]), Coherent(u)
  PROVE  Seated(u, store) /\ Seen(u, Revision)
<1> DEFINE s == session[t]
<1>1. /\ s \in SessionType /\ Coherent(s) /\ Fits(s, store) /\ store \in Stores /\ NoEditOutlivesAccess
      /\ Seated(s, store) /\ Seen(s, Revision) /\ (Holding(s) => s.open)
  BY TabsAreOK DEF SeatInv, OtherTypes, SessionInv, CacheInv, LockInv
<1>2. /\ s.generation \in Nat /\ store.generation \in Nat /\ s.generation <= store.generation
      /\ \A w \in s.writing : w.guard \in Nat
      /\ s.guard \in Nat
  BY <1>1 DEF SessionType, Stores, Fits
<1>3. u.stage = "sending" => u.front = s.front /\ s.stage = "sending" /\ u.guard = s.guard
  BY <1>1 DEF Drifts, Carries, Coherent
<1>4. u.side # "none" => u.open
  BY <1>1 DEF Drifts, Seated
<1>5. Seen(u, Revision)
  <2>1. Revision \in Nat
    BY TabsAreOK DEF OtherTypes, Revision
  <2>2. u.confirmed \in {s.confirmed, store.confirmed}
    BY DEF Drifts, SameCache, FromStore
  <2>3. \A v \in Nat \cap {store.confirmed} : v <= Revision
    BY DEF SeatInv
  <2> QED BY <1>1, <2>1, <2>2, <2>3 DEF Seen, Drifts
<1>6. CASE SameCache(u, s) /\ u.writing = s.writing
  <2>1. u.open = s.open /\ u.confirmed = s.confirmed /\ u.generation = s.generation /\ u.entries = s.entries
    BY <1>6 DEF Drifts, SameCache
  <2>2. u.stage = "sending" => u.guard <= u.generation
    BY <1>1, <1>3, <2>1 DEF Seated
  <2> HIDE DEF s
  <2> QED BY <1>1, <1>5, <1>4, <1>6, <2>1, <2>2 DEF Seated
<1>7. CASE FromStore(u) /\ u.writing \subseteq s.writing
  <2>1. u.confirmed = store.confirmed /\ u.generation = store.generation /\ u.entries = store.queue
    BY <1>7 DEF FromStore
  <2>2. u.stage = "sending" => u.guard <= u.generation
    BY <1>1, <1>2, <1>3, <2>1 DEF Seated
  <2>3. \A w \in u.writing : w.guard <= u.generation
    <3> SUFFICES ASSUME NEW w \in u.writing  PROVE w.guard <= u.generation
      OBVIOUS
    <3>1. w \in s.writing /\ w.guard \in Nat /\ w.guard <= s.generation
      BY <1>1, <1>2, <1>7 DEF Seated
    <3> QED BY <1>2, <2>1, <3>1
  <2> HIDE DEF s
  <2> QED BY <1>1, <1>5, <1>4, <2>1, <2>2, <2>3 DEF Seated, NoEditOutlivesAccess
<1> QED BY <1>6, <1>7, <1>5 DEF Drifts

LEMMA QuietSeats ==
  ASSUME SessionInv, SessionInv', SeatInv, QuietStep
  PROVE  SeatInv'
<1>1. \A t \in Tabs : Drifts(session'[t], session[t]) /\ Coherent(session'[t])
  BY DEF QuietStep, SessionInv, SessionTypeOK
<1>2. UNCHANGED <<history, store, lock>>
  BY DEF QuietStep
<1>3. \A t \in Tabs : Seated(session'[t], store) /\ Seen(session'[t], Revision)
  BY <1>1, SeatedDrifts
<1>4. \A t \in Tabs : (lock' = t => session'[t].open) /\ (session'[t].writing # {} => lock' = t)
  BY <1>1, <1>2 DEF Drifts, SeatInv
<1>5. ASSUME NEW t \in Tabs, NEW v \in Tabs, Exposed(t, v)', Risky(session'[v], store)  PROVE FALSE
  <2> DEFINE s == session[t]
             u == session'[t]
             x == session[v]
             y == session'[v]
  <2>1. lock = t /\ (u.front # None \/ (v # t /\ u.confirmed # None))
    BY <1>2, <1>5 DEF Exposed
  <2>2. Drifts(u, s) /\ Drifts(y, x)
    BY <1>1
  <2>3. CASE v = t
    BY <1>5, <2>1, <2>2, <2>3 DEF Drifts, Carries, SeatInv, Exposed
  <2>4. CASE v # t
    <3>1. ~ Holding(x)
      BY <2>1, <2>4 DEF SessionInv, LockInv
    <3>2. Risky(x, store)
      BY <1>5, <2>2, <3>1 DEF Drifts
    <3>3. s.front = None /\ s.confirmed = None
      BY <2>1, <2>4, <3>2 DEF SeatInv, Exposed
    <3>4. u.confirmed # None
      BY <2>1, <2>2, <3>3 DEF Drifts, Carries
    <3>5. store.confirmed # None
      BY <2>2, <3>3, <3>4 DEF Drifts, SameCache, FromStore
    <3>6. x.open /\ x.generation = store.generation /\ x.confirmed = None
      BY <3>2 DEF Risky, SeatInv, Seated
    <3> QED BY <3>5, <3>6 DEF SeatInv, Seated
  <2> QED BY <2>3, <2>4
<1>6. \A t, v \in Tabs : Exposed(t, v)' => ~ Risky(session'[v], store)
  BY <1>5
<1> QED BY <1>2, <1>3, <1>4, <1>6 DEF SeatInv, Revision

(* One tab works, and the store moves on with it or stays. *)
LEMMA WorkSeats ==
  ASSUME SessionInv, SessionInv', SeatInv, NEW t \in Tabs, Alone(t), lock' = lock, history' = history,
         session'[t].open = session[t].open,
         session'[t].writing # {} => session[t].writing # {} \/ lock = t,
         Seated(session'[t], store') /\ Seen(session'[t], Revision),
         \A v \in Nat \cap {store'.confirmed} : v <= Revision,
         \/ Raised /\ ~ Risky(session'[t], store')
         \/ /\ store'.generation = store.generation /\ store'.confirmed = store.confirmed
            /\ Risky(session'[t], store) => Risky(session[t], store)
            /\ session'[t].confirmed # None => session[t].confirmed # None
            /\ session'[t].front # None => session[t].front # None \/ session[t].confirmed # None
  PROVE  SeatInv'
<1> DEFINE u == session'[t]
           s == session[t]
<1>1. \A v \in Tabs \ {t} : session'[v] = session[v]
  BY DEF Alone
<1>2. Revision' = Revision
  BY DEF Revision
<1>3. \A v \in Tabs : Seated(session'[v], store')
  <2> SUFFICES ASSUME NEW v \in Tabs \ {t}  PROVE Seated(session[v], store')
    BY <1>1
  <2>1. Seated(session[v], store)
    BY DEF SeatInv
  <2> QED BY <2>1, SeatedRaised DEF Seated
<1>4. \A v \in Tabs : Seen(session'[v], Revision)
  BY <1>1 DEF SeatInv
<1>5. \A v \in Tabs : (lock' = v => session'[v].open) /\ (session'[v].writing # {} => lock' = v)
  BY <1>1 DEF SeatInv
<1>6. ASSUME NEW h \in Tabs, NEW v \in Tabs, Exposed(h, v)', Risky(session'[v], store')  PROVE FALSE
  <2>1. lock = h /\ (session'[h].front # None \/ (v # h /\ session'[h].confirmed # None))
    BY <1>6 DEF Exposed
  <2>2. CASE Raised /\ ~ Risky(u, store')
    <3>1. v # t /\ session'[v] = session[v]
      BY <1>1, <1>6, <2>2
    <3>2. session[v].generation <= store.generation /\ session[v].generation \in Nat /\ store.generation \in Nat
      BY TabsAreOK DEF OtherTypes, Stores, SessionType, Fits
    <3> QED BY <1>6, <2>2, <3>1, <3>2 DEF Risky, Raised
  <2>3. CASE /\ store'.generation = store.generation
             /\ Risky(u, store) => Risky(s, store)
             /\ u.confirmed # None => s.confirmed # None
             /\ u.front # None => s.front # None \/ s.confirmed # None
    <3>1. Risky(session[v], store)
      BY <1>1, <1>6, <2>3 DEF Risky
    <3>2. ~ Exposed(h, v)
      BY <3>1 DEF SeatInv
    <3>3. h = t
      BY <1>1, <2>1, <3>2 DEF Exposed
    <3>4. CASE v = t
      BY <2>1, <2>3, <3>1, <3>2, <3>3, <3>4 DEF Exposed, Risky
    <3>5. CASE v # t
      BY <2>1, <2>3, <3>1, <3>2, <3>3, <3>5 DEF Exposed
    <3> QED BY <3>4, <3>5
  <2> QED BY <2>2, <2>3
<1>7. \A h, v \in Tabs : Exposed(h, v)' => ~ Risky(session'[v], store')
  BY <1>6
<1> QED BY <1>2, <1>3, <1>4, <1>5, <1>7 DEF SeatInv

(* What is known of a tab before a step. *)
LEMMA SeatFacts ==
  ASSUME SessionInv, SeatInv, NEW t \in Tabs
  PROVE  LET s == session[t]
         IN  /\ s \in SessionType /\ Coherent(s) /\ Seated(s, store) /\ Seen(s, Revision) /\ store \in Stores
             /\ s.generation \in Nat /\ store.generation \in Nat /\ s.generation <= store.generation
             /\ s.guard \in Nat /\ \A w \in s.writing : w.guard \in Nat
             /\ Holding(s) => lock = t /\ s.open
             /\ s.writing # {} => lock = t
             /\ s.generation = store.generation /\ lock = t => s.confirmed = store.confirmed
             /\ Revision \in Nat
<1> DEFINE s == session[t]
<1>1. /\ s \in SessionType /\ Coherent(s) /\ Fits(s, store) /\ store \in Stores
      /\ Seated(s, store) /\ Seen(s, Revision)
  BY TabsAreOK DEF SeatInv, OtherTypes
<1>2. Holding(s) => lock = t
  BY DEF SessionInv, LockInv
<1>3. (lock = t => s.open) /\ (s.writing # {} => lock = t)
  BY DEF SeatInv
<1>4. Revision \in Nat
  BY TabsAreOK DEF OtherTypes, Revision
<1>5. /\ s.generation \in Nat /\ store.generation \in Nat /\ s.generation <= store.generation
      /\ s.guard \in Nat /\ \A w \in s.writing : w.guard \in Nat
  BY <1>1 DEF SessionType, Stores, Fits
<1>6. s.generation = store.generation /\ lock = t => s.confirmed = store.confirmed
  BY <1>1, <1>3 DEF Seated
<1> QED BY <1>1, <1>2, <1>3, <1>4, <1>5, <1>6

(* When a tab that has moved is still seated. *)
LEMMA SeatsAgain ==
  ASSUME SessionInv, SeatInv, NEW t \in Tabs, NEW u \in SessionType, NEW st,
         u.open = session[t].open, u.writing \subseteq session[t].writing,
         u.view \in {None, session[t].view}, u.sideView \in {None, session[t].sideView},
         u.side # "none" => u.open,
         session[t].generation <= u.generation,
         u.stage = "sending" => u.guard <= u.generation,
         u.open /\ u.generation = st.generation => u.confirmed = st.confirmed,
         u.confirmed = None => u.entries = {},
         u.confirmed # session[t].confirmed /\ u.confirmed # None => u.confirmed <= Revision
  PROVE  Seated(u, st) /\ Seen(u, Revision)
<1> DEFINE s == session[t]
<1>1. /\ Seated(s, store) /\ Seen(s, Revision)
      /\ s.generation \in Nat /\ \A w \in s.writing : w.guard \in Nat
  BY SeatFacts
<1>2. u.generation \in Nat
  BY DEF SessionType
<1>3. \A w \in u.writing : w.guard <= u.generation
  <2> SUFFICES ASSUME NEW w \in u.writing  PROVE w.guard <= u.generation
    OBVIOUS
  <2>1. w \in s.writing /\ w.guard \in Nat /\ w.guard <= s.generation
    BY <1>1 DEF Seated
  <2> QED BY <1>1, <1>2, <2>1
<1>4. Seated(u, st)
  BY <1>3 DEF Seated
<1>5. Seen(u, Revision)
  BY <1>1 DEF Seen
<1> QED BY <1>4, <1>5

LEMMA CarriedGuard ==
  ASSUME SessionInv, SeatInv, NEW t \in Tabs, NEW u \in SessionType, Coherent(u), Carries(u, session[t]),
         session[t].generation <= u.generation
  PROVE  u.stage = "sending" => u.guard <= u.generation
<1> SUFFICES ASSUME u.stage = "sending"  PROVE u.guard <= u.generation
  OBVIOUS
<1> DEFINE s == session[t]
<1>1. u.front # None
  BY DEF Coherent
<1>2. s.stage = "sending" /\ u.guard = s.guard
  BY <1>1 DEF Carries
<1>3. s.guard <= s.generation /\ s.guard \in Nat /\ s.generation \in Nat
  BY <1>2, SeatFacts DEF Seated
<1>4. u.generation \in Nat
  BY DEF SessionType
<1> QED BY <1>2, <1>3, <1>4

(* The view a tab stores is a revision of the server. *)
LEMMA ConfirmSeats ==
  ASSUME SessionInv, SessionInv', SeatInv, NEW t \in Tabs, Confirming(t)
  PROVE  SeatInv'
<1> DEFINE s == session[t]
           u == session'[t]
<1>1. PICK v \in Nat \cap {s.view, s.sideView} :
        /\ Confirms(s, v)
        /\ store' = [store EXCEPT !.confirmed = v, !.generation = @ + 1]
        /\ Renews(u, s, v) /\ Carries(u, s)
  BY DEF Confirming
<1>2. Alone(t) /\ history' = history /\ lock' = lock
  BY DEF Confirming
<1>3. s.generation = store.generation
  BY <1>1 DEF Confirms, Overtook
<1>4. store'.confirmed = v /\ store'.generation = store.generation + 1 /\ store.generation \in Nat
  BY <1>1, SeatFacts DEF Stores
<1>5. /\ u \in SessionType /\ Coherent(u) /\ u.confirmed = v /\ u.generation = s.generation + 1 /\ u.open = s.open
      /\ u.writing = s.writing /\ u.view \in {None, s.view} /\ u.sideView \in {None, s.sideView}
      /\ u.side \in {"none", s.side}
  BY <1>1 DEF Renews, Looks, SessionInv, SessionTypeOK
<1>6. v <= Revision /\ v # None /\ v \in Nat
  BY <1>1, SeatFacts DEF Seen
<1>7. s.side # "none" => s.open
  BY SeatFacts DEF Seated
<1>8. u.stage = "sending" => u.guard <= u.generation
  BY <1>1, <1>3, <1>4, <1>5, CarriedGuard
<1>9. Seated(u, store') /\ Seen(u, Revision)
  BY <1>3, <1>4, <1>5, <1>6, <1>7, <1>8, SeatsAgain
<1>10. Raised /\ ~ Risky(u, store')
  BY <1>4, <1>5, <1>6 DEF Raised, Risky
<1> QED BY <1>2, <1>4, <1>5, <1>6, <1>9, <1>10, WorkSeats

LEMMA BeginSeats ==
  ASSUME SessionInv, SessionInv', SeatInv, NEW t \in Tabs, Beginning(t)
  PROVE  SeatInv'
<1> DEFINE s == session[t]
           u == session'[t]
<1>1. /\ Alone(t) /\ history' = history /\ lock' = lock /\ store' = store
      /\ Plain(u, s) /\ u.error = s.error /\ u.stage \in {"entry", "freezing"}
      /\ s.front # None \/ s.entries # {}
  BY DEF Beginning
<1>2. /\ u \in SessionType /\ u.confirmed = s.confirmed /\ u.generation = s.generation /\ u.open = s.open
      /\ u.writing = s.writing /\ u.view \in {None, s.view} /\ u.sideView \in {None, s.sideView}
      /\ u.side \in {"none", s.side} /\ u.entries = s.entries
  BY <1>1 DEF Plain, Looks, SameCache
<1>3. Seated(s, store) /\ s.generation \in Nat /\ Seen(s, Revision)
  BY SeatFacts
<1>4. Seated(u, store') /\ Seen(u, Revision)
  BY <1>1, <1>2, <1>3, SeatsAgain DEF Seated
<1>5. s.front # None \/ s.confirmed # None
  BY <1>1, <1>3 DEF Seated
<1>6. Risky(u, store) => Risky(s, store)
  BY <1>1, <1>2 DEF Risky
<1>7. \A v \in Nat \cap {store'.confirmed} : v <= Revision
  BY <1>1 DEF SeatInv
<1> QED BY <1>1, <1>2, <1>4, <1>5, <1>6, <1>7, WorkSeats

LEMMA FreezeSeats ==
  ASSUME SessionInv, SessionInv', SeatInv, NEW t \in Tabs, Freezing(t)
  PROVE  SeatInv'
<1> DEFINE s == session[t]
           u == session'[t]
<1>1. /\ Alone(t) /\ history' = history /\ lock' = lock
      /\ store' = [store EXCEPT !.queue = Froze(@, s.front.id)]
      /\ Looks(u, s) /\ u.writing = s.writing /\ u.entries = Froze(s.entries, s.front.id)
      /\ u.confirmed = s.confirmed /\ u.generation = s.generation /\ u.error = s.error
      /\ u.front = None \/ (u.front = s.front /\ u.guard = s.generation)
  BY DEF Freezing
<1>2. Seated(s, store) /\ s.generation \in Nat /\ Seen(s, Revision) /\ store \in Stores
  BY SeatFacts
<1>3. store'.generation = store.generation /\ store'.confirmed = store.confirmed
  BY <1>1, <1>2 DEF Stores
<1>4. /\ u \in SessionType /\ u.open = s.open /\ u.view \in {None, s.view} /\ u.sideView \in {None, s.sideView}
      /\ u.side \in {"none", s.side} /\ Coherent(u)
  BY <1>1 DEF Looks, SessionInv, SessionTypeOK
<1>5. u.stage = "sending" => u.guard <= u.generation
  BY <1>1, <1>2, <1>4 DEF Coherent
<1>6. s.entries = {} => u.entries = {}
  BY <1>1 DEF Froze
<1>7. /\ u.side # "none" => u.open
      /\ u.open /\ u.generation = store'.generation => u.confirmed = store'.confirmed
      /\ u.confirmed = None => u.entries = {}
  BY <1>1, <1>2, <1>3, <1>4, <1>6 DEF Seated
<1>8. Seated(u, store') /\ Seen(u, Revision)
  <2>1. s.generation <= u.generation /\ u.writing \subseteq s.writing /\ u.confirmed = s.confirmed
    BY <1>1, <1>2
  <2> QED BY <1>4, <1>5, <1>7, <2>1, SeatsAgain
<1>9. Risky(u, store) => Risky(s, store)
  BY <1>1, <1>4 DEF Risky
<1>10. \A v \in Nat \cap {store'.confirmed} : v <= Revision
  BY <1>3 DEF SeatInv
<1> QED BY <1>1, <1>3, <1>4, <1>8, <1>9, <1>10, WorkSeats

LEMMA RetireSeats ==
  ASSUME SessionInv, SessionInv', SeatInv, ServedInv, NEW t \in Tabs, Retiring(t)
  PROVE  SeatInv'
<1> DEFINE s == session[t]
           u == session'[t]
           f == s.front
           r == receipt[f.id].revision
<1>1. /\ Alone(t) /\ history' = history /\ lock' = lock
      /\ s.stage = "sending" /\ receipt[f.id].outcome = "applied" /\ Guarded(s.guard)
      /\ store' = [confirmed |-> r, generation |-> store.generation + 1, queue |-> Settled(store.queue, f, r)]
      /\ Looks(u, s) /\ u.writing = s.writing
      /\ u.confirmed = r /\ u.generation = s.generation + 1 /\ u.front = None
  BY DEF Retiring
<1>2. /\ s \in SessionType /\ Coherent(s) /\ Seated(s, store)
      /\ s.generation \in Nat /\ store.generation \in Nat /\ s.generation <= store.generation /\ s.guard \in Nat
      /\ Revision \in Nat
  BY SeatFacts
<1>3. s.generation = store.generation
  BY <1>1, <1>2 DEF Seated, Guarded
<1>4. f.id \in Ids
  BY <1>1, <1>2 DEF SessionType, Coherent, Entry
<1>5. r \in Nat /\ r <= Revision /\ r # None
  BY <1>1, <1>2, <1>4 DEF ServedInv
<1>6. store'.confirmed = r /\ store'.generation = store.generation + 1
  BY <1>1
<1> HIDE DEF r
<1>7. /\ u \in SessionType /\ u.open = s.open /\ u.view \in {None, s.view} /\ u.sideView \in {None, s.sideView}
      /\ u.side \in {"none", s.side} /\ Coherent(u)
  BY <1>1 DEF Looks, SessionInv, SessionTypeOK
<1>8. u.side # "none" => u.open
  BY <1>2, <1>7 DEF Seated
<1>9. Seated(u, store') /\ Seen(u, Revision)
  BY <1>1, <1>2, <1>3, <1>5, <1>6, <1>7, <1>8, SeatsAgain DEF Coherent
<1>10. Raised /\ ~ Risky(u, store')
  BY <1>1, <1>5, <1>6 DEF Raised, Risky
<1> QED BY <1>1, <1>5, <1>6, <1>7, <1>9, <1>10, WorkSeats

(* What replaces the edits a tab and the store had is an edit too. *)
LEMMA ReviewSeats ==
  ASSUME SessionInv, SessionInv', SeatInv, NEW t \in Tabs, Reviewing(t)
  PROVE  SeatInv'
<1> DEFINE s == session[t]
           u == session'[t]
<1>1. /\ Alone(t) /\ history' = history /\ lock' = lock
      /\ s.owned /\ s.confirmed # None /\ Guarded(s.generation)
      /\ \E queue \in SUBSET Entry : store' = [store EXCEPT !.queue = queue, !.generation = @ + 1]
      /\ Looks(u, s) /\ u.writing = s.writing
      /\ u.confirmed = store.confirmed /\ u.generation = store.generation + 1 /\ u.front = None
  <2>1. PICK chosen \in SUBSET s.entries, new \in SUBSET Entry :
          store' = [store EXCEPT !.queue = {e \in store.queue : e.id \notin IdsOf(chosen)} \cup new,
                                 !.generation = @ + 1]
    BY DEF Reviewing
  <2>2. {e \in store.queue : e.id \notin IdsOf(chosen)} \cup new \in SUBSET Entry
    BY SeatFacts DEF Stores
  <2> QED BY <2>1, <2>2 DEF Reviewing
<1>2. /\ Seated(s, store) /\ s.generation \in Nat /\ store.generation \in Nat /\ store \in Stores
      /\ (Holding(s) => lock = t) /\ (s.generation = store.generation /\ lock = t => s.confirmed = store.confirmed)
  BY SeatFacts
<1>3. store'.confirmed = store.confirmed /\ store'.generation = store.generation + 1
  BY <1>1, <1>2 DEF Stores
<1>4. /\ u \in SessionType /\ u.open = s.open /\ u.view \in {None, s.view} /\ u.sideView \in {None, s.sideView}
      /\ u.side \in {"none", s.side} /\ Coherent(u)
  BY <1>1 DEF Looks, SessionInv, SessionTypeOK
<1>5. s.generation = store.generation /\ s.confirmed = store.confirmed
  BY <1>1, <1>2 DEF Guarded, Holding
<1>6. /\ u.confirmed = s.confirmed /\ u.confirmed # None /\ u.confirmed = store'.confirmed
      /\ u.stage # "sending" /\ s.generation <= u.generation /\ u.writing \subseteq s.writing
      /\ u.side # "none" => u.open
  BY <1>1, <1>2, <1>3, <1>4, <1>5 DEF Coherent, Seated
<1>7. Seated(u, store') /\ Seen(u, Revision)
  BY <1>4, <1>6, SeatsAgain
<1>8. Raised /\ ~ Risky(u, store')
  BY <1>3, <1>6 DEF Raised, Risky
<1>9. \A v \in Nat \cap {store'.confirmed} : v <= Revision
  BY <1>3 DEF SeatInv
<1> QED BY <1>1, <1>4, <1>7, <1>8, <1>9, WorkSeats

(* The tab that purges does not see the generation of the purge. *)
LEMMA PurgeSeats ==
  ASSUME SessionInv, SessionInv', SeatInv, NEW t \in Tabs, Purging(t)
  PROVE  SeatInv'
<1> DEFINE s == session[t]
           u == session'[t]
<1>1. /\ Alone(t) /\ history' = history /\ lock' = lock
      /\ store' = [confirmed |-> None, generation |-> store.generation + 1, queue |-> {}]
      /\ Looks(u, s) /\ u.writing = s.writing /\ u.entries = {}
      /\ u.confirmed = None /\ u.generation = s.generation /\ Carries(u, s)
  BY DEF Purging
<1>2. /\ Seated(s, store) /\ s.generation \in Nat /\ store.generation \in Nat
      /\ s.generation <= store.generation
  BY SeatFacts
<1>3. /\ u \in SessionType /\ u.open = s.open /\ u.view \in {None, s.view} /\ u.sideView \in {None, s.sideView}
      /\ u.side \in {"none", s.side} /\ Coherent(u)
  BY <1>1 DEF Looks, SessionInv, SessionTypeOK
<1>4. /\ s.generation <= u.generation /\ u.generation # store'.generation
      /\ store'.confirmed = None /\ Raised /\ u.writing \subseteq s.writing
      /\ u.side # "none" => u.open
  BY <1>1, <1>2, <1>3 DEF Raised, Seated
<1>5. u.stage = "sending" => u.guard <= u.generation
  BY <1>1, <1>3, <1>4, CarriedGuard
<1>6. Seated(u, store') /\ Seen(u, Revision)
  BY <1>1, <1>3, <1>4, <1>5, SeatsAgain
<1>7. ~ Risky(u, store')
  BY <1>4 DEF Risky
<1>8. \A v \in Nat \cap {store'.confirmed} : v <= Revision
  BY <1>4
<1> QED BY <1>1, <1>3, <1>4, <1>6, <1>7, <1>8, WorkSeats

LEMMA ForgetSeats ==
  ASSUME SessionInv, SessionInv', SeatInv, NEW t \in Tabs, Forgetting(t)
  PROVE  SeatInv'
<1> DEFINE s == session[t]
           u == session'[t]
<1>1. /\ Alone(t) /\ history' = history /\ lock' = lock /\ s.open
      /\ store' = [store EXCEPT !.generation = @ + 1]
      /\ u \in SessionType /\ u.open /\ u.writing = s.writing /\ SameCache(u, s)
      /\ u.view = s.view /\ u.sideView = s.sideView /\ u.side = "forgetting" /\ Carries(u, s)
  BY DEF Forgetting
<1>2. /\ Seated(s, store) /\ s.generation \in Nat /\ store.generation \in Nat /\ store \in Stores
      /\ s.generation <= store.generation /\ s.open \in BOOLEAN
  BY SeatFacts DEF SessionType
<1>3. /\ store'.confirmed = store.confirmed /\ Raised /\ Coherent(u)
  BY <1>1, <1>2 DEF Stores, Raised, SessionInv, SessionTypeOK
<1>4. /\ s.generation <= u.generation /\ u.generation # store'.generation
      /\ u.writing \subseteq s.writing /\ u.confirmed = s.confirmed
      /\ u.confirmed = None => u.entries = {}
  BY <1>1, <1>2, <1>3 DEF Raised, Seated, SameCache
<1>5. u.stage = "sending" => u.guard <= u.generation
  BY <1>1, <1>3, <1>4, CarriedGuard
<1>6. u.open = s.open
  BY <1>1, <1>2
<1>7. Seated(u, store') /\ Seen(u, Revision)
  BY <1>1, <1>4, <1>5, <1>6, SeatsAgain
<1>8. ~ Risky(u, store')
  BY <1>1 DEF Risky
<1>9. \A v \in Nat \cap {store'.confirmed} : v <= Revision
  BY <1>3 DEF SeatInv
<1> QED BY <1>1, <1>3, <1>6, <1>7, <1>8, <1>9, WorkSeats

LEMMA EditSeats ==
  ASSUME SessionInv, SessionInv', SeatInv, NEW t \in Tabs, Editing(t)
  PROVE  SeatInv'
<1> DEFINE s == session[t]
           u == session'[t]
<1>1. /\ Alone(t) /\ history' = history /\ lock' = lock /\ store' = store /\ s.owned /\ s.confirmed # None
      /\ \E e : u.writing = s.writing \cup {[entry |-> e, guard |-> s.generation]}
      /\ Looks(u, s) /\ Carries(u, s) /\ u.error = s.error
      /\ u.confirmed = s.confirmed /\ u.generation = s.generation
  BY DEF Editing
<1>2. /\ Seated(s, store) /\ Seen(s, Revision) /\ s.generation \in Nat /\ (Holding(s) => lock = t)
  BY SeatFacts
<1>3. /\ u \in SessionType /\ u.open = s.open /\ u.view \in {None, s.view} /\ u.sideView \in {None, s.sideView}
      /\ u.side \in {"none", s.side} /\ Coherent(u)
  BY <1>1 DEF Looks, SessionInv, SessionTypeOK
<1>4. u.stage = "sending" => u.guard <= u.generation
  BY <1>1, <1>2, <1>3, CarriedGuard
<1>5. \A w \in u.writing : w.guard <= u.generation
  BY <1>1, <1>2 DEF Seated
<1>6. Seated(u, store') /\ Seen(u, Revision)
  <2>1. Seated(u, store)
    BY <1>1, <1>2, <1>3, <1>4, <1>5 DEF Seated
  <2>2. Seen(u, Revision)
    BY <1>1, <1>2, <1>3 DEF Seen
  <2> QED BY <1>1, <2>1, <2>2
<1>7. Risky(u, store) => Risky(s, store)
  BY <1>1, <1>3 DEF Risky
<1>8. \A v \in Nat \cap {store'.confirmed} : v <= Revision
  BY <1>1 DEF SeatInv
<1>9. lock = t
  BY <1>1, <1>2 DEF Holding
<1>10. store'.generation = store.generation /\ store'.confirmed = store.confirmed
       /\ (u.front # None => s.front # None \/ s.confirmed # None)
  BY <1>1
<1> QED BY <1>1, <1>3, <1>6, <1>7, <1>8, <1>9, <1>10, WorkSeats

LEMMA EnqueueSeats ==
  ASSUME SessionInv, SessionInv', SeatInv, NEW t \in Tabs, Enqueuing(t)
  PROVE  SeatInv'
<1> DEFINE s == session[t]
           u == session'[t]
<1>1. /\ Alone(t) /\ history' = history /\ lock' = lock
      /\ \E q : store' = [store EXCEPT !.queue = q]
      /\ u.writing \subseteq s.writing
      /\ Looks(u, s) /\ SameCache(u, s) /\ Carries(u, s) /\ u.error = s.error
  BY DEF Enqueuing
<1>2. /\ Seated(s, store) /\ s.generation \in Nat /\ store \in Stores
  BY SeatFacts
<1>3. store'.generation = store.generation /\ store'.confirmed = store.confirmed
  BY <1>1, <1>2 DEF Stores
<1>4. /\ u \in SessionType /\ u.open = s.open /\ u.view \in {None, s.view} /\ u.sideView \in {None, s.sideView}
      /\ u.side \in {"none", s.side} /\ Coherent(u)
      /\ u.confirmed = s.confirmed /\ u.generation = s.generation /\ u.entries = s.entries
  BY <1>1 DEF Looks, SameCache, SessionInv, SessionTypeOK
<1>5. s.generation <= u.generation
  BY <1>2, <1>4
<1>6. u.stage = "sending" => u.guard <= u.generation
  BY <1>1, <1>4, <1>5, CarriedGuard
<1>7. /\ u.side # "none" => u.open
      /\ u.open /\ u.generation = store'.generation => u.confirmed = store'.confirmed
      /\ u.confirmed = None => u.entries = {}
  BY <1>2, <1>3, <1>4 DEF Seated
<1>8. Seated(u, store') /\ Seen(u, Revision)
  BY <1>1, <1>4, <1>5, <1>6, <1>7, SeatsAgain
<1>9. Risky(u, store) => Risky(s, store)
  BY <1>1, <1>4 DEF Risky
<1>10. \A v \in Nat \cap {store'.confirmed} : v <= Revision
  BY <1>3 DEF SeatInv
<1>11. /\ (u.front # None => s.front # None \/ s.confirmed # None)
       /\ (u.writing # {} => s.writing # {}) /\ (u.confirmed # None => s.confirmed # None)
  BY <1>1, <1>4 DEF Carries
<1> QED BY <1>1, <1>3, <1>4, <1>8, <1>9, <1>10, <1>11, WorkSeats

----------------------------------------------------------------------------
(* Tabs that come and go. *)

LEMMA AcquireSeats ==
  ASSUME SessionInv, SessionInv', SeatInv, NEW t \in Tabs, Acquiring(t)
  PROVE  SeatInv'
<1> DEFINE s == session[t]
           u == session'[t]
<1>1. /\ Alone(t) /\ history' = history /\ store' = store /\ s.open /\ lock = None /\ lock' = t
      /\ Looks(u, s) /\ FromStore(u) /\ u.writing = s.writing /\ u.front = None
  BY DEF Acquiring
<1>2. /\ Seated(s, store) /\ Seen(s, Revision) /\ s.generation <= store.generation /\ NoEditOutlivesAccess
  BY SeatFacts DEF SessionInv, CacheInv
<1>3. /\ u \in SessionType /\ u.open = s.open /\ u.view \in {None, s.view} /\ u.sideView \in {None, s.sideView}
      /\ u.side \in {"none", s.side} /\ Coherent(u)
      /\ u.confirmed = store.confirmed /\ u.entries = store.queue /\ u.generation = store.generation
  BY <1>1 DEF Looks, FromStore, SessionInv, SessionTypeOK
<1>4. u.confirmed # None => u.confirmed \in Nat /\ u.confirmed <= Revision
  BY <1>3 DEF SeatInv, SessionType, Snapshot
<1>5. Seated(u, store) /\ Seen(u, Revision)
  <2>1. /\ u.side # "none" => u.open
        /\ u.confirmed = None => u.entries = {}
        /\ u.stage # "sending"
    BY <1>1, <1>2, <1>3 DEF Seated, NoEditOutlivesAccess, Coherent
  <2>2. s.generation <= u.generation /\ u.writing \subseteq s.writing
    BY <1>1, <1>2, <1>3
  <2> QED BY <1>3, <1>4, <2>1, <2>2, SeatsAgain
<1>6. \A v \in Tabs \ {t} : session'[v] = session[v]
  BY <1>1 DEF Alone
<1>7. Revision' = Revision
  BY <1>1 DEF Revision
<1>8. \A v \in Tabs : Seated(session'[v], store') /\ Seen(session'[v], Revision')
  BY <1>1, <1>5, <1>6, <1>7 DEF SeatInv
<1>9. \A v \in Tabs : (lock' = v => session'[v].open) /\ (session'[v].writing # {} => lock' = v)
  <2>1. \A v \in Tabs : session[v].writing = {}
    BY <1>1 DEF SeatInv
  <2>2. \A v \in Tabs : session'[v].writing = {}
    BY <1>1, <1>6, <2>1
  <2> QED BY <1>1, <1>3, <2>2
<1>10. ASSUME NEW h \in Tabs, NEW v \in Tabs, Exposed(h, v)', Risky(session'[v], store')  PROVE FALSE
  <2>1. h = t /\ v # t /\ u.confirmed # None
    BY <1>1, <1>10 DEF Exposed
  <2>2. Risky(session[v], store)
    BY <1>1, <1>6, <1>10, <2>1
  <2>3. Seated(session[v], store)
    BY DEF SeatInv
  <2> QED BY <1>3, <2>1, <2>2, <2>3 DEF Risky, Seated
<1>11. \A h, v \in Tabs : Exposed(h, v)' => ~ Risky(session'[v], store')
  BY <1>10
<1>12. \A v \in Nat \cap {store'.confirmed} : v <= Revision'
  BY <1>1, <1>7 DEF SeatInv
<1> QED BY <1>8, <1>9, <1>11, <1>12 DEF SeatInv

LEMMA OpenSeats ==
  ASSUME SessionInv, SessionInv', SeatInv, NEW t \in Tabs, Opening(t)
  PROVE  SeatInv'
<1> DEFINE u == session'[t]
<1>1. /\ Alone(t) /\ history' = history /\ store' = store /\ lock' = lock /\ ~ session[t].open
      /\ u \in SessionType /\ u.open /\ FromStore(u) /\ u.writing = {} /\ u.front = None
      /\ u.view = None /\ u.sideView = None /\ u.side = "none" /\ Coherent(u)
  BY DEF Opening, SessionInv, SessionTypeOK
<1>2. u.confirmed = store.confirmed /\ u.entries = store.queue /\ u.generation = store.generation
  BY <1>1 DEF FromStore
<1>3. NoEditOutlivesAccess
  BY DEF SessionInv, CacheInv
<1>4. Seated(u, store) /\ Seen(u, Revision)
  <2>1. Seated(u, store)
    BY <1>1, <1>2, <1>3 DEF Seated, NoEditOutlivesAccess, Coherent
  <2>2. \A v \in Nat \cap {store.confirmed} : v <= Revision
    BY DEF SeatInv
  <2> QED BY <1>1, <1>2, <2>1, <2>2 DEF Seen
<1>5. \A v \in Tabs \ {t} : session'[v] = session[v]
  BY <1>1 DEF Alone
<1>6. Revision' = Revision
  BY <1>1 DEF Revision
<1>7. lock # t
  BY <1>1 DEF SeatInv
<1>8. \A v \in Tabs : Seated(session'[v], store') /\ Seen(session'[v], Revision')
  BY <1>1, <1>4, <1>5, <1>6 DEF SeatInv
<1>9. \A v \in Tabs : (lock' = v => session'[v].open) /\ (session'[v].writing # {} => lock' = v)
  BY <1>1, <1>5, <1>7 DEF SeatInv
<1>10. \A h, v \in Tabs : Exposed(h, v)' => ~ Risky(session'[v], store')
  BY <1>1, <1>5, <1>7 DEF SeatInv, Exposed, Risky
<1>11. \A v \in Nat \cap {store'.confirmed} : v <= Revision'
  BY <1>1, <1>6 DEF SeatInv
<1> QED BY <1>8, <1>9, <1>10, <1>11 DEF SeatInv

LEMMA LeaveSeats ==
  ASSUME SessionInv, SessionInv', SeatInv, NEW t \in Tabs, Leaving(t)
  PROVE  SeatInv'
<1> DEFINE u == session'[t]
<1>1. /\ Alone(t) /\ history' = history /\ store' = store /\ lock' = (IF lock = t THEN None ELSE lock)
      /\ u \in {session[t], Closed} /\ u.writing = {}
  BY DEF Leaving
<1>2. Seated(Closed, store) /\ Seen(Closed, Revision) /\ ~ Risky(Closed, store)
  BY DEF Seated, Seen, Closed, Risky
<1>3. Seated(u, store) /\ Seen(u, Revision) /\ (Risky(u, store) => u = session[t])
  BY <1>1, <1>2 DEF SeatInv
<1>4. \A v \in Tabs \ {t} : session'[v] = session[v]
  BY <1>1 DEF Alone
<1>5. Revision' = Revision
  BY <1>1 DEF Revision
<1>6. \A v \in Tabs : Seated(session'[v], store') /\ Seen(session'[v], Revision')
  BY <1>1, <1>3, <1>4, <1>5 DEF SeatInv
<1>7. \A v \in Tabs : lock' = v <=> v # t /\ lock = v
  BY <1>1
<1>8. \A v \in Tabs : lock' = v => session'[v].open
  BY <1>4, <1>7 DEF SeatInv
<1>9. \A h, v \in Tabs : Exposed(h, v)' => ~ Risky(session'[v], store')
  <2> SUFFICES ASSUME NEW h \in Tabs, NEW v \in Tabs, Exposed(h, v)', Risky(session'[v], store)  PROVE FALSE
    BY <1>1
  <2>1. h # t /\ lock = h /\ session'[h] = session[h]
    BY <1>4, <1>7 DEF Exposed
  <2>2. session'[v] = session[v]
    BY <1>3, <1>4
  <2> QED BY <2>1, <2>2 DEF Exposed, SeatInv
<1>10. \A v \in Nat \cap {store'.confirmed} : v <= Revision'
  BY <1>1, <1>5 DEF SeatInv
<1>11. \A v \in Tabs : session'[v].writing # {} => lock' = v
  BY <1>1, <1>4, <1>7 DEF SeatInv
<1> QED BY <1>6, <1>8, <1>9, <1>10, <1>11 DEF SeatInv

LEMMA SeatStep ==
  ASSUME SessionInv, SessionInv', ServedInv, SeatInv, Moving
  PROVE  SeatInv'
<1>1. CASE Serving \/ EditingElsewhere
  <2>1. UNCHANGED <<store, lock, session>>
    BY <1>1 DEF Serving, EditingElsewhere
  <2>2. Revision \in Nat /\ Revision' \in Nat /\ Revision <= Revision'
    <3>1. history \in Seq(Ids \cup {Other}) /\ net \in SUBSET Ask
      BY DEF SessionInv, SessionTypeOK
    <3>2. history' = history \/ \E x \in Ids \cup {Other} : history' = Append(history, x)
      BY <1>1, <3>1 DEF Serving, EditingElsewhere, Ask
    <3> QED BY <3>1, <3>2 DEF Revision
  <2>3. \A s \in SessionType : Seen(s, Revision) => Seen(s, Revision')
    BY <2>2 DEF Seen
  <2>4. \A t \in Tabs : session[t] \in SessionType
    BY TabsAreOK
  <2>5. \A t \in Tabs : Seated(session'[t], store') /\ Seen(session'[t], Revision')
    BY <2>1, <2>3, <2>4 DEF SeatInv
  <2>6. \A v \in Nat \cap {store'.confirmed} : v <= Revision'
    BY <2>1, <2>2 DEF SeatInv
  <2> QED BY <2>1, <2>5, <2>6 DEF SeatInv, Exposed
<1>2. CASE \E t \in Tabs : Working(t) \/ Acquiring(t) \/ Opening(t) \/ Leaving(t)
  <2>1. PICK t \in Tabs : Working(t) \/ Acquiring(t) \/ Opening(t) \/ Leaving(t)
    BY <1>2
  <2> QED BY <2>1, ConfirmSeats, BeginSeats, FreezeSeats, RetireSeats, ReviewSeats, PurgeSeats, ForgetSeats,
             EditSeats, EnqueueSeats, AcquireSeats, OpenSeats, LeaveSeats DEF Working
<1> QED BY <1>1, <1>2, QuietSeats DEF Moving

----------------------------------------------------------------------------
(* How many revisions of a history somebody else made. *)

ForeignIn(h, n) == Cardinality({m \in 1..n : h[m] = Other})

LEMMA ForeignCounts ==
  ASSUME NEW h, NEW n \in Nat
  PROVE  /\ ForeignIn(h, n) \in Nat
         /\ \A m \in 0..n : ForeignIn(h, m) <= ForeignIn(h, n)
         /\ h[n + 1] # Other => ForeignIn(h, n + 1) = ForeignIn(h, n)
<1> DEFINE F(k) == {m \in 1..k : h[m] = Other}
<1>1. IsFiniteSet(F(n)) /\ Cardinality(F(n)) \in Nat
  <2>1. IsFiniteSet(1..n)
    BY FS_Interval
  <2> QED BY <2>1, FS_Subset, FS_CardinalityType
<1>2. ASSUME NEW m \in 0..n  PROVE Cardinality(F(m)) <= Cardinality(F(n))
  <2>1. F(m) \subseteq F(n)
    OBVIOUS
  <2> QED BY <1>1, <2>1, FS_Subset
<1>3. h[n + 1] # Other => F(n + 1) = F(n)
  OBVIOUS
<1> QED BY <1>1, <1>2, <1>3 DEF ForeignIn

LEMMA ForeignKept ==
  ASSUME NEW h, NEW g, NEW n \in Nat, \A m \in 1..n : g[m] = h[m]
  PROVE  ForeignIn(g, n) = ForeignIn(h, n)
<1>1. {m \in 1..n : g[m] = Other} = {m \in 1..n : h[m] = Other}
  OBVIOUS
<1> QED BY <1>1 DEF ForeignIn

----------------------------------------------------------------------------
(* A request that waits or was answered with a revision, by its key. *)

Done == {id \in Ids : receipt[id].outcome = "applied"}

Asks == net \cup {[id |-> id, base |-> receipt[id].revision - 1] : id \in Done}

(* The revision it names is there, and not newer than the one its user saw. *)
Traced ==
  {a \in Ask : a.base <= Revision /\ ForeignIn(history, a.base) <= grounds[a.id] /\ order[a.id[1]] > 0}

WorldInv ==
  /\ \A id \in Ids : grounds[id] <= ForeignIn(history, Revision)
  /\ Asks \subseteq Traced
  /\ \A a, b \in Asks : a.id = b.id => a.base = b.base
  /\ \A n \in 1..Revision : history[n] # Other => ForeignIn(history, n - 1) = grounds[history[n]]

(* The edits of a queue are newer than what was sent of the same edit, and *)
(* made on the revision the store has or an older one.                      *)
Queued(st, A, T) ==
  /\ \A x \in st.queue : AskOf(x) \in T
  /\ \A x \in st.queue, a \in A : a.id = x.id => a.base = x.base /\ x.frozen
  /\ \A x \in st.queue, a \in A : a.id[1] = x.id[1] => a.id[2] <= x.id[2]
  /\ \A x, y \in st.queue : x.id[1] = y.id[1] => x = y
  /\ st.confirmed # None => \A x \in st.queue : x.base <= st.confirmed

(* What the tab with the lock works with. *)
Fronts(s) == {s.front} \ {None}
Written(s) == {w.entry : w \in s.writing}
Shows(s) == s.entries \cup Fronts(s)

KnownIn(s, T) == \A x \in Shows(s) \cup Written(s) : AskOf(x) \in T

SentBy(s, A) ==
  /\ \A x \in s.entries, a \in A : a.id = x.id => a.base = x.base /\ x.frozen
  /\ \A x \in Fronts(s), a \in A : a.id = x.id => a.base = x.base /\ (s.stage # "sending" => x.frozen)

(* An edit that is being saved is the only one there is of it. *)
Unsaved(s, st, A) ==
  \A w \in s.writing :
    /\ w.entry.id[2] = 0 /\ ~ w.entry.frozen
    /\ \A x \in st.queue : x.id[1] # w.entry.id[1]
    /\ \A a \in A : a.id[1] # w.entry.id[1]
    /\ \A v \in s.writing : v.entry.id[1] = w.entry.id[1] => v = w
    /\ \A x \in Shows(s) : x.id[1] = w.entry.id[1]
          => x.id[2] = 0 /\ ~ x.frozen /\ (w.guard = st.generation => x.base = w.entry.base)

Agrees(s, st) ==
  /\ \A x \in st.queue, y \in Shows(s) : y.id[1] = x.id[1] => y.id[2] <= x.id[2]
  /\ \A x \in st.queue, y \in s.entries : x.id = y.id => x = y
  /\ \A f \in Fronts(s), y \in s.entries \cup st.queue : y.id = f.id => y.base = f.base
  /\ \A x, y \in s.entries : x.id = y.id => x = y
  /\ s.stage \in {"freezing", "sending"} => ~ Writing(s, s.front.id)
  /\ s.stage = "entry" => ~ s.front.frozen

(* Edits whose enqueue transaction will commit. *)
Valid(s, st) == {w.entry : w \in {v \in s.writing : v.guard = st.generation}}
Waiting(s, st) == s.entries \cup st.queue \cup Valid(s, st)

Live(s, st) == s.stage = "freezing" \/ (s.stage = "sending" /\ s.guard = st.generation)

(* No edit names a revision past the one its tab will acknowledge. *)
Bounded(s, st, D) ==
  /\ s.confirmed # None => \A x \in Waiting(s, st) : x.base <= s.confirmed
  /\ Live(s, st) /\ s.front.id \in D => \A x \in Waiting(s, st) : x.base <= s.front.base + 1
  /\ s.stage = "sending" /\ Live(s, st) /\ s.front.id \in D /\ s.confirmed # None
       => s.entries # {} \/ s.confirmed <= s.front.base + 1
  /\ s.stage = "freezing" /\ s.front.frozen /\ s.confirmed # None => s.entries # {}

(* What the tab shows or sends is stored, or the sheet was purged. *)
Stored(s, st) ==
  st.confirmed # None =>
    /\ (s.stage = "freezing" /\ s.front.frozen) \/ s.stage = "sending" => s.front.id \in IdsOf(st.queue)
    /\ \A x \in s.entries : Writing(s, x.id) \/ x.id \in IdsOf(st.queue)

Held(s, st, A, D, T) ==
  KnownIn(s, T) /\ SentBy(s, A) /\ Unsaved(s, st, A) /\ Agrees(s, st) /\ Bounded(s, st, D) /\ Stored(s, st)

GroundsInv ==
  /\ WorldInv
  /\ Queued(store, Asks, Traced)
  /\ \A t \in Tabs : lock = t => Held(session[t], store, Asks, Done, Traced)

(* Fewer requests and more traces do no harm. *)
LEMMA LessIsKept ==
  ASSUME NEW A, NEW B, NEW T, NEW U, B \subseteq A, T \subseteq U, NEW st
  PROVE  /\ Queued(st, A, T) => Queued(st, B, U)
         /\ \A s, D : Held(s, st, A, D, T) => Held(s, st, B, D, U)
<1>1. Queued(st, A, T) => Queued(st, B, U)
  BY DEF Queued
<1>2. \A s : KnownIn(s, T) => KnownIn(s, U)
  BY DEF KnownIn
<1>3. \A s : SentBy(s, A) => SentBy(s, B)
  BY DEF SentBy
<1>4. \A s : Unsaved(s, st, A) => Unsaved(s, st, B)
  BY DEF Unsaved
<1> QED BY <1>1, <1>2, <1>3, <1>4 DEF Held

LEMMA CarriedFronts ==
  ASSUME NEW s, NEW u, Coherent(u), Carries(u, s)
  PROVE  /\ Fronts(u) \subseteq Fronts(s)
         /\ u.stage \in {"entry", "freezing", "sending"} => u.front = s.front /\ u.stage = s.stage /\ u.guard = s.guard
         /\ Fronts(u) # {} => u.front = s.front /\ u.stage = s.stage /\ u.guard = s.guard
BY DEF Coherent, Carries, Fronts

(* A tab that keeps what it shows, and may put down what it works on. *)
LEMMA HeldSame ==
  ASSUME NEW s, NEW u, NEW st, NEW A, NEW D, NEW T, Held(s, st, A, D, T),
         Coherent(u), Carries(u, s), SameCache(u, s), u.writing = s.writing
  PROVE  Held(u, st, A, D, T)
<1>1. /\ u.entries = s.entries /\ u.confirmed = s.confirmed /\ u.generation = s.generation
  BY DEF SameCache
<1>2. /\ Fronts(u) \subseteq Fronts(s)
      /\ u.stage \in {"entry", "freezing", "sending"} => u.front = s.front /\ u.stage = s.stage /\ u.guard = s.guard
      /\ Fronts(u) # {} => u.front = s.front /\ u.stage = s.stage /\ u.guard = s.guard
  BY CarriedFronts
<1>3. Shows(u) \subseteq Shows(s) /\ Written(u) = Written(s)
  BY <1>1, <1>2 DEF Shows, Written
<1>4. \A id : Writing(u, id) <=> Writing(s, id)
  BY DEF Writing
<1>5. Live(u, st) => Live(s, st) /\ u.front = s.front /\ u.stage = s.stage
  BY <1>2 DEF Live
<1>6. Valid(u, st) = Valid(s, st) /\ Waiting(u, st) = Waiting(s, st)
  BY <1>1 DEF Valid, Waiting
<1>7. KnownIn(u, T)
  BY <1>3 DEF Held, KnownIn
<1>8. SentBy(u, A)
  BY <1>1, <1>2 DEF Held, SentBy
<1>9. Unsaved(u, st, A)
  BY <1>3 DEF Held, Unsaved
<1>10. Agrees(u, st)
  BY <1>1, <1>2, <1>3, <1>4 DEF Held, Agrees
<1>11. Bounded(u, st, D)
  BY <1>1, <1>2, <1>5, <1>6 DEF Held, Bounded
<1>12. Stored(u, st)
  BY <1>1, <1>2, <1>4 DEF Held, Stored
<1> QED BY <1>7, <1>8, <1>9, <1>10, <1>11, <1>12 DEF Held

(* A tab that takes the queue of the store, and works on nothing. *)
LEMMA HeldFresh ==
  ASSUME NEW u, NEW st, NEW A, NEW D, NEW T, Queued(st, A, T),
         Coherent(u), u.front = None, u.entries = st.queue, u.confirmed = st.confirmed,
         \A x \in Written(u) : AskOf(x) \in T,
         \A w \in u.writing :
           /\ w.entry.id[2] = 0 /\ ~ w.entry.frozen
           /\ \A x \in st.queue : x.id[1] # w.entry.id[1]
           /\ \A a \in A : a.id[1] # w.entry.id[1]
           /\ \A v \in u.writing : v.entry.id[1] = w.entry.id[1] => v = w,
         Valid(u, st) = {}, \A x \in st.queue : x.id \in Ids
  PROVE  Held(u, st, A, D, T)
<1>1. Fronts(u) = {} /\ Shows(u) = st.queue /\ u.stage \notin {"entry", "freezing", "sending"}
  BY DEF Fronts, Shows, Coherent
<1>2. KnownIn(u, T)
  BY <1>1 DEF KnownIn, Queued
<1>3. SentBy(u, A)
  BY <1>1 DEF SentBy, Queued
<1>4. Unsaved(u, st, A)
  BY <1>1 DEF Unsaved
<1>5. Agrees(u, st)
  <2>1. \A x, y \in st.queue : y.id[1] = x.id[1] => y.id[2] <= x.id[2]
    <3> SUFFICES ASSUME NEW x \in st.queue, NEW y \in st.queue, y.id[1] = x.id[1]  PROVE y.id[2] <= x.id[2]
      OBVIOUS
    <3>1. x = y /\ x.id[2] \in Nat
      BY DEF Queued, Ids
    <3> QED BY <3>1
  <2>2. \A x, y \in st.queue : x.id = y.id => x = y
    BY DEF Queued
  <2> QED BY <1>1, <2>1, <2>2 DEF Agrees
<1>6. Bounded(u, st, D)
  <2>1. Waiting(u, st) = st.queue
    BY DEF Waiting
  <2> QED BY <1>1, <2>1 DEF Bounded, Live, Queued
<1>7. Stored(u, st)
  BY <1>1 DEF Stored, IdsOf
<1> QED BY <1>2, <1>3, <1>4, <1>5, <1>6, <1>7 DEF Held

(* A tab that takes the queue of the store while it works on an edit. *)
LEMMA HeldAdopted ==
  ASSUME NEW s, NEW u, NEW st \in Stores, NEW A, NEW D, NEW T, Held(s, st, A, D, T), Queued(st, A, T),
         s.generation = st.generation => s.confirmed = st.confirmed,
         \A w \in s.writing : w.guard = st.generation => s.generation = st.generation,
         s.stage = "sending" /\ s.guard = st.generation => s.generation = st.generation,
         Coherent(u), Carries(u, s), u.writing \subseteq s.writing,
         u.entries = st.queue, u.confirmed = st.confirmed
  PROVE  Held(u, st, A, D, T)
<1>1. /\ Fronts(u) \subseteq Fronts(s)
      /\ u.stage \in {"entry", "freezing", "sending"} => u.front = s.front /\ u.stage = s.stage /\ u.guard = s.guard
      /\ Fronts(u) # {} => u.front = s.front /\ u.stage = s.stage /\ u.guard = s.guard
  BY CarriedFronts
<1>2. Shows(u) \subseteq st.queue \cup Fronts(s) /\ Written(u) \subseteq Written(s)
  BY <1>1 DEF Shows, Written
<1>3. \A x \in st.queue : x \in Entry /\ x.id \in Ids /\ x.id[2] \in Nat
  BY DEF Stores, Entry, Ids
<1>4. \A x \in st.queue, w \in s.writing : x.id[1] # w.entry.id[1]
  BY DEF Held, Unsaved
<1>5. Live(u, st) => Live(s, st) /\ u.front = s.front /\ u.stage = s.stage /\ u.guard = s.guard
  BY <1>1 DEF Live
<1>6. Valid(u, st) \subseteq Valid(s, st) /\ Waiting(u, st) \subseteq Waiting(s, st)
  BY DEF Valid, Waiting
<1>7. KnownIn(u, T)
  BY <1>2 DEF Held, KnownIn, Queued, Shows
<1>8. SentBy(u, A)
  BY <1>1 DEF Held, SentBy, Queued
<1>9. Unsaved(u, st, A)
  <2>1. \A w \in u.writing, x \in Shows(u) : x.id[1] = w.entry.id[1]
          => x.id[2] = 0 /\ ~ x.frozen /\ (w.guard = st.generation => x.base = w.entry.base)
    BY <1>2, <1>4 DEF Held, Unsaved, Shows
  <2> QED BY <2>1 DEF Held, Unsaved
<1>10. Agrees(u, st)
  <2>1. \A x \in st.queue, y \in st.queue : x.id[1] = y.id[1] => x = y /\ y.id[2] <= x.id[2]
    BY <1>3 DEF Queued
  <2>2. \A x \in st.queue, y \in Shows(u) : y.id[1] = x.id[1] => y.id[2] <= x.id[2]
    BY <1>2, <2>1 DEF Held, Agrees, Shows
  <2>3. \A x, y \in st.queue : x.id = y.id => x = y
    BY <2>1
  <2>4. \A f \in Fronts(u), y \in st.queue : y.id = f.id => y.base = f.base
    BY <1>1 DEF Held, Agrees
  <2>5. \A id : Writing(u, id) => Writing(s, id)
    BY DEF Writing
  <2>6. /\ u.stage \in {"freezing", "sending"} => ~ Writing(u, u.front.id)
        /\ u.stage = "entry" => ~ u.front.frozen
    BY <1>1, <2>5 DEF Held, Agrees
  <2> QED BY <2>2, <2>3, <2>4, <2>6 DEF Agrees
<1>11. Bounded(u, st, D)
  <2>1. ASSUME u.confirmed # None, NEW x \in Waiting(u, st)  PROVE x.base <= u.confirmed
    <3>1. CASE x \in st.queue
      BY <2>1, <3>1 DEF Queued
    <3>2. CASE x \in Valid(u, st)
      <4>1. x \in Valid(s, st) /\ s.confirmed = st.confirmed
        BY <1>6, <3>2 DEF Valid
      <4> QED BY <2>1, <4>1 DEF Held, Bounded, Waiting
    <3> QED BY <2>1, <3>1, <3>2 DEF Waiting
  <2>2. Live(u, st) /\ u.front.id \in D => \A x \in Waiting(u, st) : x.base <= u.front.base + 1
    BY <1>5, <1>6 DEF Held, Bounded
  <2>3. u.stage = "sending" /\ Live(u, st) /\ u.front.id \in D /\ u.confirmed # None
          => u.entries # {} \/ u.confirmed <= u.front.base + 1
    <3>1. u.stage = "sending" /\ u.confirmed # None => u.front.id \in IdsOf(st.queue)
      BY <1>1 DEF Held, Stored
    <3> QED BY <3>1 DEF IdsOf
  <2>4. u.stage = "freezing" /\ u.front.frozen /\ u.confirmed # None => u.entries # {}
    <3>1. u.stage = "freezing" /\ u.front.frozen /\ u.confirmed # None => u.front.id \in IdsOf(st.queue)
      BY <1>1 DEF Held, Stored
    <3> QED BY <3>1 DEF IdsOf
  <2> QED BY <2>1, <2>2, <2>3, <2>4 DEF Bounded
<1>12. Stored(u, st)
  BY <1>1 DEF Held, Stored, IdsOf
<1> QED BY <1>7, <1>8, <1>9, <1>10, <1>11, <1>12 DEF Held

(* The store moved on, which every guard finds out. *)
LEMMA HeldRaised ==
  ASSUME NEW s, NEW st, NEW nt, NEW A, NEW D, NEW T, Held(s, st, A, D, T),
         \A w \in s.writing : w.guard # nt.generation,
         s.stage = "sending" => s.guard # nt.generation,
         nt.queue \subseteq st.queue,
         \/ nt.confirmed = None
         \/ nt.queue = st.queue /\ st.confirmed # None
         \/ s.entries = {} /\ s.stage \notin {"freezing", "sending"}
  PROVE  Held(s, nt, A, D, T)
<1>1. Valid(s, nt) = {} /\ Waiting(s, nt) \subseteq Waiting(s, st)
  BY DEF Valid, Waiting
<1>2. Live(s, nt) => Live(s, st) /\ s.stage = "freezing"
  BY DEF Live
<1>3. Unsaved(s, nt, A)
  BY DEF Held, Unsaved
<1>4. Agrees(s, nt)
  BY DEF Held, Agrees
<1>5. Bounded(s, nt, D)
  BY <1>1, <1>2 DEF Held, Bounded
<1>6. Stored(s, nt)
  BY DEF Held, Stored
<1> QED BY <1>3, <1>4, <1>5, <1>6 DEF Held

(* A tab whose sheet was purged. *)
LEMMA HeldEmptied ==
  ASSUME NEW s, NEW u, NEW st, NEW A, NEW D, NEW T, Held(s, st, A, D, T),
         Coherent(u), Carries(u, s), u.writing = s.writing, u.entries = {}, u.confirmed = None, st.confirmed = None
  PROVE  Held(u, st, A, D, T)
<1>1. /\ Fronts(u) \subseteq Fronts(s)
      /\ u.stage \in {"entry", "freezing", "sending"} => u.front = s.front /\ u.stage = s.stage /\ u.guard = s.guard
      /\ Fronts(u) # {} => u.front = s.front /\ u.stage = s.stage /\ u.guard = s.guard
  BY CarriedFronts
<1>2. Shows(u) \subseteq Shows(s) /\ Written(u) = Written(s) /\ Waiting(u, st) \subseteq Waiting(s, st)
  BY <1>1 DEF Shows, Written, Waiting, Valid
<1>3. Live(u, st) => Live(s, st) /\ u.front = s.front /\ u.stage = s.stage
  BY <1>1 DEF Live
<1>4. KnownIn(u, T)
  BY <1>2 DEF Held, KnownIn
<1>5. SentBy(u, A)
  BY <1>1 DEF Held, SentBy
<1>6. Unsaved(u, st, A)
  BY <1>2 DEF Held, Unsaved
<1>7. Agrees(u, st)
  BY <1>1, <1>2 DEF Held, Agrees, Writing
<1>8. Bounded(u, st, D)
  BY <1>2, <1>3 DEF Held, Bounded
<1> QED BY <1>4, <1>5, <1>6, <1>7, <1>8 DEF Held, Stored

(* A tab that has stored the answer it waited for. *)
LEMMA HeldConfirmed ==
  ASSUME NEW s, NEW u, NEW st, NEW A, NEW D, NEW T, NEW v \in Nat, Held(s, st, A, D, T),
         Coherent(u), Carries(u, s), u.writing = s.writing, u.entries = s.entries, u.confirmed = v,
         \A x \in Waiting(s, st) : x.base \in Nat,
         s.stage = "sending" => s.guard # st.generation,
         \/ s.confirmed \in Nat /\ s.confirmed # None /\ s.confirmed <= v
         \/ u.front = None /\ Waiting(s, st) = {}
  PROVE  Held(u, st, A, D, T)
<1>1. /\ Fronts(u) \subseteq Fronts(s)
      /\ u.stage \in {"entry", "freezing", "sending"} => u.front = s.front /\ u.stage = s.stage /\ u.guard = s.guard
      /\ Fronts(u) # {} => u.front = s.front /\ u.stage = s.stage /\ u.guard = s.guard
  BY CarriedFronts
<1>2. Shows(u) \subseteq Shows(s) /\ Written(u) = Written(s) /\ Waiting(u, st) = Waiting(s, st)
  BY <1>1 DEF Shows, Written, Waiting, Valid
<1>3. Live(u, st) => Live(s, st) /\ u.front = s.front /\ u.stage = "freezing" /\ s.stage = "freezing"
  BY <1>1 DEF Live
<1>4. KnownIn(u, T)
  BY <1>2 DEF Held, KnownIn
<1>5. SentBy(u, A)
  BY <1>1 DEF Held, SentBy
<1>6. Unsaved(u, st, A)
  BY <1>2 DEF Held, Unsaved
<1>7. Agrees(u, st)
  BY <1>1, <1>2 DEF Held, Agrees, Writing
<1>8. Bounded(u, st, D)
  <2>1. \A x \in Waiting(u, st) : x.base <= v
    <3> SUFFICES ASSUME NEW x \in Waiting(s, st)  PROVE x.base <= v
      BY <1>2
    <3>1. x.base \in Nat /\ s.confirmed \in Nat /\ x.base <= s.confirmed /\ s.confirmed <= v
      BY DEF Held, Bounded
    <3> QED BY <3>1
  <2>2. Live(u, st) /\ u.front.id \in D => \A x \in Waiting(u, st) : x.base <= u.front.base + 1
    BY <1>2, <1>3 DEF Held, Bounded
  <2>3. u.stage = "freezing" /\ u.front.frozen => u.entries # {}
    BY <1>1 DEF Held, Bounded, Coherent
  <2> QED BY <1>3, <2>1, <2>2, <2>3 DEF Bounded
<1>9. Stored(u, st)
  BY <1>1 DEF Held, Stored, Writing
<1> QED BY <1>4, <1>5, <1>6, <1>7, <1>8, <1>9 DEF Held

----------------------------------------------------------------------------
LEMMA AsksTypes ==
  ASSUME SessionInv, ServedInv
  PROVE  /\ Asks \in SUBSET Ask /\ Done \in SUBSET Ids /\ Traced \in SUBSET Ask
         /\ \A a \in Asks : a.id \in Ids /\ a.base \in Nat
         /\ \A id \in Ids : receipt[id].revision \in Nat
<1>1. net \in SUBSET Ask /\ receipt \in [Ids -> [outcome : {"none", "applied", "refused", "conflict"}, revision : Nat]]
      /\ Len(history) \in Nat
  BY DEF SessionInv, SessionTypeOK
<1>2. \A id \in Done : receipt[id].revision \in 1..Len(history)
  BY DEF Done, ServedInv, Revision
<1>3. \A id \in Done : [id |-> id, base |-> receipt[id].revision - 1] \in Ask
  BY <1>1, <1>2 DEF Ask, Done
<1>4. Asks \in SUBSET Ask
  BY <1>1, <1>3 DEF Asks
<1> QED BY <1>1, <1>4 DEF Done, Traced, Ask

(* The server stands still; a request may be lost. *)
LEMMA WorldStays ==
  ASSUME WorldInv, UNCHANGED <<history, receipt, order, grounds>>, net' \subseteq net
  PROVE  WorldInv' /\ Asks' \subseteq Asks /\ Done' = Done /\ Traced' = Traced
<1>1. Done' = Done
  BY DEF Done
<1>2. Asks' \subseteq Asks
  BY <1>1 DEF Asks
<1>3. Traced' = Traced
  BY DEF Traced, Revision
<1>4. WorldInv'
  BY <1>2, <1>3 DEF WorldInv, Revision
<1> QED BY <1>1, <1>2, <1>3, <1>4

(* ... and then it is for the tab with the lock to hold what it held. *)
LEMMA GroundsStay ==
  ASSUME GroundsInv, UNCHANGED <<history, receipt, order, grounds>>, net' \subseteq net,
         Queued(store', Asks, Traced),
         \A t \in Tabs : lock' = t => Held(session'[t], store', Asks, Done, Traced)
  PROVE  GroundsInv'
<1>1. WorldInv' /\ Asks' \subseteq Asks /\ Done' = Done /\ Traced' = Traced
  BY WorldStays DEF GroundsInv
<1>2. Queued(store', Asks', Traced')
  BY <1>1, LessIsKept
<1>3. \A t \in Tabs : lock' = t => Held(session'[t], store', Asks', Done', Traced')
  BY <1>1, LessIsKept
<1> QED BY <1>1, <1>2, <1>3 DEF GroundsInv

LEMMA QuietGrounds ==
  ASSUME SessionInv, SessionInv', SeatInv, GroundsInv, QuietStep
  PROVE  GroundsInv'
<1>1. UNCHANGED <<history, receipt, net, store, lock, order, grounds>>
  BY DEF QuietStep
<1>2. ASSUME NEW t \in Tabs, lock = t  PROVE Held(session'[t], store, Asks, Done, Traced)
  <2> DEFINE s == session[t]
             u == session'[t]
  <2>1. Drifts(u, s) /\ Coherent(u)
    BY DEF QuietStep, SessionInv, SessionTypeOK
  <2>2. Held(s, store, Asks, Done, Traced) /\ Queued(store, Asks, Traced)
    BY <1>2 DEF GroundsInv
  <2>3. /\ Seated(s, store) /\ store \in Stores
        /\ s.generation \in Nat /\ store.generation \in Nat /\ s.generation <= store.generation
        /\ s.guard \in Nat /\ \A w \in s.writing : w.guard \in Nat
        /\ s.generation = store.generation => s.confirmed = store.confirmed
    BY <1>2, SeatFacts
  <2>4. CASE SameCache(u, s) /\ u.writing = s.writing
    BY <2>1, <2>2, <2>4, HeldSame DEF Drifts
  <2>5. CASE FromStore(u) /\ u.writing \subseteq s.writing
    <3>1. u.entries = store.queue /\ u.confirmed = store.confirmed /\ Carries(u, s)
      BY <2>1, <2>5 DEF FromStore, Drifts
    <3>2. /\ \A w \in s.writing : w.guard = store.generation => s.generation = store.generation
          /\ s.stage = "sending" /\ s.guard = store.generation => s.generation = store.generation
      BY <2>3 DEF Seated
    <3> QED BY <2>1, <2>2, <2>3, <2>5, <3>1, <3>2, HeldAdopted
  <2> QED BY <2>1, <2>4, <2>5 DEF Drifts
<1>3. Queued(store', Asks, Traced)
  BY <1>1 DEF GroundsInv
<1>4. \A t \in Tabs : lock' = t => Held(session'[t], store', Asks, Done, Traced)
  BY <1>1, <1>2
<1> QED BY <1>1, <1>3, <1>4, GroundsStay

(* What HeldRaised asks for. *)
LEMMA GuardsAreStale ==
  ASSUME SessionInv, SeatInv, NEW t \in Tabs, Raised
  PROVE  /\ \A w \in session[t].writing : w.guard # store'.generation
         /\ session[t].stage = "sending" => session[t].guard # store'.generation
<1> DEFINE s == session[t]
<1>1. /\ Seated(s, store)
      /\ s.generation \in Nat /\ store.generation \in Nat /\ s.generation <= store.generation
      /\ s.guard \in Nat /\ \A w \in s.writing : w.guard \in Nat
  BY SeatFacts
<1>2. \A w \in s.writing : w.guard <= s.generation
  BY <1>1 DEF Seated
<1>3. s.stage = "sending" => s.guard <= s.generation
  BY <1>1 DEF Seated
<1> QED BY <1>1, <1>2, <1>3 DEF Raised

LEMMA PurgeGrounds ==
  ASSUME SessionInv, SessionInv', SeatInv, GroundsInv, NEW t \in Tabs, Purging(t)
  PROVE  GroundsInv'
<1>1. /\ store' = [confirmed |-> None, generation |-> store.generation + 1, queue |-> {}]
      /\ Alone(t) /\ net' \subseteq net /\ UNCHANGED <<history, receipt, lock, order, grounds>>
  BY DEF Purging
<1>2. store'.confirmed = None /\ store'.queue = {} /\ Raised
  BY <1>1 DEF Raised
<1>3. Queued(store', Asks, Traced)
  BY <1>2 DEF Queued
<1>4. ASSUME NEW h \in Tabs, lock = h  PROVE Held(session'[h], store', Asks, Done, Traced)
  <2>1. Held(session[h], store, Asks, Done, Traced)
    BY <1>4 DEF GroundsInv
  <2>2. /\ \A w \in session[h].writing : w.guard # store'.generation
        /\ session[h].stage = "sending" => session[h].guard # store'.generation
    BY <1>2, GuardsAreStale
  <2>3. Held(session[h], store', Asks, Done, Traced)
    BY <1>2, <2>1, <2>2, HeldRaised
  <2>4. CASE h # t
    BY <1>1, <2>3, <2>4 DEF Alone
  <2>5. CASE h = t
    <3>1. /\ session'[t].writing = session[t].writing /\ session'[t].entries = {} /\ session'[t].confirmed = None
          /\ Carries(session'[t], session[t]) /\ Coherent(session'[t])
      BY DEF Purging, SessionInv, SessionTypeOK
    <3> QED BY <1>2, <2>3, <2>5, <3>1, HeldEmptied
  <2> QED BY <2>4, <2>5
<1> QED BY <1>1, <1>3, <1>4, GroundsStay

LEMMA ForgetGrounds ==
  ASSUME SessionInv, SessionInv', SeatInv, GroundsInv, NEW t \in Tabs, Forgetting(t)
  PROVE  GroundsInv'
<1>1. /\ store' = [store EXCEPT !.generation = @ + 1] /\ store \in Stores
      /\ Alone(t) /\ UNCHANGED <<history, receipt, net, lock, order, grounds>>
  BY TabsAreOK DEF Forgetting, OtherTypes
<1>2. store'.confirmed = store.confirmed /\ store'.queue = store.queue /\ Raised
  BY <1>1 DEF Raised, Stores
<1>3. Queued(store', Asks, Traced)
  BY <1>2 DEF Queued, GroundsInv
<1>4. ASSUME NEW h \in Tabs, lock = h  PROVE Held(session'[h], store', Asks, Done, Traced)
  <2>1. Held(session[h], store, Asks, Done, Traced)
    BY <1>4 DEF GroundsInv
  <2>2. /\ \A w \in session[h].writing : w.guard # store'.generation
        /\ session[h].stage = "sending" => session[h].guard # store'.generation
    BY <1>2, GuardsAreStale
  <2>3. Held(session[h], store', Asks, Done, Traced)
    BY <1>2, <2>1, <2>2, HeldRaised
  <2>4. CASE h # t
    BY <1>1, <2>3, <2>4 DEF Alone
  <2>5. CASE h = t
    <3>1. /\ session'[t].writing = session[t].writing /\ SameCache(session'[t], session[t])
          /\ Carries(session'[t], session[t]) /\ Coherent(session'[t])
      BY DEF Forgetting, SessionInv, SessionTypeOK
    <3> QED BY <2>3, <2>5, <3>1, HeldSame
  <2> QED BY <2>4, <2>5
<1> QED BY <1>1, <1>3, <1>4, GroundsStay

LEMMA DoneIsAsked ==
  ASSUME NEW id \in Done
  PROVE  \E a \in Asks : a.id = id
<1> DEFINE a == [id |-> id, base |-> receipt[id].revision - 1]
<1>1. a \in Asks /\ a.id = id
  BY DEF Asks
<1> QED BY <1>1

(* What a tab may store while the store has no sheet. *)
LEMMA NobodyIsExposed ==
  ASSUME SessionInv, SeatInv, NEW t \in Tabs, NEW h \in Tabs, lock = h, Confirming(t), store.confirmed = None
  PROVE  /\ session[h].entries = {} /\ session[h].front = None /\ session[t].confirmed = None
<1> DEFINE s == session[t]
<1>1. PICK v \in Nat \cap {s.view, s.sideView} : Confirms(s, v)
  BY DEF Confirming
<1>2. s.generation = store.generation /\ s.error # "purged" /\ s.confirmed = None
  BY <1>1 DEF Confirms, Overtook, Gone
<1>3. s.side = "refreshing" \/ (Holding(s) /\ s.front = None)
  BY DEF Confirming
<1>4. CASE s.side = "refreshing"
  <2>1. Risky(s, store)
    BY <1>2, <1>4 DEF Risky
  <2>2. ~ Exposed(h, t)
    BY <2>1 DEF SeatInv
  <2>3. session[h].front = None /\ session[h].confirmed = None
    BY <1>2, <2>2 DEF Exposed
  <2> QED BY <1>2, <2>3, SeatFacts DEF Seated
<1>5. CASE Holding(s) /\ s.front = None
  <2>1. h = t
    BY <1>5, SeatFacts
  <2> QED BY <1>2, <1>5, <2>1, SeatFacts DEF Seated
<1> QED BY <1>3, <1>4, <1>5

LEMMA ConfirmGrounds ==
  ASSUME SessionInv, SessionInv', SeatInv, GroundsInv, NEW t \in Tabs, Confirming(t)
  PROVE  GroundsInv'
<1> DEFINE s == session[t]
           u == session'[t]
<1>1. PICK v \in Nat \cap {s.view, s.sideView} :
        /\ Confirms(s, v)
        /\ store' = [store EXCEPT !.confirmed = v, !.generation = @ + 1]
        /\ Renews(u, s, v) /\ Carries(u, s)
  BY DEF Confirming
<1>2. /\ Alone(t) /\ UNCHANGED <<history, receipt, net, lock, order, grounds>>
      /\ store \in Stores /\ s \in SessionType /\ v \in Nat /\ v # None
  BY TabsAreOK DEF Confirming, OtherTypes
<1>3. /\ store'.confirmed = v /\ store'.queue = store.queue /\ store'.generation = store.generation + 1 /\ Raised
  BY <1>1, <1>2 DEF Stores, Raised
<1>4. s.open /\ s.generation = store.generation /\ s.confirmed = store.confirmed
  <2>1. s.side = "refreshing" \/ Holding(s)
    BY DEF Confirming
  <2>2. s.open
    BY <2>1, SeatFacts DEF Seated
  <2>3. s.generation = store.generation
    BY <1>1 DEF Confirms, Overtook
  <2> QED BY <2>2, <2>3, SeatFacts DEF Seated
<1>5. s.confirmed # None => s.confirmed \in Nat /\ s.confirmed <= v
  BY <1>1, <1>2 DEF Confirms, Behind, SessionType, Snapshot
<1>6. store.confirmed = None => store.queue = {}
  BY DEF SessionInv, CacheInv, NoEditOutlivesAccess
<1>7. Queued(store', Asks, Traced)
  <2>1. ASSUME NEW x \in store.queue  PROVE x.base <= v
    <3>1. x.base \in Nat /\ s.confirmed # None
      BY <1>2, <1>4, <1>6, <2>1 DEF Stores, Entry
    <3>2. x.base <= s.confirmed
      BY <1>4, <3>1 DEF GroundsInv, Queued
    <3> QED BY <1>5, <3>1, <3>2
  <2> QED BY <1>3, <2>1 DEF GroundsInv, Queued
<1>8. ASSUME NEW h \in Tabs, lock = h  PROVE Held(session'[h], store', Asks, Done, Traced)
  <2> DEFINE x == session[h]
  <2>1. Held(x, store, Asks, Done, Traced) /\ Coherent(x)
    BY <1>8, TabsAreOK DEF GroundsInv
  <2>2. /\ \A w \in x.writing : w.guard # store'.generation
        /\ x.stage = "sending" => x.guard # store'.generation
    BY <1>3, GuardsAreStale
  <2>3. store.confirmed = None => x.entries = {} /\ x.front = None /\ x.stage \notin {"freezing", "sending"}
    BY <1>8, <2>1, NobodyIsExposed DEF Coherent
  <2>4. Held(x, store', Asks, Done, Traced)
    <3>1. store'.queue \subseteq store.queue
      BY <1>3
    <3> HIDE DEF x
    <3> QED BY <1>3, <2>1, <2>2, <2>3, <3>1, HeldRaised
  <2>5. CASE h # t
    BY <1>2, <2>4, <2>5 DEF Alone
  <2>6. CASE h = t
    <3>1. /\ Coherent(u) /\ Carries(u, s) /\ u.writing = s.writing /\ u.entries = s.entries /\ u.confirmed = v
      BY <1>1 DEF Renews, SessionInv, SessionTypeOK
    <3>2. Valid(s, store') = {}
      BY <2>2, <2>6 DEF Valid
    <3>3. Waiting(s, store') = s.entries \cup store.queue
      BY <1>3, <3>2 DEF Waiting
    <3>4. \A y \in Waiting(s, store') : y.base \in Nat
      BY <1>2, <3>3 DEF SessionType, Stores, Entry
    <3>5. \/ s.confirmed \in Nat /\ s.confirmed # None /\ s.confirmed <= v
          \/ u.front = None /\ Waiting(s, store') = {}
      <4>1. CASE store.confirmed # None
        BY <1>4, <1>5, <4>1
      <4>2. CASE store.confirmed = None
        <5>1. Waiting(s, store') = {}
          BY <1>6, <2>3, <2>6, <3>3, <4>2
        <5>2. u.front = None
          BY <2>3, <2>6, <3>1, <4>2 DEF Carries
        <5> QED BY <5>1, <5>2
      <4> QED BY <4>1, <4>2
    <3>6. Held(s, store', Asks, Done, Traced) /\ (s.stage = "sending" => s.guard # store'.generation)
      BY <2>2, <2>4, <2>6
    <3> HIDE DEF s, u
    <3>7. Held(u, store', Asks, Done, Traced)
      BY <1>2, <3>1, <3>4, <3>5, <3>6, HeldConfirmed
    <3> QED BY <2>6, <3>7 DEF u
  <2> QED BY <2>5, <2>6
<1> QED BY <1>2, <1>7, <1>8, GroundsStay

----------------------------------------------------------------------------
(* Tabs that come and go. *)

LEMMA AcquireGrounds ==
  ASSUME SessionInv, SessionInv', SeatInv, GroundsInv, NEW t \in Tabs, Acquiring(t)
  PROVE  GroundsInv'
<1> DEFINE u == session'[t]
<1>1. /\ lock = None /\ lock' = t /\ FromStore(u) /\ u.writing = session[t].writing /\ u.front = None /\ Coherent(u)
      /\ Alone(t) /\ UNCHANGED <<history, receipt, net, store, order, grounds>>
  BY DEF Acquiring, SessionInv, SessionTypeOK
<1>2. Queued(store, Asks, Traced) /\ store \in Stores
  BY TabsAreOK DEF GroundsInv, OtherTypes
<1>3. u.writing = {}
  BY <1>1 DEF SeatInv
<1>4. Valid(u, store) = {} /\ Written(u) = {}
  BY <1>3 DEF Valid, Written
<1>5. \A x \in store.queue : x.id \in Ids
  BY <1>2 DEF Stores, Entry
<1>6. u.entries = store.queue /\ u.confirmed = store.confirmed
  BY <1>1 DEF FromStore
<1> HIDE DEF u
<1>7. Held(u, store, Asks, Done, Traced)
  BY <1>1, <1>2, <1>3, <1>4, <1>5, <1>6, HeldFresh
<1>8. Queued(store', Asks, Traced)
  BY <1>1, <1>2
<1>9. \A h \in Tabs : lock' = h => Held(session'[h], store', Asks, Done, Traced)
  BY <1>1, <1>7 DEF u
<1> QED BY <1>1, <1>8, <1>9, GroundsStay

LEMMA ComeAndGoGrounds ==
  ASSUME SessionInv, SessionInv', SeatInv, GroundsInv, NEW t \in Tabs, Opening(t) \/ Leaving(t)
  PROVE  GroundsInv'
<1>1. Alone(t) /\ UNCHANGED <<history, receipt, net, store, order, grounds>>
  BY DEF Opening, Leaving
<1>2. \A h \in Tabs : lock' = h => lock = h /\ h # t
  BY DEF Opening, Leaving, SeatInv
<1>3. \A h \in Tabs : lock' = h => Held(session'[h], store', Asks, Done, Traced)
  BY <1>1, <1>2 DEF Alone, GroundsInv
<1>4. Queued(store', Asks, Traced)
  BY <1>1 DEF GroundsInv
<1> QED BY <1>1, <1>3, <1>4, GroundsStay

----------------------------------------------------------------------------
(* The drain takes the next edit, or goes on with the one that was saved. *)
LEMMA BeginGrounds ==
  ASSUME SessionInv, SessionInv', SeatInv, ServedInv, GroundsInv, NEW t \in Tabs, Beginning(t)
  PROVE  GroundsInv'
<1> DEFINE s == session[t]
           u == session'[t]
           f == u.front
           A == Asks
           T == Traced
           D == Done
<1>1. /\ s.owned /\ f \in Entry /\ f # None
      /\ \/ s.stage = "pass" /\ f \in s.entries /\ u.stage = (IF Writing(s, f.id) THEN "entry" ELSE "freezing")
         \/ s.stage = "entry" /\ f = s.front /\ ~ Writing(s, f.id) /\ u.stage = "freezing"
      /\ u.stage = "freezing" => s.confirmed = None \/ f.base = s.confirmed
      /\ Plain(u, s)
      /\ Alone(t) /\ UNCHANGED <<history, receipt, net, store, lock, order, grounds>>
  BY DEF Beginning
<1>2. /\ u.entries = s.entries /\ u.confirmed = s.confirmed /\ u.generation = s.generation /\ u.writing = s.writing
  BY <1>1 DEF Plain, SameCache
<1>3. lock = t /\ Seated(s, store) /\ store \in Stores /\ s \in SessionType
  BY <1>1, SeatFacts DEF Holding
<1>4. Held(s, store, A, D, T) /\ Queued(store, A, T)
  BY <1>3 DEF GroundsInv
<1>5. /\ Fronts(u) = {f} /\ f \in Shows(s) /\ Shows(u) \subseteq Shows(s) /\ Written(u) = Written(s)
      /\ Valid(u, store) = Valid(s, store) /\ Waiting(u, store) = Waiting(s, store)
      /\ \A id : Writing(u, id) <=> Writing(s, id)
  BY <1>1, <1>2 DEF Fronts, Shows, Written, Valid, Waiting, Writing
<1>6. f \in s.entries \/ (s.stage = "entry" /\ f \in Fronts(s) /\ ~ f.frozen)
  BY <1>1, <1>4 DEF Held, Agrees, Fronts
<1>7. u.stage \in {"entry", "freezing"} /\ (u.stage = "entry" <=> Writing(s, f.id))
  BY <1>1
<1>8. KnownIn(u, T)
  BY <1>4, <1>5 DEF Held, KnownIn
<1>9. SentBy(u, A)
  <2>1. \A a \in A : a.id = f.id => a.base = f.base /\ f.frozen
    BY <1>4, <1>6 DEF Held, SentBy
  <2> QED BY <1>2, <1>4, <1>5, <2>1 DEF Held, SentBy
<1>10. Unsaved(u, store, A)
  BY <1>2, <1>4, <1>5 DEF Held, Unsaved
<1>11. u.stage = "entry" => ~ f.frozen
  <2> SUFFICES ASSUME Writing(s, f.id)  PROVE ~ f.frozen
    BY <1>7
  <2>1. PICK w \in s.writing : w.entry.id = f.id
    BY DEF Writing
  <2> QED BY <1>4, <1>5, <2>1 DEF Held, Unsaved
<1>12. Agrees(u, store)
  <2>1. \A y \in s.entries \cup store.queue : y.id = f.id => y.base = f.base
    BY <1>4, <1>6 DEF Held, Agrees
  <2>2. u.stage \in {"freezing", "sending"} => ~ Writing(u, u.front.id)
    BY <1>5, <1>7
  <2> QED BY <1>2, <1>4, <1>5, <1>7, <1>11, <2>1, <2>2 DEF Held, Agrees
<1>13. Bounded(u, store, D)
  <2>1. ASSUME f.id \in D  PROVE f \in s.entries
    <3>1. \E a \in A : a.id = f.id
      BY <2>1, DoneIsAsked
    <3> QED BY <1>4, <1>6, <3>1 DEF Held, SentBy
  <2>2. ASSUME u.stage = "freezing", f.id \in D, NEW x \in Waiting(s, store)  PROVE x.base <= f.base + 1
    <3>1. s.confirmed # None /\ s.confirmed = f.base
      BY <1>1, <1>3, <2>1, <2>2 DEF Seated
    <3>2. x.base <= f.base
      BY <1>4, <2>2, <3>1 DEF Held, Bounded
    <3>3. x.base \in Nat /\ f.base \in Nat
      BY <1>1, <1>3 DEF Waiting, Valid, SessionType, Stores, Entry
    <3> QED BY <3>2, <3>3
  <2>3. u.stage = "freezing" /\ f.frozen => u.entries # {}
    BY <1>2, <1>6
  <2> QED BY <1>2, <1>4, <1>5, <1>7, <2>2, <2>3 DEF Held, Bounded, Live
<1>14. Stored(u, store)
  <2>1. u.stage = "freezing" /\ f.frozen /\ store.confirmed # None => f.id \in IdsOf(store.queue)
    BY <1>4, <1>6, <1>7 DEF Held, Stored
  <2> QED BY <1>2, <1>4, <1>5, <1>7, <2>1 DEF Held, Stored
<1>15. Held(u, store, A, D, T)
  BY <1>8, <1>9, <1>10, <1>12, <1>13, <1>14 DEF Held
<1>16. \A h \in Tabs : lock' = h => Held(session'[h], store', A, D, T)
  BY <1>1, <1>3, <1>15
<1> QED BY <1>1, <1>4, <1>16, GroundsStay

(* The server answers a request, or somebody else edits: every request is  *)
(* still traced to the revision its user saw.                               *)
LEMMA HistoryGrows ==
  ASSUME SessionInv, ServedInv, NEW x \in Ids \cup {Other}, history' = Append(history, x),
         UNCHANGED <<grounds, order>>
  PROVE  /\ Revision \in Nat /\ Revision' = Revision + 1 /\ history'[Revision + 1] = x
         /\ \A n \in 1..Revision : history'[n] = history[n]
         /\ \A n \in 0..Revision : ForeignIn(history', n) = ForeignIn(history, n)
         /\ ForeignIn(history, Revision) <= ForeignIn(history', Revision + 1)
         /\ ForeignIn(history, Revision) \in Nat /\ ForeignIn(history', Revision + 1) \in Nat
         /\ Traced \subseteq Traced'
<1>1. history \in Seq(Ids \cup {Other})
  BY DEF SessionInv, SessionTypeOK
<1>2. /\ Revision \in Nat /\ Revision' = Revision + 1 /\ history'[Revision + 1] = x
      /\ \A n \in 1..Revision : history'[n] = history[n]
  BY <1>1 DEF Revision
<1>3. Revision \in Nat
  BY <1>2
<1>4. \A n \in 0..Revision : ForeignIn(history', n) = ForeignIn(history, n)
  <2> SUFFICES ASSUME NEW n \in 0..Revision  PROVE ForeignIn(history', n) = ForeignIn(history, n)
    OBVIOUS
  <2>1. n \in Nat /\ n <= Revision
    BY <1>3
  <2>2. \A m \in 1..n : m \in 1..Revision
    BY <1>3, <2>1
  <2>3. \A m \in 1..n : history'[m] = history[m]
    BY <1>2, <2>2
  <2> QED BY <2>1, <2>3, ForeignKept
<1>5. /\ ForeignIn(history', Revision) <= ForeignIn(history', Revision + 1)
      /\ ForeignIn(history', Revision) \in Nat /\ ForeignIn(history', Revision + 1) \in Nat
  <2>1. Revision + 1 \in Nat /\ Revision \in 0..(Revision + 1)
    BY <1>3
  <2> QED BY <1>3, <2>1, ForeignCounts
<1>6. Traced \subseteq Traced'
  <2> SUFFICES ASSUME NEW a \in Traced  PROVE a \in Traced'
    OBVIOUS
  <2>1. /\ a \in Ask /\ a.base \in 0..Revision /\ ForeignIn(history, a.base) <= grounds[a.id] /\ order[a.id[1]] > 0
    BY <1>3 DEF Traced, Ask
  <2>2. a.base <= Revision + 1 /\ ForeignIn(history', a.base) = ForeignIn(history, a.base)
    BY <1>3, <1>4, <2>1
  <2> QED BY <1>2, <1>3, <2>1, <2>2 DEF Traced
<1>7. ForeignIn(history', Revision) = ForeignIn(history, Revision)
  <2>1. Revision \in 0..Revision
    BY <1>3
  <2> QED BY <1>4, <2>1
<1>8. /\ ForeignIn(history, Revision) <= ForeignIn(history', Revision + 1)
      /\ ForeignIn(history, Revision) \in Nat /\ ForeignIn(history', Revision + 1) \in Nat
  BY <1>5, <1>7
<1> QED BY <1>2, <1>4, <1>6, <1>8

LEMMA ElsewhereGrounds ==
  ASSUME SessionInv, ServedInv, GroundsInv, EditingElsewhere
  PROVE  GroundsInv'
<1>1. history' = Append(history, Other) /\ UNCHANGED <<receipt, net, store, lock, session, order, grounds>>
  BY DEF EditingElsewhere
<1>2. /\ Revision \in Nat /\ Revision' = Revision + 1 /\ history'[Revision + 1] = Other
      /\ \A n \in 1..Revision : history'[n] = history[n]
      /\ \A n \in 0..Revision : ForeignIn(history', n) = ForeignIn(history, n)
      /\ ForeignIn(history, Revision) <= ForeignIn(history', Revision + 1)
      /\ ForeignIn(history, Revision) \in Nat /\ ForeignIn(history', Revision + 1) \in Nat
      /\ Traced \subseteq Traced'
  BY <1>1, HistoryGrows
<1>3. Done' = Done /\ Asks' = Asks
  BY <1>1 DEF Done, Asks
<1>4. WorldInv'
  <2>1. \A id \in Ids : grounds'[id] <= ForeignIn(history', Revision')
    <3> SUFFICES ASSUME NEW id \in Ids  PROVE grounds[id] <= ForeignIn(history', Revision + 1)
      BY <1>1, <1>2
    <3>1. grounds[id] \in Nat /\ grounds[id] <= ForeignIn(history, Revision)
      BY DEF SessionInv, SessionTypeOK, GroundsInv, WorldInv
    <3> QED BY <1>2, <3>1
  <2>2. Asks' \subseteq Traced' /\ \A a, b \in Asks' : a.id = b.id => a.base = b.base
    BY <1>2, <1>3 DEF GroundsInv, WorldInv
  <2>3. ASSUME NEW n \in 1..(Revision + 1), history'[n] # Other
        PROVE  ForeignIn(history', n - 1) = grounds[history'[n]]
    <3>1. n \in 1..Revision /\ n - 1 \in 0..Revision
      BY <1>2, <2>3
    <3>2. history'[n] = history[n] /\ ForeignIn(history', n - 1) = ForeignIn(history, n - 1)
      BY <1>2, <3>1
    <3> QED BY <2>3, <3>1, <3>2 DEF GroundsInv, WorldInv
  <2> QED BY <1>1, <1>2, <2>1, <2>2, <2>3 DEF WorldInv
<1>5. Queued(store', Asks', Traced')
  BY <1>1, <1>2, <1>3, LessIsKept DEF GroundsInv
<1>6. \A t \in Tabs : lock' = t => Held(session'[t], store', Asks', Done', Traced')
  BY <1>1, <1>2, <1>3, LessIsKept DEF GroundsInv
<1> QED BY <1>4, <1>5, <1>6 DEF GroundsInv

(* A request that is applied was made on the revision that is there: the   *)
(* tab that sent it has nothing newer.                                      *)
LEMMA HeldServed ==
  ASSUME NEW s, NEW st, NEW A, NEW D, NEW T, NEW r \in A, NEW n \in Nat, Held(s, st, A, D, T),
         r.base = n, \A a \in T : a.base \in Nat /\ a.base <= n,
         Queued(st, A, T), s.confirmed # None => s.confirmed \in Nat /\ s.confirmed <= n,
         s.stage \in {"freezing", "sending"} => s.front # None
  PROVE  Held(s, st, A, D \cup {r.id}, T)
<1>1. \A x \in Waiting(s, st) : x.base \in Nat /\ x.base <= n
  <2> SUFFICES ASSUME NEW x \in Waiting(s, st)  PROVE AskOf(x) \in T
    BY DEF AskOf
  <2>1. x \in Shows(s) \cup Written(s) \cup st.queue
    BY DEF Waiting, Shows, Valid, Written
  <2> QED BY <2>1 DEF Held, KnownIn, Queued
<1>2. Live(s, st) /\ s.front.id = r.id => s.front.base = n
  <2> SUFFICES ASSUME Live(s, st), s.front.id = r.id  PROVE s.front.base = n
    OBVIOUS
  <2>1. s.front \in Fronts(s)
    BY DEF Fronts, Live
  <2> QED BY <2>1 DEF Held, SentBy
<1>3. Live(s, st) /\ s.front.id = r.id => \A x \in Waiting(s, st) : x.base <= s.front.base + 1
  BY <1>1, <1>2
<1>4. Live(s, st) /\ s.front.id = r.id /\ s.confirmed # None => s.confirmed <= s.front.base + 1
  BY <1>2
<1>5. Bounded(s, st, D \cup {r.id})
  BY <1>3, <1>4 DEF Held, Bounded
<1> QED BY <1>5 DEF Held

LEMMA ServeGrounds ==
  ASSUME SessionInv, SeatInv, ServedInv, GroundsInv, Serving
  PROVE  GroundsInv'
<1>1. UNCHANGED <<store, lock, session, order, grounds>>
  BY DEF Serving
<1>2. PICK r \in net :
       /\ net' = net \ {r}
       /\ \/ UNCHANGED <<history, receipt>>
          \/ /\ receipt[r.id].outcome = "none" /\ r.base = Revision
             /\ history' = Append(history, r.id)
             /\ receipt' = [receipt EXCEPT ![r.id] = [outcome |-> "applied", revision |-> Revision + 1]]
          \/ /\ receipt[r.id].outcome = "none"
             /\ receipt' = [receipt EXCEPT ![r.id].outcome = "refused"]
                  \/ receipt' = [receipt EXCEPT ![r.id].outcome = "conflict"]
             /\ UNCHANGED history
  BY DEF Serving
<1>3. /\ history \in Seq(Ids \cup {Other}) /\ net \in SUBSET Ask /\ grounds \in [Ids -> Nat]
      /\ receipt \in [Ids -> [outcome : {"none", "applied", "refused", "conflict"}, revision : Nat]]
  BY DEF SessionInv, SessionTypeOK
<1>4. r \in Ask /\ r \in Asks /\ r.id \in Ids /\ r = [id |-> r.id, base |-> r.base]
  BY <1>3 DEF Ask, Asks
<1>5. CASE UNCHANGED <<history, receipt>>
  <2>1. Queued(store', Asks, Traced) /\ \A t \in Tabs : lock' = t => Held(session'[t], store', Asks, Done, Traced)
    BY <1>1 DEF GroundsInv
  <2> QED BY <1>1, <1>2, <1>5, <2>1, GroundsStay
<1>6. CASE /\ receipt[r.id].outcome = "none"
           /\ receipt' = [receipt EXCEPT ![r.id].outcome = "refused"]
                \/ receipt' = [receipt EXCEPT ![r.id].outcome = "conflict"]
           /\ UNCHANGED history
  <2>1. receipt'[r.id].outcome # "applied" /\ \A id \in Ids \ {r.id} : receipt'[id] = receipt[id]
    BY <1>3, <1>4, <1>6
  <2>2. Done' = Done
    BY <1>6, <2>1 DEF Done
  <2>3. \A id \in Done : receipt'[id] = receipt[id]
    BY <1>6, <2>1 DEF Done
  <2>4. Asks' \subseteq Asks
    BY <1>2, <2>2, <2>3 DEF Asks
  <2>5. Traced' = Traced
    BY <1>1, <1>6 DEF Traced, Revision
  <2>6. WorldInv'
    BY <1>1, <1>6, <2>4, <2>5 DEF GroundsInv, WorldInv, Revision
  <2>7. Queued(store', Asks', Traced') /\ \A t \in Tabs : lock' = t => Held(session'[t], store', Asks', Done', Traced')
    BY <1>1, <2>2, <2>4, <2>5, LessIsKept DEF GroundsInv
  <2> QED BY <2>6, <2>7 DEF GroundsInv
<1>7. CASE /\ receipt[r.id].outcome = "none" /\ r.base = Revision
           /\ history' = Append(history, r.id)
           /\ receipt' = [receipt EXCEPT ![r.id] = [outcome |-> "applied", revision |-> Revision + 1]]
  <2>1. /\ Revision \in Nat /\ Revision' = Revision + 1 /\ history'[Revision + 1] = r.id
        /\ \A n \in 1..Revision : history'[n] = history[n]
        /\ \A n \in 0..Revision : ForeignIn(history', n) = ForeignIn(history, n)
        /\ ForeignIn(history, Revision) <= ForeignIn(history', Revision + 1)
        /\ ForeignIn(history, Revision) \in Nat /\ ForeignIn(history', Revision + 1) \in Nat
        /\ Traced \subseteq Traced'
    BY <1>1, <1>4, <1>7, HistoryGrows
  <2>2. /\ receipt'[r.id] = [outcome |-> "applied", revision |-> Revision + 1]
        /\ \A id \in Ids \ {r.id} : receipt'[id] = receipt[id]
    BY <1>3, <1>4, <1>7
  <2>3. Done' = Done \cup {r.id}
    BY <1>4, <2>2 DEF Done
  <2>4. \A id \in Done : receipt'[id] = receipt[id]
    BY <1>7, <2>2 DEF Done
  <2>5. Asks' \subseteq Asks
    <3> SUFFICES ASSUME NEW id \in Done'  PROVE [id |-> id, base |-> receipt'[id].revision - 1] \in Asks
      BY ZenonT(40), <1>2 DEF Asks
    <3>1. CASE id = r.id
      <4>1. receipt'[id].revision - 1 = r.base
        BY <1>7, <2>1, <2>2, <3>1
      <4> QED BY <1>4, <3>1, <4>1
    <3>2. CASE id \in Done
      BY <2>4, <3>2 DEF Asks
    <3> QED BY <2>3, <3>1, <3>2
  <2>6. grounds[r.id] = ForeignIn(history, Revision)
    <3>1. r \in Traced /\ grounds[r.id] <= ForeignIn(history, Revision) /\ grounds[r.id] \in Nat
      BY <1>3, <1>4 DEF GroundsInv, WorldInv
    <3>2. ForeignIn(history, Revision) <= grounds[r.id]
      BY <1>7, <3>1 DEF Traced
    <3> QED BY <2>1, <3>1, <3>2
  <2>7. WorldInv'
    <3>1. \A id \in Ids : grounds'[id] <= ForeignIn(history', Revision')
      <4> SUFFICES ASSUME NEW id \in Ids  PROVE grounds[id] <= ForeignIn(history', Revision + 1)
        BY <1>1, <2>1
      <4>1. grounds[id] \in Nat /\ grounds[id] <= ForeignIn(history, Revision)
        BY <1>3 DEF GroundsInv, WorldInv
      <4> QED BY <2>1, <4>1
    <3>2. Asks' \subseteq Traced' /\ \A a, b \in Asks' : a.id = b.id => a.base = b.base
      BY <2>1, <2>5 DEF GroundsInv, WorldInv
    <3>3. ASSUME NEW n \in 1..(Revision + 1), history'[n] # Other
          PROVE  ForeignIn(history', n - 1) = grounds[history'[n]]
      <4>1. CASE n \in 1..Revision
        <5>1. n - 1 \in 0..Revision
          BY <2>1, <4>1
        <5>2. history'[n] = history[n] /\ ForeignIn(history', n - 1) = ForeignIn(history, n - 1)
          BY <2>1, <4>1, <5>1
        <5> QED BY <3>3, <4>1, <5>2 DEF GroundsInv, WorldInv
      <4>2. CASE n = Revision + 1
        <5>1. n - 1 = Revision /\ Revision \in 0..Revision /\ history'[n] = r.id
          BY <2>1, <4>2
        <5> QED BY <2>1, <2>6, <5>1
      <4> QED BY <2>1, <4>1, <4>2
    <3> QED BY <1>1, <2>1, <3>1, <3>2, <3>3 DEF WorldInv
  <2>8. Queued(store', Asks', Traced')
    BY <1>1, <2>1, <2>5, LessIsKept DEF GroundsInv
  <2>9. \A t \in Tabs : lock' = t => Held(session'[t], store', Asks', Done', Traced')
    <3> SUFFICES ASSUME NEW t \in Tabs, lock = t  PROVE Held(session[t], store, Asks', Done', Traced')
      BY <1>1
    <3>1. Held(session[t], store, Asks, Done, Traced) /\ Queued(store, Asks, Traced)
      BY DEF GroundsInv
    <3>2. \A a \in Traced : a.base \in Nat /\ a.base <= Revision
      BY DEF Traced, Ask
    <3>3. session[t].confirmed # None => session[t].confirmed \in Nat /\ session[t].confirmed <= Revision
      BY SeatFacts DEF Seen, SessionType, Snapshot
    <3>4. session[t].stage \in {"freezing", "sending"} => session[t].front # None
      BY TabsAreOK DEF Coherent
    <3>5. Held(session[t], store, Asks, Done \cup {r.id}, Traced)
      BY <1>4, <1>7, <2>1, <3>1, <3>2, <3>3, <3>4, HeldServed
    <3> QED BY <2>1, <2>3, <2>5, <3>5, LessIsKept
  <2> QED BY <2>7, <2>8, <2>9 DEF GroundsInv
<1> QED BY <1>2, <1>5, <1>6, <1>7

LEMMA IdPairs ==
  ASSUME NEW a \in Ids, NEW b \in Ids
  PROVE  /\ a[1] \in UserEdits /\ a[2] \in Nat
         /\ a[1] = b[1] /\ a[2] = b[2] => a = b
BY DEF Ids

(* y is x, frozen if it is the edit with that key. *)
Chilled(y, x, id) ==
  /\ y \in Entry /\ y.id = x.id /\ y.base = x.base
  /\ y.frozen <=> x.frozen \/ x.id = id

LEMMA FrozeItems ==
  ASSUME NEW queue \in SUBSET Entry, NEW id
  PROVE  /\ \A y \in Froze(queue, id) : \E x \in queue : Chilled(y, x, id)
         /\ \A x \in queue : \E y \in Froze(queue, id) : Chilled(y, x, id)
         /\ IdsOf(Froze(queue, id)) = IdsOf(queue)
<1> DEFINE Cold(e) == IF e.id = id THEN [e EXCEPT !.frozen = TRUE] ELSE e
<1>1. \A x \in queue : Chilled(Cold(x), x, id)
  BY DEF Entry, Chilled
<1>2. Froze(queue, id) = {Cold(e) : e \in queue}
  BY DEF Froze
<1> HIDE DEF Cold
<1>3. IdsOf(Froze(queue, id)) = IdsOf(queue)
  BY <1>1, <1>2 DEF IdsOf, Chilled
<1> QED BY <1>1, <1>2, <1>3

LEMMA SameEntry ==
  ASSUME NEW x \in Entry, NEW y \in Entry, x.id = y.id, x.base = y.base, x.frozen <=> y.frozen
  PROVE  x = y
BY DEF Entry

(* The request is stored as frozen, in the store and in the tab, and sent. *)
LEMMA HeldFrozen ==
  ASSUME NEW s \in SessionType, NEW u, NEW st \in Stores, NEW nt, NEW A, NEW D, NEW T,
         Held(s, st, A, D, T), s.stage = "freezing", NEW f \in Entry, f = s.front,
         f.frozen \/ f.id \in IdsOf(st.queue), f.id \in D => f.frozen,
         nt.queue = Froze(st.queue, f.id), nt.confirmed = st.confirmed, nt.generation = st.generation,
         u.writing = s.writing, u.entries = Froze(s.entries, f.id), u.confirmed = s.confirmed,
         \/ u.front = f /\ u.stage = "sending"
         \/ u.front = None /\ u.stage \notin {"entry", "freezing", "sending"}
  PROVE  Held(u, nt, A \cup {AskOf(f)}, D, T)
<1> DEFINE B == A \cup {AskOf(f)}
<1>1. /\ s.entries \in SUBSET Entry /\ st.queue \in SUBSET Entry
      /\ \A w \in s.writing : w.entry \in Entry
  BY DEF SessionType, Stores
<1>2. \A x \in s.entries \cup st.queue : x.id \in Ids /\ x.base \in Nat
  BY <1>1 DEF Entry
<1>3. f.id \in Ids /\ \A w \in s.writing : w.entry.id \in Ids
  BY <1>1 DEF Entry
<1>4. f \in Fronts(s) /\ f \in Shows(s) /\ Fronts(u) \subseteq {f} /\ (Fronts(u) # {} => u.stage = "sending")
  BY DEF Fronts, Shows
<1>5. /\ \A y \in u.entries : \E x \in s.entries : Chilled(y, x, f.id)
      /\ \A x \in s.entries : \E y \in u.entries : Chilled(y, x, f.id)
      /\ IdsOf(u.entries) = IdsOf(s.entries)
  <2> DEFINE cold == Froze(s.entries, f.id)
  <2>1. /\ \A y \in cold : \E x \in s.entries : Chilled(y, x, f.id)
        /\ \A x \in s.entries : \E y \in cold : Chilled(y, x, f.id)
        /\ IdsOf(cold) = IdsOf(s.entries)
    BY <1>1, FrozeItems
  <2>2. u.entries = cold
    OBVIOUS
  <2> HIDE DEF cold
  <2> QED BY <2>1, <2>2
<1>6. /\ \A y \in nt.queue : \E x \in st.queue : Chilled(y, x, f.id)
      /\ IdsOf(nt.queue) = IdsOf(st.queue)
  BY <1>1, FrozeItems
<1>7. \A y \in Shows(u) : \E x \in Shows(s) : y.id = x.id /\ y.base = x.base /\ (y.frozen => x.frozen \/ x.id = f.id)
  BY <1>4, <1>5 DEF Shows, Chilled
<1>8. \A w \in s.writing : w.entry.id[1] # f.id[1]
  <2> SUFFICES ASSUME NEW w \in s.writing, w.entry.id[1] = f.id[1]  PROVE FALSE
    OBVIOUS
  <2>1. f.id[2] = 0 /\ w.entry.id[2] = 0
    BY <1>4 DEF Held, Unsaved
  <2>2. w.entry.id = f.id
    BY <1>3, <2>1, IdPairs
  <2> QED BY <2>2 DEF Held, Agrees, Writing
<1>9. KnownIn(u, T)
  <2>1. Written(u) = Written(s)
    BY DEF Written
  <2>2. \A y \in Shows(u) : AskOf(y) \in T
    BY <1>7 DEF Held, KnownIn, AskOf
  <2> QED BY <2>1, <2>2 DEF Held, KnownIn
<1>10. SentBy(u, B)
  <2>1. ASSUME NEW y \in u.entries, NEW a \in B, a.id = y.id  PROVE a.base = y.base /\ y.frozen
    <3>1. PICK x \in s.entries : Chilled(y, x, f.id)
      BY <1>5
    <3>2. CASE a \in A
      BY <2>1, <3>1, <3>2 DEF Held, SentBy, Chilled
    <3>3. CASE a = AskOf(f)
      BY <1>4, <2>1, <3>1, <3>3 DEF Held, Agrees, Chilled, AskOf
    <3> QED BY <3>2, <3>3
  <2>2. ASSUME NEW y \in Fronts(u), NEW a \in B, a.id = y.id  PROVE a.base = y.base
    <3>1. CASE a \in A
      BY <1>4, <2>2, <3>1 DEF Held, SentBy
    <3>2. CASE a = AskOf(f)
      BY <1>4, <3>2 DEF AskOf
    <3> QED BY <3>1, <3>2
  <2> QED BY <1>4, <2>1, <2>2 DEF SentBy
<1>11. Unsaved(u, nt, B)
  <2> SUFFICES ASSUME NEW w \in s.writing
               PROVE  /\ w.entry.id[2] = 0 /\ ~ w.entry.frozen
                      /\ \A x \in nt.queue : x.id[1] # w.entry.id[1]
                      /\ \A a \in B : a.id[1] # w.entry.id[1]
                      /\ \A v \in s.writing : v.entry.id[1] = w.entry.id[1] => v = w
                      /\ \A x \in Shows(u) : x.id[1] = w.entry.id[1]
                            => x.id[2] = 0 /\ ~ x.frozen /\ (w.guard = nt.generation => x.base = w.entry.base)
    BY DEF Unsaved
  <2>1. w.entry.id[2] = 0 /\ ~ w.entry.frozen /\ \A v \in s.writing : v.entry.id[1] = w.entry.id[1] => v = w
    BY DEF Held, Unsaved
  <2>2. \A x \in nt.queue : x.id[1] # w.entry.id[1]
    BY <1>6 DEF Held, Unsaved, Chilled
  <2>3. \A a \in B : a.id[1] # w.entry.id[1]
    BY <1>8 DEF Held, Unsaved, AskOf
  <2>4. ASSUME NEW y \in Shows(u), y.id[1] = w.entry.id[1]
        PROVE  y.id[2] = 0 /\ ~ y.frozen /\ (w.guard = nt.generation => y.base = w.entry.base)
    <3>1. PICK x \in Shows(s) : y.id = x.id /\ y.base = x.base /\ (y.frozen => x.frozen \/ x.id = f.id)
      BY <1>7
    <3>2. x.id # f.id
      BY <1>8, <2>4, <3>1
    <3> QED BY <2>4, <3>1, <3>2 DEF Held, Unsaved
  <2> QED BY <2>1, <2>2, <2>3, <2>4
<1>12. Agrees(u, nt)
  <2>1. ASSUME NEW x \in nt.queue, NEW y \in Shows(u), y.id[1] = x.id[1]  PROVE y.id[2] <= x.id[2]
    BY <1>6, <1>7, <2>1 DEF Held, Agrees, Chilled
  <2>2. ASSUME NEW x \in nt.queue, NEW y \in u.entries, x.id = y.id  PROVE x = y
    <3>1. PICK p \in st.queue : Chilled(x, p, f.id)
      BY <1>6
    <3>2. PICK q \in s.entries : Chilled(y, q, f.id)
      BY <1>5
    <3>3. p = q
      BY <2>2, <3>1, <3>2 DEF Held, Agrees, Chilled
    <3> QED BY <3>1, <3>2, <3>3, SameEntry DEF Chilled
  <2>3. ASSUME NEW y \in u.entries \cup nt.queue, y.id = f.id  PROVE y.base = f.base
    <3>1. PICK x \in s.entries \cup st.queue : Chilled(y, x, f.id)
      BY <1>5, <1>6
    <3>2. \A z \in s.entries \cup st.queue : z.id = f.id => z.base = f.base
      BY <1>4 DEF Held, Agrees
    <3> QED BY <2>3, <3>1, <3>2 DEF Chilled
  <2>4. ASSUME NEW x \in u.entries, NEW y \in u.entries, x.id = y.id  PROVE x = y
    <3>1. PICK p \in s.entries : Chilled(x, p, f.id)
      BY <1>5
    <3>2. PICK q \in s.entries : Chilled(y, q, f.id)
      BY <1>5
    <3>3. p = q
      BY <2>4, <3>1, <3>2 DEF Held, Agrees, Chilled
    <3> QED BY <3>1, <3>2, <3>3, SameEntry DEF Chilled
  <2>5. u.stage \in {"freezing", "sending"} => ~ Writing(u, u.front.id)
    <3>1. ~ Writing(s, f.id)
      BY DEF Held, Agrees
    <3> QED BY <3>1 DEF Writing
  <2> QED BY <1>4, <2>1, <2>2, <2>3, <2>4, <2>5 DEF Agrees
<1>13. Bounded(u, nt, D)
  <2>1. Valid(u, nt) = Valid(s, st)
    BY DEF Valid
  <2>2. \A y \in Waiting(u, nt) : \E x \in Waiting(s, st) : x.base = y.base
    BY <1>5, <1>6, <2>1 DEF Waiting, Chilled
  <2>3. u.confirmed # None => \A y \in Waiting(u, nt) : y.base <= u.confirmed
    BY <2>2 DEF Held, Bounded
  <2>4. Live(u, nt) => u.front = f /\ u.stage = "sending"
    BY DEF Live
  <2>5. f.id \in D => \A y \in Waiting(u, nt) : y.base <= f.base + 1
    BY <2>2 DEF Held, Bounded, Live
  <2>6. f.id \in D /\ s.confirmed # None => u.entries # {}
    BY <1>5 DEF Held, Bounded
  <2> QED BY <2>3, <2>4, <2>5, <2>6 DEF Bounded
<1>14. Stored(u, nt)
  <2>1. nt.confirmed # None => f.id \in IdsOf(nt.queue)
    BY <1>6 DEF Held, Stored
  <2>2. nt.confirmed # None => \A y \in u.entries : Writing(u, y.id) \/ y.id \in IdsOf(nt.queue)
    BY <1>5, <1>6 DEF Held, Stored, Writing, Chilled
  <2> QED BY <2>1, <2>2 DEF Stored
<1> QED BY <1>9, <1>10, <1>11, <1>12, <1>13, <1>14 DEF Held

LEMMA QueuedFrozen ==
  ASSUME NEW st \in Stores, NEW nt, NEW A, NEW T, Queued(st, A, T), NEW f \in Entry,
         \A x \in st.queue : x.id = f.id => x.base = f.base,
         \A x \in st.queue : f.id[1] = x.id[1] => f.id[2] <= x.id[2],
         nt.queue = Froze(st.queue, f.id), nt.confirmed = st.confirmed
  PROVE  Queued(nt, A \cup {AskOf(f)}, T)
<1> DEFINE B == A \cup {AskOf(f)}
<1>1. st.queue \in SUBSET Entry
  BY DEF Stores
<1>2. \A y \in nt.queue : \E x \in st.queue : Chilled(y, x, f.id)
  BY <1>1, FrozeItems
<1>3. \A y \in nt.queue : AskOf(y) \in T
  BY <1>2 DEF Queued, Chilled, AskOf
<1>4. ASSUME NEW y \in nt.queue, NEW a \in B, a.id = y.id  PROVE a.base = y.base /\ y.frozen
  <2>1. PICK x \in st.queue : Chilled(y, x, f.id)
    BY <1>2
  <2>2. CASE a \in A
    BY <1>4, <2>1, <2>2 DEF Queued, Chilled
  <2>3. CASE a = AskOf(f)
    BY <1>4, <2>1, <2>3 DEF Chilled, AskOf
  <2> QED BY <2>2, <2>3
<1>5. ASSUME NEW y \in nt.queue, NEW a \in B, a.id[1] = y.id[1]  PROVE a.id[2] <= y.id[2]
  <2>1. PICK x \in st.queue : Chilled(y, x, f.id)
    BY <1>2
  <2>2. CASE a \in A
    BY <1>5, <2>1, <2>2 DEF Queued, Chilled
  <2>3. CASE a = AskOf(f)
    BY <1>5, <2>1, <2>3 DEF Chilled, AskOf
  <2> QED BY <2>2, <2>3
<1>6. ASSUME NEW x \in nt.queue, NEW y \in nt.queue, x.id[1] = y.id[1]  PROVE x = y
  <2>1. PICK p \in st.queue : Chilled(x, p, f.id)
    BY <1>2
  <2>2. PICK q \in st.queue : Chilled(y, q, f.id)
    BY <1>2
  <2>3. p = q
    BY <1>6, <2>1, <2>2 DEF Queued, Chilled
  <2> QED BY <2>1, <2>2, <2>3, SameEntry DEF Chilled
<1>7. nt.confirmed # None => \A y \in nt.queue : y.base <= nt.confirmed
  BY <1>2 DEF Queued, Chilled
<1> QED BY <1>3, <1>4, <1>5, <1>6, <1>7 DEF Queued

LEMMA FreezeGrounds ==
  ASSUME SessionInv, SessionInv', SeatInv, ServedInv, GroundsInv, NEW t \in Tabs, Freezing(t)
  PROVE  GroundsInv'
<1> DEFINE s == session[t]
           u == session'[t]
           f == s.front
           B == Asks \cup {AskOf(f)}
<1>1. /\ s.stage = "freezing" /\ (f.frozen \/ f.id \in IdsOf(store.queue))
      /\ store' = [store EXCEPT !.queue = Froze(@, f.id)]
      /\ u.writing = s.writing /\ u.entries = Froze(s.entries, f.id)
      /\ u.confirmed = s.confirmed
      /\ \/ net' = net \cup {AskOf(f)} /\ u.stage = "sending" /\ u.front = f
         \/ net' = net /\ u.front = None
      /\ Alone(t)
      /\ UNCHANGED <<history, receipt, lock, order, grounds>>
  BY DEF Freezing
<1>2. lock = t /\ store \in Stores /\ s \in SessionType /\ Coherent(s) /\ Coherent(u)
  <2>1. Holding(s)
    BY <1>1 DEF Holding, AtWork
  <2> QED BY <2>1, SeatFacts DEF SessionInv, SessionTypeOK
<1>3. f \in Entry /\ f \in Fronts(s) /\ f \in Shows(s)
  BY <1>1, <1>2 DEF SessionType, Coherent, Fronts, Shows
<1>4. Held(s, store, Asks, Done, Traced) /\ Queued(store, Asks, Traced)
  BY <1>2 DEF GroundsInv
<1>5. /\ store'.queue = Froze(store.queue, f.id) /\ store'.confirmed = store.confirmed
      /\ store'.generation = store.generation
  BY <1>1, <1>2 DEF Stores
<1>6. f.id \in Done => f.frozen
  <2>1. f.id \in Done => \E a \in Asks : a.id = f.id
    BY DoneIsAsked
  <2> QED BY <1>1, <1>3, <1>4, <2>1 DEF Held, SentBy
<1>7. u.front = None => u.stage \notin {"entry", "freezing", "sending"}
  BY <1>2 DEF Coherent
<1>8. Held(u, store', B, Done, Traced)
  <2> HIDE DEF s, u, f
  <2> QED BY <1>1, <1>2, <1>3, <1>4, <1>5, <1>6, <1>7, HeldFrozen DEF f
<1>9. Queued(store', B, Traced)
  <2>1. /\ \A x \in store.queue : x.id = f.id => x.base = f.base
        /\ \A x \in store.queue : f.id[1] = x.id[1] => f.id[2] <= x.id[2]
    BY <1>3, <1>4 DEF Held, Agrees
  <2> HIDE DEF f
  <2> QED BY <1>2, <1>3, <1>4, <1>5, <2>1, QueuedFrozen
<1>10. Done' = Done /\ Traced' = Traced
  BY <1>1 DEF Done, Traced, Revision
<1>11. Asks' \subseteq B
  BY <1>1, <1>10 DEF Asks
<1>12. WorldInv'
  <2>1. AskOf(f) \in Traced
    BY <1>3, <1>4 DEF Held, KnownIn
  <2>2. \A a \in Asks : a.id = f.id => a.base = f.base
    BY <1>3, <1>4 DEF Held, SentBy
  <2>3. B \subseteq Traced /\ \A a, b \in B : a.id = b.id => a.base = b.base
    BY <2>1, <2>2 DEF GroundsInv, WorldInv, AskOf
  <2> HIDE DEF B
  <2>4. Asks' \subseteq Traced' /\ \A a, b \in Asks' : a.id = b.id => a.base = b.base
    BY <1>10, <1>11, <2>3
  <2> QED BY <1>1, <2>4 DEF GroundsInv, WorldInv, Revision
<1> HIDE DEF B
<1>13. Queued(store', Asks', Traced')
  BY <1>9, <1>10, <1>11, LessIsKept
<1>14. Held(u, store', Asks', Done', Traced')
  BY <1>8, <1>10, <1>11, LessIsKept
<1>15. \A h \in Tabs : lock' = h => Held(session'[h], store', Asks', Done', Traced')
  BY <1>1, <1>2, <1>14
<1> QED BY <1>12, <1>13, <1>15 DEF GroundsInv

(* y is what the acknowledgement of f leaves of x. *)
Settles(y, x, f, r) ==
  /\ y = IF Follows(x, f) THEN [x EXCEPT !.base = r] ELSE x
  /\ y \in Entry /\ x.id # f.id /\ y.id = x.id /\ (y.frozen <=> x.frozen)
  /\ y = x \/ (~ x.frozen /\ x.base = f.base /\ y.base = r)

LEMMA SettledItems ==
  ASSUME NEW queue \in SUBSET Entry, NEW f, NEW r \in Nat
  PROVE  /\ \A y \in Settled(queue, f, r) : \E x \in queue : Settles(y, x, f, r)
         /\ \A x \in queue : x.id # f.id => \E y \in Settled(queue, f, r) : Settles(y, x, f, r)
<1> DEFINE Left(x) == IF Follows(x, f) THEN [x EXCEPT !.base = r] ELSE x
<1>1. ASSUME NEW x \in queue, x.id # f.id  PROVE Settles(Left(x), x, f, r)
  <2>1. CASE Follows(x, f)
    <3>1. ~ x.frozen /\ x.base = f.base
      BY <2>1 DEF Follows
    <3>2. Left(x) = [x EXCEPT !.base = r]
      BY <2>1
    <3>3. Left(x) \in Entry /\ Left(x).id = x.id /\ Left(x).frozen = x.frozen /\ Left(x).base = r
      BY <3>2 DEF Entry
    <3> QED BY <1>1, <3>1, <3>3 DEF Settles
  <2>2. CASE ~ Follows(x, f)
    BY <1>1, <2>2 DEF Settles
  <2> QED BY <2>1, <2>2
<1>2. Settled(queue, f, r) = {Left(x) : x \in {y \in queue : y.id # f.id}}
  BY DEF Settled, Without
<1> HIDE DEF Left
<1> QED BY <1>1, <1>2

(* The answer replaces the sheet and retires the edit. *)
LEMMA HeldRetired ==
  ASSUME NEW s \in SessionType, NEW u, NEW st \in Stores, NEW nt, NEW A, NEW D, NEW T, NEW r \in Nat,
         Held(s, st, A, D, T), s.stage = "sending", s.guard = st.generation,
         NEW f \in Entry, f = s.front, f.id \in D, r = f.base + 1,
         nt.queue = Settled(st.queue, f, r), nt.confirmed = r,
         \A w \in s.writing : w.guard # nt.generation,
         u.writing = s.writing, u.entries = Settled(s.entries, f, r), u.confirmed = r,
         u.front = None, u.stage \notin {"entry", "freezing", "sending"},
         st.confirmed = None => s.entries = {},
         \A a \in T : a.base = f.base => [id |-> a.id, base |-> r] \in T
  PROVE  Held(u, nt, A, D, T)
<1>1. /\ s.entries \in SUBSET Entry /\ st.queue \in SUBSET Entry
  BY DEF SessionType, Stores
<1>2. \A y \in u.entries : \E x \in s.entries : Settles(y, x, f, r)
  <2> DEFINE left == Settled(s.entries, f, r)
  <2>1. \A y \in left : \E x \in s.entries : Settles(y, x, f, r)
    BY <1>1, SettledItems
  <2>2. u.entries = left
    OBVIOUS
  <2> HIDE DEF left
  <2> QED BY <2>1, <2>2
<1>3. /\ \A y \in nt.queue : \E x \in st.queue : Settles(y, x, f, r)
      /\ \A x \in st.queue : x.id # f.id => \E y \in nt.queue : Settles(y, x, f, r)
  <2> DEFINE left == Settled(st.queue, f, r)
  <2>1. /\ \A y \in left : \E x \in st.queue : Settles(y, x, f, r)
        /\ \A x \in st.queue : x.id # f.id => \E y \in left : Settles(y, x, f, r)
    BY <1>1, SettledItems
  <2>2. nt.queue = left
    OBVIOUS
  <2> HIDE DEF left
  <2> QED BY <2>1, <2>2
<1>4. Fronts(u) = {} /\ Shows(u) = u.entries /\ s.entries \subseteq Shows(s) /\ Written(u) = Written(s)
  BY DEF Fronts, Shows, Written
<1>5. Valid(u, nt) = {} /\ ~ Live(u, nt) /\ Live(s, st)
  BY DEF Valid, Live
<1>6. KnownIn(u, T)
  <2>1. ASSUME NEW y \in u.entries  PROVE AskOf(y) \in T
    <3>1. PICK x \in s.entries : Settles(y, x, f, r)
      BY <1>2
    <3>2. AskOf(x) \in T
      BY <1>4 DEF Held, KnownIn
    <3>3. CASE y = x
      BY <3>2, <3>3
    <3>4. CASE x.base = f.base /\ y.base = r
      <4>1. AskOf(x).id = y.id /\ AskOf(x).base = f.base
        BY <3>1, <3>4 DEF AskOf, Settles
      <4>2. AskOf(y) = [id |-> AskOf(x).id, base |-> r]
        BY <3>4, <4>1 DEF AskOf
      <4> QED BY <3>2, <4>1, <4>2
    <3> QED BY <3>1, <3>3, <3>4 DEF Settles
  <2> QED BY <1>4, <2>1 DEF Held, KnownIn
<1>7. SentBy(u, A)
  <2>1. ASSUME NEW y \in u.entries, NEW a \in A, a.id = y.id  PROVE a.base = y.base /\ y.frozen
    <3>1. PICK x \in s.entries : Settles(y, x, f, r)
      BY <1>2
    <3>2. a.base = x.base /\ x.frozen
      BY <2>1, <3>1 DEF Held, SentBy, Settles
    <3> QED BY <3>1, <3>2 DEF Settles
  <2> QED BY <1>4, <2>1 DEF SentBy
<1>8. Unsaved(u, nt, A)
  <2>1. \A w \in s.writing, x \in nt.queue : x.id[1] # w.entry.id[1]
    BY <1>3 DEF Held, Unsaved, Settles
  <2>2. ASSUME NEW w \in s.writing, NEW y \in u.entries, y.id[1] = w.entry.id[1]  PROVE y.id[2] = 0 /\ ~ y.frozen
    <3>1. PICK x \in s.entries : Settles(y, x, f, r)
      BY <1>2
    <3>2. x.id[2] = 0 /\ ~ x.frozen
      BY <1>4, <2>2, <3>1 DEF Held, Unsaved, Settles
    <3> QED BY <3>1, <3>2 DEF Settles
  <2> QED BY <1>4, <2>1, <2>2 DEF Held, Unsaved
<1>9. Agrees(u, nt)
  <2>1. ASSUME NEW x \in nt.queue, NEW y \in u.entries
        PROVE  /\ y.id[1] = x.id[1] => y.id[2] <= x.id[2]
               /\ x.id = y.id => x = y
    <3>1. PICK p \in st.queue : Settles(x, p, f, r)
      BY <1>3
    <3>2. PICK q \in s.entries : Settles(y, q, f, r)
      BY <1>2
    <3>3. /\ q.id[1] = p.id[1] => q.id[2] <= p.id[2]
          /\ p.id = q.id => p = q
      BY <1>4 DEF Held, Agrees
    <3>4. p = q => x = y
      BY <3>1, <3>2 DEF Settles
    <3>5. x.id = p.id /\ y.id = q.id
      BY <3>1, <3>2 DEF Settles
    <3> QED BY <3>3, <3>4, <3>5
  <2>2. ASSUME NEW x \in u.entries, NEW y \in u.entries, x.id = y.id  PROVE x = y
    <3>1. PICK p \in s.entries : Settles(x, p, f, r)
      BY <1>2
    <3>2. PICK q \in s.entries : Settles(y, q, f, r)
      BY <1>2
    <3>3. p = q
      BY <2>2, <3>1, <3>2 DEF Held, Agrees, Settles
    <3> QED BY <3>1, <3>2, <3>3 DEF Settles
  <2> QED BY <1>4, <2>1, <2>2 DEF Agrees
<1>10. Bounded(u, nt, D)
  <2>1. ASSUME NEW y \in Waiting(u, nt)  PROVE y.base <= r
    <3>1. PICK x \in s.entries \cup st.queue : Settles(y, x, f, r)
      BY <1>2, <1>3, <1>5 DEF Waiting
    <3>2. x.base <= r
      BY <1>5 DEF Held, Bounded, Waiting
    <3> QED BY <3>1, <3>2 DEF Settles
  <2> QED BY <1>5, <2>1 DEF Bounded
<1>11. Stored(u, nt)
  <2>1. ASSUME NEW y \in u.entries, ~ Writing(u, y.id)  PROVE y.id \in IdsOf(nt.queue)
    <3>1. PICK x \in s.entries : Settles(y, x, f, r)
      BY <1>2
    <3>2. x.id # f.id /\ x.id = y.id
      BY <3>1 DEF Settles
    <3>3. x.id \in IdsOf(st.queue)
      BY <2>1, <3>2 DEF Held, Stored, Writing
    <3>4. PICK p \in st.queue : p.id = x.id
      BY <3>3 DEF IdsOf
    <3>5. PICK q \in nt.queue : Settles(q, p, f, r)
      BY <1>3, <3>2, <3>4
    <3>6. q.id = y.id
      BY <3>2, <3>4, <3>5 DEF Settles
    <3> QED BY <3>6 DEF IdsOf
  <2> QED BY <2>1 DEF Stored
<1> QED BY <1>6, <1>7, <1>8, <1>9, <1>10, <1>11 DEF Held

LEMMA QueuedRetired ==
  ASSUME NEW st \in Stores, NEW nt, NEW A, NEW T, Queued(st, A, T), NEW f \in Entry, NEW r \in Nat,
         nt.queue = Settled(st.queue, f, r), nt.confirmed = r,
         \A x \in st.queue : x.base <= r,
         \A a \in T : a.base = f.base => [id |-> a.id, base |-> r] \in T
  PROVE  Queued(nt, A, T)
<1>1. \A y \in nt.queue : \E x \in st.queue : Settles(y, x, f, r)
  <2>1. st.queue \in SUBSET Entry
    BY DEF Stores
  <2> DEFINE left == Settled(st.queue, f, r)
  <2>2. \A y \in left : \E x \in st.queue : Settles(y, x, f, r)
    BY <2>1, SettledItems
  <2>3. nt.queue = left
    OBVIOUS
  <2> HIDE DEF left
  <2> QED BY <2>2, <2>3
<1>2. ASSUME NEW y \in nt.queue  PROVE AskOf(y) \in T /\ y.base <= r
  <2>1. PICK x \in st.queue : Settles(y, x, f, r)
    BY <1>1
  <2>2. AskOf(x) \in T /\ x.base <= r
    BY DEF Queued
  <2>3. CASE y = x
    BY <2>2, <2>3
  <2>4. CASE x.base = f.base /\ y.base = r
    <3>1. AskOf(x).id = y.id /\ AskOf(x).base = f.base
      BY <2>1, <2>4 DEF AskOf, Settles
    <3>2. AskOf(y) = [id |-> AskOf(x).id, base |-> r]
      BY <2>4, <3>1 DEF AskOf
    <3> QED BY <2>2, <2>4, <3>1, <3>2
  <2> QED BY <2>1, <2>3, <2>4 DEF Settles
<1>3. ASSUME NEW y \in nt.queue, NEW a \in A
      PROVE  /\ a.id = y.id => a.base = y.base /\ y.frozen
             /\ a.id[1] = y.id[1] => a.id[2] <= y.id[2]
  <2>1. PICK x \in st.queue : Settles(y, x, f, r)
    BY <1>1
  <2>2. /\ a.id = x.id => a.base = x.base /\ x.frozen
        /\ a.id[1] = x.id[1] => a.id[2] <= x.id[2]
    BY DEF Queued
  <2> QED BY <2>1, <2>2 DEF Settles
<1>4. ASSUME NEW x \in nt.queue, NEW y \in nt.queue, x.id[1] = y.id[1]  PROVE x = y
  <2>1. PICK p \in st.queue : Settles(x, p, f, r)
    BY <1>1
  <2>2. PICK q \in st.queue : Settles(y, q, f, r)
    BY <1>1
  <2>3. x.id = p.id /\ y.id = q.id
    BY <2>1, <2>2 DEF Settles
  <2>4. p = q
    BY <1>4, <2>3 DEF Queued
  <2> QED BY <2>1, <2>2, <2>4 DEF Settles
<1> QED BY <1>2, <1>3, <1>4 DEF Queued

LEMMA RetireGrounds ==
  ASSUME SessionInv, SessionInv', SeatInv, ServedInv, GroundsInv, NEW t \in Tabs, Retiring(t)
  PROVE  GroundsInv'
<1> DEFINE s == session[t]
           u == session'[t]
           f == s.front
           r == receipt[f.id].revision
<1>1. /\ s.stage = "sending" /\ receipt[f.id].outcome = "applied" /\ s.guard = store.generation
      /\ store' = [confirmed |-> r, generation |-> store.generation + 1, queue |-> Settled(store.queue, f, r)]
      /\ u.writing = s.writing /\ u.entries = Settled(s.entries, f, r)
      /\ u.confirmed = r /\ u.front = None
      /\ Alone(t)
      /\ UNCHANGED <<history, receipt, net, lock, order, grounds>>
  BY DEF Retiring, Guarded
<1>2. /\ lock = t /\ store \in Stores /\ s \in SessionType /\ Coherent(s) /\ Coherent(u)
      /\ Seated(s, store) /\ s.generation <= store.generation /\ s.generation \in Nat /\ store.generation \in Nat
  <2>1. Holding(s)
    BY <1>1 DEF Holding, AtWork
  <2> QED BY <2>1, SeatFacts DEF SessionInv, SessionTypeOK
<1>3. f \in Entry /\ f \in Fronts(s) /\ f.id \in Ids /\ f.base \in Nat
  BY <1>1, <1>2 DEF SessionType, Coherent, Fronts, Entry
<1>4. Held(s, store, Asks, Done, Traced) /\ Queued(store, Asks, Traced)
  BY <1>2 DEF GroundsInv
<1>5. f.id \in Done
  BY <1>1, <1>3 DEF Done
<1>6. r \in 1..Revision /\ history[r] = f.id /\ Revision \in Nat
  BY <1>1, <1>3, SeatFacts DEF ServedInv
<1> HIDE DEF r
<1>7. r = f.base + 1 /\ r \in Nat
  <2> DEFINE a == [id |-> f.id, base |-> r - 1]
  <2>1. a \in Asks
    BY <1>5 DEF Asks, r
  <2>2. a.base = f.base
    BY <1>3, <1>4, <2>1 DEF Held, SentBy
  <2> QED BY <1>3, <1>6, <2>2
<1>8. \A a \in Traced : a.base = f.base => [id |-> a.id, base |-> r] \in Traced
  <2> SUFFICES ASSUME NEW a \in Traced, a.base = f.base  PROVE [id |-> a.id, base |-> r] \in Traced
    OBVIOUS
  <2>1. ForeignIn(history, f.base + 1) = ForeignIn(history, f.base)
    BY <1>3, <1>6, <1>7, ForeignCounts
  <2>2. a.id \in Ids /\ [id |-> a.id, base |-> r] \in Ask
    BY <1>7 DEF Traced, Ask
  <2> QED BY <1>6, <1>7, <2>1, <2>2 DEF Traced
<1>9. /\ store'.queue = Settled(store.queue, f, r) /\ store'.confirmed = r /\ Raised
  BY <1>1 DEF Raised
<1>10. \A w \in s.writing : w.guard # store'.generation
  BY <1>9, GuardsAreStale
<1>11. store.confirmed = None => s.entries = {}
  <2>1. s.generation = store.generation
    BY <1>1, <1>2 DEF Seated
  <2> QED BY <1>2, <2>1, SeatFacts DEF Seated
<1>12. u.stage \notin {"entry", "freezing", "sending"}
  BY <1>1, <1>2 DEF Coherent
<1>13. Held(u, store', Asks, Done, Traced)
  <2> HIDE DEF s, u, f
  <2> QED BY <1>1, <1>2, <1>3, <1>4, <1>5, <1>7, <1>8, <1>9, <1>10, <1>11, <1>12, HeldRetired DEF f
<1>14. Queued(store', Asks, Traced)
  <2>1. \A x \in store.queue : x.base <= r
    BY <1>1, <1>4, <1>5, <1>7 DEF Held, Bounded, Live, Waiting
  <2> HIDE DEF f
  <2> QED BY <1>2, <1>3, <1>4, <1>7, <1>8, <1>9, <2>1, QueuedRetired
<1>15. \A h \in Tabs : lock' = h => Held(session'[h], store', Asks, Done, Traced)
  BY <1>1, <1>2, <1>13
<1> QED BY <1>1, <1>14, <1>15, GroundsStay

(* The user makes an edit: nothing was known of it. *)
LEMMA HeldEdited ==
  ASSUME NEW s, NEW u, NEW st, NEW A, NEW D, NEW T, NEW U, NEW e,
         Held(s, st, A, D, T), Queued(st, A, T), T \subseteq U, A \subseteq T,
         AskOf(e) \in U, \A a \in T : a.id[1] # e.id[1], e.id[2] = 0, ~ e.frozen,
         \A id \in D : \E a \in A : a.id = id,
         Coherent(u), Carries(u, s), u.confirmed = s.confirmed, u.entries = s.entries \cup {e},
         u.writing = s.writing \cup {[entry |-> e, guard |-> s.generation]},
         e.base \in BaseOfLast(s), s.confirmed \in Nat
  PROVE  Held(u, st, A, D, U)
<1>1. /\ Fronts(u) \subseteq Fronts(s)
      /\ u.stage \in {"entry", "freezing", "sending"} => u.front = s.front /\ u.stage = s.stage /\ u.guard = s.guard
      /\ Fronts(u) # {} => u.front = s.front /\ u.stage = s.stage /\ u.guard = s.guard
  BY CarriedFronts
<1> DEFINE n == [entry |-> e, guard |-> s.generation]
<1>0. n.entry = e /\ n.guard = s.generation /\ u.writing = s.writing \cup {n}
  OBVIOUS
<1> HIDE DEF n
<1>2. Shows(u) \subseteq Shows(s) \cup {e} /\ Written(u) = Written(s) \cup {e}
  BY <1>1, <1>0 DEF Shows, Written
<1>3. \A x \in Shows(s) \cup Written(s) \cup st.queue : x.id[1] # e.id[1]
  <2> SUFFICES ASSUME NEW x \in Shows(s) \cup Written(s) \cup st.queue  PROVE x.id[1] # e.id[1]
    OBVIOUS
  <2>1. AskOf(x) \in T /\ AskOf(x).id = x.id
    BY DEF Held, KnownIn, Queued, AskOf
  <2> QED BY <2>1
<1>4. \A a \in A : a.id[1] # e.id[1]
  OBVIOUS
<1>5. s.entries \subseteq Shows(s) /\ Fronts(s) \subseteq Shows(s) /\ \A w \in s.writing : w.entry \in Written(s)
  BY DEF Shows, Written
<1>6. \A id : Writing(u, id) <=> Writing(s, id) \/ id = e.id
  BY <1>0 DEF Writing
<1>7. Live(u, st) => Live(s, st) /\ u.front = s.front /\ u.stage = s.stage
  BY <1>1 DEF Live
<1>8. Waiting(u, st) \subseteq Waiting(s, st) \cup {e} /\ s.entries \subseteq Waiting(s, st)
  BY <1>0 DEF Waiting, Valid
<1>9. s.confirmed # None
  BY DEF Held
<1>10. KnownIn(u, U)
  BY <1>2 DEF Held, KnownIn
<1>11. SentBy(u, A)
  BY <1>1, <1>4 DEF Held, SentBy
<1>12. Unsaved(u, st, A)
  <2>1. ASSUME NEW w \in s.writing
        PROVE  /\ w.entry.id[2] = 0 /\ ~ w.entry.frozen
               /\ \A x \in st.queue : x.id[1] # w.entry.id[1]
               /\ \A a \in A : a.id[1] # w.entry.id[1]
               /\ \A v \in u.writing : v.entry.id[1] = w.entry.id[1] => v = w
               /\ \A x \in Shows(u) : x.id[1] = w.entry.id[1]
                     => x.id[2] = 0 /\ ~ x.frozen /\ (w.guard = st.generation => x.base = w.entry.base)
    BY <1>0, <1>2, <1>3, <1>5 DEF Held, Unsaved
  <2>2. \A v \in u.writing : v.entry.id[1] = e.id[1] => v = n
    BY <1>0, <1>3, <1>5
  <2>3. \A x \in Shows(u) : x.id[1] = e.id[1] => x = e
    BY <1>2, <1>3
  <2> QED BY <1>0, <1>3, <1>4, <2>1, <2>2, <2>3 DEF Unsaved
<1>13. Agrees(u, st)
  <2>1. \A x \in st.queue, y \in Shows(u) : y.id[1] = x.id[1] => y.id[2] <= x.id[2]
    BY <1>2, <1>3 DEF Held, Agrees
  <2>2. \A x \in st.queue, y \in u.entries : x.id = y.id => x = y
    BY <1>3 DEF Held, Agrees
  <2>3. \A f \in Fronts(u), y \in u.entries \cup st.queue : y.id = f.id => y.base = f.base
    BY <1>1, <1>3, <1>5 DEF Held, Agrees
  <2>4. \A x, y \in u.entries : x.id = y.id => x = y
    BY <1>3, <1>5 DEF Held, Agrees
  <2>5. ASSUME u.stage \in {"freezing", "sending"}  PROVE ~ Writing(u, u.front.id)
    <3>1. ~ Writing(s, s.front.id) /\ u.front = s.front
      BY <1>1, <2>5 DEF Held, Agrees
    <3>2. u.front \in Fronts(u)
      BY <2>5 DEF Coherent, Fronts
    <3>3. u.front.id # e.id
      BY <1>1, <1>3, <1>5, <3>2
    <3> QED BY <1>6, <3>1, <3>3
  <2>6. u.stage = "entry" => ~ u.front.frozen
    BY <1>1 DEF Held, Agrees
  <2> QED BY <2>1, <2>2, <2>3, <2>4, <2>5, <2>6 DEF Agrees
<1>14. Bounded(u, st, D)
  <2>1. (e.base = s.confirmed /\ s.entries = {}) \/ \E y \in s.entries : e.base = y.base
    BY DEF BaseOfLast, Last
  <2>2. e.base <= s.confirmed
    BY <1>8, <1>9, <2>1 DEF Held, Bounded
  <2>3. \A x \in Waiting(u, st) : x.base <= u.confirmed
    BY <1>8, <1>9, <2>2 DEF Held, Bounded
  <2>4. ASSUME Live(u, st), u.front.id \in D  PROVE e.base <= u.front.base + 1
    <3>1. CASE \E y \in s.entries : e.base = y.base
      BY <1>7, <1>8, <2>4, <3>1 DEF Held, Bounded
    <3>2. CASE e.base = s.confirmed /\ s.entries = {} /\ u.stage = "sending"
      BY <1>7, <1>9, <2>4, <3>2 DEF Held, Bounded
    <3>3. CASE s.entries = {} /\ u.stage = "freezing"
      <4>1. PICK a \in A : a.id = u.front.id
        BY <2>4
      <4>2. s.front \in Fronts(s) /\ s.stage = "freezing" /\ u.front = s.front
        BY <1>1, <3>3 DEF Coherent, Fronts
      <4>3. s.front.frozen
        BY <4>1, <4>2 DEF Held, SentBy
      <4> QED BY <1>9, <3>3, <4>2, <4>3 DEF Held, Bounded
    <3> QED BY <2>1, <2>4, <3>1, <3>2, <3>3 DEF Live
  <2>5. Live(u, st) /\ u.front.id \in D => \A x \in Waiting(u, st) : x.base <= u.front.base + 1
    BY <1>7, <1>8, <2>4 DEF Held, Bounded
  <2>6. u.entries # {}
    OBVIOUS
  <2> QED BY <2>3, <2>5, <2>6 DEF Bounded
<1>15. Stored(u, st)
  BY <1>1, <1>6 DEF Held, Stored
<1> QED BY <1>10, <1>11, <1>12, <1>13, <1>14, <1>15 DEF Held

(* The edit is saved. *)
LEMMA HeldSaved ==
  ASSUME NEW s \in SessionType, NEW u, NEW st \in Stores, NEW nt, NEW A, NEW D, NEW T, NEW w \in s.writing,
         Held(s, st, A, D, T), w.guard = st.generation,
         nt.queue = st.queue \cup {w.entry}, nt.confirmed = st.confirmed, nt.generation = st.generation,
         Coherent(u), Carries(u, s), SameCache(u, s), u.writing = s.writing \ {w}
  PROVE  Held(u, nt, A, D, T)
<1>1. /\ Fronts(u) \subseteq Fronts(s)
      /\ u.stage \in {"entry", "freezing", "sending"} => u.front = s.front /\ u.stage = s.stage /\ u.guard = s.guard
      /\ Fronts(u) # {} => u.front = s.front /\ u.stage = s.stage /\ u.guard = s.guard
  BY CarriedFronts
<1>2. u.entries = s.entries /\ u.confirmed = s.confirmed /\ u.generation = s.generation
  BY DEF SameCache
<1>3. /\ Shows(u) \subseteq Shows(s) /\ Written(u) \subseteq Written(s)
      /\ Fronts(s) \subseteq Shows(s) /\ s.entries \subseteq Shows(s)
  BY <1>1, <1>2 DEF Shows, Written
<1>4. /\ w.entry.id[2] = 0 /\ ~ w.entry.frozen
      /\ \A v \in u.writing : v.entry.id[1] # w.entry.id[1]
      /\ \A x \in Shows(s) : x.id[1] = w.entry.id[1]
            => x.id[2] = 0 /\ ~ x.frozen /\ x.base = w.entry.base
  BY DEF Held, Unsaved
<1>5. \A id : /\ Writing(u, id) => Writing(s, id)
              /\ Writing(s, id) => Writing(u, id) \/ id = w.entry.id
  BY DEF Writing
<1>6. Live(u, nt) => Live(s, st) /\ u.front = s.front /\ u.stage = s.stage
  BY <1>1 DEF Live
<1>7. Waiting(u, nt) \subseteq Waiting(s, st)
  BY <1>2 DEF Waiting, Valid
<1>8. KnownIn(u, T)
  BY <1>3 DEF Held, KnownIn
<1>9. SentBy(u, A)
  BY <1>1, <1>2 DEF Held, SentBy
<1>10. Unsaved(u, nt, A)
  BY <1>3, <1>4 DEF Held, Unsaved
<1>11. Agrees(u, nt)
  <2>1. \A x \in nt.queue, y \in Shows(u) : y.id[1] = x.id[1] => y.id[2] <= x.id[2]
    BY <1>3, <1>4 DEF Held, Agrees
  <2>2. ASSUME NEW y \in s.entries, w.entry.id = y.id  PROVE w.entry = y
    <3>1. y \in Entry /\ w.entry \in Entry
      BY DEF SessionType
    <3>2. ~ y.frozen /\ y.base = w.entry.base
      BY <1>3, <1>4, <2>2
    <3> QED BY <1>4, <2>2, <3>1, <3>2, SameEntry
  <2>3. \A x \in nt.queue, y \in u.entries : x.id = y.id => x = y
    BY <1>2, <2>2 DEF Held, Agrees
  <2>4. \A f \in Fronts(u), y \in u.entries \cup nt.queue : y.id = f.id => y.base = f.base
    BY <1>1, <1>2, <1>3, <1>4 DEF Held, Agrees
  <2> QED BY <1>1, <1>2, <1>5, <2>1, <2>3, <2>4 DEF Held, Agrees
<1>12. Bounded(u, nt, D)
  BY <1>1, <1>2, <1>6, <1>7 DEF Held, Bounded
<1>13. Stored(u, nt)
  <2>1. IdsOf(nt.queue) = IdsOf(st.queue) \cup {w.entry.id}
    BY DEF IdsOf
  <2> QED BY <1>1, <1>2, <1>5, <2>1 DEF Held, Stored
<1> QED BY <1>8, <1>9, <1>10, <1>11, <1>12, <1>13 DEF Held

(* The server stands still while some edits get their grounds. *)
LEMMA Regrounded ==
  ASSUME SessionInv, ServedInv, WorldInv, UNCHANGED <<history, receipt, net>>,
         NEW fresh \in SUBSET Ids, NEW v \in Nat, v <= Revision,
         \A a \in Asks : a.id \notin fresh,
         \A id \in Ids : grounds'[id] = IF id \in fresh THEN ForeignIn(history, v) ELSE grounds[id],
         \A a \in Traced : order'[a.id[1]] > 0
  PROVE  /\ WorldInv' /\ Asks' = Asks /\ Done' = Done
         /\ \A a \in Traced : a.id \notin fresh => a \in Traced'
         /\ \A a \in Ask : a.id \in fresh /\ a.base <= v /\ order'[a.id[1]] > 0 => a \in Traced'
<1>1. Done' = Done
  BY DEF Done
<1>2. Asks' = Asks
  BY <1>1 DEF Asks
<1>3. history \in Seq(Ids \cup {Other}) /\ Revision' = Revision /\ Revision \in Nat
  BY DEF SessionInv, SessionTypeOK, Revision
<1>4. ASSUME NEW a \in Traced, a.id \notin fresh  PROVE a \in Traced'
  <2>1. a \in Ask /\ a.id \in Ids
    BY DEF Traced, Ask
  <2>2. grounds'[a.id] = grounds[a.id]
    BY <1>4, <2>1
  <2> QED BY <1>3, <2>1, <2>2 DEF Traced
<1>5. ASSUME NEW a \in Ask, a.id \in fresh, a.base <= v, order'[a.id[1]] > 0  PROVE a \in Traced'
  <2>1. a.base \in Nat /\ a.base \in 0..v /\ a.base <= Revision
    BY <1>3, <1>5 DEF Ask
  <2>2. ForeignIn(history, a.base) <= ForeignIn(history, v)
    BY <2>1, ForeignCounts
  <2>3. grounds'[a.id] = ForeignIn(history, v)
    BY <1>5
  <2> QED BY <1>3, <1>5, <2>1, <2>2, <2>3 DEF Traced
<1>6. \A id \in Ids : grounds'[id] <= ForeignIn(history', Revision')
  <2>1. v \in 0..Revision
    BY <1>3
  <2>2. ForeignIn(history, v) <= ForeignIn(history, Revision)
    BY <1>3, <2>1, ForeignCounts
  <2> QED BY <1>3, <2>2 DEF WorldInv
<1>7. Asks \subseteq Traced'
  BY <1>4 DEF WorldInv
<1>8. ASSUME NEW n \in 1..Revision, history[n] # Other  PROVE ForeignIn(history, n - 1) = grounds'[history[n]]
  <2>1. history[n] \in Ids /\ history[n] \in Done
    <3>1. history[n] \in Ids
      BY <1>3, <1>8 DEF Revision
    <3>2. receipt[history[n]] = [outcome |-> "applied", revision |-> n]
      BY <1>8 DEF ServedInv
    <3> QED BY <3>1, <3>2 DEF Done
  <2>2. \E a \in Asks : a.id = history[n]
    BY <2>1, DoneIsAsked
  <2>3. history[n] \notin fresh
    BY <2>2
  <2>4. grounds'[history[n]] = grounds[history[n]]
    BY <2>1, <2>3
  <2> QED BY <1>8, <2>4 DEF WorldInv
<1>9. WorldInv'
  BY <1>2, <1>3, <1>6, <1>7, <1>8 DEF WorldInv
<1> QED BY <1>1, <1>2, <1>4, <1>5, <1>9

LEMMA EnqueueGrounds ==
  ASSUME SessionInv, SessionInv', SeatInv, GroundsInv, NEW t \in Tabs, Enqueuing(t)
  PROVE  GroundsInv'
<1> DEFINE s == session[t]
           u == session'[t]
<1>1. PICK w \in s.writing :
        /\ w.guard = store.generation
        /\ store' = [store EXCEPT !.queue = @ \cup {w.entry}]
        /\ u.writing = s.writing \ {w}
  BY DEF Enqueuing, Guarded
<1>2. /\ SameCache(u, s) /\ Carries(u, s) /\ Alone(t)
      /\ UNCHANGED <<history, receipt, net, lock, order, grounds>>
  BY DEF Enqueuing
<1>3. /\ lock = t /\ store \in Stores /\ s \in SessionType /\ Coherent(u) /\ Seated(s, store) /\ s.open
      /\ s.generation \in Nat /\ store.generation \in Nat /\ s.generation <= store.generation
      /\ w.guard \in Nat /\ w.guard <= s.generation
  BY <1>1, SeatFacts DEF SessionInv, SessionTypeOK, Seated, SeatInv
<1>4. Held(s, store, Asks, Done, Traced) /\ Queued(store, Asks, Traced)
  BY <1>3 DEF GroundsInv
<1>5. /\ store'.queue = store.queue \cup {w.entry} /\ store'.confirmed = store.confirmed
      /\ store'.generation = store.generation
  BY <1>1, <1>3 DEF Stores
<1>6. s.confirmed = store.confirmed
  BY <1>1, <1>3 DEF Seated
<1>7. w.entry \in Written(s) /\ w.entry \in Waiting(s, store)
  BY <1>1 DEF Written, Waiting, Valid
<1>8. Queued(store', Asks, Traced)
  <2>1. AskOf(w.entry) \in Traced
    BY <1>4, <1>7 DEF Held, KnownIn
  <2>2. /\ \A x \in store.queue : x.id[1] # w.entry.id[1]
        /\ \A a \in Asks : a.id[1] # w.entry.id[1]
    BY <1>4 DEF Held, Unsaved
  <2>3. store.confirmed # None => w.entry.base <= store.confirmed
    BY <1>4, <1>6, <1>7 DEF Held, Bounded
  <2> QED BY <1>4, <1>5, <2>1, <2>2, <2>3 DEF Queued
<1>9. Held(u, store', Asks, Done, Traced)
  <2> HIDE DEF s, u
  <2> QED BY <1>1, <1>2, <1>3, <1>4, <1>5, HeldSaved
<1>10. \A h \in Tabs : lock' = h => Held(session'[h], store', Asks, Done, Traced)
  BY <1>2, <1>3, <1>9
<1> QED BY <1>2, <1>8, <1>10, GroundsStay

LEMMA EditGrounds ==
  ASSUME SessionInv, SessionInv', SeatInv, ServedInv, GroundsInv, NEW t \in Tabs, Editing(t)
  PROVE  GroundsInv'
<1> DEFINE s == session[t]
           u == session'[t]
<1>1. PICK i \in Intents, base \in BaseOfLast(s) :
        /\ order[i] = 0 /\ order' = [order EXCEPT ![i] = order'[i]] /\ order'[i] > 0
        /\ grounds' = [grounds EXCEPT ![<<i, 0>>] = ForeignMade(s.confirmed)]
        /\ Edited(i, base) \in Entry
        /\ u.entries = s.entries \cup {Edited(i, base)}
        /\ u.writing = s.writing \cup {[entry |-> Edited(i, base), guard |-> s.generation]}
  BY DEF Editing
<1> DEFINE e == Edited(i, base)
<1>2. e.id = <<i, 0>> /\ e.id[1] = i /\ e.id[2] = 0 /\ e.base = base /\ ~ e.frozen /\ e.id \in Ids /\ e.base \in Nat
  BY <1>1 DEF Edited, Entry
<1>3. /\ s.owned /\ s.confirmed # None /\ Carries(u, s) /\ u.confirmed = s.confirmed
      /\ Alone(t) /\ UNCHANGED <<history, receipt, net, store, lock>>
  BY DEF Editing
<1>4. lock = t /\ Coherent(u) /\ s \in SessionType /\ Seen(s, Revision) /\ Revision \in Nat
  BY <1>3, SeatFacts DEF Holding, SessionInv, SessionTypeOK
<1>5. Held(s, store, Asks, Done, Traced) /\ Queued(store, Asks, Traced) /\ WorldInv
  BY <1>4 DEF GroundsInv
<1>6. s.confirmed \in Nat /\ s.confirmed <= Revision
  BY <1>3, <1>4 DEF SessionType, Snapshot, Seen
<1>7. order \in [UserEdits -> Nat] /\ grounds \in [Ids -> Nat] /\ i \in UserEdits
  BY DEF SessionInv, SessionTypeOK, UserEdits
<1>8. \A a \in Traced : a.id[1] # i /\ order'[a.id[1]] > 0
  <2> SUFFICES ASSUME NEW a \in Traced  PROVE a.id[1] # i /\ order'[a.id[1]] > 0
    OBVIOUS
  <2>1. a.id \in Ids /\ a.id[1] \in UserEdits /\ order[a.id[1]] > 0
    BY DEF Traced, Ask, Ids
  <2> QED BY <1>1, <1>7, <2>1
<1>9. Asks \subseteq Traced
  BY <1>5 DEF WorldInv
<1>10. \A id \in Ids : grounds'[id] = IF id \in {e.id} THEN ForeignIn(history, s.confirmed) ELSE grounds[id]
  BY <1>1, <1>2, <1>7 DEF ForeignMade, ForeignIn
<1>11. \A a \in Asks : a.id \notin {e.id}
  BY <1>2, <1>8, <1>9
<1>12. e.base <= s.confirmed
  <2>1. CASE s.entries = {}
    BY <1>2, <1>6, <2>1 DEF BaseOfLast
  <2>2. CASE s.entries # {}
    <3>1. PICK y \in s.entries : y.base = e.base
      BY <1>2, <2>2 DEF BaseOfLast, Last
    <3> QED BY <1>3, <1>5, <3>1 DEF Held, Bounded, Waiting
  <2> QED BY <2>1, <2>2
<1> HIDE DEF e
<1>13. /\ WorldInv' /\ Asks' = Asks /\ Done' = Done
       /\ \A a \in Traced : a.id \notin {e.id} => a \in Traced'
       /\ \A a \in Ask : a.id \in {e.id} /\ a.base <= s.confirmed /\ order'[a.id[1]] > 0 => a \in Traced'
  <2>1. {e.id} \in SUBSET Ids
    BY <1>2
  <2> DEFINE fresh == {e.id}
             v == s.confirmed
  <2> HIDE DEF fresh, v
  <2>2. /\ fresh \in SUBSET Ids /\ v \in Nat /\ v <= Revision /\ \A a \in Asks : a.id \notin fresh
        /\ \A id \in Ids : grounds'[id] = IF id \in fresh THEN ForeignIn(history, v) ELSE grounds[id]
    BY <1>6, <1>10, <1>11, <2>1 DEF fresh, v
  <2>3. \A a \in Traced : order'[a.id[1]] > 0
    BY <1>8
  <2>4. UNCHANGED <<history, receipt, net>> /\ WorldInv
    BY <1>3, <1>5
  <2> QED BY <2>2, <2>3, <2>4, Regrounded DEF fresh, v
<1>14. Traced \subseteq Traced'
  BY <1>2, <1>8, <1>13
<1>15. AskOf(e) \in Traced'
  <2>1. AskOf(e) \in Ask /\ AskOf(e).id = e.id /\ AskOf(e).base = e.base
    BY <1>2 DEF AskOf, Ask
  <2> QED BY <1>1, <1>2, <1>12, <1>13, <2>1
<1>16. \A id \in Done : \E a \in Asks : a.id = id
  BY DoneIsAsked
<1>17. Held(u, store, Asks, Done, Traced')
  <2>1. /\ u.entries = s.entries \cup {e} /\ u.writing = s.writing \cup {[entry |-> e, guard |-> s.generation]}
        /\ e.base \in BaseOfLast(s) /\ u.confirmed = s.confirmed
    BY <1>1, <1>2, <1>3 DEF e
  <2>2. \A a \in Traced : a.id[1] # e.id[1]
    BY <1>2, <1>8
  <2> DEFINE T == Traced
             U == Traced'
             A == Asks
             D == Done
  <2>3. /\ Held(s, store, A, D, T) /\ Queued(store, A, T) /\ T \subseteq U /\ A \subseteq T
        /\ AskOf(e) \in U /\ (\A a \in T : a.id[1] # e.id[1]) /\ \A id \in D : \E a \in A : a.id = id
    BY <1>5, <1>9, <1>14, <1>15, <1>16, <2>2
  <2> HIDE DEF s, u, T, U, A, D
  <2>4. Held(u, store, A, D, U)
    BY <1>2, <1>3, <1>4, <1>6, <2>1, <2>3, HeldEdited
  <2> QED BY <2>4 DEF A, D, U
<1>18. Queued(store', Asks', Traced')
  BY <1>3, <1>5, <1>13, <1>14, LessIsKept
<1>19. \A h \in Tabs : lock' = h => Held(session'[h], store', Asks', Done', Traced')
  BY <1>3, <1>4, <1>13, <1>17
<1> QED BY <1>13, <1>18, <1>19 DEF GroundsInv

LEMMA ReviewGrounds ==
  ASSUME SessionInv, SessionInv', SeatInv, ServedInv, GroundsInv, NEW t \in Tabs, Reviewing(t)
  PROVE  GroundsInv'
<1> DEFINE s == session[t]
           u == session'[t]
<1>1. PICK chosen \in SUBSET s.entries, new \in SUBSET Entry :
        /\ \A d \in new : \E e \in chosen : d = Renewed(e, s.confirmed)
        /\ IdsOf(chosen) \subseteq IdsOf(store.queue)
        /\ store' = [store EXCEPT !.queue = {e \in store.queue : e.id \notin IdsOf(chosen)} \cup new,
                                  !.generation = @ + 1]
        /\ grounds' = [id \in Ids |-> IF id \in IdsOf(new) THEN ForeignMade(s.confirmed) ELSE grounds[id]]
  BY DEF Reviewing
<1>2. /\ s.owned /\ s.confirmed # None /\ s.generation = store.generation
      /\ u.writing = s.writing /\ u.entries = store'.queue /\ u.confirmed = store.confirmed /\ u.front = None
      /\ Alone(t) /\ UNCHANGED <<history, receipt, net, lock, order>>
  BY DEF Reviewing, Guarded
<1>3. /\ lock = t /\ Coherent(u) /\ s \in SessionType /\ store \in Stores /\ Seen(s, Revision) /\ Revision \in Nat
      /\ s.confirmed = store.confirmed
  BY <1>2, SeatFacts DEF Holding, SessionInv, SessionTypeOK
<1>4. Held(s, store, Asks, Done, Traced) /\ Queued(store, Asks, Traced) /\ WorldInv
  BY <1>3 DEF GroundsInv
<1>5. s.confirmed \in Nat /\ s.confirmed <= Revision
  BY <1>2, <1>3 DEF SessionType, Snapshot, Seen
<1> DEFINE left == {e \in store.queue : e.id \notin IdsOf(chosen)}
<1>6. /\ store'.queue = left \cup new /\ store'.confirmed = store.confirmed /\ Raised
  BY <1>1, <1>3 DEF Stores, Raised
(* An edit that is applied again takes the place of one in the queue. *)
<1>7. ASSUME NEW d \in new
      PROVE  /\ d \in Entry /\ d.id \in Ids /\ d.base = s.confirmed /\ ~ d.frozen
             /\ \E e \in store.queue : d.id[1] = e.id[1] /\ d.id[2] = e.id[2] + 1 /\ e.id \in IdsOf(chosen)
                                     /\ e.id \in Ids /\ e \in chosen /\ d.id = <<e.id[1], e.id[2] + 1>>
  <2>1. PICK e \in chosen : d = Renewed(e, s.confirmed)
    BY <1>1
  <2>2. e.id \in IdsOf(chosen)
    BY DEF IdsOf
  <2>3. PICK x \in store.queue : x.id = e.id
    BY <1>1, <2>2 DEF IdsOf
  <2>4. x = e
    BY <1>4, <2>3 DEF Held, Agrees
  <2>5. d \in Entry /\ d.id \in Ids /\ e.id \in Ids
    BY <1>3 DEF SessionType, Entry
  <2>6. d.base = s.confirmed /\ ~ d.frozen /\ d.id = <<e.id[1], e.id[2] + 1>>
    BY <2>1 DEF Renewed
  <2> QED BY <2>2, <2>4, <2>5, <2>6
<1>8. ASSUME NEW d \in new, NEW a \in Asks  PROVE a.id # d.id /\ (a.id[1] = d.id[1] => a.id[2] <= d.id[2])
  <2>1. PICK e \in store.queue : d.id[1] = e.id[1] /\ d.id[2] = e.id[2] + 1 /\ e.id \in Ids
    BY <1>7
  <2>2. a.id[1] = e.id[1] => a.id[2] <= e.id[2]
    BY <1>4 DEF Queued
  <2>3. a.id[2] \in Nat /\ e.id[2] \in Nat
    BY <2>1, AsksTypes, IdPairs
  <2> QED BY <2>1, <2>2, <2>3
<1>9. ASSUME NEW d \in new, NEW x \in left  PROVE x.id[1] # d.id[1]
  <2>1. PICK e \in store.queue : d.id[1] = e.id[1] /\ e.id \in IdsOf(chosen)
    BY <1>7
  <2> QED BY <1>4, <2>1 DEF Queued
<1>10. ASSUME NEW d \in new, NEW w \in s.writing  PROVE w.entry.id[1] # d.id[1]
  <2>1. PICK e \in store.queue : d.id[1] = e.id[1]
    BY <1>7
  <2> QED BY <1>4, <2>1 DEF Held, Unsaved
<1>11. ASSUME NEW c \in new, NEW d \in new, c.id[1] = d.id[1]  PROVE c = d
  <2>1. PICK e \in store.queue : c.id = <<e.id[1], e.id[2] + 1>> /\ c.id[1] = e.id[1]
    BY <1>7
  <2>2. PICK f \in store.queue : d.id = <<f.id[1], f.id[2] + 1>> /\ d.id[1] = f.id[1]
    BY <1>7
  <2>3. e = f
    BY <1>4, <1>11, <2>1, <2>2 DEF Queued
  <2>4. c.id = d.id
    BY <2>1, <2>2, <2>3
  <2> QED BY <1>7, <2>4, SameEntry
<1> DEFINE fresh == IdsOf(new)
<1>12. fresh \in SUBSET Ids /\ (\A d \in new : d.id \in fresh) /\ \A id \in fresh : \E d \in new : d.id = id
  BY <1>7 DEF IdsOf
<1>13. \A id \in Ids : grounds'[id] = IF id \in fresh THEN ForeignIn(history, s.confirmed) ELSE grounds[id]
  BY <1>1 DEF ForeignMade, ForeignIn
<1> HIDE DEF fresh, left
<1>14. \A a \in Asks : a.id \notin fresh
  BY <1>8, <1>12
<1>15. \A a \in Traced : order'[a.id[1]] > 0
  BY <1>2 DEF Traced
<1>16. /\ WorldInv' /\ Asks' = Asks /\ Done' = Done
       /\ \A a \in Traced : a.id \notin fresh => a \in Traced'
       /\ \A a \in Ask : a.id \in fresh /\ a.base <= s.confirmed /\ order'[a.id[1]] > 0 => a \in Traced'
  <2> DEFINE v == s.confirmed
  <2> HIDE DEF v
  <2>1. v \in Nat /\ v <= Revision
        /\ \A id \in Ids : grounds'[id] = IF id \in fresh THEN ForeignIn(history, v) ELSE grounds[id]
    BY <1>5, <1>13 DEF v
  <2>2. UNCHANGED <<history, receipt, net>> /\ WorldInv
    BY <1>2, <1>4
  <2> QED BY <1>12, <1>14, <1>15, <2>1, <2>2, Regrounded DEF v
<1>17. \A x \in left : x \in store.queue /\ AskOf(x) \in Traced'
  <2> SUFFICES ASSUME NEW x \in left  PROVE x \in store.queue /\ AskOf(x) \in Traced'
    OBVIOUS
  <2>1. x \in store.queue
    BY DEF left
  <2>2. AskOf(x) \in Traced /\ AskOf(x).id = x.id
    BY <1>4, <2>1 DEF Queued, AskOf
  <2>3. x.id \notin fresh
    BY <1>9, <1>12
  <2> QED BY <1>16, <2>1, <2>2, <2>3
<1>18. \A d \in new : AskOf(d) \in Traced'
  <2> SUFFICES ASSUME NEW d \in new  PROVE AskOf(d) \in Traced'
    OBVIOUS
  <2>1. PICK e \in store.queue : d.id[1] = e.id[1]
    BY <1>7
  <2>2. AskOf(e) \in Traced /\ AskOf(e).id = e.id
    BY <1>4 DEF Queued, AskOf
  <2>3. order'[d.id[1]] > 0
    BY <1>15, <2>1, <2>2
  <2>4. AskOf(d) \in Ask /\ AskOf(d).id = d.id /\ AskOf(d).base = s.confirmed
    BY <1>5, <1>7 DEF AskOf, Ask
  <2> QED BY <1>5, <1>12, <1>16, <2>3, <2>4
<1>19. Queued(store', Asks', Traced')
  <2>1. \A x \in store'.queue : AskOf(x) \in Traced'
    BY <1>6, <1>17, <1>18
  <2>2. \A x \in store'.queue, a \in Asks : a.id = x.id => a.base = x.base /\ x.frozen
    BY <1>4, <1>6, <1>8, <1>17 DEF Queued
  <2>3. \A x \in store'.queue, a \in Asks : a.id[1] = x.id[1] => a.id[2] <= x.id[2]
    BY <1>4, <1>6, <1>8, <1>17 DEF Queued
  <2>4. \A x, y \in store'.queue : x.id[1] = y.id[1] => x = y
    BY <1>4, <1>6, <1>9, <1>11, <1>17 DEF Queued
  <2>5. \A x \in store'.queue : x.base <= store'.confirmed
    BY <1>2, <1>3, <1>4, <1>5, <1>6, <1>7, <1>17 DEF Queued
  <2> QED BY <1>16, <2>1, <2>2, <2>3, <2>4, <2>5 DEF Queued
<1>20. Held(u, store', Asks', Done', Traced')
  <2>1. \A w \in s.writing : w.guard # store'.generation
    BY <1>6, GuardsAreStale
  <2>2. Valid(u, store') = {}
    BY <1>2, <2>1 DEF Valid
  <2>3. \A w \in s.writing :
          /\ w.entry.id[2] = 0 /\ ~ w.entry.frozen
          /\ \A x \in store'.queue : x.id[1] # w.entry.id[1]
          /\ \A a \in Asks' : a.id[1] # w.entry.id[1]
          /\ \A v \in s.writing : v.entry.id[1] = w.entry.id[1] => v = w
    BY <1>4, <1>6, <1>10, <1>16, <1>17 DEF Held, Unsaved
  <2>4. \A x \in Written(u) : AskOf(x) \in Traced'
    <3> SUFFICES ASSUME NEW w \in s.writing  PROVE AskOf(w.entry) \in Traced'
      BY <1>2 DEF Written
    <3>1. AskOf(w.entry) \in Traced /\ AskOf(w.entry).id = w.entry.id
      BY <1>4 DEF Held, KnownIn, Written, AskOf
    <3>2. w.entry.id \notin fresh
      BY <1>10, <1>12
    <3> QED BY <1>16, <3>1, <3>2
  <2>5. \A x \in store'.queue : x.id \in Ids
    BY <1>3, <1>6, <1>7, <1>17 DEF Stores, Entry
  <2>6. u.writing = s.writing /\ u.entries = store'.queue /\ u.confirmed = store'.confirmed /\ u.front = None
    BY <1>2, <1>6
  <2> DEFINE st == store'
             A == Asks'
             D == Done'
             T == Traced'
  <2> HIDE DEF u, s, st, A, D, T
  <2>7. /\ Queued(st, A, T) /\ Coherent(u) /\ u.front = None /\ u.entries = st.queue /\ u.confirmed = st.confirmed
        /\ (\A x \in Written(u) : AskOf(x) \in T) /\ Valid(u, st) = {} /\ \A x \in st.queue : x.id \in Ids
    BY <1>3, <1>19, <2>2, <2>4, <2>5, <2>6 DEF st, A, T
  <2>8. \A w \in u.writing :
          /\ w.entry.id[2] = 0 /\ ~ w.entry.frozen
          /\ \A x \in st.queue : x.id[1] # w.entry.id[1]
          /\ \A a \in A : a.id[1] # w.entry.id[1]
          /\ \A v \in u.writing : v.entry.id[1] = w.entry.id[1] => v = w
    BY <2>3, <2>6 DEF st, A
  <2>9. Held(u, st, A, D, T)
    BY <2>7, <2>8, HeldFresh
  <2> QED BY <2>9 DEF st, A, D, T
<1>21. \A h \in Tabs : lock' = h => Held(session'[h], store', Asks', Done', Traced')
  BY <1>2, <1>3, <1>20
<1> QED BY <1>16, <1>19, <1>21 DEF GroundsInv

LEMMA GroundsStep ==
  ASSUME SessionInv, SessionInv', SeatInv, ServedInv, GroundsInv, Moving
  PROVE  GroundsInv'
<1>1. CASE \E t \in Tabs : Working(t) \/ Acquiring(t) \/ Opening(t) \/ Leaving(t)
  <2>1. PICK t \in Tabs : Working(t) \/ Acquiring(t) \/ Opening(t) \/ Leaving(t)
    BY <1>1
  <2> QED BY <2>1, ConfirmGrounds, BeginGrounds, FreezeGrounds, RetireGrounds, ReviewGrounds, PurgeGrounds,
             ForgetGrounds, EditGrounds, EnqueueGrounds, AcquireGrounds, ComeAndGoGrounds DEF Working
<1> QED BY <1>1, QuietGrounds, ServeGrounds, ElsewhereGrounds DEF Moving

LEMMA InitGrounds ==
  ASSUME SessionInit
  PROVE  ServedInv /\ SeatInv /\ GroundsInv
<1>1. /\ history = << >> /\ Revision = 0 /\ receipt = [id \in Ids |-> [outcome |-> "none", revision |-> 0]]
      /\ grounds = [id \in Ids |-> 0] /\ lock = None /\ session = [t \in Tabs |-> Closed]
  BY DEF SessionInit, Revision
<1>2. ServedInv
  BY <1>1 DEF ServedInv
<1>3. Done = {} /\ Asks = net
  BY <1>1 DEF Done, Asks
<1>4. store.confirmed \in {None, 0}
  BY DEF SessionInit
<1>5. SeatInv
  <2>1. Seated(Closed, store) /\ Closed.writing = {}
    <3>1. Closed.open = FALSE /\ Closed.entries = {} /\ Closed.side = "none" /\ Closed.writing = {} /\ Closed.stage = "rest"
      BY DEF Closed
    <3> QED BY <3>1 DEF Seated
  <2>2. Seen(Closed, Revision)
    BY <1>1 DEF Seen, Closed
  <2>3. \A v \in Nat \cap {store.confirmed} : v <= Revision
    BY <1>1, <1>4
  <2>4. \A t \in Tabs : lock # t /\ session[t] = Closed
    BY <1>1
  <2> QED BY <2>1, <2>2, <2>3, <2>4 DEF SeatInv, Exposed
<1>6. ForeignIn(history, 0) = 0
  <2>1. {m \in 1..0 : history[m] = Other} = {}
    OBVIOUS
  <2> QED BY <2>1, FS_EmptySet DEF ForeignIn
<1>7. Asks \subseteq Traced /\ (\A a, b \in Asks : a.id = b.id => a.base = b.base) /\ Queued(store, Asks, Traced)
  <2>1. CASE store.queue = {} /\ net = {}
    BY <1>3, <2>1 DEF Queued
  <2>2. CASE \E i \in Earlier, sent \in BOOLEAN :
               /\ store = [confirmed |-> 0, generation |-> 0,
                           queue |-> {[id |-> <<i, 0>>, base |-> 0, frozen |-> sent]}]
               /\ order = [j \in UserEdits |-> IF j = i THEN 1 ELSE 0]
               /\ net \in {{}, IF sent THEN {[id |-> <<i, 0>>, base |-> 0]} ELSE {}}
    <3>1. PICK i \in Earlier, sent \in BOOLEAN :
               /\ store = [confirmed |-> 0, generation |-> 0,
                           queue |-> {[id |-> <<i, 0>>, base |-> 0, frozen |-> sent]}]
               /\ order = [j \in UserEdits |-> IF j = i THEN 1 ELSE 0]
               /\ net \in {{}, IF sent THEN {[id |-> <<i, 0>>, base |-> 0]} ELSE {}}
      BY <2>2
    <3> DEFINE e == [id |-> <<i, 0>>, base |-> 0, frozen |-> sent]
               a == [id |-> <<i, 0>>, base |-> 0]
    <3>2. e.id = a.id /\ e.base = 0 /\ (e.frozen <=> sent) /\ AskOf(e) = a /\ a.base = 0 /\ a.id[1] = i /\ a.id[2] = 0
      BY DEF AskOf
    <3>3. a.id \in Ids /\ a \in Ask /\ order[i] = 1
      BY <3>1 DEF Ids, UserEdits, Ask
    <3>4. store.queue = {e} /\ store.confirmed = 0 /\ net \subseteq {a} /\ (net # {} => sent)
      BY <3>1
    <3> HIDE DEF e, a
    <3>5. a \in Traced
      BY <1>1, <1>6, <3>2, <3>3 DEF Traced
    <3> QED BY <1>3, <3>2, <3>4, <3>5 DEF Queued
  <2> QED BY <2>1, <2>2 DEF SessionInit
<1>8. WorldInv
  BY <1>1, <1>6, <1>7 DEF WorldInv
<1>9. GroundsInv
  BY <1>1, <1>7, <1>8 DEF GroundsInv
<1> QED BY <1>2, <1>5, <1>9

SeenInv == SessionInv /\ ServedInv /\ SeatInv /\ GroundsInv

LEMMA SeenStep ==
  ASSUME SeenInv, [SessionNext]_sessionVars
  PROVE  SeenInv'
<1>1. SessionInv'
  BY NextStep DEF SeenInv
<1>2. Moving
  BY StepMoves DEF SeenInv
<1> QED BY <1>1, <1>2, ServedStep, SeatStep, GroundsStep DEF SeenInv

(* An edit is applied only to the revision its user made or reviewed it    *)
(* on, or one that differs from it by the user's own edits: the request    *)
(* names a revision nobody else has followed, and the server refuses it    *)
(* when somebody has.                                                       *)
THEOREM AppliedAsSeen == SessionSpec => []AppliedOnGrounds
<1>1. SeenInv => AppliedOnGrounds
  BY DEF SeenInv, GroundsInv, WorldInv, AppliedOnGrounds, ForeignMade, ForeignIn
<1>2. SessionInit => SeenInv
  BY InitSession, InitGrounds DEF SeenInv
<1> QED BY <1>1, <1>2, SeenStep, PTL DEF SessionSpec

(* A request sent again is the request that was sent, and an edit that      *)
(* waits has a key nothing else was sent under: the attempt is frozen in    *)
(* the store before it is sent, and what is applied again gets another key. *)
THEOREM RetriesAreAsSent == SessionSpec => []RetriesAreIdentical
<1>1. SeenInv => RetriesAreIdentical
  <2>1. Requested = Asks
    BY DEF Requested, Asks, Done
  <2> QED BY <2>1 DEF SeenInv, GroundsInv, WorldInv, Queued, RetriesAreIdentical
<1>2. SessionInit => SeenInv
  BY InitSession, InitGrounds DEF SeenInv
<1> QED BY <1>1, <1>2, SeenStep, PTL DEF SessionSpec

----------------------------------------------------------------------------
(* The cached sheet.                                                        *)

(* A tab at work is open, and its cache is the store's while no other write *)
(* came between.                                                            *)
LEMMA ConfirmingIsNewer ==
  ASSUME SeenInv, NEW t \in Tabs, Confirming(t), store.confirmed # None, store'.confirmed # None
  PROVE  store'.confirmed >= store.confirmed
<1> DEFINE s == session[t]
<1>1. PICK v \in Nat \cap {s.view, s.sideView} :
         Confirms(s, v) /\ store' = [store EXCEPT !.confirmed = v, !.generation = @ + 1]
  BY Zenon DEF Confirming
<1>2. /\ SessionTypeOK /\ s \in SessionType /\ store \in [confirmed : Snapshot, generation : Nat, queue : SUBSET Entry]
      /\ Seated(s, store)
  BY DEF SeenInv, SessionInv, SessionTypeOK, SeatInv
<1>3. s.open
  <2>1. CASE s.side = "refreshing"
    BY <1>2, <2>1 DEF Seated
  <2>2. CASE Holding(s)
    BY <2>2 DEF SeenInv, SessionInv, LockInv, SeatInv
  <2> QED BY <2>1, <2>2 DEF Confirming
<1>4. s.confirmed = store.confirmed
  BY <1>1, <1>2, <1>3 DEF Confirms, Gone, Overtook, Seated
<1>5. store.confirmed \in Nat
  BY <1>2 DEF Snapshot
<1>6. ~ v < store.confirmed
  BY <1>1, <1>4 DEF Confirms, Behind
<1>7. store'.confirmed = v
  BY <1>1, <1>2
<1> QED BY <1>5, <1>6, <1>7

LEMMA RetiringShortens ==
  ASSUME SeenInv, NEW t \in Tabs, Retiring(t), store.confirmed # None
  PROVE  store'.queue # store.queue
<1> DEFINE s == session[t]
           f == s.front
           r == receipt[f.id].revision
<1>1. s.stage = "sending" /\ store'.queue = Settled(store.queue, f, r)
  BY DEF Retiring
<1>2. lock = t
  BY <1>1 DEF SeenInv, SessionInv, LockInv, Holding, AtWork
<1>3. f.id \in IdsOf(store.queue)
  BY <1>1, <1>2 DEF SeenInv, GroundsInv, Held, Stored
<1>4. store.queue \in SUBSET Entry
  BY DEF SeenInv, SessionInv, SessionTypeOK
<1> HIDE DEF f, r
<1> QED BY <1>1, <1>3, <1>4, SettledOldIds

(* The store keeps a sheet until a newer one is read, an edit is            *)
(* acknowledged or the access ends.                                         *)
LEMMA MovesKeepTheSheet ==
  ASSUME SeenInv, Moving, store'.queue = store.queue, store.confirmed # None, store'.confirmed # None
  PROVE  store'.confirmed >= store.confirmed
<1>1. store \in [confirmed : Snapshot, generation : Nat, queue : SUBSET Entry] /\ store.confirmed \in Nat
  BY DEF SeenInv, SessionInv, SessionTypeOK, Snapshot
<1>2. CASE store'.confirmed = store.confirmed
  BY <1>1, <1>2
<1>3. CASE QuietStep \/ Serving \/ EditingElsewhere
  <2>1. store' = store
    BY <1>3 DEF QuietStep, Serving, EditingElsewhere
  <2> QED BY <1>2, <2>1
<1>4. ASSUME NEW t \in Tabs, Acquiring(t) \/ Opening(t) \/ Leaving(t)
      PROVE  store'.confirmed = store.confirmed
  BY <1>4 DEF Acquiring, Opening, Leaving
<1>5. ASSUME NEW t \in Tabs, Working(t)
      PROVE  store'.confirmed >= store.confirmed
  <2>1. CASE Confirming(t)
    BY <2>1, ConfirmingIsNewer
  <2>2. CASE Retiring(t)
    BY <2>2, RetiringShortens
  <2>3. CASE Purging(t)
    BY <2>3 DEF Purging
  <2>4. CASE Beginning(t)
    BY <1>2, <2>4 DEF Beginning
  <2>5. CASE Freezing(t)
    BY <1>1, <1>2, <2>5 DEF Freezing
  <2>6. CASE Reviewing(t)
    BY <1>1, <1>2, <2>6 DEF Reviewing
  <2>7. CASE Forgetting(t)
    BY <1>1, <1>2, <2>7 DEF Forgetting
  <2>8. CASE Editing(t)
    BY <1>2, <2>8 DEF Editing
  <2>9. CASE Enqueuing(t)
    BY <1>1, <1>2, <2>9 DEF Enqueuing
  <2> QED BY <1>5, <2>1, <2>2, <2>3, <2>4, <2>5, <2>6, <2>7, <2>8, <2>9 DEF Working
<1> QED BY <1>2, <1>3, <1>4, <1>5 DEF Moving

(* An answer of a GET that arrives late does not replace a newer sheet: a   *)
(* tab compares it with the sheet it holds, and the store takes it only at  *)
(* the generation that sheet was read at (reconcileSnapshot).               *)
THEOREM ReadsMoveForward == SessionSpec => ReadsNeverGoBack
<1>1. SeenInv /\ [SessionNext]_sessionVars
        => [store'.queue = store.queue /\ store.confirmed # None /\ store'.confirmed # None
              => store'.confirmed >= store.confirmed]_sessionVars
  BY StepMoves, MovesKeepTheSheet DEF SeenInv
<1>2. SessionInit => SeenInv
  BY InitSession, InitGrounds DEF SeenInv
<1> QED BY <1>1, <1>2, SeenStep, PTL DEF SessionSpec, ReadsNeverGoBack

----------------------------------------------------------------------------
(* The server of this module implements ExactlyOnce.                        *)

LEMMA AppliedGains ==
  ASSUME SessionTypeOK, NEW x \in Ids \cup {Other}, history' = Append(history, x)
  PROVE  /\ Revision' = Revision + 1
         /\ Applied' = IF x = Other THEN Applied ELSE Applied \cup {x}
<1>1. /\ Len(history) \in Nat /\ Len(history') = Len(history) + 1
      /\ \A n \in 1..Len(history) : history'[n] = history[n]
      /\ history'[Len(history) + 1] = x
  BY DEF SessionTypeOK
<1>2. 1..Len(history') = 1..Len(history) \cup {Len(history) + 1}
  BY <1>1
<1> QED BY <1>1, <1>2 DEF Applied, Revision

LEMMA OneKeyChanges ==
  ASSUME NEW S, NEW f, NEW g, f = [k \in S |-> f[k]], g = [k \in S |-> g[k]],
         NEW i \in S, \A k \in S \ {i} : g[k] = f[k]
  PROVE  g = [f EXCEPT ![i] = g[i]]
OBVIOUS

LEMMA ServerApplies ==
  ASSUME SessionTypeOK, NEW id \in Ids, receipt[id].outcome = "none",
         history' = Append(history, id),
         receipt' = [receipt EXCEPT ![id] = [outcome |-> "applied", revision |-> Revision + 1]]
  PROVE  Server!Apply(id)
<1>1. id # Other
  BY SessionAssumption
<1>2. Revision' = Revision + 1 /\ Applied' = Applied \cup {id}
  BY <1>1, AppliedGains
<1>3. /\ receipt'[id].outcome = "applied" /\ receipt'[id].revision = Revision + 1
      /\ \A k \in Ids \ {id} : receipt'[k] = receipt[k]
  BY DEF SessionTypeOK
<1>4. Fates["none"] = "open" /\ Fates["applied"] = "applied"
  BY DEF Fates
<1>5. (Revision + 1)' = Revision + 1 + 1
  BY <1>2
<1> DEFINE fate == [k \in Ids |-> Fates[receipt[k].outcome]]
           based == [k \in Ids |-> receipt[k].revision]
<1>6. fate[id] = "open" /\ fate'[id] = "applied" /\ based'[id] = Revision + 1
  BY <1>3, <1>4
<1>7. \A k \in Ids \ {id} : fate'[k] = fate[k] /\ based'[k] = based[k]
  BY <1>3
<1>8. /\ fate = [k \in Ids |-> fate[k]] /\ fate' = [k \in Ids |-> fate'[k]]
      /\ based = [k \in Ids |-> based[k]] /\ based' = [k \in Ids |-> based'[k]]
  OBVIOUS
<1>9. /\ fate[id] = "open" /\ fate' = [fate EXCEPT ![id] = "applied"]
      /\ based' = [based EXCEPT ![id] = Revision + 1]
  <2> HIDE DEF fate, based
  <2> QED BY <1>6, <1>7, <1>8, OneKeyChanges
<1> QED BY <1>2, <1>5, <1>9 DEF Server!Apply

LEMMA ServerRefuses ==
  ASSUME SessionTypeOK, NEW id \in Ids, receipt[id].outcome = "none", history' = history,
         NEW outcome \in {"refused", "conflict"},
         receipt' = [receipt EXCEPT ![id].outcome = outcome]
  PROVE  Server!Refuse(id)
<1>1. /\ receipt'[id].outcome = outcome /\ receipt'[id].revision = receipt[id].revision
      /\ \A k \in Ids \ {id} : receipt'[k] = receipt[k]
  BY DEF SessionTypeOK
<1>2. Revision' = Revision /\ Applied' = Applied
  BY DEF Revision, Applied
<1>3. Fates["none"] = "open" /\ Fates[outcome] = "refused"
  BY DEF Fates
<1> DEFINE fate == [k \in Ids |-> Fates[receipt[k].outcome]]
<1>4. fate[id] = "open" /\ fate'[id] = "refused" /\ \A k \in Ids \ {id} : fate'[k] = fate[k]
  BY <1>1, <1>3
<1>5. fate = [k \in Ids |-> fate[k]] /\ fate' = [k \in Ids |-> fate'[k]]
  OBVIOUS
<1>6. fate[id] = "open" /\ fate' = [fate EXCEPT ![id] = "refused"]
  <2> HIDE DEF fate
  <2> QED BY <1>4, <1>5, OneKeyChanges
<1>7. [k \in Ids |-> receipt[k].revision]' = [k \in Ids |-> receipt[k].revision]
  BY <1>1
<1> QED BY <1>2, <1>6, <1>7 DEF Server!Refuse

(* What the tabs do is no step of the server, and an edit of somebody else *)
(* is to it a change it does not answer for.                                *)
LEMMA ServerSteps ==
  ASSUME SessionTypeOK, Moving
  PROVE  [Server!Next]_(Server!onceVars)
<1>1. CASE Serving
  <2>1. PICK r \in net :
          \/ UNCHANGED <<history, receipt>>
          \/ /\ receipt[r.id].outcome = "none"
             /\ history' = Append(history, r.id)
             /\ receipt' = [receipt EXCEPT ![r.id] = [outcome |-> "applied", revision |-> Revision + 1]]
          \/ /\ receipt[r.id].outcome = "none"
             /\ receipt' = [receipt EXCEPT ![r.id].outcome = "refused"]
                  \/ receipt' = [receipt EXCEPT ![r.id].outcome = "conflict"]
             /\ UNCHANGED history
    BY <1>1 DEF Serving
  <2>2. r.id \in Ids
    BY DEF SessionTypeOK, Ask
  <2>3. CASE UNCHANGED <<history, receipt>>
    BY <2>3 DEF Server!onceVars, Revision, Applied
  <2> QED BY <2>1, <2>2, <2>3, ServerApplies, ServerRefuses DEF Server!Next
<1>2. CASE EditingElsewhere
  <2>1. Revision' = Revision + 1 /\ Applied' = Applied
    BY <1>2, AppliedGains DEF EditingElsewhere
  <2>2. receipt' = receipt
    BY <1>2 DEF EditingElsewhere
  <2> QED BY <2>1, <2>2 DEF Server!Next, Server!ChangeCustody
<1>3. CASE UNCHANGED <<history, receipt>>
  BY <1>3 DEF Server!onceVars, Revision, Applied
<1>4. CASE QuietStep \/ \E t \in Tabs : Working(t) \/ Acquiring(t) \/ Opening(t) \/ Leaving(t)
  <2>1. QuietStep => UNCHANGED <<history, receipt>>
    BY DEF QuietStep
  <2>2. ASSUME NEW t \in Tabs, Acquiring(t) \/ Opening(t) \/ Leaving(t)
        PROVE  UNCHANGED <<history, receipt>>
    BY <2>2 DEF Acquiring, Opening, Leaving
  <2>3. ASSUME NEW t \in Tabs, Working(t)
        PROVE  UNCHANGED <<history, receipt>>
    <3>1. CASE Confirming(t)
      BY <3>1 DEF Confirming
    <3>2. CASE Beginning(t)
      BY <3>2 DEF Beginning
    <3>3. CASE Freezing(t)
      BY <3>3 DEF Freezing
    <3>4. CASE Retiring(t)
      BY <3>4 DEF Retiring
    <3>5. CASE Reviewing(t)
      BY <3>5 DEF Reviewing
    <3>6. CASE Purging(t)
      BY <3>6 DEF Purging
    <3>7. CASE Forgetting(t)
      BY <3>7 DEF Forgetting
    <3>8. CASE Editing(t)
      BY <3>8 DEF Editing
    <3>9. CASE Enqueuing(t)
      BY <3>9 DEF Enqueuing
    <3> QED BY <2>3, <3>1, <3>2, <3>3, <3>4, <3>5, <3>6, <3>7, <3>8, <3>9 DEF Working
  <2> QED BY <1>3, <1>4, <2>1, <2>2, <2>3
<1> QED BY <1>1, <1>2, <1>4 DEF Moving

(* Tabs that send a request again, late, from another tab or after a crash *)
(* do not make the server settle a key twice or apply an edit twice: what   *)
(* the sheet holds and what was answered go together as ExactlyOnce says.   *)
THEOREM ServerKeepsItsPromise == SessionSpec => ServerKeepsThePromise
<1>1. SessionInit => Server!Init
  <2> SUFFICES ASSUME SessionInit  PROVE Server!Init
    OBVIOUS
  <2>1. Revision = 0 /\ Applied = {} /\ receipt = [id \in Ids |-> [outcome |-> "none", revision |-> 0]]
    BY DEF SessionInit, Revision, Applied
  <2> QED BY <2>1 DEF Server!Init, Fates
<1>2. SeenInv /\ [SessionNext]_sessionVars => [Server!Next]_(Server!onceVars)
  BY StepMoves, ServerSteps DEF SeenInv, SessionInv
<1>3. SessionInit => SeenInv
  BY InitSession, InitGrounds DEF SeenInv
<1> QED BY <1>1, <1>2, <1>3, SeenStep, PTL DEF SessionSpec, ServerKeepsThePromise, Server!Spec
=============================================================================
