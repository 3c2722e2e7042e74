----------------------- MODULE SystemAuthoring_proofs -----------------------
(***************************************************************************)
(* What SystemAuthoring promises, proved for any number of systems,        *)
(* definitions, keys and concurrent requests; and what DraftEditing        *)
(* promises, for any number of browsers, documents and faults.             *)
(***************************************************************************)
EXTENDS SystemAuthoring, DraftEditing, TLAPS

(* A request that holds the advisory lock, and one whose transaction has    *)
(* begun.                                                                   *)
Holds(w)  == work[w] # NoWork /\ work[w].stage = "locked"
Opened(w) == work[w] # NoWork /\ work[w].stage \in {"open", "locked"}
Chosen(w) == work[w] # NoWork /\ work[w].kind = "publish" /\ work[w].stage # "read"

(* A key that was used has its receipt.                                     *)
KeysAreSpent ==
  /\ \A s \in Systems : systems[s] # Uncreated => <<"create", systems[s].key>> \in receipts
  /\ \A v \in versions : <<"publish", v.key>> \in receipts

(* The lock is exclusive, and its holder found no receipt.                  *)
LockIsExclusive ==
  /\ \A w \in Requests : Holds(w) => Receipt(w) \notin receipts
  /\ \A w, o \in Requests : Holds(w) /\ Holds(o) /\ Receipt(w) = Receipt(o) => w = o

(* The times at which transactions began tell them apart, also from those   *)
(* of the versions there are and from those an assessment was based on.     *)
ClockIsFresh ==
  /\ \A v \in versions : v.created <= started
  /\ \A w \in Requests : Opened(w) => work[w].created <= started
  /\ \A w \in Requests : Chosen(w) /\ work[w].base # NoBase => work[w].base <= started
  /\ \A w \in Requests, v \in versions : Opened(w) => v.created # work[w].created
  /\ \A w, o \in Requests : Opened(w) /\ Opened(o) /\ work[w].created = work[o].created => w = o
  /\ \A w, o \in Requests : Chosen(w) /\ Opened(o) => work[w].base # work[o].created

(* A break of the version that was the latest at the assessment is known.   *)
BasesAreAssessed ==
  \A w \in Requests : Chosen(w) =>
    \A v \in VersionsOf(work[w].system) :
      v.created = work[w].base /\ Breaks(v.document, work[w].document) => work[w].breaking

AuthoringInv == KeysAreSpent /\ LockIsExclusive /\ ClockIsFresh /\ BasesAreAssessed

----------------------------------------------------------------------------
(* Types *)

LEMMA WorkIsTyped ==
  ASSUME AuthoringTypeOK, NEW w \in Requests, work[w] # NoWork
  PROVE  /\ work[w] \in Work
         /\ work[w].kind = "save" => work[w] \in SaveWork
         /\ work[w].kind = "create" => work[w] \in CreateWork
         /\ work[w].kind = "publish" => work[w] \in PublishWork
         /\ work[w].stage \in {"open", "locked"} => work[w] \in CreateWork \cup PublishWork
BY DEF AuthoringTypeOK, Work, SaveWork, CreateWork, PublishWork

LEMMA BegunIsTyped ==
  ASSUME AuthoringTypeOK, NEW w \in Requests, NEW j \in Work \cup {NoWork},
         work' = [work EXCEPT ![w] = j]
  PROVE  work' \in [Requests -> Work \cup {NoWork}]
BY DEF AuthoringTypeOK

(* The stages of a creation or publication after the first. *)
LEMMA StageIsTyped ==
  ASSUME NEW j \in CreateWork \cup PublishWork, NEW t \in Nat
  PROVE  /\ [j EXCEPT !.stage = "open"] \in Work
         /\ [j EXCEPT !.stage = "locked"] \in Work
         /\ [[j EXCEPT !.stage = "open"] EXCEPT !.created = t] \in Work
BY DEF Work, CreateWork, PublishWork

LEMMA AssessedIsTyped ==
  ASSUME NEW j \in PublishWork, NEW base \in Nat \cup {NoBase}, NEW breaking \in BOOLEAN
  PROVE  [j EXCEPT !.stage = "assessed", !.breaking = breaking, !.base = base] \in PublishWork
BY DEF PublishWork

LEMMA StartKeepsType ==
  ASSUME AuthoringTypeOK, NEW w \in Requests, Start(w)
  PROVE  AuthoringTypeOK'
<1> DEFINE j == [[work[w] EXCEPT !.stage = "open"] EXCEPT !.created = started + 1]
<1>1. work[w] \in CreateWork \cup PublishWork
  BY WorkIsTyped DEF Start
<1>2. started + 1 \in Nat
  BY DEF AuthoringTypeOK
<1>3. j \in Work
  BY <1>1, <1>2, StageIsTyped
<1>4. work' = [work EXCEPT ![w] = j]
  BY DEF Start, AuthoringTypeOK
<1> HIDE DEF j
<1>5. work' \in [Requests -> Work \cup {NoWork}]
  BY <1>3, <1>4, BegunIsTyped
<1> QED BY <1>2, <1>5 DEF Start, AuthoringTypeOK

LEMMA LockKeepsType ==
  ASSUME AuthoringTypeOK, NEW w \in Requests, Lock(w)
  PROVE  AuthoringTypeOK'
<1> DEFINE j == [work[w] EXCEPT !.stage = "locked"]
<1>1. work[w] \in CreateWork \cup PublishWork
  BY WorkIsTyped DEF Lock
<1>2. j \in Work
  BY <1>1, StageIsTyped
<1>3. work' = [work EXCEPT ![w] = j] \/ work' = [work EXCEPT ![w] = NoWork]
  BY DEF Lock, Finish, AuthoringTypeOK
<1> HIDE DEF j
<1>4. work' \in [Requests -> Work \cup {NoWork}]
  BY <1>2, <1>3, BegunIsTyped
<1> QED BY <1>4 DEF Lock, AuthoringTypeOK

LEMMA AssessKeepsType ==
  ASSUME AuthoringTypeOK, NEW w \in Requests, Assess(w)
  PROVE  AuthoringTypeOK'
<1> DEFINE latest == LatestOf(work[w].system)
           breaking == \E l \in latest : Breaks(l.document, work[w].document)
           base == IF latest = {} THEN NoBase ELSE (CHOOSE l \in latest : TRUE).created
           j == [work[w] EXCEPT !.stage = "assessed", !.breaking = breaking, !.base = base]
<1>1. work[w] \in PublishWork
  BY WorkIsTyped DEF Assess
<1>2. breaking \in BOOLEAN
  OBVIOUS
<1>3. base \in Nat \cup {NoBase}
  <2>1. CASE latest = {}
    BY <2>1
  <2>2. CASE latest # {}
    <3>1. (CHOOSE l \in latest : TRUE) \in latest
      BY <2>2
    <3>2. latest \subseteq Version
      BY DEF LatestOf, VersionsOf, AuthoringTypeOK
    <3>3. (CHOOSE l \in latest : TRUE) \in Version
      BY <3>1, <3>2
    <3> QED BY <2>2, <3>3 DEF Version
  <2> QED BY <2>1, <2>2
<1> HIDE DEF breaking, base
<1>4. j \in PublishWork
  BY <1>1, <1>2, <1>3, AssessedIsTyped
<1>5. work' = [work EXCEPT ![w] = j] \/ work' = [work EXCEPT ![w] = NoWork]
  BY DEF Assess, Finish, breaking, base
<1> HIDE DEF j
<1>6. work' \in [Requests -> Work \cup {NoWork}]
  BY <1>4, <1>5, BegunIsTyped DEF Work
<1> QED BY <1>6 DEF Assess, AuthoringTypeOK

LEMMA PublishKeepsType ==
  ASSUME AuthoringTypeOK, NEW w \in Requests, Publish(w)
  PROVE  AuthoringTypeOK'
<1>1. work[w] \in PublishWork
  BY WorkIsTyped DEF Publish
<1>2. work' \in [Requests -> Work \cup {NoWork}]
  BY BegunIsTyped DEF Publish, Finish
<1>3. [system |-> work[w].system, document |-> work[w].document, semantic |-> work[w].semantic,
       acknowledged |-> work[w].acknowledged, created |-> work[w].created, key |-> work[w].key]
        \in Version
  BY <1>1 DEF PublishWork, Version
<1>4. Receipt(w) \in {"create", "publish"} \X RequestKeys
  BY <1>1 DEF PublishWork, Receipt
<1> QED BY <1>2, <1>3, <1>4 DEF Publish, AuthoringTypeOK

LEMMA CreateKeepsType ==
  ASSUME AuthoringTypeOK, NEW w \in Requests, NEW s \in Systems, Create(w, s)
  PROVE  AuthoringTypeOK'
<1>1. work[w] \in CreateWork
  BY WorkIsTyped DEF Create
<1>2. work' \in [Requests -> Work \cup {NoWork}]
  BY BegunIsTyped DEF Create, Finish
<1>3. systems' \in [Systems -> System \cup {Uncreated}]
  BY <1>1 DEF Create, AuthoringTypeOK, CreateWork, System
<1>4. Receipt(w) \in {"create", "publish"} \X RequestKeys
  BY <1>1 DEF CreateWork, Receipt
<1> QED BY <1>2, <1>3, <1>4 DEF Create, AuthoringTypeOK

LEMMA OwnedIsCreated ==
  ASSUME AuthoringTypeOK, NEW s \in Systems, Owned(s)
  PROVE  systems[s] \in System
BY DEF AuthoringTypeOK, Owned, Uncreated

LEMMA SavedIsTyped ==
  ASSUME NEW x \in System, NEW d \in Documents
  PROVE  [[x EXCEPT !.revision = @ + 1] EXCEPT !.document = d] \in System
<1>1. x.revision + 1 \in Nat
  BY DEF System
<1>2. [x EXCEPT !.revision = @ + 1] \in System
  BY <1>1 DEF System
<1> QED BY <1>2 DEF System

LEMMA SaveKeepsType ==
  ASSUME AuthoringTypeOK, NEW w \in Requests, SaveDraft(w)
  PROVE  AuthoringTypeOK'
<1>1. work[w] \in SaveWork
  BY WorkIsTyped DEF SaveDraft
<1>2. work' \in [Requests -> Work \cup {NoWork}]
  BY BegunIsTyped DEF SaveDraft, Finish
<1> DEFINE s == work[w].system
<1>3. s \in Systems /\ work[w].document \in Documents
  BY <1>1 DEF SaveWork
<1> HIDE DEF s
<1>4. systems' \in [Systems -> System \cup {Uncreated}]
  <2>1. CASE UNCHANGED systems
    BY <2>1 DEF AuthoringTypeOK
  <2>2. CASE Owned(s) /\ systems' = [systems EXCEPT ![s].revision = @ + 1, ![s].document = work[w].document]
    <3> DEFINE new == [[systems[s] EXCEPT !.revision = @ + 1] EXCEPT !.document = work[w].document]
    <3>1. systems[s] \in System
      BY <1>3, <2>2, OwnedIsCreated
    <3>2. new \in System
      BY <1>3, <3>1, SavedIsTyped
    <3>3. systems' = [systems EXCEPT ![s] = new]
      BY <1>3, <2>2 DEF AuthoringTypeOK
    <3> HIDE DEF new
    <3> QED BY <3>2, <3>3 DEF AuthoringTypeOK
  <2> QED BY <2>1, <2>2 DEF SaveDraft, s
<1> QED BY <1>2, <1>4 DEF SaveDraft, AuthoringTypeOK

LEMMA LifecycleKeepsType ==
  ASSUME AuthoringTypeOK, NEW s \in Systems, NEW l \in {"active", "archived", "deleted"}, Owned(s),
         systems' = [systems EXCEPT ![s].lifecycle = l]
  PROVE  systems' \in [Systems -> System \cup {Uncreated}]
<1>1. systems[s] \in System
  BY OwnedIsCreated
<1>2. [systems[s] EXCEPT !.lifecycle = l] \in System
  BY <1>1 DEF System
<1> QED BY <1>2 DEF AuthoringTypeOK

LEMMA NextKeepsType ==
  ASSUME AuthoringTypeOK, AuthoringNext
  PROVE  AuthoringTypeOK'
<1>1. ASSUME NEW w \in Requests, NEW s \in Systems, NEW d \in Documents, ReadForSave(w, s, d)
      PROVE  AuthoringTypeOK'
  <2>1. systems[s] \in System
    BY <1>1, OwnedIsCreated DEF ReadForSave
  <2>2. [kind |-> "save", stage |-> "read", system |-> s, revision |-> systems[s].revision,
         document |-> d] \in Work
    BY <2>1 DEF Work, SaveWork, System
  <2>3. work' \in [Requests -> Work \cup {NoWork}]
    BY <1>1, <2>2, BegunIsTyped DEF ReadForSave, Begin
  <2> QED BY <1>1, <2>3 DEF ReadForSave, AuthoringTypeOK
<1>2. ASSUME NEW w \in Requests, NEW s \in Systems, NEW k \in RequestKeys, NEW v \in Semantic,
             NEW a \in BOOLEAN, ReadForPublish(w, k, s, v, a)
      PROVE  AuthoringTypeOK'
  <2>1. systems[s] \in System
    BY <1>2, OwnedIsCreated DEF ReadForPublish, Owned
  <2>2. [kind |-> "publish", stage |-> "read", key |-> k, system |-> s,
         revision |-> systems[s].revision, document |-> systems[s].document, semantic |-> v,
         acknowledged |-> a, base |-> NoBase, breaking |-> FALSE, created |-> 0] \in PublishWork
    BY <2>1 DEF PublishWork, System
  <2>3. work' \in [Requests -> Work \cup {NoWork}]
    BY <1>2, <2>2, BegunIsTyped DEF ReadForPublish, Begin, Work
  <2> QED BY <1>2, <2>3 DEF ReadForPublish, AuthoringTypeOK
<1>3. ASSUME NEW w \in Requests, NEW k \in RequestKeys, ReadForCreate(w, k)
      PROVE  AuthoringTypeOK'
  <2>1. [kind |-> "create", stage |-> "read", key |-> k, created |-> 0] \in Work
    BY DEF Work, CreateWork
  <2>2. work' \in [Requests -> Work \cup {NoWork}]
    BY <1>3, <2>1, BegunIsTyped DEF ReadForCreate, Begin
  <2> QED BY <1>3, <2>2 DEF ReadForCreate, AuthoringTypeOK
<1>4. ASSUME NEW w \in Requests, GiveUp(w)
      PROVE  AuthoringTypeOK'
  BY <1>4, BegunIsTyped DEF GiveUp, Finish, AuthoringTypeOK
<1>5. ASSUME NEW s \in Systems, DeleteSystem(s)
      PROVE  AuthoringTypeOK'
  BY <1>5, LifecycleKeepsType DEF DeleteSystem, AuthoringTypeOK
<1>6. ASSUME NEW s \in Systems, NEW l \in {"active", "archived"}, SetSystemLifecycle(s, l)
      PROVE  AuthoringTypeOK'
  BY <1>6, LifecycleKeepsType DEF SetSystemLifecycle, AuthoringTypeOK
<1> QED
  BY <1>1, <1>2, <1>3, <1>4, <1>5, <1>6, StartKeepsType, LockKeepsType, AssessKeepsType,
     PublishKeepsType, CreateKeepsType, SaveKeepsType
  DEF AuthoringNext

(* The stored systems, versions and receipts and what every request has     *)
(* read always have their types.                                            *)
THEOREM AuthoringTypeCorrect == AuthoringSpec => []AuthoringTypeOK
<1>1. AuthoringInit => AuthoringTypeOK
  BY DEF AuthoringInit, AuthoringTypeOK
<1>2. AuthoringTypeOK /\ [AuthoringNext]_authoringVars => AuthoringTypeOK'
  BY NextKeepsType DEF authoringVars, AuthoringTypeOK
<1> QED BY <1>1, <1>2, PTL DEF AuthoringSpec

----------------------------------------------------------------------------
(* Keys and the lock *)

(* What a request has just read, or done, holds no lock and no transaction. *)
LEMMA OthersStay ==
  ASSUME AuthoringTypeOK, NEW w \in Requests, NEW o \in Requests, o # w,
         NEW j, work' = [work EXCEPT ![w] = j]
  PROVE  work'[o] = work[o]
BY DEF AuthoringTypeOK

LEMMA KeysStaySpent ==
  ASSUME AuthoringTypeOK, KeysAreSpent, AuthoringNext
  PROVE  KeysAreSpent'
<1> USE DEF KeysAreSpent
<1>1. CASE UNCHANGED <<systems, versions, receipts>>
  BY <1>1
<1>2. ASSUME NEW w \in Requests, SaveDraft(w)
      PROVE  KeysAreSpent'
  <2> DEFINE s == work[w].system
  <2>1. CASE UNCHANGED systems
    BY <1>2, <2>1 DEF SaveDraft
  <2>2. CASE /\ Owned(s)
             /\ systems' = [systems EXCEPT ![s].revision = @ + 1, ![s].document = work[w].document]
    <3>1. s \in Systems
      BY <1>2, WorkIsTyped DEF SaveDraft, SaveWork
    <3>2. systems[s] \in System
      BY <2>2, <3>1, OwnedIsCreated
    <3>3. systems[s] # Uncreated
      BY <2>2 DEF Owned, Uncreated
    <3>4. /\ \A t \in Systems : t # s => systems'[t] = systems[t]
          /\ systems'[s].key = systems[s].key
      BY <2>2, <3>1, <3>2 DEF System, AuthoringTypeOK
    <3> QED BY <1>2, <3>3, <3>4 DEF SaveDraft
  <2> QED BY <1>2, <2>1, <2>2 DEF SaveDraft
<1>3. ASSUME NEW w \in Requests, NEW s \in Systems, Create(w, s)
      PROVE  KeysAreSpent'
  BY <1>3 DEF Create, Receipt, AuthoringTypeOK
<1>4. ASSUME NEW w \in Requests, Publish(w)
      PROVE  KeysAreSpent'
  BY <1>4 DEF Publish, Receipt
<1>5. ASSUME NEW s \in Systems, NEW l \in {"active", "archived", "deleted"}, Owned(s),
             systems' = [systems EXCEPT ![s].lifecycle = l], versions' \subseteq versions,
             UNCHANGED receipts
      PROVE  KeysAreSpent'
  <2>1. systems[s] \in System /\ systems[s] # Uncreated
    BY <1>5, OwnedIsCreated DEF Owned, Uncreated
  <2>2. /\ \A t \in Systems : t # s => systems'[t] = systems[t]
        /\ systems'[s].key = systems[s].key
    BY <1>5, <2>1 DEF System, AuthoringTypeOK
  <2> QED BY <1>5, <2>1, <2>2
<1>6. ASSUME NEW s \in Systems, DeleteSystem(s)
      PROVE  KeysAreSpent'
  BY <1>5, <1>6 DEF DeleteSystem
<1>7. ASSUME NEW s \in Systems, NEW l \in {"active", "archived"}, SetSystemLifecycle(s, l)
      PROVE  KeysAreSpent'
  BY <1>5, <1>7 DEF SetSystemLifecycle
<1> QED
  BY <1>1, <1>2, <1>3, <1>4, <1>6, <1>7
  DEF AuthoringNext, ReadForSave, ReadForPublish, ReadForCreate, Assess, Start, Lock, GiveUp

(* What a step of a request makes of that request. *)
LEMMA BeginsUnlocked ==
  ASSUME AuthoringTypeOK, NEW w \in Requests, NEW s \in Systems, NEW d, NEW k, NEW v, NEW a,
         ReadForSave(w, s, d) \/ ReadForCreate(w, k) \/ ReadForPublish(w, k, s, v, a)
  PROVE  /\ \A o \in Requests : o # w => work'[o] = work[o]
         /\ work'[w] # NoWork => work'[w].stage = "read"
         /\ UNCHANGED <<systems, versions, receipts, started>>
BY DEF AuthoringTypeOK, ReadForSave, ReadForCreate, ReadForPublish, Begin

LEMMA FinishesWork ==
  ASSUME AuthoringTypeOK, NEW w \in Requests, Finish(w)
  PROVE  /\ \A o \in Requests : o # w => work'[o] = work[o]
         /\ work'[w] = NoWork
BY DEF AuthoringTypeOK, Finish

LEMMA AssessesOrFinishes ==
  ASSUME AuthoringTypeOK, NEW w \in Requests, Assess(w)
  PROVE  /\ \A o \in Requests : o # w => work'[o] = work[o]
         /\ work'[w] # NoWork =>
              LET latest == LatestOf(work[w].system)
              IN  /\ work'[w].stage = "assessed" /\ work'[w].kind = "publish"
                  /\ work'[w].system = work[w].system /\ work'[w].document = work[w].document
                  /\ work'[w].breaking = \E l \in latest : Breaks(l.document, work[w].document)
                  /\ work'[w].base = IF latest = {} THEN NoBase ELSE (CHOOSE l \in latest : TRUE).created
<1>1. work[w] \in PublishWork
  BY WorkIsTyped DEF Assess
<1> DEFINE breaking == \E l \in LatestOf(work[w].system) : Breaks(l.document, work[w].document)
           base == IF LatestOf(work[w].system) = {} THEN NoBase
                   ELSE (CHOOSE l \in LatestOf(work[w].system) : TRUE).created
<1>2. \/ work' = [work EXCEPT ![w] = [work[w] EXCEPT !.stage = "assessed", !.breaking = breaking, !.base = base]]
      \/ work' = [work EXCEPT ![w] = NoWork]
  BY DEF Assess, Finish
<1> HIDE DEF breaking, base
<1>3. CASE work' = [work EXCEPT ![w] = NoWork]
  BY <1>3 DEF AuthoringTypeOK
<1>4. CASE work' = [work EXCEPT ![w] = [work[w] EXCEPT !.stage = "assessed", !.breaking = breaking, !.base = base]]
  <2> DEFINE j == [work[w] EXCEPT !.stage = "assessed", !.breaking = breaking, !.base = base]
  <2>1. /\ j.stage = "assessed" /\ j.kind = "publish" /\ j.system = work[w].system
        /\ j.document = work[w].document /\ j.breaking = breaking /\ j.base = base
    BY <1>1 DEF PublishWork
  <2> HIDE DEF j
  <2>2. work' = [work EXCEPT ![w] = j]
    BY <1>4 DEF j
  <2>3. work'[w] = j /\ \A o \in Requests : o # w => work'[o] = work[o]
    BY <2>2 DEF AuthoringTypeOK
  <2> QED BY <2>1, <2>3 DEF breaking, base
<1> QED BY <1>2, <1>3, <1>4

LEMMA StartsOnly ==
  ASSUME AuthoringTypeOK, NEW w \in Requests, Start(w)
  PROVE  /\ \A o \in Requests : o # w => work'[o] = work[o]
         /\ work'[w].stage = "open" /\ work'[w].created = started + 1
         /\ work'[w].kind = work[w].kind
         /\ Chosen(w)' =>
              /\ Chosen(w)
              /\ work'[w].system = work[w].system /\ work'[w].document = work[w].document
              /\ work'[w].breaking = work[w].breaking /\ work'[w].base = work[w].base
<1> DEFINE j == [[work[w] EXCEPT !.stage = "open"] EXCEPT !.created = started + 1]
<1>1. work[w] \in CreateWork \cup PublishWork
  BY WorkIsTyped DEF Start
<1>2. work' = [work EXCEPT ![w] = j]
  BY DEF Start, AuthoringTypeOK
<1>3. /\ j.stage = "open" /\ j.created = started + 1 /\ j.kind = work[w].kind
      /\ work[w].kind = "publish" =>
           j.system = work[w].system /\ j.document = work[w].document
           /\ j.breaking = work[w].breaking /\ j.base = work[w].base
  BY <1>1 DEF CreateWork, PublishWork
<1> HIDE DEF j
<1>4. work'[w] = j /\ \A o \in Requests : o # w => work'[o] = work[o]
  BY <1>2 DEF AuthoringTypeOK
<1> QED BY <1>3, <1>4 DEF Start, Chosen

LEMMA LocksOrFinishes ==
  ASSUME AuthoringTypeOK, NEW w \in Requests, Lock(w)
  PROVE  /\ \A o \in Requests : o # w => work'[o] = work[o]
         /\ \/ work'[w] = NoWork
            \/ /\ Receipt(w) \notin receipts
               /\ work'[w].stage = "locked" /\ work'[w].created = work[w].created
               /\ work'[w].kind = work[w].kind /\ work'[w].key = work[w].key
               /\ Chosen(w)' =>
                    /\ Chosen(w)
                    /\ work'[w].system = work[w].system /\ work'[w].document = work[w].document
                    /\ work'[w].breaking = work[w].breaking /\ work'[w].base = work[w].base
<1> DEFINE j == [work[w] EXCEPT !.stage = "locked"]
<1>1. work[w] \in CreateWork \cup PublishWork
  BY WorkIsTyped DEF Lock
<1>2. \/ work' = [work EXCEPT ![w] = j] /\ Receipt(w) \notin receipts
      \/ work' = [work EXCEPT ![w] = NoWork]
  BY DEF Lock, Finish, AuthoringTypeOK
<1>3. /\ j.stage = "locked" /\ j.created = work[w].created /\ j.kind = work[w].kind
      /\ j.key = work[w].key
      /\ work[w].kind = "publish" =>
           j.system = work[w].system /\ j.document = work[w].document
           /\ j.breaking = work[w].breaking /\ j.base = work[w].base
  BY <1>1 DEF CreateWork, PublishWork
<1> HIDE DEF j
<1>4. \/ /\ work'[w] = j /\ \A o \in Requests : o # w => work'[o] = work[o]
         /\ Receipt(w) \notin receipts
      \/ /\ work'[w] = NoWork /\ \A o \in Requests : o # w => work'[o] = work[o]
  BY <1>2 DEF AuthoringTypeOK
<1> QED BY <1>3, <1>4 DEF Lock, Chosen

LEMMA LockStaysExclusive ==
  ASSUME AuthoringTypeOK, LockIsExclusive, AuthoringNext
  PROVE  LockIsExclusive'
<1> USE DEF LockIsExclusive, Holds, Receipt
<1>1. ASSUME NEW w \in Requests, \A o \in Requests : o # w => work'[o] = work[o],
             ~ Holds(w)', UNCHANGED receipts
      PROVE  LockIsExclusive'
  BY <1>1
<1>2. ASSUME NEW w \in Requests, Lock(w)
      PROVE  LockIsExclusive'
  <2>1. CASE work'[w] = NoWork
    BY <1>1, <1>2, <2>1, LocksOrFinishes DEF Lock
  <2>2. CASE work'[w] # NoWork
    <3>1. /\ \A o \in Requests : o # w => work'[o] = work[o]
          /\ Receipt(w) \notin receipts /\ Receipt(w)' = Receipt(w)
      BY <1>2, <2>2, LocksOrFinishes
    <3>2. \A o \in Requests : Holds(o) => Receipt(o) # Receipt(w)
      BY <1>2 DEF Lock, HasLock
    <3> QED BY <1>2, <3>1, <3>2 DEF Lock
  <2> QED BY <2>1, <2>2
<1>3. ASSUME NEW w \in Requests, Holds(w), Finish(w),
             receipts' \subseteq receipts \cup {Receipt(w)}
      PROVE  LockIsExclusive'
  BY <1>3, FinishesWork
<1>4. ASSUME NEW w \in Requests, NEW s \in Systems, Create(w, s)
      PROVE  LockIsExclusive'
  BY <1>3, <1>4 DEF Create
<1>5. ASSUME NEW w \in Requests, Publish(w)
      PROVE  LockIsExclusive'
  BY <1>3, <1>5 DEF Publish
<1>6. ASSUME NEW w \in Requests, SaveDraft(w) \/ GiveUp(w)
      PROVE  LockIsExclusive'
  BY <1>1, <1>6, FinishesWork DEF SaveDraft, GiveUp
<1>7. ASSUME NEW w \in Requests, NEW s \in Systems, NEW d, NEW k, NEW v, NEW a,
             ReadForSave(w, s, d) \/ ReadForCreate(w, k) \/ ReadForPublish(w, k, s, v, a)
      PROVE  LockIsExclusive'
  BY <1>1, <1>7, BeginsUnlocked
<1>8. ASSUME NEW w \in Requests, Assess(w)
      PROVE  LockIsExclusive'
  BY <1>1, <1>8, AssessesOrFinishes DEF Assess
<1>9. ASSUME NEW w \in Requests, Start(w)
      PROVE  LockIsExclusive'
  BY <1>1, <1>9, StartsOnly DEF Start
<1>10. CASE UNCHANGED <<work, receipts>>
  BY <1>10
<1>11. ASSUME NEW w \in Requests, NEW k \in RequestKeys, ReadForCreate(w, k)
       PROVE  LockIsExclusive'
  BY <1>1, <1>11 DEF ReadForCreate, Begin, AuthoringTypeOK
<1> QED
  BY <1>2, <1>4, <1>5, <1>6, <1>7, <1>8, <1>9, <1>10, <1>11
  DEF AuthoringNext, DeleteSystem, SetSystemLifecycle

(* Steps that make no system and no version leave the keys as they are.     *)
LEMMA KeysStayUnique ==
  ASSUME AuthoringTypeOK, KeysAreSpent, LockIsExclusive, OncePerKey, AuthoringNext
  PROVE  OncePerKey'
<1> USE DEF OncePerKey
<1>1. CASE UNCHANGED <<systems, versions>>
  BY <1>1
<1>2. ASSUME NEW s \in Systems, systems[s] # Uncreated,
             \A t \in Systems : t # s => systems'[t] = systems[t],
             systems'[s].key = systems[s].key, versions' \subseteq versions
      PROVE  OncePerKey'
  BY <1>2
<1>3. ASSUME NEW w \in Requests, SaveDraft(w)
      PROVE  OncePerKey'
  <2> DEFINE s == work[w].system
  <2>1. CASE UNCHANGED systems
    BY <1>1, <1>3, <2>1 DEF SaveDraft
  <2>2. CASE /\ Owned(s)
             /\ systems' = [systems EXCEPT ![s].revision = @ + 1, ![s].document = work[w].document]
    <3>1. s \in Systems
      BY <1>3, WorkIsTyped DEF SaveDraft, SaveWork
    <3>2. systems[s] \in System /\ systems[s] # Uncreated
      BY <2>2, <3>1, OwnedIsCreated DEF Owned, Uncreated
    <3>3. /\ \A t \in Systems : t # s => systems'[t] = systems[t]
          /\ systems'[s].key = systems[s].key
      BY <2>2, <3>1, <3>2 DEF System, AuthoringTypeOK
    <3> QED BY <1>2, <1>3, <3>1, <3>2, <3>3 DEF SaveDraft
  <2> QED BY <1>3, <2>1, <2>2 DEF SaveDraft
<1>4. ASSUME NEW s \in Systems, NEW l \in {"active", "archived", "deleted"}, Owned(s),
             systems' = [systems EXCEPT ![s].lifecycle = l], versions' \subseteq versions
      PROVE  OncePerKey'
  <2>1. systems[s] \in System /\ systems[s] # Uncreated
    BY <1>4, OwnedIsCreated DEF Owned, Uncreated
  <2>2. /\ \A t \in Systems : t # s => systems'[t] = systems[t]
        /\ systems'[s].key = systems[s].key
    BY <1>4, <2>1 DEF System, AuthoringTypeOK
  <2> QED BY <1>2, <1>4, <2>1, <2>2
<1>5. ASSUME NEW s \in Systems, DeleteSystem(s)
      PROVE  OncePerKey'
  BY <1>4, <1>5 DEF DeleteSystem
<1>6. ASSUME NEW s \in Systems, NEW l \in {"active", "archived"}, SetSystemLifecycle(s, l)
      PROVE  OncePerKey'
  BY <1>4, <1>6 DEF SetSystemLifecycle
<1>7. ASSUME NEW w \in Requests, NEW s \in Systems, Create(w, s)
      PROVE  OncePerKey'
  <2>1. <<"create", work[w].key>> \notin receipts
    BY <1>7 DEF Create, LockIsExclusive, Holds, Receipt
  <2>2. \A t \in Systems : systems[t] # Uncreated => systems[t].key # work[w].key
    BY <2>1 DEF KeysAreSpent
  <2>3. /\ \A t \in Systems : t # s => systems'[t] = systems[t]
        /\ systems'[s].key = work[w].key
    BY <1>7 DEF Create, AuthoringTypeOK
  <2> QED BY <1>7, <2>2, <2>3 DEF Create
<1>8. ASSUME NEW w \in Requests, Publish(w)
      PROVE  OncePerKey'
  <2>1. <<"publish", work[w].key>> \notin receipts
    BY <1>8 DEF Publish, LockIsExclusive, Holds, Receipt
  <2>2. \A v \in versions : v.key # work[w].key
    BY <2>1 DEF KeysAreSpent
  <2> QED BY <1>8, <2>2 DEF Publish
<1> QED
  BY <1>1, <1>3, <1>5, <1>6, <1>7, <1>8
  DEF AuthoringNext, ReadForSave, ReadForPublish, ReadForCreate, Assess, Start, Lock, GiveUp

(* A receipt key makes at most one system and one version, whatever the     *)
(* interleaving of the requests that carry it (executeWithReceipt under the *)
(* advisory lock).                                                          *)
THEOREM KeysAreUsedOnce == AuthoringSpec => []OncePerKey
<1>1. AuthoringInit => AuthoringTypeOK /\ KeysAreSpent /\ LockIsExclusive /\ OncePerKey
  BY DEF AuthoringInit, AuthoringTypeOK, KeysAreSpent, LockIsExclusive, Holds, OncePerKey
<1>2. AuthoringTypeOK /\ KeysAreSpent /\ LockIsExclusive /\ OncePerKey /\ [AuthoringNext]_authoringVars
        => KeysAreSpent' /\ LockIsExclusive' /\ OncePerKey'
  <2> SUFFICES ASSUME AuthoringTypeOK, KeysAreSpent, LockIsExclusive, OncePerKey,
                      [AuthoringNext]_authoringVars
               PROVE  KeysAreSpent' /\ LockIsExclusive' /\ OncePerKey'
    OBVIOUS
  <2>1. CASE AuthoringNext
    BY <2>1, KeysStaySpent, LockStaysExclusive, KeysStayUnique
  <2>2. CASE UNCHANGED authoringVars
    BY <2>2 DEF authoringVars, KeysAreSpent, LockIsExclusive, Holds, Receipt, OncePerKey
  <2> QED BY <2>1, <2>2
<1> QED BY <1>1, <1>2, AuthoringTypeCorrect, PTL DEF AuthoringSpec

----------------------------------------------------------------------------
(* The clock *)

LEMMA ClockStaysFresh ==
  ASSUME AuthoringTypeOK, ClockIsFresh, AuthoringNext
  PROVE  ClockIsFresh'
<1> USE DEF ClockIsFresh, Opened, Chosen
<1>0. /\ started \in Nat
      /\ \A v \in versions : v.created \in Nat
      /\ \A w \in Requests : Opened(w) => work[w].created \in Nat
      /\ \A w \in Requests : Chosen(w) => work[w].base \in Nat \cup {NoBase}
  BY WorkIsTyped DEF AuthoringTypeOK, Version, CreateWork, PublishWork
<1>1. ASSUME NEW w \in Requests, \A o \in Requests : o # w => work'[o] = work[o],
             work'[w] = NoWork \/ work'[w].stage = "read",
             versions' \subseteq versions, UNCHANGED started
      PROVE  ClockIsFresh'
  BY <1>1
<1>2. ASSUME NEW w \in Requests, Assess(w)
      PROVE  ClockIsFresh'
  <2> DEFINE latest == LatestOf(work[w].system)
  <2>1. CASE work'[w] = NoWork
    BY <1>1, <1>2, <2>1, AssessesOrFinishes DEF Assess
  <2>2. CASE work'[w] # NoWork /\ latest = {}
    <3>1. ~ Opened(w)' /\ work'[w].base = NoBase
      BY <1>2, <2>2, AssessesOrFinishes
    <3>2. \A o \in Requests : o # w => work'[o] = work[o]
      BY <1>2, AssessesOrFinishes
    <3> QED BY <1>0, <1>2, <3>1, <3>2, AuthoringAssumption DEF Assess
  <2>3. CASE work'[w] # NoWork /\ latest # {}
    <3> DEFINE l == CHOOSE x \in latest : TRUE
    <3>1. l \in versions
      BY <2>3 DEF LatestOf, VersionsOf
    <3>2. ~ Opened(w)' /\ work'[w].base = l.created
      BY <1>2, <2>3, AssessesOrFinishes
    <3>3. \A o \in Requests : o # w => work'[o] = work[o]
      BY <1>2, AssessesOrFinishes
    <3> HIDE DEF l, latest
    <3> QED BY <1>0, <1>2, <3>1, <3>2, <3>3 DEF Assess
  <2> QED BY <2>1, <2>2, <2>3
<1>3. ASSUME NEW w \in Requests, Start(w)
      PROVE  ClockIsFresh'
  <2>1. /\ \A o \in Requests : o # w => work'[o] = work[o]
        /\ work'[w].created = started + 1
        /\ Chosen(w)' => Chosen(w) /\ work'[w].base = work[w].base
    BY <1>3, StartsOnly
  <2>2. started' = started + 1 /\ UNCHANGED versions
    BY <1>3 DEF Start
  <2>3. \A o \in Requests : Chosen(o)' => Chosen(o) /\ work'[o].base = work[o].base
    BY <2>1
  <2>4. \A o \in Requests : o # w => (Opened(o)' <=> Opened(o))
    BY <2>1
  <2>5. ASSUME NEW o \in Requests, NEW p \in Requests, Chosen(o)', Opened(p)'
        PROVE  work'[o].base # work'[p].created
    <3>1. CASE p = w
      BY <1>0, <2>1, <2>3, <2>5, <3>1, AuthoringAssumption
    <3>2. CASE p # w
      BY <2>1, <2>3, <2>5, <3>2
    <3> QED BY <3>1, <3>2
  <2>6. ASSUME NEW o \in Requests, NEW p \in Requests, Opened(o)', Opened(p)', o # p
        PROVE  work'[o].created # work'[p].created
    BY <1>0, <2>1, <2>4, <2>6
  <2>7. ASSUME NEW o \in Requests, NEW v \in versions, Opened(o)'
        PROVE  v.created # work'[o].created
    BY <1>0, <2>1, <2>4, <2>7
  <2>8. ASSUME NEW o \in Requests, Opened(o)'
        PROVE  work'[o].created <= started + 1
    BY <1>0, <2>1, <2>4, <2>8
  <2>9. ASSUME NEW o \in Requests, Chosen(o)', work'[o].base # NoBase
        PROVE  work'[o].base <= started + 1
    BY <1>0, <2>3, <2>9
  <2>10. \A v \in versions : v.created <= started + 1
    BY <1>0
  <2> HIDE DEF Opened, Chosen
  <2> QED BY <2>2, <2>5, <2>6, <2>7, <2>8, <2>9, <2>10
<1>4. ASSUME NEW w \in Requests, Lock(w)
      PROVE  ClockIsFresh'
  <2>1. CASE work'[w] = NoWork
    BY <1>1, <1>4, <2>1, LocksOrFinishes DEF Lock
  <2>2. CASE work'[w] # NoWork
    <3>1. /\ \A o \in Requests : Opened(o)' => Opened(o) /\ work'[o].created = work[o].created
          /\ \A o \in Requests : Chosen(o)' => Chosen(o) /\ work'[o].base = work[o].base
      BY <1>4, <2>2, LocksOrFinishes DEF Lock
    <3> HIDE DEF Opened, Chosen
    <3> QED BY <1>4, <3>1 DEF Lock
  <2> QED BY <2>1, <2>2
<1>5. ASSUME NEW w \in Requests, Publish(w)
      PROVE  ClockIsFresh'
  <2>1. Opened(w) /\ UNCHANGED started
    BY <1>5 DEF Publish
  <2>2. \A o \in Requests : (Opened(o)' => o # w /\ Opened(o) /\ work'[o] = work[o])
                            /\ (Chosen(o)' => o # w /\ Chosen(o) /\ work'[o] = work[o])
    BY <1>5, FinishesWork DEF Publish
  <2>3. \A v \in versions' : v \in versions \/ v.created = work[w].created
    BY <1>5 DEF Publish
  <2> HIDE DEF Opened, Chosen
  <2> QED BY <2>1, <2>2, <2>3
<1>6. ASSUME NEW w \in Requests, Finish(w), versions' \subseteq versions, UNCHANGED started
      PROVE  ClockIsFresh'
  BY <1>1, <1>6, FinishesWork
<1>7. ASSUME NEW w \in Requests, NEW s \in Systems, NEW d, NEW k, NEW v, NEW a,
             ReadForSave(w, s, d) \/ ReadForPublish(w, k, s, v, a)
      PROVE  ClockIsFresh'
  BY <1>1, <1>7, BeginsUnlocked
<1>8. ASSUME NEW w \in Requests, NEW k \in RequestKeys, ReadForCreate(w, k)
      PROVE  ClockIsFresh'
  BY <1>1, <1>8 DEF ReadForCreate, Begin, AuthoringTypeOK
<1>9. ASSUME NEW s \in Systems, DeleteSystem(s)
      PROVE  ClockIsFresh'
  BY <1>9 DEF DeleteSystem
<1>10. ASSUME NEW s \in Systems, NEW l, SetSystemLifecycle(s, l)
       PROVE  ClockIsFresh'
  BY <1>10 DEF SetSystemLifecycle
<1> QED
  BY <1>2, <1>3, <1>4, <1>5, <1>6, <1>7, <1>8, <1>9, <1>10
  DEF AuthoringNext, SaveDraft, Create, GiveUp

LEMMA BasesStayAssessed ==
  ASSUME AuthoringTypeOK, ClockIsFresh, BasesAreAssessed, AuthoringNext
  PROVE  BasesAreAssessed'
<1> USE DEF BasesAreAssessed, VersionsOf
<1>1. ASSUME NEW w \in Requests, \A o \in Requests : o # w => work'[o] = work[o],
             ~ Chosen(w)' \/ (/\ Chosen(w)
                              /\ work'[w].system = work[w].system /\ work'[w].document = work[w].document
                              /\ work'[w].breaking = work[w].breaking /\ work'[w].base = work[w].base),
             versions' \subseteq versions
      PROVE  BasesAreAssessed'
  <2>1. \A o \in Requests : Chosen(o)' =>
          /\ Chosen(o)
          /\ work'[o].system = work[o].system /\ work'[o].document = work[o].document
          /\ work'[o].breaking = work[o].breaking /\ work'[o].base = work[o].base
    BY <1>1 DEF Chosen
  <2> HIDE DEF Chosen
  <2> QED BY <1>1, <2>1 DEF Breaks
<1>2. ASSUME NEW w \in Requests, Assess(w)
      PROVE  BasesAreAssessed'
  <2>1. CASE work'[w] = NoWork
    BY <1>1, <1>2, <2>1, AssessesOrFinishes DEF Assess, Chosen
  <2>2. CASE work'[w] # NoWork
    <3> DEFINE latest == LatestOf(work[w].system)
    <3>1. /\ work'[w].system = work[w].system /\ work'[w].document = work[w].document
          /\ work'[w].breaking = \E l \in latest : Breaks(l.document, work[w].document)
          /\ work'[w].base = IF latest = {} THEN NoBase ELSE (CHOOSE l \in latest : TRUE).created
          /\ \A o \in Requests : o # w => work'[o] = work[o]
      BY <1>2, <2>2, AssessesOrFinishes
    <3>2. ASSUME NEW v \in VersionsOf(work[w].system), v.created = work'[w].base
          PROVE  v \in latest
      <4>1. v.created \in Nat
        BY DEF AuthoringTypeOK, Version
      <4>2. latest # {}
        BY <3>1, <3>2, <4>1, AuthoringAssumption
      <4> DEFINE l == CHOOSE x \in latest : TRUE
      <4>3. l \in latest /\ v.created = l.created
        BY <3>1, <3>2, <4>2
      <4> HIDE DEF l
      <4> QED BY <4>3 DEF LatestOf
    <3> HIDE DEF latest
    <3>3. \A v \in VersionsOf(work[w].system) :
            v.created = work'[w].base /\ Breaks(v.document, work'[w].document) => work'[w].breaking
      BY <3>1, <3>2
    <3>4. \A o \in Requests : o # w => (Chosen(o)' => Chosen(o))
      BY <3>1 DEF Chosen
    <3>5. UNCHANGED versions
      BY <1>2 DEF Assess
    <3> QED BY <3>1, <3>3, <3>4, <3>5 DEF Breaks
  <2> QED BY <2>1, <2>2
<1>3. ASSUME NEW w \in Requests, Start(w)
      PROVE  BasesAreAssessed'
  BY <1>1, <1>3, StartsOnly DEF Start
<1>4. ASSUME NEW w \in Requests, Lock(w)
      PROVE  BasesAreAssessed'
  BY <1>1, <1>4, LocksOrFinishes DEF Lock, Chosen
<1>5. ASSUME NEW w \in Requests, Publish(w)
      PROVE  BasesAreAssessed'
  <2>1. Opened(w)
    BY <1>5 DEF Publish, Opened
  <2>2. \A o \in Requests : Chosen(o)' => o # w /\ Chosen(o) /\ work'[o] = work[o]
    BY <1>5, FinishesWork DEF Publish, Chosen
  <2>3. \A v \in versions' : v \in versions \/ v.created = work[w].created
    BY <1>5 DEF Publish
  <2>4. \A o \in Requests : Chosen(o) => work[o].base # work[w].created
    BY <2>1 DEF ClockIsFresh
  <2> HIDE DEF Chosen
  <2> QED BY <2>2, <2>3, <2>4 DEF Breaks
<1>6. ASSUME NEW w \in Requests, Finish(w), versions' \subseteq versions
      PROVE  BasesAreAssessed'
  BY <1>1, <1>6, FinishesWork DEF Chosen
<1>7. ASSUME NEW w \in Requests, NEW s \in Systems, NEW d, NEW k, NEW v, NEW a,
             ReadForSave(w, s, d) \/ ReadForPublish(w, k, s, v, a)
      PROVE  BasesAreAssessed'
  BY <1>1, <1>7, BeginsUnlocked DEF Chosen
<1>8. ASSUME NEW w \in Requests, NEW k \in RequestKeys, ReadForCreate(w, k)
      PROVE  BasesAreAssessed'
  BY <1>1, <1>8 DEF ReadForCreate, Begin, AuthoringTypeOK, Chosen
<1>9. CASE UNCHANGED work /\ versions' \subseteq versions
  BY <1>9 DEF Chosen, Breaks
<1> QED
  BY <1>2, <1>3, <1>4, <1>5, <1>6, <1>7, <1>8, <1>9
  DEF AuthoringNext, SaveDraft, Create, GiveUp, DeleteSystem, SetSystemLifecycle

(* Only a publication makes a version, from the draft as it is and after    *)
(* comparing it with the latest version there is by then.                   *)
LEMMA PublishedIsAcknowledged ==
  ASSUME AuthoringTypeOK, BasesAreAssessed, AuthoringNext, NEW v \in versions' \ versions
  PROVE  /\ systems[v.system].lifecycle = "active" /\ systems[v.system].document = v.document
         /\ \A l \in LatestOf(v.system) :
              Breaks(l.document, v.document) => v.acknowledged /\ v.semantic.major > l.semantic.major
<1>1. PICK w \in Requests : Publish(w)
  BY DEF AuthoringNext, ReadForSave, ReadForPublish, ReadForCreate, Assess, Start, Lock, GiveUp,
         SaveDraft, Create, DeleteSystem, SetSystemLifecycle
<1>2. /\ MayPublish(w)
      /\ v.system = work[w].system /\ v.document = work[w].document
      /\ v.semantic = work[w].semantic /\ v.acknowledged = work[w].acknowledged
  BY <1>1 DEF Publish
<1>3. ASSUME NEW l \in LatestOf(v.system), Breaks(l.document, v.document)
      PROVE  v.acknowledged /\ v.semantic.major > l.semantic.major
  <2>1. Findings(w)
    <3>1. CASE l.created # work[w].base
      BY <1>2, <1>3, <3>1 DEF Findings
    <3>2. CASE l.created = work[w].base
      <4>1. l \in VersionsOf(work[w].system)
        BY <1>2 DEF LatestOf
      <4>2. Chosen(w)
        BY <1>1 DEF Publish, Chosen
      <4> QED BY <1>2, <1>3, <3>2, <4>1, <4>2 DEF BasesAreAssessed, Findings
    <3> QED BY <3>1, <3>2
  <2> QED BY <1>2, <1>3, <2>1 DEF MayPublish, Acceptable
<1> QED BY <1>2, <1>3 DEF MayPublish

(* No version breaks the latest one unacknowledged, although the comparison *)
(* is made before the lock is taken and other versions may be published or  *)
(* deleted in between (publishVersion compares again when its base moved).  *)
THEOREM BreaksAreNeverSilent == AuthoringSpec => BreaksAreAcknowledged
<1>1. AuthoringInit => ClockIsFresh /\ BasesAreAssessed
  BY DEF AuthoringInit, ClockIsFresh, BasesAreAssessed, Opened, Chosen
<1>2. AuthoringTypeOK /\ ClockIsFresh /\ BasesAreAssessed /\ [AuthoringNext]_authoringVars
        => ClockIsFresh' /\ BasesAreAssessed'
  <2> SUFFICES ASSUME AuthoringTypeOK, ClockIsFresh, BasesAreAssessed, [AuthoringNext]_authoringVars
               PROVE  ClockIsFresh' /\ BasesAreAssessed'
    OBVIOUS
  <2>1. CASE AuthoringNext
    BY <2>1, ClockStaysFresh, BasesStayAssessed
  <2>2. CASE UNCHANGED authoringVars
    BY <2>2 DEF authoringVars, ClockIsFresh, BasesAreAssessed, Opened, Chosen, VersionsOf, Breaks
  <2> QED BY <2>1, <2>2
<1>3. AuthoringTypeOK /\ BasesAreAssessed /\ [AuthoringNext]_authoringVars
        => [\A v \in versions' \ versions :
              /\ systems[v.system].lifecycle = "active" /\ systems[v.system].document = v.document
              /\ \A l \in LatestOf(v.system) :
                   Breaks(l.document, v.document) =>
                     v.acknowledged /\ v.semantic.major > l.semantic.major]_authoringVars
  BY PublishedIsAcknowledged
<1> QED BY <1>1, <1>2, <1>3, AuthoringTypeCorrect, PTL DEF AuthoringSpec, BreaksAreAcknowledged

----------------------------------------------------------------------------
(* The draft in its author's browsers (DraftEditing), for any number of     *)
(* them and any documents.  A browser knows document d of revision n: the   *)
(* draft has a later revision, or it is d.                                  *)

Known(n, d, st) == n <= st.revision /\ (n = st.revision => d = st.document)

(* A browser knows what it was answered; an answer on its way to the query  *)
(* is not older than the save confirmed last; and only an editor that is    *)
(* shown has a dialog.                                                       *)
Facts(r, st) ==
  /\ r.ws # NoData => Known(r.ws.revision, r.ws.document, st)
  /\ r.get = "answered" =>
       r.got # NoData /\ Known(r.got.revision, r.got.document, st) /\ r.confirmed <= r.got.revision
  /\ r.put # NoRequest => r.status # "error"
  /\ r.put # NoRequest /\ r.put.answer = "saved" =>
       r.put.latest # 0 /\ Known(r.put.latest, r.put.document, st)
  /\ r.confirmed <= st.revision
  /\ r.page = "shown" => r.ws # NoData
  /\ r.dialog => r.page = "shown"

(* What is saved was confirmed, and nothing of it is in flight. *)
SavedIsConfirmed(r, st) ==
  r.saved # NoDocument =>
    /\ r.confirmed # 0 /\ Known(r.confirmed, r.saved, st)
    /\ r.put = NoRequest /\ r.banner = 0 /\ r.status # "error"
    /\ r.pending \in {NoDocument, r.saved} \/ r.timer

(* What is clean has nothing else in the stash. *)
StashIsShown(r) == r.document = r.saved => r.pending \in {NoDocument, r.document} \/ r.undone

(* While the publish dialog is open, what is shown is the document of the   *)
(* confirmed revision, or that revision has been replaced; and whatever is  *)
(* still saved is what is shown.                                             *)
Reviewing(r, st) ==
  r.dialog /\ ~ r.undone =>
    /\ r.confirmed # 0 /\ Known(r.confirmed, r.document, st)
    /\ r.pending \in {NoDocument, r.document}
    /\ r.put # NoRequest => r.put.document = r.document /\ r.pending = NoDocument
    /\ r.banner # 0 => r.put = NoRequest /\ r.pending = NoDocument /\ r.status # "error"
    /\ r.adopt => /\ r.put = NoRequest /\ r.pending \in {NoDocument, r.saved}
                  /\ r.banner = 0 /\ r.status # "error"

(* What was submitted is what was shown. *)
Publishing(r, st) ==
  r.publish # NoRequest /\ ~ r.publish.undone => Known(r.publish.expected, r.publish.shown, st)

EditorOK(r, st) ==
  Facts(r, st) /\ SavedIsConfirmed(r, st) /\ StashIsShown(r) /\ Reviewing(r, st) /\ Publishing(r, st)

DraftInv == DraftTypeOK /\ \A e \in Editors : EditorOK(editor[e], draft)

USE DraftAssumption

LEMMA KnownStays ==
  ASSUME NEW n \in Nat, NEW d, NEW st \in Workspace, NEW new \in Workspace,
         new = st \/ new.revision = st.revision + 1, Known(n, d, st)
  PROVE  Known(n, d, new)
BY DEF Known, Workspace

LEMMA EditorStays ==
  ASSUME NEW r \in Editor, NEW st \in Workspace, NEW new \in Workspace,
         new = st \/ new.revision = st.revision + 1, EditorOK(r, st)
  PROVE  EditorOK(r, new)
<1>1. /\ r.ws # NoData => r.ws.revision \in Nat
      /\ r.got # NoData => r.got.revision \in Nat
      /\ r.put # NoRequest => r.put.latest \in Nat
      /\ r.publish # NoRequest => r.publish.expected \in Nat
      /\ r.confirmed \in Nat
  BY DEF Editor, Workspace, Put, Publication
<1>2. \A n \in Nat : \A d : Known(n, d, st) => Known(n, d, new)
  BY KnownStays
<1>3. r.confirmed <= st.revision => r.confirmed <= new.revision
  BY <1>1 DEF Workspace
<1>4. Facts(r, new)
  BY <1>1, <1>2, <1>3 DEF EditorOK, Facts
<1>5. SavedIsConfirmed(r, new) /\ Reviewing(r, new) /\ Publishing(r, new)
  BY <1>1, <1>2 DEF EditorOK, SavedIsConfirmed, Reviewing, Publishing
<1> QED BY <1>4, <1>5 DEF EditorOK

(* One browser moves, and perhaps the draft with it. *)
LEMMA BrowserMoves ==
  ASSUME DraftInv, NEW e \in Editors, editor' = [editor EXCEPT ![e] = editor'[e]],
         editor'[e] \in Editor, EditorOK(editor'[e], draft'),
         draft' = draft \/ (draft' \in Workspace /\ draft'.revision = draft.revision + 1),
         strays' \in SUBSET Put, edits' \in Nat, clicks' \in Nat, faults' \in Nat
  PROVE  DraftInv'
<1>1. editor \in [Editors -> Editor] /\ draft \in Workspace
  BY DEF DraftInv, DraftTypeOK
<1>2. /\ editor' \in [Editors -> Editor]
      /\ \A o \in Editors \ {e} : editor'[o] = editor[o]
  BY <1>1 DEF Become
<1>3. draft' \in Workspace
  BY <1>1
<1>4. ASSUME NEW o \in Editors  PROVE EditorOK(editor'[o], draft')
  <2>1. CASE o = e
    BY <2>1
  <2>2. CASE o # e
    <3>1. editor[o] \in Editor /\ EditorOK(editor[o], draft)
      BY <1>1 DEF DraftInv
    <3>2. EditorOK(editor[o], draft')
      BY <1>1, <1>3, <3>1, EditorStays
    <3> QED BY <1>2, <2>2, <3>2
  <2> QED BY <2>1, <2>2
<1> QED BY <1>2, <1>3, <1>4 DEF DraftInv, DraftTypeOK

LEMMA BrowserIsOK ==
  ASSUME DraftInv, NEW e \in Editors
  PROVE  /\ editor[e] \in Editor /\ EditorOK(editor[e], draft)
         /\ editor \in [Editors -> Editor]
         /\ draft \in Workspace /\ strays \in SUBSET Put
         /\ edits \in Nat /\ clicks \in Nat /\ faults \in Nat
BY DEF DraftInv, DraftTypeOK

(* u is r but for what Save and the adoption of a document change. *)
SameSync(u, r) ==
  /\ u.page = r.page /\ u.ws = r.ws /\ u.get = r.get /\ u.got = r.got
  /\ u.saved = r.saved /\ u.status = r.status /\ u.banner = r.banner /\ u.confirmed = r.confirmed
  /\ u.put = r.put /\ u.dialog = r.dialog /\ u.publish = r.publish

LEMMA SaveFields ==
  ASSUME NEW r \in Editor, r.ws # NoData
  PROVE  LET u == Save(r)
         IN  /\ u \in Editor /\ SameSync(u, r)
             /\ u.document = r.document /\ u.adopt = r.adopt
             /\ r.document = r.saved =>
                  /\ u.pending = r.pending /\ u.timer = r.timer
                  /\ u.undone <=> r.timer /\ r.pending \notin {NoDocument, r.document}
             /\ r.document # r.saved =>
                  /\ u.pending = r.document
                  /\ u.timer <=> r.timer \/ r.put = NoRequest
                  /\ u.undone <=> r.undone /\ r.dialog
<1>1. CASE r.document = r.saved
  <2> DEFINE undone == r.timer /\ r.pending \notin {NoDocument, r.document}
             u == [r EXCEPT !.undone = undone]
  <2>1. Save(r) = u
    BY <1>1 DEF Save
  <2>2. undone \in BOOLEAN
    BY DEF Editor
  <2> HIDE DEF undone
  <2>3. /\ u \in Editor /\ SameSync(u, r) /\ u.document = r.document /\ u.adopt = r.adopt
        /\ u.pending = r.pending /\ u.timer = r.timer /\ u.undone = undone
    BY <2>2 DEF Editor, SameSync
  <2> QED BY <1>1, <2>1, <2>3 DEF undone
<1>2. CASE r.document # r.saved
  <2> DEFINE known == Later(r.known, r.ws.revision)
             timer == r.timer \/ r.put = NoRequest
             undone == r.undone /\ r.dialog
             u == [r EXCEPT !.known = known, !.pending = r.document, !.timer = timer, !.undone = undone]
  <2>1. Save(r) = u
    BY <1>2 DEF Save, Editor
  <2>2. known \in Nat /\ timer \in BOOLEAN /\ undone \in BOOLEAN /\ r.document \in Document
    BY DEF Editor, Later, Workspace
  <2> HIDE DEF known, timer, undone
  <2>3. /\ u \in Editor /\ SameSync(u, r) /\ u.document = r.document /\ u.adopt = r.adopt
        /\ u.pending = r.document /\ u.timer = timer /\ u.undone = undone
    BY <2>2 DEF Editor, SameSync
  <2> QED BY <1>2, <2>1, <2>3 DEF timer, undone
<1> QED BY <1>1, <1>2

(* A change of the document is stashed, or was saved already. *)
LEMMA SaveKeeps ==
  ASSUME NEW r \in Editor, r.ws # NoData, NEW st,
         Facts(r, st), SavedIsConfirmed(r, st), Publishing(r, st),
         r.dialog /\ ~ r.undone /\ r.document # r.saved =>
           /\ r.confirmed # 0 /\ Known(r.confirmed, r.document, st)
           /\ r.put = NoRequest /\ r.banner = 0 /\ ~ r.adopt
  PROVE  Save(r) \in Editor /\ EditorOK(Save(r), st)
<1> DEFINE u == Save(r)
<1>1. /\ u \in Editor /\ SameSync(u, r)
      /\ u.document = r.document /\ u.adopt = r.adopt
      /\ r.document = r.saved =>
           /\ u.pending = r.pending /\ u.timer = r.timer
           /\ u.undone <=> r.timer /\ r.pending \notin {NoDocument, r.document}
      /\ r.document # r.saved =>
           /\ u.pending = r.document
           /\ u.timer <=> r.timer \/ r.put = NoRequest
           /\ u.undone <=> r.undone /\ r.dialog
  BY SaveFields
<1>2. r.document # NoDocument
  BY DEF Editor
<1> HIDE DEF u
<1>3. Facts(u, st) /\ Publishing(u, st)
  BY <1>1 DEF Facts, Publishing, SameSync
<1>4. SavedIsConfirmed(u, st)
  <2>1. CASE r.document = r.saved
    BY <1>1, <2>1 DEF SavedIsConfirmed, SameSync
  <2>2. CASE r.document # r.saved
    BY <1>1, <2>2 DEF SavedIsConfirmed, SameSync
  <2> QED BY <2>1, <2>2
<1>5. StashIsShown(u)
  <2>1. CASE r.document = r.saved
    <3>1. r.saved # NoDocument
      BY <1>2, <2>1
    <3>2. r.pending \in {NoDocument, r.saved} \/ r.timer
      BY <3>1 DEF SavedIsConfirmed
    <3> QED BY <1>1, <2>1, <3>2 DEF StashIsShown
  <2>2. CASE r.document # r.saved
    BY <1>1, <2>2 DEF StashIsShown, SameSync
  <2> QED BY <2>1, <2>2
<1>6. Reviewing(u, st)
  <2>1. CASE r.document = r.saved
    BY <1>1, <1>2, <2>1 DEF Reviewing, SavedIsConfirmed, SameSync
  <2>2. CASE r.document # r.saved
    BY <1>1, <1>2, <2>2 DEF Reviewing, SavedIsConfirmed, SameSync
  <2> QED BY <2>1, <2>2
<1> QED BY <1>1, <1>3, <1>4, <1>5, <1>6 DEF EditorOK, u

LEMMA FireKeeps ==
  ASSUME NEW r \in Editor, NEW document \in Document, NEW expected \in Nat, NEW forced \in BOOLEAN, NEW st,
         Facts(r, st), Publishing(r, st),
         r.dialog /\ ~ r.undone =>
           /\ r.confirmed # 0 /\ Known(r.confirmed, r.document, st)
           /\ document = r.document /\ r.pending = NoDocument
           /\ r.banner = 0 /\ ~ r.adopt
  PROVE  Fire(r, document, expected, forced) \in Editor /\ EditorOK(Fire(r, document, expected, forced), st)
<1> DEFINE put == [document |-> document, expected |-> expected, base |-> r.base,
                   forced |-> forced, answer |-> "none", latest |-> 0]
           u == [r EXCEPT !.put = put, !.saved = NoDocument, !.status = "saving"]
<1>1. Fire(r, document, expected, forced) = u
  BY DEF Fire
<1>2. put \in Put /\ put.document = document /\ put.answer = "none" /\ put # NoRequest
  <2>1. r.base \in Nat
    BY DEF Editor
  <2>2. put \in Put
    BY <2>1 DEF Put
  <2> QED BY <2>2
<1> HIDE DEF put
<1>3. u \in Editor
  BY <1>2 DEF Editor
<1>4. /\ u.put = put /\ u.saved = NoDocument /\ u.status = "saving"
      /\ u.page = r.page /\ u.ws = r.ws /\ u.get = r.get /\ u.got = r.got /\ u.document = r.document
      /\ u.adopt = r.adopt /\ u.pending = r.pending /\ u.timer = r.timer /\ u.banner = r.banner
      /\ u.confirmed = r.confirmed /\ u.dialog = r.dialog /\ u.publish = r.publish /\ u.undone = r.undone
  BY DEF Editor
<1>5. u.document # NoDocument
  BY <1>4 DEF Editor
<1> HIDE DEF u
<1>6. Facts(u, st) /\ Publishing(u, st)
  BY <1>2, <1>4 DEF Facts, Publishing
<1>7. SavedIsConfirmed(u, st) /\ StashIsShown(u)
  BY <1>4, <1>5 DEF SavedIsConfirmed, StashIsShown
<1>8. Reviewing(u, st)
  BY <1>2, <1>4 DEF Reviewing
<1> QED BY <1>1, <1>3, <1>6, <1>7, <1>8 DEF EditorOK

(* A browser that shows no editor, with what the query keeps. *)
LEMMA ShutKeeps ==
  ASSUME NEW ws \in Workspace \cup {NoData}, NEW get \in {"none", "asked", "answered"},
         NEW got \in Workspace \cup {NoData}, NEW page \in {"closed", "loading", "failed"}, NEW st \in Workspace,
         ws # NoData => Known(ws.revision, ws.document, st),
         get = "answered" => got # NoData /\ Known(got.revision, got.document, st)
  PROVE  LET u == [Shut(ws) EXCEPT !.page = page, !.get = get, !.got = got]
         IN  u \in Editor /\ EditorOK(u, st)
<1> DEFINE u == [Shut(ws) EXCEPT !.page = page, !.get = get, !.got = got]
<1>1. {} \in Document
  BY DEF Document
<1>2. u \in Editor
  BY <1>1 DEF Shut, Editor
<1>3. /\ u.page = page /\ u.ws = ws /\ u.get = get /\ u.got = got
      /\ u.saved = NoDocument /\ u.pending = NoDocument /\ u.confirmed = 0 /\ u.dialog = FALSE
      /\ u.put = NoRequest /\ u.publish = NoRequest /\ u.document = {}
  BY DEF Shut
<1>4. got # NoData => 0 <= got.revision
  BY DEF Workspace
<1>5. 0 <= st.revision
  BY DEF Workspace
<1> HIDE DEF u
<1>6. Facts(u, st)
  BY <1>3, <1>4, <1>5 DEF Facts
<1>7. SavedIsConfirmed(u, st)
  BY <1>3 DEF SavedIsConfirmed
<1>8. StashIsShown(u)
  BY <1>3 DEF StashIsShown
<1>9. Reviewing(u, st) /\ Publishing(u, st)
  BY <1>3 DEF Reviewing, Publishing
<1> QED BY <1>2, <1>6, <1>7, <1>8, <1>9 DEF EditorOK, u

LEMMA MountKeeps ==
  ASSUME NEW r \in Editor, r.ws # NoData, NEW st \in Workspace,
         Known(r.ws.revision, r.ws.document, st),
         r.get = "answered" => r.got # NoData /\ Known(r.got.revision, r.got.document, st)
  PROVE  Mount(r) \in Editor /\ EditorOK(Mount(r), st)
<1> DEFINE x == [Shut(r.ws) EXCEPT !.page = "shown", !.get = r.get, !.got = r.got,
                                   !.document = r.ws.document, !.base = r.ws.revision, !.seen = r.ws.revision]
<1>1. /\ r.ws \in Workspace /\ r.ws.document \in Document /\ r.ws.revision \in Nat
      /\ r.get \in {"none", "asked", "answered"} /\ r.got \in Workspace \cup {NoData}
  BY DEF Editor, Workspace
<1>2. x \in Editor
  BY <1>1 DEF Shut, Editor
<1>3. /\ x.page = "shown" /\ x.ws = r.ws /\ x.get = r.get /\ x.got = r.got
      /\ x.saved = NoDocument /\ x.confirmed = 0 /\ x.dialog = FALSE
      /\ x.put = NoRequest /\ x.publish = NoRequest
  BY DEF Shut
<1>4. r.got # NoData => 0 <= r.got.revision
  BY <1>1 DEF Workspace
<1>5. 0 <= st.revision
  BY DEF Workspace
<1>6. Mount(r) = Save(x)
  BY DEF Mount
<1> HIDE DEF x
<1>7. Facts(x, st) /\ SavedIsConfirmed(x, st) /\ Publishing(x, st)
  BY <1>3, <1>4, <1>5 DEF Facts, SavedIsConfirmed, Publishing
<1> QED BY <1>2, <1>3, <1>6, <1>7, SaveKeeps

(* What is adopted is not older than what was confirmed. *)
LEMMA AdoptKeeps ==
  ASSUME NEW r \in Editor, r.ws # NoData, NEW st \in Workspace, EditorOK(r, st),
         r.confirmed <= r.ws.revision
  PROVE  Adopt(r) \in Editor /\ EditorOK(Adopt(r), st)
<1>1. CASE ~ r.adopt /\ (r.ws.revision = r.seen \/ r.document # r.saved)
  BY <1>1 DEF Adopt
<1>2. CASE r.adopt \/ r.document = r.saved
  <2> DEFINE x == [r EXCEPT !.adopt = FALSE, !.seen = r.ws.revision, !.document = r.ws.document,
                            !.base = r.ws.revision]
  <2>1. \/ Adopt(r) = Save(x)
        \/ Adopt(r) = r
    BY DEF Adopt
  <2>2. /\ r.ws \in Workspace /\ r.ws.document \in Document /\ r.ws.revision \in Nat
        /\ r.confirmed \in Nat /\ r.document # NoDocument
    BY DEF Editor, Workspace
  <2>3. /\ x \in Editor /\ SameSync(x, r) /\ x.pending = r.pending /\ x.timer = r.timer /\ x.undone = r.undone
        /\ x.document = r.ws.document /\ x.adopt = FALSE
    BY <2>2 DEF Editor, SameSync
  <2> HIDE DEF x
  <2>4. Facts(x, st) /\ SavedIsConfirmed(x, st) /\ Publishing(x, st)
    BY <2>3 DEF EditorOK, Facts, SavedIsConfirmed, Publishing, SameSync
  <2>5. Known(r.confirmed, r.ws.document, st)
    BY <2>2 DEF EditorOK, Facts, Known, Workspace
  <2>6. r.dialog /\ ~ r.undone => r.put = NoRequest /\ r.banner = 0 /\ r.confirmed # 0
    BY <1>2, <2>2 DEF EditorOK, Reviewing, SavedIsConfirmed
  <2>7. Save(x) \in Editor /\ EditorOK(Save(x), st)
    BY <2>2, <2>3, <2>4, <2>5, <2>6, SaveKeeps DEF SameSync
  <2> QED BY <2>1, <2>7
<1> QED BY <1>1, <1>2

LEMMA RefetchKeeps ==
  ASSUME NEW r \in Editor, NEW st, EditorOK(r, st)
  PROVE  Refetch(r) \in Editor /\ EditorOK(Refetch(r), st) /\ Refetch(r).ws = r.ws
<1> DEFINE u == [r EXCEPT !.get = "asked", !.got = NoData]
<1>1. Refetch(r) = u
  BY DEF Refetch
<1>2. u \in Editor
  BY DEF Editor
<1>3. /\ u.get = "asked"
      /\ u.page = r.page /\ u.ws = r.ws /\ u.document = r.document
      /\ u.adopt = r.adopt /\ u.saved = r.saved /\ u.pending = r.pending /\ u.timer = r.timer
      /\ u.status = r.status /\ u.banner = r.banner /\ u.confirmed = r.confirmed /\ u.put = r.put
      /\ u.dialog = r.dialog /\ u.publish = r.publish /\ u.undone = r.undone
  BY DEF Editor
<1> HIDE DEF u
<1>4. EditorOK(u, st)
  BY <1>3 DEF EditorOK, Facts, SavedIsConfirmed, StashIsShown, Reviewing, Publishing
<1> QED BY <1>1, <1>2, <1>3, <1>4

LEMMA LeftIsSent ==
  ASSUME NEW r \in Editor
  PROVE  Left(r) \in SUBSET Put
BY DEF Left, Editor

LEMMA DebounceKeeps ==
  ASSUME DraftInv, NEW e \in Editors, DebounceFires(e)
  PROVE  DraftInv'
<1> DEFINE o == editor[e]
           r == [o EXCEPT !.timer = FALSE]
           x == [r EXCEPT !.pending = NoDocument]
<1>1. /\ o \in Editor /\ EditorOK(o, draft)
      /\ editor \in [Editors -> Editor]
      /\ draft \in Workspace /\ strays \in SUBSET Put
      /\ edits \in Nat /\ clicks \in Nat /\ faults \in Nat
  BY BrowserIsOK
<1>2. /\ \/ r.pending \in {NoDocument, r.saved} /\ Become(e, x)
         \/ r.put # NoRequest /\ r.pending \notin {NoDocument, r.saved} /\ Become(e, r)
         \/ /\ r.put = NoRequest /\ r.pending \notin {NoDocument, r.saved}
            /\ Become(e, Fire(x, r.pending, r.known, FALSE))
      /\ UNCHANGED <<draft, strays, edits, clicks, faults>>
  BY DEF DebounceFires
<1> HIDE DEF o
<1>3. /\ r \in Editor /\ r.timer = FALSE /\ r.pending = o.pending
      /\ r.page = o.page /\ r.ws = o.ws /\ r.get = o.get /\ r.got = o.got /\ r.document = o.document
      /\ r.adopt = o.adopt /\ r.saved = o.saved /\ r.status = o.status /\ r.banner = o.banner
      /\ r.confirmed = o.confirmed /\ r.put = o.put /\ r.dialog = o.dialog /\ r.publish = o.publish
      /\ r.undone = o.undone
  BY <1>1 DEF Editor
<1>4. /\ r.known \in Nat /\ r.pending \in Document \cup {NoDocument}
  BY <1>3 DEF Editor
<1> HIDE DEF r
<1>5. /\ x \in Editor /\ x.timer = FALSE /\ x.pending = NoDocument
      /\ x.page = o.page /\ x.ws = o.ws /\ x.get = o.get /\ x.got = o.got /\ x.document = o.document
      /\ x.adopt = o.adopt /\ x.saved = o.saved /\ x.status = o.status /\ x.banner = o.banner
      /\ x.confirmed = o.confirmed /\ x.put = o.put /\ x.dialog = o.dialog /\ x.publish = o.publish
      /\ x.undone = o.undone
  BY <1>3 DEF Editor
<1> HIDE DEF x
<1>6. Facts(x, draft) /\ Publishing(x, draft)
  BY <1>1, <1>5 DEF EditorOK, Facts, Publishing
<1>7. CASE r.pending \in {NoDocument, r.saved} /\ Become(e, x)
  <2>1. SavedIsConfirmed(x, draft)
    BY <1>1, <1>5 DEF EditorOK, SavedIsConfirmed
  <2>2. StashIsShown(x)
    BY <1>1, <1>5 DEF EditorOK, StashIsShown
  <2>3. Reviewing(x, draft)
    BY <1>1, <1>5 DEF EditorOK, Reviewing
  <2>4. EditorOK(x, draft)
    BY <1>6, <2>1, <2>2, <2>3 DEF EditorOK
  <2> QED BY <1>1, <1>2, <1>5, <1>7, <2>4, BrowserMoves DEF Become
<1>8. CASE r.put # NoRequest /\ r.pending \notin {NoDocument, r.saved} /\ Become(e, r)
  <2>1. Facts(r, draft) /\ Publishing(r, draft)
    BY <1>1, <1>3 DEF EditorOK, Facts, Publishing
  <2>2. SavedIsConfirmed(r, draft)
    BY <1>1, <1>3, <1>8 DEF EditorOK, SavedIsConfirmed
  <2>3. StashIsShown(r)
    BY <1>1, <1>3 DEF EditorOK, StashIsShown
  <2>4. Reviewing(r, draft)
    BY <1>1, <1>3 DEF EditorOK, Reviewing
  <2>5. EditorOK(r, draft)
    BY <2>1, <2>2, <2>3, <2>4 DEF EditorOK
  <2> QED BY <1>1, <1>2, <1>3, <1>8, <2>5, BrowserMoves DEF Become
<1>9. CASE /\ r.put = NoRequest /\ r.pending \notin {NoDocument, r.saved}
           /\ Become(e, Fire(x, r.pending, r.known, FALSE))
  <2> DEFINE u == Fire(x, r.pending, r.known, FALSE)
  <2>1. x.dialog /\ ~ x.undone =>
          /\ x.confirmed # 0 /\ Known(x.confirmed, x.document, draft)
          /\ r.pending = x.document /\ x.pending = NoDocument
          /\ x.banner = 0 /\ ~ x.adopt
    BY <1>1, <1>3, <1>5, <1>9 DEF EditorOK, Reviewing
  <2>2. u \in Editor /\ EditorOK(u, draft)
    BY <1>4, <1>5, <1>6, <1>9, <2>1, FireKeeps
  <2> HIDE DEF u
  <2>3. Become(e, u)
    BY <1>9 DEF u
  <2> QED BY <1>1, <1>2, <2>2, <2>3, BrowserMoves DEF Become
<1> QED BY <1>2, <1>7, <1>8, <1>9

LEMMA SaveSucceedsKeeps ==
  ASSUME DraftInv, NEW e \in Editors, SaveSucceeds(e)
  PROVE  DraftInv'
<1> DEFINE o == editor[e]
           next == o.put.latest
           base == IF o.base = o.put.base THEN next ELSE o.base
           r == [o EXCEPT !.put = NoRequest, !.known = next, !.confirmed = next,
                          !.saved = o.put.document, !.status = "saved", !.banner = 0, !.base = base]
           q == Refetch(r)
           x == [q EXCEPT !.pending = NoDocument]
<1>1. /\ o \in Editor /\ EditorOK(o, draft)
      /\ editor \in [Editors -> Editor]
      /\ draft \in Workspace /\ strays \in SUBSET Put
      /\ edits \in Nat /\ clicks \in Nat /\ faults \in Nat
  BY BrowserIsOK
<1>2. o.put # NoRequest /\ o.put.answer = "saved"
  BY DEF SaveSucceeds
<1>3. r = [o EXCEPT !.put = NoRequest, !.known = next, !.confirmed = next,
                    !.saved = o.put.document, !.status = "saved", !.banner = 0,
                    !.base = IF @ = o.put.base THEN next ELSE @]
  BY <1>1 DEF Editor
<1>4. /\ \/ q.pending \notin {NoDocument, o.put.document} /\ Become(e, Fire(x, q.pending, next, FALSE))
         \/ q.pending \in {NoDocument, o.put.document} /\ Become(e, q)
      /\ UNCHANGED <<draft, strays, edits, clicks, faults>>
  BY <1>3 DEF SaveSucceeds
<1> HIDE DEF o
<1>5. /\ o.put \in Put /\ next \in Nat /\ base \in Nat /\ o.put.document \in Document
  <2>1. o.put \in Put /\ o.base \in Nat
    BY <1>1, <1>2 DEF Editor
  <2> QED BY <2>1 DEF Put
<1>6. next # 0 /\ Known(next, o.put.document, draft)
  BY <1>1, <1>2 DEF EditorOK, Facts
<1>. HIDE DEF next, base
<1>7. /\ r \in Editor /\ r.put = NoRequest /\ r.confirmed = next /\ r.saved = o.put.document
      /\ r.status = "saved" /\ r.banner = 0
      /\ r.page = o.page /\ r.ws = o.ws /\ r.document = o.document /\ r.adopt = o.adopt
      /\ r.pending = o.pending /\ r.timer = o.timer /\ r.dialog = o.dialog /\ r.publish = o.publish
      /\ r.undone = o.undone
  BY <1>1, <1>5 DEF Editor
<1> HIDE DEF r
<1>8. /\ q \in Editor /\ q.put = NoRequest /\ q.confirmed = next /\ q.saved = o.put.document
      /\ q.status = "saved" /\ q.banner = 0 /\ q.get = "asked"
      /\ q.page = o.page /\ q.ws = o.ws /\ q.document = o.document /\ q.adopt = o.adopt
      /\ q.pending = o.pending /\ q.timer = o.timer /\ q.dialog = o.dialog /\ q.publish = o.publish
      /\ q.undone = o.undone
  BY <1>7 DEF Refetch, Editor
<1>9. q.pending \in Document \cup {NoDocument}
  BY <1>8 DEF Editor
<1> HIDE DEF q
<1>10. /\ x \in Editor /\ x.put = NoRequest /\ x.confirmed = next /\ x.saved = o.put.document
       /\ x.status = "saved" /\ x.banner = 0 /\ x.get = "asked"
       /\ x.page = o.page /\ x.ws = o.ws /\ x.document = o.document /\ x.adopt = o.adopt
       /\ x.pending = NoDocument /\ x.timer = o.timer /\ x.dialog = o.dialog /\ x.publish = o.publish
       /\ x.undone = o.undone
  BY <1>8 DEF Editor
<1> HIDE DEF x
<1>11. Facts(q, draft) /\ Publishing(q, draft) /\ Facts(x, draft) /\ Publishing(x, draft)
  BY <1>1, <1>6, <1>8, <1>10 DEF EditorOK, Facts, Publishing, Known
<1>12. o.dialog /\ ~ o.undone =>
         /\ o.put.document = o.document /\ o.pending = NoDocument /\ ~ o.adopt
  BY <1>1, <1>2 DEF EditorOK, Reviewing
<1>13. CASE q.pending \notin {NoDocument, o.put.document} /\ Become(e, Fire(x, q.pending, next, FALSE))
  <2> DEFINE u == Fire(x, q.pending, next, FALSE)
  <2>1. ~ (x.dialog /\ ~ x.undone)
    BY <1>8, <1>10, <1>12, <1>13
  <2>2. u \in Editor /\ EditorOK(u, draft)
    BY <1>5, <1>9, <1>10, <1>11, <1>13, <2>1, FireKeeps
  <2> HIDE DEF u
  <2>3. Become(e, u)
    BY <1>13 DEF u
  <2> QED BY <1>1, <1>4, <2>2, <2>3, BrowserMoves DEF Become
<1>14. CASE q.pending \in {NoDocument, o.put.document} /\ Become(e, q)
  <2>1. SavedIsConfirmed(q, draft)
    BY <1>6, <1>8, <1>14 DEF SavedIsConfirmed
  <2>2. StashIsShown(q)
    BY <1>8, <1>14 DEF StashIsShown
  <2>3. Reviewing(q, draft)
    BY <1>6, <1>8, <1>12, <1>14 DEF Reviewing
  <2>4. EditorOK(q, draft)
    BY <1>11, <2>1, <2>2, <2>3 DEF EditorOK
  <2> QED BY <1>1, <1>4, <1>8, <1>14, <2>4, BrowserMoves DEF Become
<1> QED BY <1>4, <1>13, <1>14

LEMMA SaveRefusedKeeps ==
  ASSUME DraftInv, NEW e \in Editors, SaveRefused(e)
  PROVE  DraftInv'
<1> DEFINE o == editor[e]
           r == [o EXCEPT !.put = NoRequest]
           x == [r EXCEPT !.status = "conflict", !.banner = o.put.latest]
           y == [r EXCEPT !.status = "error"]
<1>1. /\ o \in Editor /\ EditorOK(o, draft)
      /\ editor \in [Editors -> Editor]
      /\ draft \in Workspace /\ strays \in SUBSET Put
      /\ edits \in Nat /\ clicks \in Nat /\ faults \in Nat
  BY BrowserIsOK
<1>2. /\ (Become(e, x) \/ Become(e, y))
      /\ UNCHANGED <<draft, strays, edits, clicks, faults>>
  BY DEF SaveRefused
<1>3. o.put # NoRequest
  BY DEF SaveRefused
<1> HIDE DEF o
<1>4. o.put.latest \in Nat
  BY <1>1, <1>3 DEF Editor, Put
<1>5. /\ x \in Editor /\ x.put = NoRequest /\ x.status = "conflict"
      /\ x.page = o.page /\ x.ws = o.ws /\ x.get = o.get /\ x.got = o.got
      /\ x.document = o.document /\ x.adopt = o.adopt /\ x.saved = o.saved
      /\ x.pending = o.pending /\ x.timer = o.timer /\ x.confirmed = o.confirmed
      /\ x.dialog = o.dialog /\ x.publish = o.publish /\ x.undone = o.undone
  BY <1>1, <1>4 DEF Editor
<1>6. /\ y \in Editor /\ y.put = NoRequest /\ y.status = "error"
      /\ y.page = o.page /\ y.ws = o.ws /\ y.get = o.get /\ y.got = o.got
      /\ y.document = o.document /\ y.adopt = o.adopt /\ y.saved = o.saved
      /\ y.pending = o.pending /\ y.timer = o.timer /\ y.banner = o.banner
      /\ y.confirmed = o.confirmed /\ y.dialog = o.dialog /\ y.publish = o.publish
      /\ y.undone = o.undone
  BY <1>1 DEF Editor
<1> HIDE DEF r, x, y
<1>7. o.saved = NoDocument
  BY <1>1, <1>3 DEF EditorOK, SavedIsConfirmed
<1>8. EditorOK(x, draft)
  <2>1. Facts(x, draft) /\ Publishing(x, draft)
    BY <1>1, <1>5 DEF EditorOK, Facts, Publishing
  <2>2. SavedIsConfirmed(x, draft) /\ StashIsShown(x)
    BY <1>1, <1>5, <1>7 DEF EditorOK, SavedIsConfirmed, StashIsShown
  <2>3. Reviewing(x, draft)
    BY <1>1, <1>3, <1>5 DEF EditorOK, Reviewing
  <2> QED BY <2>1, <2>2, <2>3 DEF EditorOK
<1>9. EditorOK(y, draft)
  <2>1. Facts(y, draft) /\ Publishing(y, draft)
    BY <1>1, <1>6 DEF EditorOK, Facts, Publishing
  <2>2. SavedIsConfirmed(y, draft) /\ StashIsShown(y)
    BY <1>1, <1>6, <1>7 DEF EditorOK, SavedIsConfirmed, StashIsShown
  <2>3. Reviewing(y, draft)
    BY <1>1, <1>3, <1>6 DEF EditorOK, Reviewing
  <2> QED BY <2>1, <2>2, <2>3 DEF EditorOK
<1>10. CASE Become(e, x)
  BY <1>1, <1>2, <1>5, <1>8, <1>10, BrowserMoves DEF Become
<1>11. CASE Become(e, y)
  BY <1>1, <1>2, <1>6, <1>9, <1>11, BrowserMoves DEF Become
<1> QED BY <1>2, <1>10, <1>11

LEMMA KeepMineKeeps ==
  ASSUME DraftInv, NEW e \in Editors, KeepMine(e)
  PROVE  DraftInv'
<1> DEFINE o == editor[e]
           x == [o EXCEPT !.banner = 0]
           u == Fire(x, o.document, o.banner, TRUE)
<1>1. /\ o \in Editor /\ EditorOK(o, draft)
      /\ editor \in [Editors -> Editor]
      /\ draft \in Workspace /\ strays \in SUBSET Put
      /\ edits \in Nat /\ clicks \in Nat /\ faults \in Nat
  BY BrowserIsOK
<1>2. /\ o.banner # 0 /\ Become(e, u)
      /\ strays' = strays \cup Left(o)
      /\ UNCHANGED <<draft, edits, clicks, faults>>
  BY DEF KeepMine
<1> HIDE DEF o
<1>3. o.document \in Document /\ o.banner \in Nat /\ Left(o) \in SUBSET Put
  BY <1>1, LeftIsSent DEF Editor
<1>4. /\ x \in Editor /\ x.banner = 0
      /\ x.page = o.page /\ x.ws = o.ws /\ x.get = o.get /\ x.got = o.got
      /\ x.document = o.document /\ x.adopt = o.adopt /\ x.saved = o.saved
      /\ x.pending = o.pending /\ x.timer = o.timer /\ x.status = o.status
      /\ x.confirmed = o.confirmed /\ x.put = o.put /\ x.dialog = o.dialog
      /\ x.publish = o.publish /\ x.undone = o.undone
  BY <1>1 DEF Editor
<1> HIDE DEF x
<1>5. Facts(x, draft) /\ Publishing(x, draft)
  BY <1>1, <1>4 DEF EditorOK, Facts, Publishing
<1>6. x.dialog /\ ~ x.undone =>
        /\ x.confirmed # 0 /\ Known(x.confirmed, x.document, draft)
        /\ o.document = x.document /\ x.pending = NoDocument
        /\ x.banner = 0 /\ ~ x.adopt
  BY <1>1, <1>2, <1>4 DEF EditorOK, Reviewing
<1>7. u \in Editor /\ EditorOK(u, draft)
  BY <1>3, <1>4, <1>5, <1>6, FireKeeps
<1> HIDE DEF u
<1> QED BY <1>1, <1>2, <1>3, <1>7, BrowserMoves DEF Become

LEMMA AcceptKeeps ==
  ASSUME DraftInv, NEW e \in Editors, AcceptTheirs(e)
  PROVE  DraftInv'
<1> DEFINE o == editor[e]
           x == [o EXCEPT !.banner = 0, !.status = "idle", !.adopt = TRUE]
<1>1. /\ o \in Editor /\ EditorOK(o, draft)
      /\ editor \in [Editors -> Editor]
      /\ draft \in Workspace /\ strays \in SUBSET Put
      /\ edits \in Nat /\ clicks \in Nat /\ faults \in Nat
  BY BrowserIsOK
<1>2. /\ o.banner # 0 /\ Become(e, Refetch(x))
      /\ UNCHANGED <<draft, strays, edits, clicks, faults>>
  BY DEF AcceptTheirs
<1> HIDE DEF o
<1>3. /\ x \in Editor /\ x.banner = 0 /\ x.status = "idle" /\ x.adopt = TRUE
      /\ x.page = o.page /\ x.ws = o.ws /\ x.get = o.get /\ x.got = o.got
      /\ x.document = o.document /\ x.saved = o.saved /\ x.pending = o.pending
      /\ x.timer = o.timer /\ x.confirmed = o.confirmed /\ x.put = o.put /\ x.dialog = o.dialog
      /\ x.publish = o.publish /\ x.undone = o.undone
  BY <1>1 DEF Editor
<1> HIDE DEF x
<1>4. Facts(x, draft) /\ Publishing(x, draft)
  BY <1>1, <1>3 DEF EditorOK, Facts, Publishing
<1>5. SavedIsConfirmed(x, draft)
  BY <1>1, <1>2, <1>3 DEF EditorOK, SavedIsConfirmed
<1>6. StashIsShown(x)
  BY <1>1, <1>3 DEF EditorOK, StashIsShown
<1>7. Reviewing(x, draft)
  BY <1>1, <1>2, <1>3 DEF EditorOK, Reviewing
<1>8. Refetch(x) \in Editor /\ EditorOK(Refetch(x), draft)
  BY <1>3, <1>4, <1>5, <1>6, <1>7, RefetchKeeps DEF EditorOK
<1> QED BY <1>1, <1>2, <1>8, BrowserMoves DEF Become

LEMMA DismissKeeps ==
  ASSUME DraftInv, NEW e \in Editors, Dismiss(e)
  PROVE  DraftInv'
<1> DEFINE o == editor[e]
           x == [o EXCEPT !.banner = 0, !.status = "idle"]
<1>1. /\ o \in Editor /\ EditorOK(o, draft)
      /\ editor \in [Editors -> Editor]
      /\ draft \in Workspace /\ strays \in SUBSET Put
      /\ edits \in Nat /\ clicks \in Nat /\ faults \in Nat
  BY BrowserIsOK
<1>2. /\ o.banner # 0 /\ Become(e, x)
      /\ UNCHANGED <<draft, strays, edits, clicks, faults>>
  BY DEF Dismiss
<1> HIDE DEF o
<1>3. /\ x \in Editor /\ x.banner = 0 /\ x.status = "idle"
      /\ x.page = o.page /\ x.ws = o.ws /\ x.get = o.get /\ x.got = o.got
      /\ x.document = o.document /\ x.adopt = o.adopt /\ x.saved = o.saved
      /\ x.pending = o.pending /\ x.timer = o.timer /\ x.confirmed = o.confirmed /\ x.put = o.put
      /\ x.dialog = o.dialog /\ x.publish = o.publish /\ x.undone = o.undone
  BY <1>1 DEF Editor
<1> HIDE DEF x
<1>4. Facts(x, draft) /\ Publishing(x, draft)
  BY <1>1, <1>3 DEF EditorOK, Facts, Publishing
<1>5. SavedIsConfirmed(x, draft)
  BY <1>1, <1>2, <1>3 DEF EditorOK, SavedIsConfirmed
<1>6. StashIsShown(x)
  BY <1>1, <1>3 DEF EditorOK, StashIsShown
<1>7. Reviewing(x, draft)
  BY <1>1, <1>2, <1>3 DEF EditorOK, Reviewing
<1>8. EditorOK(x, draft)
  BY <1>4, <1>5, <1>6, <1>7 DEF EditorOK
<1> QED BY <1>1, <1>2, <1>3, <1>8, BrowserMoves DEF Become

LEMMA RetryKeeps ==
  ASSUME DraftInv, NEW e \in Editors, Retry(e)
  PROVE  DraftInv'
<1> DEFINE o == editor[e]
           u == Save(o)
<1>1. /\ o \in Editor /\ EditorOK(o, draft)
      /\ editor \in [Editors -> Editor]
      /\ draft \in Workspace /\ strays \in SUBSET Put
      /\ edits \in Nat /\ clicks \in Nat /\ faults \in Nat
  BY BrowserIsOK
<1>2. /\ o.page = "shown" /\ o.status = "error" /\ Become(e, u)
      /\ UNCHANGED <<draft, strays, edits, clicks, faults>>
  BY DEF Retry, Shown
<1> HIDE DEF o
<1>3. o.ws # NoData
  BY <1>1, <1>2 DEF EditorOK, Facts
<1>4. o.dialog /\ ~ o.undone =>
        /\ o.confirmed # 0 /\ Known(o.confirmed, o.document, draft)
        /\ o.put = NoRequest /\ o.banner = 0 /\ ~ o.adopt
  BY <1>1, <1>2 DEF EditorOK, Reviewing, Facts
<1>5. u \in Editor /\ EditorOK(u, draft)
  BY <1>1, <1>3, <1>4, SaveKeeps DEF EditorOK
<1> HIDE DEF u
<1> QED BY <1>1, <1>2, <1>5, BrowserMoves DEF Become

LEMMA TypeKeeps ==
  ASSUME DraftInv, NEW e \in Editors, NEW m \in Marks, Type(e, m)
  PROVE  DraftInv'
<1> DEFINE o == editor[e]
           document == (o.document \ {m}) \cup ({m} \ o.document)
           x == [o EXCEPT !.document = document]
           u == Save(x)
<1>1. /\ o \in Editor /\ EditorOK(o, draft)
      /\ editor \in [Editors -> Editor]
      /\ draft \in Workspace /\ strays \in SUBSET Put
      /\ edits \in Nat /\ clicks \in Nat /\ faults \in Nat
  BY BrowserIsOK
<1>2. /\ o.page = "shown" /\ ~ o.dialog /\ edits' = edits + 1
      /\ UNCHANGED <<draft, strays, clicks, faults>>
  BY DEF Type, Shown
<1>3. x = [o EXCEPT !.document = (@ \ {m}) \cup ({m} \ @)]
  BY <1>1 DEF Editor
<1>4. Become(e, u)
  BY <1>3 DEF Type
<1> HIDE DEF o
<1>5. document \in Document
  <2>1. o.document \in Document
    BY <1>1 DEF Editor
  <2> QED BY <2>1 DEF Document
<1> HIDE DEF document
<1>6. /\ x \in Editor
      /\ x.page = o.page /\ x.ws = o.ws /\ x.get = o.get /\ x.got = o.got /\ x.adopt = o.adopt
      /\ x.saved = o.saved /\ x.pending = o.pending /\ x.timer = o.timer /\ x.status = o.status
      /\ x.banner = o.banner /\ x.confirmed = o.confirmed /\ x.put = o.put /\ x.dialog = o.dialog
      /\ x.publish = o.publish /\ x.undone = o.undone
  BY <1>1, <1>5 DEF Editor
<1> HIDE DEF x
<1>7. x.ws # NoData /\ ~ x.dialog
  BY <1>1, <1>2, <1>6 DEF EditorOK, Facts
<1>8. Facts(x, draft) /\ Publishing(x, draft)
  BY <1>1, <1>6 DEF EditorOK, Facts, Publishing
<1>9. SavedIsConfirmed(x, draft)
  BY <1>1, <1>6 DEF EditorOK, SavedIsConfirmed
<1>10. u \in Editor /\ EditorOK(u, draft)
  BY <1>6, <1>7, <1>8, <1>9, SaveKeeps
<1> HIDE DEF u
<1>11. /\ strays' \in SUBSET Put /\ edits' \in Nat /\ clicks' \in Nat /\ faults' \in Nat
  BY <1>1, <1>2
<1>12. draft' = draft
  BY <1>2
<1> QED BY <1>1, <1>4, <1>10, <1>11, <1>12, BrowserMoves DEF Become

LEMMA SetArtKeeps ==
  ASSUME DraftInv, NEW e \in Editors, SetArt(e)
  PROVE  DraftInv'
<1> DEFINE o == editor[e]
           new == [revision |-> draft.revision + 1, document |-> draft.document \cup {Art}]
           u == Refetch(o)
<1>1. /\ o \in Editor /\ EditorOK(o, draft)
      /\ editor \in [Editors -> Editor]
      /\ draft \in Workspace /\ strays \in SUBSET Put
      /\ edits \in Nat /\ clicks \in Nat /\ faults \in Nat
  BY BrowserIsOK
<1>2. /\ draft' = new /\ Become(e, u) /\ edits' = edits + 1
      /\ UNCHANGED <<strays, clicks, faults>>
  BY DEF SetArt
<1> HIDE DEF o
<1>3. new \in Workspace /\ new.revision = draft.revision + 1
  BY <1>1 DEF Workspace, Document
<1> HIDE DEF new
<1>4. EditorOK(o, new)
  BY <1>1, <1>3, EditorStays
<1>5. u \in Editor /\ EditorOK(u, new)
  BY <1>1, <1>4, RefetchKeeps
<1> HIDE DEF u
<1>6. /\ strays' \in SUBSET Put /\ edits' \in Nat /\ clicks' \in Nat /\ faults' \in Nat
  BY <1>1, <1>2
<1>7. Become(e, u) /\ draft' \in Workspace /\ draft'.revision = draft.revision + 1 /\ EditorOK(u, draft')
  BY <1>2, <1>3, <1>5
<1>8. editor'[e] = u /\ editor' = [editor EXCEPT ![e] = editor'[e]]
  BY <1>1, <1>7 DEF Become
<1> QED BY <1>5, <1>6, <1>7, <1>8, BrowserMoves

LEMMA OpenDialogKeeps ==
  ASSUME DraftInv, NEW e \in Editors, OpenDialog(e)
  PROVE  DraftInv'
<1> DEFINE o == editor[e]
           x == [o EXCEPT !.dialog = TRUE]
<1>1. /\ o \in Editor /\ EditorOK(o, draft)
      /\ editor \in [Editors -> Editor]
      /\ draft \in Workspace /\ strays \in SUBSET Put
      /\ edits \in Nat /\ clicks \in Nat /\ faults \in Nat
  BY BrowserIsOK
<1>2. /\ o.page = "shown" /\ o.document = o.saved /\ o.status = "saved" /\ Become(e, x) /\ clicks' = clicks + 1
      /\ UNCHANGED <<draft, strays, edits, faults>>
  BY DEF OpenDialog, Clicks, Shown
<1> HIDE DEF o
<1>3. /\ x \in Editor /\ x.dialog = TRUE
      /\ x.page = o.page /\ x.ws = o.ws /\ x.get = o.get /\ x.got = o.got
      /\ x.document = o.document /\ x.adopt = o.adopt /\ x.saved = o.saved
      /\ x.pending = o.pending /\ x.timer = o.timer /\ x.status = o.status /\ x.banner = o.banner
      /\ x.confirmed = o.confirmed /\ x.put = o.put /\ x.publish = o.publish
      /\ x.undone = o.undone
  BY <1>1 DEF Editor
<1>4. o.document # NoDocument
  BY <1>1 DEF Editor
<1> HIDE DEF x
<1>5. Facts(x, draft) /\ Publishing(x, draft)
  BY <1>1, <1>2, <1>3 DEF EditorOK, Facts, Publishing
<1>6. SavedIsConfirmed(x, draft) /\ StashIsShown(x)
  BY <1>1, <1>3 DEF EditorOK, SavedIsConfirmed, StashIsShown
<1>7. Reviewing(x, draft)
  BY <1>1, <1>2, <1>3, <1>4 DEF EditorOK, SavedIsConfirmed, StashIsShown, Reviewing
<1>8. EditorOK(x, draft)
  BY <1>5, <1>6, <1>7 DEF EditorOK
<1>9. /\ strays' \in SUBSET Put /\ edits' \in Nat /\ clicks' \in Nat /\ faults' \in Nat
  BY <1>1, <1>2
<1>10. Become(e, x) /\ draft' = draft
  BY <1>2
<1> QED BY <1>1, <1>3, <1>8, <1>9, <1>10, BrowserMoves DEF Become

LEMMA CloseDialogKeeps ==
  ASSUME DraftInv, NEW e \in Editors, CloseDialog(e)
  PROVE  DraftInv'
<1> DEFINE o == editor[e]
           x == [o EXCEPT !.dialog = FALSE]
<1>1. /\ o \in Editor /\ EditorOK(o, draft)
      /\ editor \in [Editors -> Editor]
      /\ draft \in Workspace /\ strays \in SUBSET Put
      /\ edits \in Nat /\ clicks \in Nat /\ faults \in Nat
  BY BrowserIsOK
<1>2. Become(e, x) /\ UNCHANGED <<draft, strays, edits, clicks, faults>>
  BY DEF CloseDialog
<1> HIDE DEF o
<1>3. /\ x \in Editor /\ x.dialog = FALSE
      /\ x.page = o.page /\ x.ws = o.ws /\ x.get = o.get /\ x.got = o.got
      /\ x.document = o.document /\ x.adopt = o.adopt /\ x.saved = o.saved
      /\ x.pending = o.pending /\ x.timer = o.timer /\ x.status = o.status /\ x.banner = o.banner
      /\ x.confirmed = o.confirmed /\ x.put = o.put /\ x.publish = o.publish
      /\ x.undone = o.undone
  BY <1>1 DEF Editor
<1> HIDE DEF x
<1>4. EditorOK(x, draft)
  BY <1>1, <1>3 DEF EditorOK, Facts, SavedIsConfirmed, StashIsShown, Reviewing, Publishing
<1> QED BY <1>1, <1>2, <1>3, <1>4, BrowserMoves DEF Become

LEMMA SubmitKeeps ==
  ASSUME DraftInv, NEW e \in Editors, Submit(e)
  PROVE  DraftInv'
<1> DEFINE o == editor[e]
           expected == ConfirmedRevision(o)
           publish == [expected |-> expected, shown |-> o.document, undone |-> o.undone]
           x == [o EXCEPT !.publish = publish]
<1>1. /\ o \in Editor /\ EditorOK(o, draft)
      /\ editor \in [Editors -> Editor]
      /\ draft \in Workspace /\ strays \in SUBSET Put
      /\ edits \in Nat /\ clicks \in Nat /\ faults \in Nat
  BY BrowserIsOK
<1>2. /\ o.dialog /\ Become(e, x)
      /\ UNCHANGED <<draft, strays, edits, clicks, faults>>
  BY DEF Submit
<1> HIDE DEF o
<1>3. o.ws \in Workspace /\ o.confirmed \in Nat /\ o.document \in Document /\ o.undone \in BOOLEAN
  BY <1>1, <1>2 DEF EditorOK, Facts, Editor
<1>4. expected \in Nat /\ (o.confirmed # 0 => expected = o.confirmed)
  BY <1>3 DEF ConfirmedRevision, Workspace
<1> HIDE DEF expected
<1>5. /\ publish \in Publication /\ publish # NoRequest
      /\ publish.expected = expected /\ publish.shown = o.document /\ publish.undone = o.undone
  BY <1>3, <1>4 DEF Publication
<1> HIDE DEF publish
<1>6. /\ x \in Editor /\ x.publish = publish
      /\ x.page = o.page /\ x.ws = o.ws /\ x.get = o.get /\ x.got = o.got
      /\ x.document = o.document /\ x.adopt = o.adopt /\ x.saved = o.saved
      /\ x.pending = o.pending /\ x.timer = o.timer /\ x.status = o.status /\ x.banner = o.banner
      /\ x.confirmed = o.confirmed /\ x.put = o.put /\ x.dialog = o.dialog /\ x.undone = o.undone
  BY <1>1, <1>5 DEF Editor
<1> HIDE DEF x
<1>7. Facts(x, draft) /\ SavedIsConfirmed(x, draft) /\ StashIsShown(x) /\ Reviewing(x, draft)
  BY <1>1, <1>6 DEF EditorOK, Facts, SavedIsConfirmed, StashIsShown, Reviewing
<1>8. Publishing(x, draft)
  BY <1>1, <1>2, <1>4, <1>5, <1>6 DEF EditorOK, Reviewing, Publishing
<1>9. EditorOK(x, draft)
  BY <1>7, <1>8 DEF EditorOK
<1> QED BY <1>1, <1>2, <1>6, <1>9, BrowserMoves DEF Become

LEMMA PublishedKeeps ==
  ASSUME DraftInv, NEW e \in Editors, Published(e)
  PROVE  DraftInv'
<1> DEFINE o == editor[e]
           x == [o EXCEPT !.publish = NoRequest]
<1>1. /\ o \in Editor /\ EditorOK(o, draft)
      /\ editor \in [Editors -> Editor]
      /\ draft \in Workspace /\ strays \in SUBSET Put
      /\ edits \in Nat /\ clicks \in Nat /\ faults \in Nat
  BY BrowserIsOK
<1>2. Become(e, x) /\ UNCHANGED <<draft, strays, edits, clicks, faults>>
  BY DEF Published
<1> HIDE DEF o
<1>3. /\ x \in Editor /\ x.publish = NoRequest
      /\ x.page = o.page /\ x.ws = o.ws /\ x.get = o.get /\ x.got = o.got
      /\ x.document = o.document /\ x.adopt = o.adopt /\ x.saved = o.saved
      /\ x.pending = o.pending /\ x.timer = o.timer /\ x.status = o.status /\ x.banner = o.banner
      /\ x.confirmed = o.confirmed /\ x.put = o.put /\ x.dialog = o.dialog /\ x.undone = o.undone
  BY <1>1 DEF Editor
<1> HIDE DEF x
<1>4. EditorOK(x, draft)
  BY <1>1, <1>3 DEF EditorOK, Facts, SavedIsConfirmed, StashIsShown, Reviewing, Publishing
<1> QED BY <1>1, <1>2, <1>3, <1>4, BrowserMoves DEF Become

LEMMA ShutIsEditor ==
  ASSUME NEW ws \in Workspace \cup {NoData}
  PROVE  Shut(ws) \in Editor /\ Shut(ws).page = "closed" /\ Shut(ws).get = "none" /\ Shut(ws).got = NoData
BY DEF Shut, Editor, Document

LEMMA OpenEditorKeeps ==
  ASSUME DraftInv, NEW e \in Editors, OpenEditor(e)
  PROVE  DraftInv'
<1> DEFINE o == editor[e]
           x == [o EXCEPT !.page = "loading", !.ws = NoData]
<1>1. /\ o \in Editor /\ EditorOK(o, draft)
      /\ editor \in [Editors -> Editor]
      /\ draft \in Workspace /\ strays \in SUBSET Put
      /\ edits \in Nat /\ clicks \in Nat /\ faults \in Nat
  BY BrowserIsOK
<1>2. /\ o.page = "closed" /\ clicks' = clicks + 1
      /\ \/ o.ws # NoData /\ Become(e, Mount(o))
         \/ o.ws # NoData /\ Become(e, Mount(Refetch(o)))
         \/ Become(e, Refetch(x))
      /\ UNCHANGED <<draft, strays, edits, faults>>
  BY DEF OpenEditor, Clicks
<1> HIDE DEF o
<1>3. /\ strays' \in SUBSET Put /\ edits' \in Nat /\ clicks' \in Nat /\ faults' \in Nat
      /\ draft' = draft
  BY <1>1, <1>2
<1>4. CASE o.ws # NoData /\ Become(e, Mount(o))
  <2>1. Mount(o) \in Editor /\ EditorOK(Mount(o), draft)
    BY <1>1, <1>4, MountKeeps DEF EditorOK, Facts
  <2> QED BY <1>1, <1>3, <1>4, <2>1, BrowserMoves DEF Become
<1>5. CASE o.ws # NoData /\ Become(e, Mount(Refetch(o)))
  <2> DEFINE r == Refetch(o)
  <2>1. r \in Editor /\ EditorOK(r, draft) /\ r.ws # NoData
    BY <1>1, <1>5, RefetchKeeps
  <2> HIDE DEF r
  <2>2. Mount(r) \in Editor /\ EditorOK(Mount(r), draft)
    BY <1>1, <2>1, MountKeeps DEF EditorOK, Facts
  <2>3. Become(e, Mount(r))
    BY <1>5 DEF r
  <2> QED BY <1>1, <1>3, <2>2, <2>3, BrowserMoves DEF Become
<1>6. CASE Become(e, Refetch(x))
  <2>1. /\ x \in Editor /\ x.ws = NoData /\ x.page = "loading"
        /\ x.get = o.get /\ x.got = o.got /\ x.document = o.document /\ x.adopt = o.adopt
        /\ x.saved = o.saved /\ x.pending = o.pending /\ x.timer = o.timer /\ x.status = o.status
        /\ x.banner = o.banner /\ x.confirmed = o.confirmed /\ x.put = o.put /\ x.dialog = o.dialog
        /\ x.publish = o.publish /\ x.undone = o.undone
    BY <1>1 DEF Editor
  <2> HIDE DEF x
  <2>2. ~ o.dialog
    BY <1>1, <1>2 DEF EditorOK, Facts
  <2>3. Facts(x, draft)
    BY <1>1, <2>1, <2>2 DEF EditorOK, Facts
  <2>4. EditorOK(x, draft)
    BY <1>1, <2>1, <2>3 DEF EditorOK, SavedIsConfirmed, StashIsShown, Reviewing, Publishing
  <2>5. Refetch(x) \in Editor /\ EditorOK(Refetch(x), draft)
    BY <2>1, <2>4, RefetchKeeps
  <2> QED BY <1>1, <1>3, <1>6, <2>5, BrowserMoves DEF Become
<1> QED BY <1>2, <1>4, <1>5, <1>6

LEMMA CloseKeeps ==
  ASSUME DraftInv, NEW e \in Editors, Close(e)
  PROVE  DraftInv'
<1> DEFINE o == editor[e]
           u == [Shut(o.ws) EXCEPT !.get = o.get, !.got = o.got]
           page == "closed"
           w == [Shut(o.ws) EXCEPT !.page = page, !.get = o.get, !.got = o.got]
<1>1. /\ o \in Editor /\ EditorOK(o, draft)
      /\ editor \in [Editors -> Editor]
      /\ draft \in Workspace /\ strays \in SUBSET Put
      /\ edits \in Nat /\ clicks \in Nat /\ faults \in Nat
  BY BrowserIsOK
<1>2. /\ Become(e, u) /\ clicks' = clicks + 1 /\ strays' = strays \cup Left(o)
      /\ UNCHANGED <<draft, edits, faults>>
  BY DEF Close, Clicks
<1> HIDE DEF o
<1>3. u = w
  <2> DEFINE s == Shut(o.ws)
  <2>1. o.ws \in Workspace \cup {NoData}
    BY <1>1 DEF Editor
  <2>2. s \in Editor /\ s.page = page
    BY <2>1, ShutIsEditor
  <2> HIDE DEF s, page
  <2>3. [s EXCEPT !.get = o.get, !.got = o.got] = [s EXCEPT !.page = page, !.get = o.get, !.got = o.got]
    BY <2>2 DEF Editor
  <2> QED BY <2>3 DEF s
<1>4. /\ strays' \in SUBSET Put /\ edits' \in Nat /\ clicks' \in Nat /\ faults' \in Nat
      /\ draft' = draft
  BY <1>1, <1>2, LeftIsSent
<1>5. /\ o.ws \in Workspace \cup {NoData} /\ o.get \in {"none", "asked", "answered"}
      /\ o.got \in Workspace \cup {NoData}
  BY <1>1 DEF Editor
<1>6. /\ o.ws # NoData => Known(o.ws.revision, o.ws.document, draft)
      /\ o.get = "answered" => o.got # NoData /\ Known(o.got.revision, o.got.document, draft)
  BY <1>1 DEF EditorOK, Facts
<1>7. page \in {"closed", "loading", "failed"}
  OBVIOUS
<1> HIDE DEF page
<1>8. w \in Editor /\ EditorOK(w, draft)
  BY <1>1, <1>5, <1>6, <1>7, ShutKeeps
<1>9. Become(e, w)
  BY <1>2, <1>3
<1> HIDE DEF w
<1> QED BY <1>1, <1>4, <1>8, <1>9, BrowserMoves DEF Become

LEMMA RefetchFailsKeeps ==
  ASSUME DraftInv, NEW e \in Editors, RefetchFails(e)
  PROVE  DraftInv'
<1> DEFINE o == editor[e]
           page == IF o.page = "closed" THEN "closed" ELSE "failed"
           get == "none"
           u == [Shut(o.ws) EXCEPT !.page = page]
           w == [Shut(o.ws) EXCEPT !.page = page, !.get = get, !.got = NoData]
<1>1. /\ o \in Editor /\ EditorOK(o, draft)
      /\ editor \in [Editors -> Editor]
      /\ draft \in Workspace /\ strays \in SUBSET Put
      /\ edits \in Nat /\ clicks \in Nat /\ faults \in Nat
  BY BrowserIsOK
<1>2. /\ Become(e, [Shut(o.ws) EXCEPT !.page = IF o.page = "closed" THEN "closed" ELSE "failed"])
      /\ faults' = faults + 1 /\ strays' = strays \cup Left(o)
      /\ UNCHANGED <<draft, edits, clicks>>
  BY DEF RefetchFails, Fault
<1> HIDE DEF o
<1>3. page \in {"closed", "loading", "failed"} /\ Become(e, u)
  BY <1>2
<1> HIDE DEF page
<1>4. u = w
  <2> DEFINE s == Shut(o.ws)
  <2>1. o.ws \in Workspace \cup {NoData}
    BY <1>1 DEF Editor
  <2>2. s \in Editor /\ s.get = get /\ s.got = NoData
    BY <2>1, ShutIsEditor
  <2> HIDE DEF s, get
  <2>3. [s EXCEPT !.page = page] = [s EXCEPT !.page = page, !.get = get, !.got = NoData]
    BY <2>2 DEF Editor
  <2> QED BY <2>3 DEF s
<1>5. /\ strays' \in SUBSET Put /\ edits' \in Nat /\ clicks' \in Nat /\ faults' \in Nat
      /\ draft' = draft
  BY <1>1, <1>2, LeftIsSent
<1>6. o.ws \in Workspace \cup {NoData} /\ (o.ws # NoData => Known(o.ws.revision, o.ws.document, draft))
  BY <1>1 DEF Editor, EditorOK, Facts
<1>7. get \in {"none", "asked", "answered"} /\ get # "answered" /\ NoData \in Workspace \cup {NoData}
  OBVIOUS
<1> HIDE DEF get
<1>8. w \in Editor /\ EditorOK(w, draft)
  BY <1>1, <1>3, <1>6, <1>7, ShutKeeps
<1>9. Become(e, w)
  BY <1>3, <1>4
<1> HIDE DEF w
<1> QED BY <1>1, <1>5, <1>8, <1>9, BrowserMoves DEF Become

LEMMA RefocusKeeps ==
  ASSUME DraftInv, NEW e \in Editors, Refocus(e)
  PROVE  DraftInv'
<1> DEFINE o == editor[e]
           u == Refetch(o)
<1>1. /\ o \in Editor /\ EditorOK(o, draft)
      /\ editor \in [Editors -> Editor]
      /\ draft \in Workspace /\ strays \in SUBSET Put
      /\ edits \in Nat /\ clicks \in Nat /\ faults \in Nat
  BY BrowserIsOK
<1>2. Become(e, u) /\ clicks' = clicks + 1 /\ UNCHANGED <<draft, strays, edits, faults>>
  BY DEF Refocus, Clicks
<1> HIDE DEF o
<1>3. /\ strays' \in SUBSET Put /\ edits' \in Nat /\ clicks' \in Nat /\ faults' \in Nat
      /\ draft' = draft
  BY <1>1, <1>2
<1>4. u \in Editor /\ EditorOK(u, draft)
  BY <1>1, RefetchKeeps
<1> HIDE DEF u
<1> QED BY <1>1, <1>2, <1>3, <1>4, BrowserMoves DEF Become

LEMMA ServerReadsKeeps ==
  ASSUME DraftInv, NEW e \in Editors, ServerReads(e)
  PROVE  DraftInv'
<1> DEFINE o == editor[e]
           x == [o EXCEPT !.get = "answered", !.got = draft]
<1>1. /\ o \in Editor /\ EditorOK(o, draft)
      /\ editor \in [Editors -> Editor]
      /\ draft \in Workspace /\ strays \in SUBSET Put
      /\ edits \in Nat /\ clicks \in Nat /\ faults \in Nat
  BY BrowserIsOK
<1>2. Become(e, x) /\ UNCHANGED <<draft, strays, edits, clicks, faults>>
  BY DEF ServerReads
<1> HIDE DEF o
<1>3. /\ x \in Editor /\ x.get = "answered" /\ x.got = draft
      /\ x.page = o.page /\ x.ws = o.ws /\ x.document = o.document /\ x.adopt = o.adopt
      /\ x.saved = o.saved /\ x.pending = o.pending /\ x.timer = o.timer /\ x.status = o.status
      /\ x.banner = o.banner /\ x.confirmed = o.confirmed /\ x.put = o.put /\ x.dialog = o.dialog
      /\ x.publish = o.publish /\ x.undone = o.undone
  BY <1>1 DEF Editor
<1> HIDE DEF x
<1>4. Known(draft.revision, draft.document, draft)
  BY <1>1 DEF Known, Workspace
<1>5. Facts(x, draft)
  BY <1>1, <1>3, <1>4 DEF EditorOK, Facts
<1>6. EditorOK(x, draft)
  BY <1>1, <1>3, <1>5 DEF EditorOK, SavedIsConfirmed, StashIsShown, Reviewing, Publishing
<1> QED BY <1>1, <1>2, <1>3, <1>6, BrowserMoves DEF Become

LEMMA RefetchedKeeps ==
  ASSUME DraftInv, NEW e \in Editors, Refetched(e)
  PROVE  DraftInv'
<1> DEFINE o == editor[e]
           x == [o EXCEPT !.ws = o.got, !.get = "none", !.got = NoData]
<1>1. /\ o \in Editor /\ EditorOK(o, draft)
      /\ editor \in [Editors -> Editor]
      /\ draft \in Workspace /\ strays \in SUBSET Put
      /\ edits \in Nat /\ clicks \in Nat /\ faults \in Nat
  BY BrowserIsOK
<1>2. o.get = "answered" /\ UNCHANGED <<draft, strays, edits, clicks, faults>>
  BY DEF Refetched
<1>3. \/ Become(e, x)
      \/ x.page = "shown" /\ Become(e, Adopt(x))
      \/ x.page \notin {"closed", "shown"} /\ Become(e, Mount(x))
  <2>1. Become(e, CASE x.page = "closed" -> x
                    [] x.page = "shown"  -> IF x.ws = o.ws THEN x ELSE Adopt(x)
                    [] OTHER             -> Mount(x))
    BY Zenon DEF Refetched
  <2> HIDE DEF o, x
  <2>2. "closed" # "shown"
    OBVIOUS
  <2>3. CASE x.page = "closed"
    <3>1. x.page # "shown"
      BY <2>2, <2>3
    <3> QED BY <2>1, <2>3, <3>1, Zenon
  <2>4. CASE x.page = "shown"
    <3>1. x.page # "closed"
      BY <2>2, <2>4
    <3>2. Become(e, IF x.ws = o.ws THEN x ELSE Adopt(x))
      BY <2>1, <2>4, <3>1, Zenon
    <3> QED BY <2>4, <3>2
  <2>5. CASE x.page \notin {"closed", "shown"}
    BY <2>1, <2>5, Zenon
  <2> QED BY <2>3, <2>4, <2>5
<1> HIDE DEF o
<1>4. /\ o.got \in Workspace /\ Known(o.got.revision, o.got.document, draft)
      /\ o.confirmed <= o.got.revision
  BY <1>1, <1>2 DEF EditorOK, Facts, Editor
<1>5. /\ x \in Editor /\ x.ws = o.got /\ x.get = "none" /\ x.got = NoData
      /\ x.page = o.page /\ x.document = o.document /\ x.adopt = o.adopt /\ x.saved = o.saved
      /\ x.pending = o.pending /\ x.timer = o.timer /\ x.status = o.status /\ x.banner = o.banner
      /\ x.confirmed = o.confirmed /\ x.put = o.put /\ x.dialog = o.dialog
      /\ x.publish = o.publish /\ x.undone = o.undone
  BY <1>1, <1>4 DEF Editor
<1> HIDE DEF x
<1>6. x.ws # NoData /\ Known(x.ws.revision, x.ws.document, draft) /\ x.confirmed <= x.ws.revision
  BY <1>4, <1>5
<1>7. EditorOK(x, draft)
  <2>1. Facts(x, draft)
    BY <1>1, <1>5, <1>6 DEF EditorOK, Facts
  <2> QED BY <1>1, <1>5, <2>1 DEF EditorOK, SavedIsConfirmed, StashIsShown, Reviewing, Publishing
<1>8. CASE Become(e, x)
  BY <1>1, <1>2, <1>5, <1>7, <1>8, BrowserMoves DEF Become
<1>9. CASE Become(e, Adopt(x))
  <2>1. Adopt(x) \in Editor /\ EditorOK(Adopt(x), draft)
    BY <1>1, <1>5, <1>6, <1>7, AdoptKeeps
  <2> QED BY <1>1, <1>2, <1>9, <2>1, BrowserMoves DEF Become
<1>10. CASE Become(e, Mount(x))
  <2>1. Mount(x) \in Editor /\ EditorOK(Mount(x), draft)
    BY <1>1, <1>5, <1>6, MountKeeps
  <2> QED BY <1>1, <1>2, <1>10, <2>1, BrowserMoves DEF Become
<1> QED BY <1>3, <1>8, <1>9, <1>10

LEMMA ServerSavesKeeps ==
  ASSUME DraftInv, NEW e \in Editors, ServerSaves(e)
  PROVE  DraftInv'
<1> DEFINE o == editor[e]
           saved == [o.put EXCEPT !.answer = "saved", !.latest = draft.revision + 1]
           refused == [o.put EXCEPT !.answer = "conflict", !.latest = draft.revision]
           x == [o EXCEPT !.put = saved]
           y == [o EXCEPT !.put = refused]
           new == Stored(o.put)
<1>1. /\ o \in Editor /\ EditorOK(o, draft)
      /\ editor \in [Editors -> Editor]
      /\ draft \in Workspace /\ strays \in SUBSET Put
      /\ edits \in Nat /\ clicks \in Nat /\ faults \in Nat
  BY BrowserIsOK
<1>2. o.put # NoRequest /\ o.put.answer = "none" /\ UNCHANGED <<strays, edits, clicks, faults>>
  BY DEF ServerSaves
<1>3. o.put \in Put /\ o.put.document \in Document /\ draft.revision \in Nat
  <2>1. o.put \in Put
    BY <1>1, <1>2 DEF Editor
  <2> QED BY <1>1, <2>1 DEF Put, Workspace
<1>4. /\ x = [o EXCEPT !.put.answer = "saved", !.put.latest = draft.revision + 1]
      /\ y = [o EXCEPT !.put.answer = "conflict", !.put.latest = draft.revision]
  BY <1>1, <1>3 DEF Editor, Put
<1>5. \/ draft' = new /\ Become(e, x)
      \/ draft' = draft /\ Become(e, y)
  BY <1>4 DEF ServerSaves
<1> HIDE DEF o
<1>6. /\ saved \in Put /\ saved # NoRequest /\ saved.answer = "saved" /\ saved.latest = draft.revision + 1
      /\ saved.document = o.put.document
      /\ refused \in Put /\ refused # NoRequest /\ refused.answer = "conflict"
      /\ refused.document = o.put.document
  <2>1. draft.revision + 1 \in Nat
    BY <1>3
  <2>2. saved \in Put /\ refused \in Put
    BY <1>3, <2>1 DEF Put
  <2> QED BY <1>3, <2>2 DEF Put
<1>7. new \in Workspace /\ new.revision = draft.revision + 1 /\ new.document = o.put.document
  BY <1>3 DEF Stored, Workspace
<1> HIDE DEF saved, refused, new
<1>8. /\ x \in Editor /\ x.put = saved
      /\ x.page = o.page /\ x.ws = o.ws /\ x.get = o.get /\ x.got = o.got
      /\ x.document = o.document /\ x.adopt = o.adopt /\ x.saved = o.saved
      /\ x.pending = o.pending /\ x.timer = o.timer /\ x.status = o.status /\ x.banner = o.banner
      /\ x.confirmed = o.confirmed /\ x.dialog = o.dialog /\ x.publish = o.publish
      /\ x.undone = o.undone
  BY <1>1, <1>6 DEF Editor
<1>9. /\ y \in Editor /\ y.put = refused
      /\ y.page = o.page /\ y.ws = o.ws /\ y.get = o.get /\ y.got = o.got
      /\ y.document = o.document /\ y.adopt = o.adopt /\ y.saved = o.saved
      /\ y.pending = o.pending /\ y.timer = o.timer /\ y.status = o.status /\ y.banner = o.banner
      /\ y.confirmed = o.confirmed /\ y.dialog = o.dialog /\ y.publish = o.publish
      /\ y.undone = o.undone
  BY <1>1, <1>6 DEF Editor
<1> HIDE DEF x, y
<1>10. CASE draft' = new /\ Become(e, x)
  <2>1. EditorOK(o, new)
    BY <1>1, <1>7, EditorStays
  <2>2. saved.latest # 0 /\ Known(saved.latest, saved.document, new)
    BY <1>3, <1>6, <1>7 DEF Known
  <2>3. Facts(x, new) /\ Publishing(x, new) /\ StashIsShown(x)
    BY <1>2, <1>8, <2>1, <2>2 DEF EditorOK, Facts, Publishing, StashIsShown
  <2>4. SavedIsConfirmed(x, new)
    BY <1>2, <1>8, <2>1 DEF EditorOK, SavedIsConfirmed
  <2>5. Reviewing(x, new)
    BY <1>2, <1>6, <1>8, <2>1 DEF EditorOK, Reviewing
  <2>6. EditorOK(x, new)
    BY <2>3, <2>4, <2>5 DEF EditorOK
  <2>7. EditorOK(x, draft') /\ draft' \in Workspace /\ draft'.revision = draft.revision + 1
    BY <1>7, <1>10, <2>6
  <2>8. editor'[e] = x /\ editor' = [editor EXCEPT ![e] = editor'[e]]
    BY <1>1, <1>10 DEF Become
  <2>9. strays' \in SUBSET Put /\ edits' \in Nat /\ clicks' \in Nat /\ faults' \in Nat
    BY <1>1, <1>2
  <2> QED BY <1>8, <2>7, <2>8, <2>9, BrowserMoves
<1>11. CASE draft' = draft /\ Become(e, y)
  <2>1. Facts(y, draft) /\ Publishing(y, draft) /\ StashIsShown(y)
    BY <1>1, <1>2, <1>6, <1>9 DEF EditorOK, Facts, Publishing, StashIsShown
  <2>2. SavedIsConfirmed(y, draft)
    BY <1>1, <1>2, <1>9 DEF EditorOK, SavedIsConfirmed
  <2>3. Reviewing(y, draft)
    BY <1>1, <1>2, <1>6, <1>9 DEF EditorOK, Reviewing
  <2>4. EditorOK(y, draft)
    BY <2>1, <2>2, <2>3 DEF EditorOK
  <2> QED BY <1>1, <1>2, <1>9, <1>11, <2>4, BrowserMoves DEF Become
<1> QED BY <1>5, <1>10, <1>11

LEMMA SaveFailsKeeps ==
  ASSUME DraftInv, NEW e \in Editors, SaveFails(e)
  PROVE  DraftInv'
<1> DEFINE o == editor[e]
           failed == [o.put EXCEPT !.answer = "failed"]
           x == [o EXCEPT !.put = failed]
<1>1. /\ o \in Editor /\ EditorOK(o, draft)
      /\ editor \in [Editors -> Editor]
      /\ draft \in Workspace /\ strays \in SUBSET Put
      /\ edits \in Nat /\ clicks \in Nat /\ faults \in Nat
  BY BrowserIsOK
<1>2. o.put # NoRequest /\ faults' = faults + 1 /\ UNCHANGED <<draft, strays, edits, clicks>>
  BY DEF SaveFails, Fault
<1>3. o.put \in Put
  BY <1>1, <1>2 DEF Editor
<1>4. x = [o EXCEPT !.put.answer = "failed"]
  BY <1>1, <1>3 DEF Editor, Put
<1>5. Become(e, x)
  BY <1>4 DEF SaveFails
<1> HIDE DEF o
<1>6. failed \in Put /\ failed # NoRequest /\ failed.answer = "failed" /\ failed.document = o.put.document
  <2>1. failed \in Put
    BY <1>3 DEF Put
  <2> QED BY <1>3, <2>1 DEF Put
<1> HIDE DEF failed
<1>7. /\ x \in Editor /\ x.put = failed
      /\ x.page = o.page /\ x.ws = o.ws /\ x.get = o.get /\ x.got = o.got
      /\ x.document = o.document /\ x.adopt = o.adopt /\ x.saved = o.saved
      /\ x.pending = o.pending /\ x.timer = o.timer /\ x.status = o.status /\ x.banner = o.banner
      /\ x.confirmed = o.confirmed /\ x.dialog = o.dialog /\ x.publish = o.publish
      /\ x.undone = o.undone
  BY <1>1, <1>6 DEF Editor
<1> HIDE DEF x
<1>8. Facts(x, draft) /\ Publishing(x, draft) /\ StashIsShown(x)
  BY <1>1, <1>2, <1>6, <1>7 DEF EditorOK, Facts, Publishing, StashIsShown
<1>9. SavedIsConfirmed(x, draft)
  BY <1>1, <1>2, <1>7 DEF EditorOK, SavedIsConfirmed
<1>10. Reviewing(x, draft)
  BY <1>1, <1>2, <1>6, <1>7 DEF EditorOK, Reviewing
<1>11. EditorOK(x, draft)
  BY <1>8, <1>9, <1>10 DEF EditorOK
<1>12. strays' \in SUBSET Put /\ edits' \in Nat /\ clicks' \in Nat /\ faults' \in Nat
  BY <1>1, <1>2
<1>13. draft' = draft
  BY <1>2
<1> QED BY <1>1, <1>5, <1>7, <1>11, <1>12, <1>13, BrowserMoves DEF Become

LEMMA StrayKeeps ==
  ASSUME DraftInv, NEW put \in strays, StrayArrives(put)
  PROVE  DraftInv'
<1>1. /\ editor \in [Editors -> Editor] /\ draft \in Workspace /\ put \in Put /\ strays \in SUBSET Put
      /\ edits \in Nat /\ clicks \in Nat /\ faults \in Nat
  BY DEF DraftInv, DraftTypeOK
<1>2. /\ strays' = strays \ {put} /\ draft' \in {draft, Stored(put)}
      /\ UNCHANGED <<editor, edits, clicks, faults>>
  BY DEF StrayArrives
<1>3. Stored(put) \in Workspace /\ Stored(put).revision = draft.revision + 1
  BY <1>1 DEF Stored, Put, Workspace
<1>4. draft' \in Workspace /\ (draft' = draft \/ draft'.revision = draft.revision + 1)
  BY <1>1, <1>2, <1>3
<1>5. ASSUME NEW e \in Editors  PROVE EditorOK(editor'[e], draft')
  <2>1. editor[e] \in Editor /\ EditorOK(editor[e], draft)
    BY <1>1 DEF DraftInv
  <2>2. EditorOK(editor[e], draft')
    BY <1>1, <1>4, <2>1, EditorStays
  <2> QED BY <1>2, <2>2
<1> QED BY <1>1, <1>2, <1>4, <1>5 DEF DraftInv, DraftTypeOK

LEMMA DraftStarts ==
  ASSUME DraftInit
  PROVE  DraftInv
<1> DEFINE row == [revision |-> 1, document |-> {}]
           page == "closed"
           get == "none"
           u == Shut(NoData)
           w == [Shut(NoData) EXCEPT !.page = page, !.get = get, !.got = NoData]
<1>1. row \in Workspace
  BY DEF Workspace, Document
<1>2. u = w
  <2> DEFINE s == Shut(NoData)
  <2>1. s \in Editor /\ s.page = page /\ s.get = get /\ s.got = NoData
    BY ShutIsEditor
  <2> HIDE DEF s, page, get
  <2>2. s = [s EXCEPT !.page = page, !.get = get, !.got = NoData]
    BY <2>1 DEF Editor
  <2> QED BY <2>2 DEF s
<1>3. page \in {"closed", "loading", "failed"} /\ get \in {"none", "asked", "answered"} /\ get # "answered"
      /\ NoData \in Workspace \cup {NoData}
  OBVIOUS
<1> HIDE DEF page, get, row
<1>4. w \in Editor /\ EditorOK(w, row)
  BY <1>1, <1>3, ShutKeeps
<1> HIDE DEF w
<1>5. u \in Editor /\ EditorOK(u, row)
  BY <1>2, <1>4
<1>6. /\ draft = row /\ editor = [e \in Editors |-> u] /\ strays = {}
      /\ edits = 0 /\ clicks = 0 /\ faults = 0
  BY DEF DraftInit, row
<1> HIDE DEF u
<1> QED BY <1>1, <1>5, <1>6 DEF DraftInv, DraftTypeOK

LEMMA DraftSteps ==
  ASSUME DraftInv, [DraftNext]_draftVars
  PROVE  DraftInv'
<1>1. ASSUME NEW e \in Editors, Proceeds(e)  PROVE DraftInv'
  BY <1>1, DebounceKeeps, SaveSucceedsKeeps, SaveRefusedKeeps, ServerReadsKeeps, RefetchedKeeps,
     ServerSavesKeeps DEF Proceeds
<1>2. ASSUME NEW e \in Editors, Author(e)  PROVE DraftInv'
  <2>1. ASSUME NEW m \in Marks, Type(e, m)  PROVE DraftInv'
    BY <2>1, TypeKeeps
  <2> QED
    BY <1>2, <2>1, KeepMineKeeps, AcceptKeeps, DismissKeeps, RetryKeeps, SetArtKeeps, OpenDialogKeeps,
       CloseDialogKeeps, SubmitKeeps, OpenEditorKeeps, CloseKeeps, RefocusKeeps DEF Author
<1>3. ASSUME NEW e \in Editors, Published(e) \/ SaveFails(e) \/ RefetchFails(e)  PROVE DraftInv'
  BY <1>3, PublishedKeeps, SaveFailsKeeps, RefetchFailsKeeps
<1>4. ASSUME NEW put \in strays, StrayArrives(put)  PROVE DraftInv'
  BY <1>4, StrayKeeps
<1>5. CASE UNCHANGED draftVars
  <2>1. UNCHANGED <<draft, editor, strays, edits, clicks, faults>>
    BY <1>5 DEF draftVars
  <2> QED BY <2>1 DEF DraftInv, DraftTypeOK
<1> QED BY <1>1, <1>2, <1>3, <1>4, <1>5 DEF DraftNext

(* The editors, what is on the wire and the draft row always have the shape *)
(* DraftTypeOK gives them.                                                  *)
THEOREM DraftTypes == DraftSpec => []DraftTypeOK
<1>1. DraftInit => DraftInv
  BY DraftStarts
<1>2. DraftInv /\ [DraftNext]_draftVars => DraftInv'
  BY DraftSteps
<1>3. DraftInv => DraftTypeOK
  BY DEF DraftInv
<1> QED BY <1>1, <1>2, <1>3, PTL DEF DraftSpec

(* A publication the server may still accept publishes the document its     *)
(* author looked at: what the dialog shows is the document of the revision  *)
(* confirmed last (confirmedDraftRevision), or that revision has been       *)
(* replaced since and the server refuses.                                    *)
THEOREM ReviewedIsPublished == DraftSpec => []PublishesWhatIsShown
<1>1. DraftInit => DraftInv
  BY DraftStarts
<1>2. DraftInv /\ [DraftNext]_draftVars => DraftInv'
  BY DraftSteps
<1>3. DraftInv => PublishesWhatIsShown
  BY DEF DraftInv, EditorOK, Publishing, Known, PublishesWhatIsShown
<1> QED BY <1>1, <1>2, <1>3, PTL DEF DraftSpec
=============================================================================
