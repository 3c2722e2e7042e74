-------------------------- MODULE SystemAuthoring --------------------------
(***************************************************************************)
(* One author's systems: createDraft, saveDraft, publish, changeLifecycle  *)
(* and deleteSystem of systems/authoring.ts with the transactions of       *)
(* systems/implementation/persistence/repository.ts.                        *)
(*                                                                         *)
(* A request reads the draft and the versions it decides on before its     *)
(* transaction opens, and a creation or publication runs under the         *)
(* advisory lock of its receipt, so its steps interleave with other        *)
(* requests of the author, those with the same key included.  Receipts are *)
(* within their lifetime (RECEIPT_TTL_MS).                                  *)
(*                                                                         *)
(* A document is the set of definitions that characters may rely on: a     *)
(* version breaks an earlier one when it lacks one of them.                 *)
(***************************************************************************)
EXTENDS Naturals, FiniteSets

CONSTANTS
  Systems,            \* ids of systems
  Definitions,        \* what a document may define
  RequestKeys,        \* idempotency keys
  Requests,           \* requests that can be in flight together
  NoWork,             \* an idle one
  NoBase,             \* no version was published when a draft was assessed
  MaxMajor,           \* bounds on the numbers of a version
  MaxMinor,
  MaxDraftRevision,   \* bound on system_drafts.revision
  MaxStarts           \* bound on transactions

VARIABLES
  systems,        \* systems and system_drafts
  versions,       \* system_versions
  receipts,       \* idempotency_receipts: kind and key
  work,           \* what each request has read and where it is
  started         \* transactions begun so far: now() of the database

authoringVars == <<systems, versions, receipts, work, started>>

Documents == SUBSET Definitions
Semantic  == [major : 1..MaxMajor, minor : 0..MaxMinor]

System == [lifecycle : {"active", "archived", "deleted"}, revision : Nat, document : Documents,
           key : RequestKeys]
Uncreated == [lifecycle |-> "none"]

Version == [system : Systems, document : Documents, semantic : Semantic, acknowledged : BOOLEAN,
            created : Nat, key : RequestKeys]

SaveWork ==
  [kind : {"save"}, stage : {"read"}, system : Systems, revision : Nat, document : Documents]
CreateWork ==
  [kind : {"create"}, stage : {"read", "open", "locked"}, key : RequestKeys, created : Nat]
PublishWork ==
  [kind : {"publish"}, stage : {"read", "assessed", "open", "locked"}, key : RequestKeys,
   system : Systems, revision : Nat, document : Documents, semantic : Semantic,
   acknowledged : BOOLEAN, base : Nat \cup {NoBase}, breaking : BOOLEAN, created : Nat]
Work == SaveWork \cup CreateWork \cup PublishWork

ASSUME AuthoringAssumption ==
  /\ MaxMajor \in Nat /\ MaxMinor \in Nat /\ MaxDraftRevision \in Nat /\ MaxStarts \in Nat
  /\ NoBase \notin Nat
  /\ NoWork \notin Work

AuthoringTypeOK ==
  /\ systems \in [Systems -> System \cup {Uncreated}]
  /\ versions \subseteq Version
  /\ receipts \subseteq {"create", "publish"} \X RequestKeys
  /\ work \in [Requests -> Work \cup {NoWork}]
  /\ started \in Nat

AuthoringInit ==
  /\ systems = [s \in Systems |-> Uncreated]
  /\ versions = {}
  /\ receipts = {}
  /\ work = [w \in Requests |-> NoWork]
  /\ started = 0

----------------------------------------------------------------------------
Owned(s) == systems[s].lifecycle \in {"active", "archived"}

VersionsOf(s) == {v \in versions : v.system = s}

(* ORDER BY created_at DESC: the time its transaction began *)
LatestOf(s) == {v \in VersionsOf(s) : \A o \in VersionsOf(s) : o.created <= v.created}

Breaks(old, new) == ~ (old \subseteq new)

Receipt(w) == <<work[w].kind, work[w].key>>

(* Mutant: two requests with one key run side by side. *)
RunsFreely(w) == TRUE

(* pg_advisory_xact_lock over actor, kind and key *)
HasLock(w) == \A o \in Requests : work[o] # NoWork /\ work[o].stage = "locked" => Receipt(o) # Receipt(w)

(* compatibilityFindings, compared again when the assessed base has moved   *)
Findings(w) ==
  \/ work[w].breaking
  \/ \E l \in LatestOf(work[w].system) :
       l.created # work[w].base /\ Breaks(l.document, work[w].document)

(* A breaking version needs the author's word and a new major number. *)
Acceptable(w, breaking) ==
  \A l \in LatestOf(work[w].system) :
    breaking => work[w].acknowledged /\ work[w].semantic.major > l.semantic.major

Begin(w, job) == work[w] = NoWork /\ work' = [work EXCEPT ![w] = job]
Finish(w)     == work' = [work EXCEPT ![w] = NoWork]

----------------------------------------------------------------------------
(* saveDraft: the revision is compared outside and inside the transaction.  *)
ReadForSave(w, s, d) ==
  /\ Owned(s) /\ systems[s].revision < MaxDraftRevision
  /\ Begin(w, [kind |-> "save", stage |-> "read", system |-> s,
               revision |-> systems[s].revision, document |-> d])
  /\ UNCHANGED <<systems, versions, receipts, started>>

SaveDraft(w) ==
  /\ work[w] # NoWork /\ work[w].kind = "save"
  /\ LET s == work[w].system
     IN  IF Owned(s) /\ systems[s].revision = work[w].revision
           THEN systems' = [systems EXCEPT ![s].revision = @ + 1, ![s].document = work[w].document]
           ELSE UNCHANGED systems
  /\ Finish(w)
  /\ UNCHANGED <<versions, receipts, started>>

(* createDraft and publish look for a receipt before anything else. *)
ReadForCreate(w, k) ==
  /\ <<"create", k>> \notin receipts
  /\ Begin(w, [kind |-> "create", stage |-> "read", key |-> k, created |-> 0])
  /\ UNCHANGED <<systems, versions, receipts, started>>

ReadForPublish(w, k, s, semantic, acknowledged) ==
  /\ systems[s].lifecycle = "active"
  /\ <<"publish", k>> \notin receipts
  /\ Begin(w, [kind |-> "publish", stage |-> "read", key |-> k, system |-> s,
               revision |-> systems[s].revision, document |-> systems[s].document,
               semantic |-> semantic, acknowledged |-> acknowledged,
               base |-> NoBase, breaking |-> FALSE, created |-> 0])
  /\ UNCHANGED <<systems, versions, receipts, started>>

(* listVersions and comparePackages, after the images were validated *)
Assess(w) ==
  /\ work[w] # NoWork /\ work[w].kind = "publish" /\ work[w].stage = "read"
  /\ LET latest   == LatestOf(work[w].system)
         breaking == \E l \in latest : Breaks(l.document, work[w].document)
     IN  IF Acceptable(w, breaking)
           THEN work' = [work EXCEPT
                  ![w] = [@ EXCEPT !.stage = "assessed", !.breaking = breaking,
                                   !.base = IF latest = {} THEN NoBase
                                            ELSE (CHOOSE l \in latest : TRUE).created]]
           ELSE Finish(w)
  /\ UNCHANGED <<systems, versions, receipts, started>>

(* executeWithReceipt: BEGIN, *)
Start(w) ==
  /\ work[w] # NoWork
  /\ <<work[w].kind, work[w].stage>> \in {<<"create", "read">>, <<"publish", "assessed">>}
  /\ started < MaxStarts
  /\ started' = started + 1
  /\ work' = [work EXCEPT ![w].stage = "open", ![w].created = started + 1]
  /\ UNCHANGED <<systems, versions, receipts>>

(* lockReceipt, and the answer of a key that has its receipt by now, *)
Lock(w) ==
  /\ work[w] # NoWork /\ work[w].stage = "open"
  /\ HasLock(w)
  /\ IF Receipt(w) \in receipts THEN Finish(w)
     ELSE work' = [work EXCEPT ![w].stage = "locked"]
  /\ UNCHANGED <<systems, versions, receipts, started>>

(* the command itself, its receipt and COMMIT. *)
Create(w, s) ==
  /\ work[w] # NoWork /\ work[w].kind = "create" /\ work[w].stage = "locked"
  /\ systems[s] = Uncreated
  /\ \E d \in Documents :
       systems' = [systems EXCEPT ![s] =
         [lifecycle |-> "active", revision |-> 1, document |-> d, key |-> work[w].key]]
  /\ receipts' = receipts \cup {Receipt(w)}
  /\ Finish(w)
  /\ UNCHANGED <<versions, started>>

(* Mutant: the draft is what it was when it was assessed. *)
MayPublishAsAssessed(w) ==
  /\ systems[work[w].system].lifecycle = "active"
  /\ Acceptable(w, Findings(w))
  /\ \A v \in VersionsOf(work[w].system) : v.semantic # work[w].semantic

MayPublish(w) ==
  LET s == work[w].system
  IN  /\ systems[s].lifecycle = "active"
      /\ systems[s].revision = work[w].revision /\ systems[s].document = work[w].document
      /\ Acceptable(w, Findings(w))
      /\ \A v \in VersionsOf(s) : v.semantic # work[w].semantic

Publish(w) ==
  /\ work[w] # NoWork /\ work[w].kind = "publish" /\ work[w].stage = "locked"
  /\ IF MayPublish(w)
       THEN /\ versions' = versions \cup
                 {[system |-> work[w].system, document |-> work[w].document,
                   semantic |-> work[w].semantic, acknowledged |-> work[w].acknowledged,
                   created |-> work[w].created, key |-> work[w].key]}
            /\ receipts' = receipts \cup {Receipt(w)}
       ELSE UNCHANGED <<versions, receipts>>
  /\ Finish(w)
  /\ UNCHANGED <<systems, started>>

SetSystemLifecycle(s, l) ==
  /\ Owned(s) /\ systems[s].lifecycle # l
  /\ systems' = [systems EXCEPT ![s].lifecycle = l]
  /\ UNCHANGED <<versions, receipts, work, started>>

(* A request fails or dies: its transaction is rolled back. *)
GiveUp(w) ==
  /\ work[w] # NoWork
  /\ Finish(w)
  /\ UNCHANGED <<systems, versions, receipts, started>>

(* deleteOwnedSystem of a system no character or campaign refers to *)
DeleteSystem(s) ==
  /\ Owned(s)
  /\ systems' = [systems EXCEPT ![s].lifecycle = "deleted"]
  /\ versions' = versions \ VersionsOf(s)
  /\ UNCHANGED <<receipts, work, started>>

AuthoringNext ==
  \/ \E w \in Requests, s \in Systems :
       \/ \E d \in Documents : ReadForSave(w, s, d)
       \/ \E k \in RequestKeys, v \in Semantic, a \in BOOLEAN : ReadForPublish(w, k, s, v, a)
       \/ Create(w, s)
  \/ \E w \in Requests, k \in RequestKeys : ReadForCreate(w, k)
  \/ \E w \in Requests : SaveDraft(w) \/ Assess(w) \/ Start(w) \/ Lock(w) \/ Publish(w) \/ GiveUp(w)
  \/ \E s \in Systems : DeleteSystem(s) \/ \E l \in {"active", "archived"} : SetSystemLifecycle(s, l)

AuthoringSpec == AuthoringInit /\ [][AuthoringNext]_authoringVars

----------------------------------------------------------------------------
(* A key makes one system and one version, however often and however close  *)
(* together its request is sent, with the same body or another               *)
(* (executeWithReceipt under the advisory lock).                             *)
OncePerKey ==
  /\ \A s, t \in {x \in Systems : systems[x] # Uncreated} : systems[s].key = systems[t].key => s = t
  /\ \A v, x \in versions : v.key = x.key => v = x

(* No version breaks the one that is the latest when it is published unless *)
(* its author acknowledged it and raised the major number, also when that   *)
(* one was published after the draft was assessed; and what is published is *)
(* the draft as it is, for a system that is not archived (publishVersion).   *)
BreaksAreAcknowledged ==
  [][\A v \in versions' \ versions :
       /\ systems[v.system].lifecycle = "active" /\ systems[v.system].document = v.document
       /\ \A l \in LatestOf(v.system) :
            Breaks(l.document, v.document) =>
              v.acknowledged /\ v.semantic.major > l.semantic.major]_authoringVars
=============================================================================
