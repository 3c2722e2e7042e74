----------------------------- MODULE PushRolls -----------------------------
(***************************************************************************)
(* Rolls of one sheet that may be pushed: characters/push.ts with the part *)
(* of apply() (characters/index.ts) that reads the roll to push and the    *)
(* part of the transactions of characters/persistence.ts that inserts it.   *)
(*                                                                         *)
(* A push rerolls an earlier roll, its parent, once, and only while the    *)
(* sheet is where the parent was rolled.  The parent is read before the    *)
(* rules runtime runs and again under the sheet's lock; between the two    *)
(* the sheet may change hands, members their roles and the campaign its    *)
(* default audience.  What the dice show is left out.                       *)
(***************************************************************************)
EXTENDS Custody

CONSTANTS
  Rolls,          \* execution ids, which are the ids of the rolls they make
  NoRoll,         \* SQL NULL in parent_roll_id
  Pushers,        \* requests that can be in flight together
  NoPush,         \* an idle one
  MaxAttempts     \* push policy maxAttempts of the published system

Audiences == {"owner_only", "gm_only", "campaign"}

ASSUME PushAssumption ==
  /\ NoRoll \notin Rolls
  /\ NoPush \notin [actor : Users, parent : Rolls \cup {NoRoll}, revision : Nat, asked : Audiences]
  /\ MaxAttempts \in Nat

VARIABLES
  audienceDefault,  \* campaigns.roll_audience_default
  rolls,            \* character_rolls with a push result
  pushes            \* what each request has read

pushVars == <<custodyVars, audienceDefault, rolls, pushes>>

Scope == [owner |-> owner, campaign |-> campaign, placement |-> placement]

ScopeOf == [owner : Users \cup {NoUser}, campaign : Campaigns \cup {NoCampaign}, placement : Nat]

Roll == [parent : Rolls \cup {NoRoll}, root : Rolls, attempt : Nat, actor : Users,
         principal : Users, audience : Audiences, scope : ScopeOf]
Unrolled == [attempt |-> 0]

PushTypeOK ==
  /\ CustodyTypeOK
  /\ audienceDefault \in [Campaigns -> Audiences]
  /\ rolls \in [Rolls -> Roll \cup {Unrolled}]
  /\ pushes \in [Pushers -> [actor : Users, parent : Rolls \cup {NoRoll}, revision : Nat,
                             asked : Audiences] \cup {NoPush}]

PushInit ==
  /\ CustodyInit
  /\ audienceDefault \in [Campaigns -> Audiences]
  /\ rolls = [r \in Rolls |-> Unrolled]
  /\ pushes = [w \in Pushers |-> NoPush]

Rolled == {r \in Rolls : rolls[r] # Unrolled}
Children(r) == {k \in Rolled : rolls[k].parent = r}

----------------------------------------------------------------------------
(* canReadRoll (campaigns/policy.ts) of a roll by p for audience a *)
CanReadRoll(c, u, p, a) ==
  /\ IsActiveMember(c, u)
  /\ \/ a = "campaign"
     \/ a = "gm_only" /\ IsGameMaster(c, u)
     \/ u = p

(* mayReadPush: the roll was made where the sheet is now. *)
MayReadPush(u, roll) ==
  /\ roll.scope = Scope
  /\ IF campaign = NoCampaign THEN owner = u
     ELSE CanReadRoll(campaign, u, roll.principal, roll.audience)

Rank == [owner_only |-> 0, gm_only |-> 1, campaign |-> 2]

NarrowerAudience(a, b) == IF Rank[a] <= Rank[b] THEN a ELSE b

Default == IF campaign = NoCampaign THEN "owner_only" ELSE audienceDefault[campaign]

(* Mutant: only the parent is looked at. *)
ParentReadable(u, p) == TRUE

(* A child narrowed by the default of today may be hidden from its actor. *)
ChildReadable(u, p) ==
  campaign # NoCampaign =>
    CanReadRoll(campaign, u, rolls[p].principal, NarrowerAudience(rolls[p].audience, Default))

(* Mutant: the revision is trusted to tell two pushes of one roll apart. *)
Unguarded(p) == TRUE

Unpushed(p) == Children(p) = {}

----------------------------------------------------------------------------
(* apply() up to the runtime: an action that starts a chain, or a push of   *)
(* a roll its actor may read.  No lock is held.                              *)
ReadPush(w, u, p, asked) ==
  /\ pushes[w] = NoPush
  /\ MayWrite(u)
  /\ lifecycle = "active"
  /\ p # NoRoll => p \in Rolled /\ MayReadPush(u, rolls[p])
  /\ asked # "owner_only" => p = NoRoll /\ campaign # NoCampaign
  /\ pushes' = [pushes EXCEPT ![w] =
       [actor |-> u, parent |-> p, revision |-> revision, asked |-> asked]]
  /\ UNCHANGED <<custodyVars, audienceDefault, rolls>>

(* preparePushCommit and insertPushRoll, with the checks before them that   *)
(* every sheet command passes.  The roll may change the sheet or not.       *)
Committable(w) ==
  /\ pushes[w] # NoPush
  /\ MayWrite(pushes[w].actor)
  /\ lifecycle = "active"
  /\ pushes[w].revision = revision

Touch ==
  \/ UNCHANGED custodyVars
  \/ /\ revision < MaxRevision
     /\ revision' = revision + 1
     /\ UNCHANGED <<owner, campaign, returnOwner, placement, lifecycle, controllers, memberVars>>

(* A standalone roll is for its owner; an attached one for whom it asks. *)
CommitRoot(w, r) ==
  /\ Committable(w) /\ pushes[w].parent = NoRoll
  /\ r \notin Rolled
  /\ pushes[w].asked # "owner_only" => campaign # NoCampaign
  /\ rolls' = [rolls EXCEPT ![r] =
       [parent |-> NoRoll, root |-> r, attempt |-> 0, actor |-> pushes[w].actor,
        principal |-> pushes[w].actor, audience |-> pushes[w].asked, scope |-> Scope]]
  /\ pushes' = [pushes EXCEPT ![w] = NoPush]
  /\ Touch
  /\ UNCHANGED audienceDefault

CommitPush(w, r) ==
  LET u == pushes[w].actor
      p == pushes[w].parent
  IN  /\ Committable(w) /\ p # NoRoll
      /\ r \notin Rolled
      /\ MayReadPush(u, rolls[p])
      /\ rolls[p].attempt < MaxAttempts
      /\ Unpushed(p)
      /\ ChildReadable(u, p)
      /\ rolls' = [rolls EXCEPT ![r] =
           [parent |-> p, root |-> rolls[p].root, attempt |-> rolls[p].attempt + 1, actor |-> u,
            principal |-> rolls[p].principal,
            audience |-> NarrowerAudience(rolls[p].audience, Default), scope |-> rolls[p].scope]]
      /\ pushes' = [pushes EXCEPT ![w] = NoPush]
      /\ Touch
      /\ UNCHANGED audienceDefault

(* Any other request is answered with an error, or dies. *)
GiveUp(w) ==
  /\ pushes[w] # NoPush
  /\ pushes' = [pushes EXCEPT ![w] = NoPush]
  /\ UNCHANGED <<custodyVars, audienceDefault, rolls>>

(* The campaign's settings change (updateCampaign). *)
SetAudienceDefault(u, c, a) ==
  /\ IsGameMaster(c, u)
  /\ campaignStatus[c] = "active"
  /\ audienceDefault' = [audienceDefault EXCEPT ![c] = a]
  /\ UNCHANGED <<custodyVars, rolls, pushes>>

PushNext ==
  \/ \E w \in Pushers, u \in Users, p \in Rolls \cup {NoRoll}, a \in Audiences : ReadPush(w, u, p, a)
  \/ \E w \in Pushers, r \in Rolls : CommitRoot(w, r) \/ CommitPush(w, r)
  \/ \E w \in Pushers : GiveUp(w)
  \/ \E u \in Users, c \in Campaigns, a \in Audiences : SetAudienceDefault(u, c, a)
  \/ (CustodyStep \/ (revision < MaxRevision /\ CommandStep)) /\ UNCHANGED <<audienceDefault, rolls, pushes>>

PushSpec == PushInit /\ [][PushNext]_pushVars

----------------------------------------------------------------------------
(* A roll is pushed once, whatever requests race for it, and a chain of      *)
(* pushes is bounded, stays in the placement of its first roll, belongs to   *)
(* who made that one and is never shown to more people than before           *)
(* (parent_consumed and the lineage checks of preparePushCommit).            *)
PushedOnce ==
  \A r \in Rolled :
    /\ \A k, l \in Children(r) : k = l
    /\ rolls[r].attempt <= MaxAttempts
    /\ \A k \in Children(r) :
         /\ rolls[k].scope = rolls[r].scope
         /\ rolls[k].principal = rolls[r].principal
         /\ Rank[rolls[k].audience] <= Rank[rolls[r].audience]

(* Whoever makes a roll may read it, and the roll it pushes, at the moment   *)
(* it is made: a request that read the parent before the sheet moved, its    *)
(* actor lost a role or the default audience was narrowed makes none          *)
(* (mayReadPush under the lock; the last check of preparePushCommit).         *)
Disclosed(r) ==
  /\ MayReadPush(rolls[r].actor, rolls[r])
  /\ rolls[r].parent # NoRoll => MayReadPush(rolls[r].actor, rolls[rolls[r].parent])

PushesAreDisclosed ==
  [][\A r \in Rolls : rolls[r] = Unrolled /\ rolls'[r] # Unrolled => Disclosed(r)']_pushVars
=============================================================================
