----------------------------- MODULE Membership -----------------------------
(***************************************************************************)
(* Who belongs to a campaign, in which role and for which time: the rows   *)
(* of campaign_members and campaigns that every other decision is taken    *)
(* from, and the rules of campaigns/policy.ts about them.                  *)
(*                                                                         *)
(* Custody adds one sheet to this state, CampaignCommands the revisions of *)
(* the campaign.                                                           *)
(***************************************************************************)
EXTENDS Naturals

CONSTANTS
  Users,          \* accounts
  Campaigns,      \* campaigns
  MaxGeneration   \* bound on campaign_members.generation

ASSUME MembershipAssumption == MaxGeneration \in Nat

VARIABLES
  role,           \* campaign_members: role when active, else "removed"/"none"
  generation,     \* campaign_members.generation, 0 when there is no row
  campaignStatus  \* campaigns.status

memberVars == <<role, generation, campaignStatus>>

ActiveRoles == {"owner", "co_gm", "player"}
Roles       == ActiveRoles \cup {"removed", "none"}

MembershipTypeOK ==
  /\ role \in [Campaigns -> [Users -> Roles]]
  /\ generation \in [Campaigns -> [Users -> Nat]]
  /\ campaignStatus \in [Campaigns -> {"active", "archived"}]

----------------------------------------------------------------------------
(* Capabilities, campaigns/policy.ts *)

IsActiveMember(c, u) == role[c][u] \in ActiveRoles
IsGameMaster(c, u)   == role[c][u] \in {"owner", "co_gm"}
ActiveMembers(c)     == {u \in Users : IsActiveMember(c, u)}

(* null in authorizeRemoval *)
MayRemove(c, caller, target) ==
  /\ IsActiveMember(c, caller)
  /\ role[c][target] \in {"co_gm", "player"}
  /\ \/ caller = target
     \/ role[c][caller] = "owner"
     \/ role[c][caller] = "co_gm" /\ role[c][target] = "player"

(* null in authorizeRoleChange *)
MayChangeRole(c, caller, target, newRole) ==
  /\ IsGameMaster(c, caller)
  /\ role[c][target] \in {"co_gm", "player"}
  /\ newRole # "owner"
  /\ "co_gm" \in {role[c][target], newRole} => role[c][caller] = "owner"

(* create: every campaign has one owner, who made it.                       *)
Founded ==
  /\ \E founder \in [Campaigns -> Users] :
       /\ role = [c \in Campaigns |-> [u \in Users |->
                    IF u = founder[c] THEN "owner" ELSE "none"]]
       /\ generation = [c \in Campaigns |-> [u \in Users |->
                          IF u = founder[c] THEN 1 ELSE 0]]
  /\ campaignStatus = [c \in Campaigns |-> "active"]

NextGeneration(c, u) == generation[c][u] + 1

(* updateMembership: the row stays, under a new generation. *)
MemberLeaves(caller, target, c) ==
  /\ MayRemove(c, caller, target)
  /\ role' = [role EXCEPT ![c][target] = "removed"]
  /\ generation' = [generation EXCEPT ![c][target] = NextGeneration(c, target)]
  /\ UNCHANGED campaignStatus

(* upsertMembershipForAccept: a new member, or a removed one who comes back *)
(* under a new generation.                                                  *)
MemberJoins(u, c, intended) ==
  /\ campaignStatus[c] = "active"
  /\ ~ IsActiveMember(c, u)
  /\ intended \in {"co_gm", "player"}
  /\ role' = [role EXCEPT ![c][u] = intended]
  /\ generation' = [generation EXCEPT ![c][u] = NextGeneration(c, u)]
  /\ UNCHANGED campaignStatus

RoleChanges(caller, target, c, newRole) ==
  /\ campaignStatus[c] = "active"
  /\ MayChangeRole(c, caller, target, newRole)
  /\ newRole \in {"co_gm", "player"}
  /\ role' = [role EXCEPT ![c][target] = newRole]
  /\ UNCHANGED <<generation, campaignStatus>>

CampaignArchived(gm, c) ==
  /\ IsGameMaster(c, gm)
  /\ campaignStatus[c] = "active"
  /\ campaignStatus' = [campaignStatus EXCEPT ![c] = "archived"]
  /\ UNCHANGED <<role, generation>>

CampaignRecovered(gm, c) ==
  /\ IsGameMaster(c, gm)
  /\ campaignStatus[c] = "archived"
  /\ campaignStatus' = [campaignStatus EXCEPT ![c] = "active"]
  /\ UNCHANGED <<role, generation>>

----------------------------------------------------------------------------
(* Every campaign keeps exactly one active owner through removals, joins    *)
(* and role changes (policy.ts: the owner row is immutable).                *)
OneCampaignOwner ==
  \A c \in Campaigns : \E u \in Users : {v \in Users : role[c][v] = "owner"} = {u}

(* Leaving and coming back never restores an earlier generation, so a       *)
(* receipt bound to one cannot be answered in a later membership            *)
(* (updateMembership, upsertMembershipForAccept).                           *)
MembershipErasAreDistinct ==
  [][\A c \in Campaigns, u \in Users :
       IsActiveMember(c, u)' # IsActiveMember(c, u)
         => generation'[c][u] > generation[c][u]]_memberVars
=============================================================================
