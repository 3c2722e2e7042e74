------------------------------ MODULE Custody ------------------------------
(***************************************************************************)
(* Who may hold one character sheet.                                       *)
(*                                                                         *)
(* A sheet is either standalone (it has an owner and no campaign) or       *)
(* attached to a campaign (no owner, a set of controllers and, when a      *)
(* player adopted it into the campaign, a return owner).  Membership of a  *)
(* campaign decides who may act on an attached sheet.                      *)
(*                                                                         *)
(* Every action here is one committed database transaction of              *)
(* characters/campaignPlacement.ts, campaigns/index.ts or                  *)
(* campaigns/invitations.ts with the revision checks of its caller left    *)
(* out: CampaignPlacement adds those, and its receipts, and is checked to  *)
(* implement this module for each of its sheets.  CharacterCommands runs   *)
(* the sheet commands against these changes of custody.                    *)
(***************************************************************************)
EXTENDS Membership

CONSTANTS
  NoUser,         \* SQL NULL in owner_id and return_owner_id
  NoCampaign,     \* SQL NULL in campaign_id
  MaxRevision     \* bound on characters.revision

ASSUME CustodyAssumption ==
  /\ NoUser \notin Users
  /\ NoCampaign \notin Campaigns
  /\ MaxRevision \in Nat

VARIABLES
  owner,          \* characters.owner_id
  campaign,       \* characters.campaign_id
  returnOwner,    \* characters.return_owner_id
  placement,      \* characters.placement_generation
  revision,       \* characters.revision
  lifecycle,      \* characters.lifecycle
  controllers     \* character_controllers of the sheet

sheetVars  == <<owner, campaign, returnOwner, placement, revision, lifecycle, controllers>>
custodyVars == <<owner, campaign, returnOwner, placement, revision, lifecycle, controllers,
                 role, generation, campaignStatus>>

CustodyTypeOK ==
  /\ owner \in Users \cup {NoUser}
  /\ campaign \in Campaigns \cup {NoCampaign}
  /\ returnOwner \in Users \cup {NoUser}
  /\ placement \in Nat \ {0}
  /\ revision \in Nat \ {0}
  /\ lifecycle \in {"active", "archived"}
  /\ controllers \in SUBSET Users
  /\ MembershipTypeOK

----------------------------------------------------------------------------
(* A write capability on the sheet while it is attached to c. *)
MayControl(c, u) == IsGameMaster(c, u) \/ (IsActiveMember(c, u) /\ u \in controllers)

(* A write capability on the sheet while it is nobody's but its owner's. *)
OwnsStandalone(u) == owner = u /\ campaign = NoCampaign

----------------------------------------------------------------------------
(* A new sheet is a standalone one or one made inside a campaign. *)
NewSheet ==
  /\ \/ /\ owner \in Users
        /\ campaign = NoCampaign
        /\ controllers = {}
     \/ /\ owner = NoUser
        /\ campaign \in Campaigns
        /\ controllers \in SUBSET ActiveMembers(campaign)
  /\ returnOwner = NoUser
  /\ placement = 1
  /\ revision = 1
  /\ lifecycle = "active"

CustodyInit == Founded /\ NewSheet

NextPlacement == placement + 1

(* Mutant: a departed member keeps control. *)
WithDeparted(u) == controllers

WithoutDeparted(u) == controllers \ {u}

(* The owner gives the sheet to a campaign and stays one of its controllers. *)
Adopt(u, c) ==
  /\ IsActiveMember(c, u)
  /\ campaignStatus[c] = "active"
  /\ OwnsStandalone(u)
  /\ lifecycle = "active"
  /\ owner' = NoUser
  /\ campaign' = c
  /\ returnOwner' = u
  /\ placement' = NextPlacement
  /\ revision' = revision + 1
  /\ controllers' = controllers \cup {u}
  /\ UNCHANGED <<lifecycle, memberVars>>

(* A game master replaces the controllers; the return owner must stay one. *)
AssignControllers(gm, c, chosen) ==
  /\ IsGameMaster(c, gm)
  /\ campaignStatus[c] = "active"
  /\ campaign = c
  /\ returnOwner # NoUser => returnOwner \in chosen
  /\ chosen \subseteq ActiveMembers(c)
  /\ controllers' = chosen
  /\ UNCHANGED <<owner, campaign, returnOwner, placement, revision, lifecycle, memberVars>>

(* A designated member takes control; the designation itself is in         *)
(* CampaignPlacement.                                                       *)
ClaimControl(u, c) ==
  /\ IsActiveMember(c, u)
  /\ campaignStatus[c] = "active"
  /\ campaign = c
  /\ controllers' = controllers \cup {u}
  /\ UNCHANGED <<owner, campaign, returnOwner, placement, revision, lifecycle, memberVars>>

(* removeMember and the returnForMember it runs in the same transaction:    *)
(* a sheet the member adopted goes back to them, of any other sheet of the  *)
(* campaign they lose control.                                              *)
RemoveMember(caller, target, c) ==
  /\ MemberLeaves(caller, target, c)
  /\ \/ /\ campaign = c /\ returnOwner = target
        /\ owner' = target
        /\ campaign' = NoCampaign
        /\ returnOwner' = NoUser
        /\ placement' = NextPlacement
        /\ revision' = revision + 1
        /\ controllers' = {}
     \/ /\ campaign = c /\ returnOwner # target
        /\ controllers' = WithoutDeparted(target)
        /\ UNCHANGED <<owner, campaign, returnOwner, placement, revision>>
     \/ /\ campaign # c
        /\ UNCHANGED <<owner, campaign, returnOwner, placement, revision, controllers>>
  /\ UNCHANGED lifecycle

JoinCampaign(u, c, intended)      == MemberJoins(u, c, intended) /\ UNCHANGED sheetVars
ChangeRole(caller, target, c, r)  == RoleChanges(caller, target, c, r) /\ UNCHANGED sheetVars
ArchiveCampaign(gm, c)            == CampaignArchived(gm, c) /\ UNCHANGED sheetVars
RecoverCampaign(gm, c)            == CampaignRecovered(gm, c) /\ UNCHANGED sheetVars

----------------------------------------------------------------------------
(* What the sheet commands (characters/persistence.ts) may do to a sheet.   *)

MayWrite(u) ==
  \/ OwnsStandalone(u)
  \/ campaign \in Campaigns /\ campaignStatus[campaign] = "active" /\ MayControl(campaign, u)

MayManage(u) ==
  \/ OwnsStandalone(u)
  \/ campaign \in Campaigns /\ campaignStatus[campaign] = "active" /\ IsGameMaster(campaign, u)

EditSheet(u) ==
  /\ MayWrite(u)
  /\ lifecycle = "active"
  /\ revision' = revision + 1
  /\ UNCHANGED <<owner, campaign, returnOwner, placement, lifecycle, controllers, memberVars>>

RenameSheet(u) ==
  /\ MayWrite(u)
  /\ revision' = revision + 1
  /\ UNCHANGED <<owner, campaign, returnOwner, placement, lifecycle, controllers, memberVars>>

(* Only a standalone sheet changes hands; an attached one never does. *)
TransferSheet(u, v) ==
  /\ OwnsStandalone(u)
  /\ owner' = v
  /\ revision' = revision + 1
  /\ UNCHANGED <<campaign, returnOwner, placement, lifecycle, controllers, memberVars>>

SetLifecycle(u, l) ==
  /\ MayManage(u)
  /\ lifecycle' = l
  /\ revision' = revision + 1
  /\ UNCHANGED <<owner, campaign, returnOwner, placement, controllers, memberVars>>

CommandStep ==
  \E u \in Users :
    \/ EditSheet(u)
    \/ RenameSheet(u)
    \/ \E v \in Users : TransferSheet(u, v)
    \/ \E l \in {"active", "archived"} : SetLifecycle(u, l)

(* Changes of custody and membership.  The bounds stop the two counters. *)
CustodyStep ==
  \E c \in Campaigns, u \in Users :
    \/ revision < MaxRevision /\ Adopt(u, c)
    \/ \E chosen \in SUBSET Users : AssignControllers(u, c, chosen)
    \/ ClaimControl(u, c)
    \/ \E target \in Users :
         /\ revision < MaxRevision
         /\ generation[c][target] < MaxGeneration
         /\ RemoveMember(u, target, c)
    \/ generation[c][u] < MaxGeneration /\ \E r \in Roles : JoinCampaign(u, c, r)
    \/ \E target \in Users, r \in Roles : ChangeRole(u, target, c, r)
    \/ ArchiveCampaign(u, c)
    \/ RecoverCampaign(u, c)

CustodySpec ==
  CustodyInit /\ [][CustodyStep \/ (revision < MaxRevision /\ CommandStep)]_custodyVars

----------------------------------------------------------------------------
(* The schema's ownership check together with what no constraint can say:  *)
(* an attached sheet is controlled by active members of its campaign only, *)
(* the member who adopted it is one of them, and a standalone sheet is in  *)
(* nobody's hands but its owner's.  removeMember and returnForMember must   *)
(* keep this over every order of adoption, assignment, departure and        *)
(* return (characters_ownership_scope_check, the return-owner invariant).   *)
CustodyInv ==
  /\ (owner = NoUser) <=> (campaign # NoCampaign)
  /\ returnOwner # NoUser => campaign # NoCampaign /\ returnOwner \in controllers
  /\ campaign = NoCampaign => controllers = {}
  /\ campaign \in Campaigns => controllers \subseteq ActiveMembers(campaign)

(* A change of custody is visible to every holder of an old revision: no    *)
(* step attaches, returns or transfers the sheet without raising its        *)
(* revision, and attaching or returning raises the placement generation;    *)
(* nothing ever lowers either (campaignPlacement.ts adopt, returnForMember). *)
CustodyChangesAreVisible ==
  [][/\ revision' >= revision /\ placement' >= placement
     /\ <<owner, campaign>>' # <<owner, campaign>> => revision' > revision
     /\ campaign' # campaign => placement' > placement]_custodyVars
=============================================================================
