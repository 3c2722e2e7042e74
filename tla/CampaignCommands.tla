-------------------------- MODULE CampaignCommands --------------------------
(***************************************************************************)
(* The commands on a campaign and its members (campaigns/index.ts), as     *)
(* what their transactions commit.                                         *)
(*                                                                         *)
(* A campaign carries two counters.  Every committed command raises        *)
(* revision, which the next command must name; every command that changes  *)
(* who may see or do what raises accessRevision too, which an invited user *)
(* must have reviewed.  A transaction holds the row of its campaign from   *)
(* its first check to its commit, so its checks and its writes are one     *)
(* step here; the revision its caller expects is the one that is current   *)
(* then, or the command changes nothing.  CampaignPlacement takes the lock *)
(* apart from the commit.                                                  *)
(***************************************************************************)
EXTENDS Membership

CONSTANT MaxCampaignRevision   \* bound on campaigns.revision

VARIABLES
  campaignRevision,   \* campaigns.revision
  accessRevision      \* campaigns.access_revision

campaignVars == <<role, generation, campaignStatus, campaignRevision, accessRevision>>

CampaignTypeOK ==
  /\ MembershipTypeOK
  /\ campaignRevision \in [Campaigns -> Nat \ {0}]
  /\ accessRevision \in [Campaigns -> Nat \ {0}]

(* Campaigns some accounts have joined already.  The revisions are counted  *)
(* from here.                                                               *)
Gathered ==
  /\ \E start \in [Campaigns -> [Users -> ActiveRoles \cup {"none"}]] :
       /\ \A c \in Campaigns : \E u \in Users : {v \in Users : start[c][v] = "owner"} = {u}
       /\ role = start
       /\ generation = [c \in Campaigns |-> [u \in Users |-> IF start[c][u] = "none" THEN 0 ELSE 1]]
  /\ campaignStatus = [c \in Campaigns |-> "active"]
  /\ campaignRevision = [c \in Campaigns |-> 1]
  /\ accessRevision = [c \in Campaigns |-> 1]

(* bumpCampaignRevisionForMembership, and bumpCampaignRevision of the       *)
(* placement commands: both counters, in one update.                        *)
Bump(c) ==
  /\ campaignRevision' = [campaignRevision EXCEPT ![c] = @ + 1]
  /\ accessRevision' = [accessRevision EXCEPT ![c] = @ + 1]

(* Title and description change nobody's access. *)
Update(gm, c) ==
  /\ campaignStatus[c] = "active"
  /\ IsGameMaster(c, gm)
  /\ campaignRevision' = [campaignRevision EXCEPT ![c] = @ + 1]
  /\ UNCHANGED <<memberVars, accessRevision>>

Archive(gm, c) == CampaignArchived(gm, c) /\ Bump(c)

Recover(gm, c) == CampaignRecovered(gm, c) /\ Bump(c)

SetRole(caller, target, c, newRole) == RoleChanges(caller, target, c, newRole) /\ Bump(c)

(* Leaving and being removed stay possible in an archived campaign. *)
Leave(caller, target, c) == MemberLeaves(caller, target, c) /\ Bump(c)
=============================================================================
