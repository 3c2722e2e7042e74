---------------------------- MODULE Invitations ----------------------------
(***************************************************************************)
(* Invitations to a campaign (campaigns/invitations.ts).                   *)
(*                                                                         *)
(* A game master issues a token for one place in one role and hands it     *)
(* out by other means, so any account may hold any token that was ever     *)
(* issued.  Who holds the current one may review the invitation, and then  *)
(* accept or decline it by naming the two revisions the review showed.  A  *)
(* review is two reads, of the invitation and then of its campaign, with   *)
(* nothing locked; every command holds the rows of the campaign and the    *)
(* invitation and is one step.  A command that is sent again is answered   *)
(* from its receipt and changes nothing.                                   *)
(***************************************************************************)
EXTENDS CampaignCommands, FiniteSets

CONSTANTS
  Invites,       \* ids of campaign_invitations
  MaxMembers,    \* maxMembers, the limit of active members
  MaxRotations,  \* bound on the tokens of one invitation
  Nobody         \* SQL NULL in consuming_actor_id, and no review

ASSUME InvitationAssumption ==
  /\ Nobody \notin Users
  /\ MaxMembers \in Nat \ {0}
  /\ MaxRotations \in Nat

VARIABLES
  invitations,   \* the rows of campaign_invitations
  reviews,       \* what each account saw when it last reviewed an invitation
  admissions     \* every join so far: who, under which generation, by which token

invitationVars == <<campaignVars, invitations, reviews, admissions>>

IntendedRoles == {"player", "co_gm"}

Invitation ==
  [campaign : Campaigns, intendedRole : IntendedRoles,
   status : {"unused", "pending", "accepted", "declined", "revoked"},
   token : Nat, revision : Nat, lapsed : BOOLEAN,
   consumer : Users \cup {Nobody}, joined : Nat]

(* seen stands for all of the campaign's access at the time of the review,  *)
(* of which the account is only shown a number.                             *)
Review ==
  [invite : Invites, token : Nat, revision : Nat, intendedRole : IntendedRoles,
   access : Nat, seen : [Users -> Roles]]

Admission == [user : Users, campaign : Campaigns, generation : Nat, invite : Invites, token : Nat]

InvitationTypeOK ==
  /\ CampaignTypeOK
  /\ invitations \in [Invites -> Invitation]
  /\ reviews \in [Users -> Review \cup {Nobody}]
  /\ admissions \subseteq Admission

Unissued(c) ==
  [campaign |-> c, intendedRole |-> "player", status |-> "unused", token |-> 0, revision |-> 0,
   lapsed |-> FALSE, consumer |-> Nobody, joined |-> 0]

InvitationInit ==
  /\ Founded
  /\ campaignRevision = [c \in Campaigns |-> 1]
  /\ accessRevision = [c \in Campaigns |-> 1]
  /\ invitations \in [Invites -> {Unissued(c) : c \in Campaigns}]
  /\ reviews = [u \in Users |-> Nobody]
  /\ admissions = {}

----------------------------------------------------------------------------
(* The game master's commands *)

(* Elevated roles are the owner's to give. *)
MayInvite(u, c, intended) ==
  /\ IsGameMaster(c, u)
  /\ intended = "co_gm" => role[c][u] = "owner"

Issue(u, i, intended) ==
  LET c == invitations[i].campaign
  IN /\ invitations[i].status = "unused"
     /\ MayInvite(u, c, intended)
     /\ campaignStatus[c] = "active"
     /\ invitations' = [invitations EXCEPT ![i].status = "pending", ![i].intendedRole = intended,
                                           ![i].token = 1, ![i].revision = 1]
     /\ Bump(c)
     /\ UNCHANGED <<memberVars, reviews, admissions>>

(* rotateInvitationToken: another token and another expiry. *)
Rotated(invite) == [invite EXCEPT !.token = @ + 1, !.revision = @ + 1, !.lapsed = FALSE]

(* An expired invitation and one of an archived campaign can be rotated.    *)
Rotate(u, i) ==
  LET c == invitations[i].campaign
  IN /\ invitations[i].status = "pending"
     /\ MayInvite(u, c, invitations[i].intendedRole)
     /\ invitations[i].token <= MaxRotations
     /\ invitations' = [invitations EXCEPT ![i] = Rotated(@)]
     /\ Bump(c)
     /\ UNCHANGED <<memberVars, reviews, admissions>>

(* Revoking what is no longer pending succeeds and changes nothing. *)
Revoke(u, i) ==
  LET c == invitations[i].campaign
  IN /\ invitations[i].status = "pending"
     /\ MayInvite(u, c, invitations[i].intendedRole)
     /\ invitations' = [invitations EXCEPT ![i].status = "revoked", ![i].revision = @ + 1]
     /\ Bump(c)
     /\ UNCHANGED <<memberVars, reviews, admissions>>

(* Time passes an invitation's expiry. *)
Lapse(i) ==
  /\ invitations[i].status = "pending"
  /\ ~ invitations[i].lapsed
  /\ invitations' = [invitations EXCEPT ![i].lapsed = TRUE]
  /\ UNCHANGED <<campaignVars, reviews, admissions>>

----------------------------------------------------------------------------
(* The invited account *)

(* The token still opens the invitation. *)
Opens(i, token) ==
  /\ invitations[i].status = "pending"
  /\ invitations[i].token = token
  /\ ~ invitations[i].lapsed

(* reviewInvitation, its first read: the invitation the token belongs to. *)
ReadInvitation(u, i) ==
  /\ Opens(i, invitations[i].token)
  /\ reviews' = [reviews EXCEPT ![u] =
       [invite |-> i, token |-> invitations[i].token, revision |-> invitations[i].revision,
        intendedRole |-> invitations[i].intendedRole, access |-> 0, seen |-> role[invitations[i].campaign]]]
  /\ UNCHANGED <<campaignVars, invitations, admissions>>

(* Its second read: the campaign. *)
ReadCampaign(u) ==
  /\ reviews[u] # Nobody
  /\ reviews[u].access = 0
  /\ LET c == invitations[reviews[u].invite].campaign
     IN /\ campaignStatus[c] = "active"
        /\ reviews' = [reviews EXCEPT ![u].access = accessRevision[c], ![u].seen = role[c]]
  /\ UNCHANGED <<campaignVars, invitations, admissions>>

(* Mutant: the token is taken without the review being compared. *)
MayConsumeUnread(review) ==
  /\ Opens(review.invite, review.token)
  /\ campaignStatus[invitations[review.invite].campaign] = "active"

(* What acceptInvitation and declineInvitation check under the locks. *)
MayConsume(review) ==
  LET i == review.invite
      c == invitations[i].campaign
  IN /\ Opens(i, review.token)
     /\ campaignStatus[c] = "active"
     /\ invitations[i].revision = review.revision
     /\ accessRevision[c] = review.access

(* Mutant: the limit is off by one. *)
HasOneSeatMore(c) == Cardinality(ActiveMembers(c)) <= MaxMembers
HasSeat(c) == Cardinality(ActiveMembers(c)) < MaxMembers

(* Mutant: consuming an invitation leaves it pending. *)
ConsumedLater(invite, newStatus, u, g) == [invite EXCEPT !.consumer = u, !.joined = g]

(* consumeInvitation *)
Consumed(invite, newStatus, u, g) ==
  [invite EXCEPT !.status = newStatus, !.revision = @ + 1, !.consumer = u, !.joined = g]

Forget(u) == reviews' = [reviews EXCEPT ![u] = Nobody]

Accept(u) ==
  /\ reviews[u] # Nobody
  /\ MayConsume(reviews[u])
  /\ LET i == reviews[u].invite
         c == invitations[i].campaign
     IN /\ HasSeat(c)
        /\ generation[c][u] < MaxGeneration
        /\ MemberJoins(u, c, invitations[i].intendedRole)
        /\ invitations' = [invitations EXCEPT ![i] = Consumed(@, "accepted", u, NextGeneration(c, u))]
        /\ Bump(c)
        /\ admissions' = admissions \cup
             {[user |-> u, campaign |-> c, generation |-> NextGeneration(c, u), invite |-> i,
               token |-> reviews[u].token]}
  /\ Forget(u)

(* Declining consumes the token too. *)
Decline(u) ==
  /\ reviews[u] # Nobody
  /\ MayConsume(reviews[u])
  /\ LET i == reviews[u].invite
     IN /\ invitations' = [invitations EXCEPT ![i] = Consumed(@, "declined", u, 0)]
        /\ Bump(invitations[i].campaign)
  /\ Forget(u)
  /\ UNCHANGED <<memberVars, admissions>>

----------------------------------------------------------------------------
ChangeAccess(u, c) ==
  /\ \/ Update(u, c)
     \/ Archive(u, c)
     \/ Recover(u, c)
     \/ \E target \in Users, newRole \in Roles : SetRole(u, target, c, newRole)
     \/ \E target \in Users : generation[c][target] < MaxGeneration /\ Leave(u, target, c)
  /\ UNCHANGED <<invitations, reviews, admissions>>

InvitationNext ==
  \/ \E i \in Invites : Lapse(i)
  \/ \E u \in Users, i \in Invites : ReadInvitation(u, i)
  \/ \E u \in Users : ReadCampaign(u)
  \/ /\ \A c \in Campaigns : campaignRevision[c] < MaxCampaignRevision
     /\ \E u \in Users :
          \/ \E i \in Invites, intended \in IntendedRoles : Issue(u, i, intended)
          \/ \E i \in Invites : Rotate(u, i) \/ Revoke(u, i)
          \/ Accept(u)
          \/ Decline(u)
          \/ \E c \in Campaigns : ChangeAccess(u, c)

InvitationSpec == InvitationInit /\ [][InvitationNext]_invitationVars

----------------------------------------------------------------------------
(* Two accounts that accept at the limit of members do not both get in      *)
(* (countActiveMembers under the campaign's lock).                          *)
MembersWithinLimit == \A c \in Campaigns : Cardinality(ActiveMembers(c)) <= MaxMembers

(* Nobody but the founder is a member who was not admitted, under the       *)
(* generation they have now, by an invitation they consumed; and one        *)
(* invitation, through all its tokens, admits one account once (design      *)
(* :154, "Exactly one actor can accept or decline").                        *)
MembersAreAdmittedOnce ==
  /\ \A c \in Campaigns : \A u \in ActiveMembers(c) :
       role[c][u] # "owner" =>
         \E a \in admissions : a.user = u /\ a.campaign = c /\ a.generation = generation[c][u]
  /\ \A a \in admissions :
       LET invite == invitations[a.invite]
       IN /\ invite.status = "accepted"
          /\ invite.consumer = a.user /\ invite.joined = a.generation /\ invite.token = a.token
  /\ \A a, b \in admissions : a.invite = b.invite => a = b

(* Who joins, joins in the role they reviewed, a campaign whose members and *)
(* roles are still those of the review, however commands and the two reads  *)
(* of the review overlap (REREVIEW_MESSAGE; design :153).                   *)
JoinsAsReviewed ==
  \A c \in Campaigns, u \in Users :
    ~ IsActiveMember(c, u) /\ IsActiveMember(c, u)'
      => /\ reviews[u].seen = role[c]
         /\ role'[c][u] = reviews[u].intendedRole

JoinedAsReviewed == [][JoinsAsReviewed]_invitationVars
=============================================================================
