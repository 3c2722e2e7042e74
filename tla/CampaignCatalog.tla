-------------------------- MODULE CampaignCatalog --------------------------
(***************************************************************************)
(* The item templates of a campaign and the players' proposals for new     *)
(* ones (campaigns/templates.ts, proposals.ts), and the copies of          *)
(* templates that players put on their sheets (the entry commands of       *)
(* characters/index.ts).                                                   *)
(*                                                                         *)
(* Every command on templates and proposals locks the campaign first and   *)
(* is one step; the revision it expects is the current one, or it changes  *)
(* nothing.  Copying a template is two steps: the sheet command reads the  *)
(* template, computes the entry from it with nothing locked, and looks at  *)
(* the template again when it commits under the campaign's lock.  The      *)
(* right to write the sheet is CharacterCommands' matter.                  *)
(***************************************************************************)
EXTENDS CampaignCommands, FiniteSets

CONSTANTS
  Templates, Proposals,  \* ids of the rows
  MaxTemplates,          \* the 500 of publishBlankTemplate
  MaxPending,            \* the 20 pending proposals of one membership
  MaxTemplateRevision,   \* bound on campaign_item_templates.revision
  NoProposal,            \* a template a game master made
  NoAuthor               \* a proposal not submitted yet; no selection

ASSUME CatalogAssumption ==
  /\ MaxTemplates \in Nat /\ MaxPending \in Nat /\ MaxTemplateRevision \in Nat
  /\ NoProposal \notin Proposals
  /\ NoAuthor \notin Users

VARIABLES
  templates,   \* the rows of campaign_item_templates
  proposals,   \* the rows of campaign_item_proposals
  selection,   \* the template a player's entry command has read
  copies       \* the entries copied from templates

catalogVars == <<campaignVars, templates, proposals, selection, copies>>

TemplateAudiences == {"all_players", "gm_only", "selected_players"}

TemplateGrant == [user : Users, generation : Nat]

(* content stands for contentRevision, a row of the immutable revisions;    *)
(* from is the proposal whose approved_template_id is the template.         *)
Template ==
  [campaign : Campaigns, status : {"unused", "active", "archived"}, audience : TemplateAudiences,
   grants : SUBSET TemplateGrant, revision : Nat, content : Nat, from : Proposals \cup {NoProposal}]

Proposal ==
  [campaign : Campaigns, submitter : Users \cup {NoAuthor}, membership : Nat,
   status : {"unused", "pending", "approved", "rejected"}]

Selection == [template : Templates, revision : Nat, content : Nat]

CatalogTypeOK ==
  /\ CampaignTypeOK
  /\ templates \in [Templates -> Template]
  /\ proposals \in [Proposals -> Proposal]
  /\ selection \in [Users -> Selection \cup {NoAuthor}]
  /\ copies \subseteq [by : Users, template : Templates, content : Nat]

NoTemplate(c) ==
  [campaign |-> c, status |-> "unused", audience |-> "all_players", grants |-> {},
   revision |-> 0, content |-> 0, from |-> NoProposal]
NoSuggestion(c) == [campaign |-> c, submitter |-> NoAuthor, membership |-> 0, status |-> "unused"]

CatalogInit ==
  /\ Gathered
  /\ templates \in [Templates -> {NoTemplate(c) : c \in Campaigns}]
  /\ proposals \in [Proposals -> {NoSuggestion(c) : c \in Campaigns}]
  /\ selection = [u \in Users |-> NoAuthor]
  /\ copies = {}

----------------------------------------------------------------------------
(* templates.ts *)

(* authorize, for a write *)
MayManageTemplates(u, c) == IsGameMaster(c, u) /\ campaignStatus[c] = "active"

Catalog(c) == {t \in Templates : templates[t].campaign = c /\ templates[t].status # "unused"}

HasSpace(c) == Cardinality(Catalog(c)) < MaxTemplates

(* validateSharing: current active players, and only for selected_players. *)
ValidSharing(c, audience, chosen) ==
  /\ \A u \in chosen : role[c][u] = "player"
  /\ (audience = "selected_players") = (chosen # {})

TemplateGrants(c, chosen) == {[user |-> u, generation |-> generation[c][u]] : u \in chosen}

Published(c, audience, chosen, p) ==
  [campaign |-> c, status |-> "active", audience |-> audience, grants |-> TemplateGrants(c, chosen),
   revision |-> 1, content |-> 1, from |-> p]

(* publishBlankTemplate *)
Publish(t, c, audience, chosen, p) ==
  /\ templates[t].status = "unused"
  /\ HasSpace(c)
  /\ templates' = [templates EXCEPT ![t] = Published(c, audience, chosen, p)]

CreateTemplate(u, t) ==
  LET c == templates[t].campaign
  IN /\ MayManageTemplates(u, c)
     /\ \E audience \in TemplateAudiences, chosen \in SUBSET Users :
          /\ ValidSharing(c, audience, chosen)
          /\ Publish(t, c, audience, chosen, NoProposal)

Change(u, t, status, template) ==
  /\ MayManageTemplates(u, templates[t].campaign)
  /\ templates[t].status = status
  /\ templates[t].revision < MaxTemplateRevision
  /\ templates' = [templates EXCEPT ![t] = [template EXCEPT !.revision = @ + 1]]

UpdateTemplate(u, t)  == Change(u, t, "active", [templates[t] EXCEPT !.content = @ + 1])
ArchiveTemplate(u, t) == Change(u, t, "active", [templates[t] EXCEPT !.status = "archived"])
RecoverTemplate(u, t) == Change(u, t, "archived", [templates[t] EXCEPT !.status = "active"])

ShareTemplate(u, t) ==
  LET c == templates[t].campaign
  IN \E audience \in TemplateAudiences, chosen \in SUBSET Users :
       /\ ValidSharing(c, audience, chosen)
       /\ Change(u, t, "active",
                 [templates[t] EXCEPT !.audience = audience, !.grants = TemplateGrants(c, chosen)])

TemplateCommand(u, t) ==
  /\ \/ CreateTemplate(u, t)
     \/ UpdateTemplate(u, t)
     \/ ArchiveTemplate(u, t)
     \/ RecoverTemplate(u, t)
     \/ ShareTemplate(u, t)
  /\ UNCHANGED <<campaignVars, proposals, selection, copies>>

----------------------------------------------------------------------------
(* proposals.ts *)

Pending(c, u, g) ==
  {p \in Proposals : /\ proposals[p].campaign = c /\ proposals[p].status = "pending"
                     /\ proposals[p].submitter = u /\ proposals[p].membership = g}

SubmitProposal(u, p) ==
  LET c == proposals[p].campaign
  IN /\ proposals[p].status = "unused"
     /\ role[c][u] = "player"
     /\ campaignStatus[c] = "active"
     /\ Cardinality(Pending(c, u, generation[c][u])) < MaxPending
     /\ proposals' = [proposals EXCEPT ![p] =
          [campaign |-> c, submitter |-> u, membership |-> generation[c][u], status |-> "pending"]]
     /\ UNCHANGED templates

(* The submitter is a member under the membership they submitted in. *)
SubmitterStays(p) ==
  LET c == proposals[p].campaign  u == proposals[p].submitter
  IN  IsActiveMember(c, u) /\ generation[c][u] = proposals[p].membership

(* Mutant: whether the proposal was decided before is not looked at. *)
MayDecideAgain(u, p) ==
  MayManageTemplates(u, proposals[p].campaign) /\ proposals[p].status # "unused"

MayDecide(u, p) ==
  MayManageTemplates(u, proposals[p].campaign) /\ proposals[p].status = "pending"

ApproveProposal(u, p) ==
  /\ MayDecide(u, p)
  /\ SubmitterStays(p)
  /\ \E t \in Templates : Publish(t, proposals[p].campaign, "all_players", {}, p)
  /\ proposals' = [proposals EXCEPT ![p].status = "approved"]

RejectProposal(u, p) ==
  /\ MayDecide(u, p)
  /\ proposals' = [proposals EXCEPT ![p].status = "rejected"]
  /\ UNCHANGED templates

ProposalCommand(u, p) ==
  /\ \/ SubmitProposal(u, p)
     \/ ApproveProposal(u, p)
     \/ RejectProposal(u, p)
  /\ UNCHANGED <<campaignVars, selection, copies>>

----------------------------------------------------------------------------
(* Copies *)

CanPlace(t) == templates[t].status = "active" /\ templates[t].audience = "all_players"

(* The entry command's first read, of the revision the player asked for. *)
SelectTemplate(u, t) ==
  /\ selection[u] = NoAuthor
  /\ IsActiveMember(templates[t].campaign, u)
  /\ CanPlace(t)
  /\ selection' = [selection EXCEPT ![u] =
       [template |-> t, revision |-> templates[t].revision, content |-> templates[t].content]]
  /\ UNCHANGED <<campaignVars, templates, proposals, copies>>

(* Mutant: only the content is compared again. *)
SameContent(s) == templates[s.template].content = s.content

(* The precondition of applyCommandTx. *)
StillSelected(s) ==
  /\ CanPlace(s.template)
  /\ templates[s.template].revision = s.revision
  /\ templates[s.template].content = s.content

(* The commit, or the refusal. *)
PlaceTemplate(u) ==
  /\ selection[u] # NoAuthor
  /\ LET s == selection[u]  c == templates[s.template].campaign
     IN copies' = IF StillSelected(s) /\ IsActiveMember(c, u) /\ campaignStatus[c] = "active"
                    THEN copies \cup {[by |-> u, template |-> s.template, content |-> s.content]}
                    ELSE copies
  /\ selection' = [selection EXCEPT ![u] = NoAuthor]
  /\ UNCHANGED <<campaignVars, templates, proposals>>

----------------------------------------------------------------------------
ChangeMeanwhile(c) ==
  /\ campaignRevision[c] < MaxCampaignRevision
  /\ \/ \E u, target \in Users : generation[c][target] < MaxGeneration /\ Leave(u, target, c)
     \/ \E u \in Users, intended \in Roles :
          generation[c][u] < MaxGeneration /\ MemberJoins(u, c, intended) /\ Bump(c)
     \/ \E u, target \in Users, newRole \in Roles : SetRole(u, target, c, newRole)
     \/ \E u \in Users : Archive(u, c) \/ Recover(u, c)
  /\ UNCHANGED <<templates, proposals, selection, copies>>

CatalogNext ==
  \/ \E u \in Users :
       \/ \E t \in Templates : TemplateCommand(u, t) \/ SelectTemplate(u, t)
       \/ \E p \in Proposals : ProposalCommand(u, p)
       \/ PlaceTemplate(u)
  \/ \E c \in Campaigns : ChangeMeanwhile(c)

CatalogSpec == CatalogInit /\ [][CatalogNext]_catalogVars

----------------------------------------------------------------------------
(* An approved proposal has made exactly one template and no other one has  *)
(* made any, whichever game masters decided it together; and approvals and  *)
(* creations together respect the campaign's limit, in which archived       *)
(* templates count because they may come back.                              *)
ProposalsPublishOnce ==
  /\ \A p \in Proposals :
       Cardinality({t \in Templates : templates[t].from = p})
         = IF proposals[p].status = "approved" THEN 1 ELSE 0
  /\ \A c \in Campaigns : Cardinality(Catalog(c)) <= MaxTemplates

(* What a player copies is the template as it is at that moment, shared     *)
(* with all players, however it was edited, withdrawn or hidden since the   *)
(* entry was computed.                                                      *)
CopiesAreCurrent ==
  [][\A copy \in copies' \ copies :
       CanPlace(copy.template) /\ copy.content = templates[copy.template].content]_catalogVars
=============================================================================
