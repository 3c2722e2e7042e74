-------------------------- MODULE CampaignContent --------------------------
(***************************************************************************)
(* The notes of a campaign (campaigns/content.ts): who may read and change *)
(* them as members come, go and change roles, and how they are listed.     *)
(*                                                                         *)
(* A command holds the rows of the campaign and the note from its checks   *)
(* to its commit, and a read runs on one snapshot, so each is one step.  A *)
(* list is many steps: a page at a time, with the members and the notes    *)
(* changing in between.  The revision a command expects is the current one *)
(* or it changes nothing, and one that is sent again is answered from its  *)
(* receipt, after the reader's right has been checked again.               *)
(***************************************************************************)
EXTENDS CampaignCommands, FiniteSets, Sequences

CONSTANTS
  Notes,            \* ids of campaign_content_items
  PageSize,         \* the limit of a page
  MaxTime,          \* bound on created_at
  MaxNoteRevision,  \* bound on campaign_content_items.revision
  NoReader          \* nobody is listing; nobody wrote the note

ASSUME ContentAssumption ==
  /\ Notes \subseteq Nat /\ IsFiniteSet(Notes)
  /\ PageSize \in Nat \ {0}
  /\ MaxTime \in Nat /\ MaxNoteRevision \in Nat
  /\ NoReader \notin Users

VARIABLES
  notes,    \* the rows with their grants
  listing,  \* a list in progress: its reader, filter, cursor and rows so far
  steady    \* the notes its reader could list at every moment since it began

contentVars == <<campaignVars, notes, listing, steady>>

Audiences == {"gm_only", "all_players", "selected_players", "owner_only"}

(* since is history: the membership of the user a grant was given to. *)
NoteGrant == [user : Users, since : Nat]

Note ==
  [campaign : Campaigns, creator : Users \cup {NoReader}, audience : Audiences,
   grants : SUBSET NoteGrant, status : {"unused", "active", "deleted"},
   revision : Nat, created : Nat]

Unwritten(c) ==
  [campaign |-> c, creator |-> NoReader, audience |-> "owner_only", grants |-> {},
   status |-> "unused", revision |-> 0, created |-> 0]

Idle == [reader |-> NoReader]
Listing ==
  [reader : Users, campaign : Campaigns, status : {"active", "deleted"},
   cursor : {<<>>} \cup (Nat \X Notes), rows : Seq(Notes), more : BOOLEAN]

ContentTypeOK ==
  /\ CampaignTypeOK
  /\ notes \in [Notes -> Note]
  /\ listing \in {Idle} \cup Listing
  /\ steady \subseteq Notes

Written(c, u, audience, t) ==
  [Unwritten(c) EXCEPT !.creator = u, !.audience = audience, !.status = "active", !.revision = 1,
                       !.created = t]

(* Game masters may have written some notes before. *)
ContentInit ==
  /\ Gathered
  /\ notes \in [Notes -> {Unwritten(c) : c \in Campaigns}
                         \cup {Written(c, u, audience, t) :
                                 c \in Campaigns, u \in Users, audience \in Audiences, t \in 1..MaxTime}]
  /\ \A n \in Notes : notes[n].status = "active" => IsGameMaster(notes[n].campaign, notes[n].creator)
  /\ listing = Idle
  /\ steady = {}

----------------------------------------------------------------------------
(* policy.ts *)

Granted(n, u) == \E g \in notes[n].grants : g.user = u

CanRead(n, u) ==
  LET c == notes[n].campaign
  IN /\ IsActiveMember(c, u)
     /\ CASE notes[n].audience = "gm_only" -> IsGameMaster(c, u)
          [] notes[n].audience = "all_players" -> TRUE
          [] notes[n].audience = "selected_players" -> IsGameMaster(c, u) \/ Granted(n, u)
          [] notes[n].audience = "owner_only" -> notes[n].creator = u

CanManage(n, u) ==
  /\ IsActiveMember(notes[n].campaign, u)
  /\ notes[n].creator = u \/ (IsGameMaster(notes[n].campaign, u) /\ CanRead(n, u))

CanAdministerSharing(n, u) == IsGameMaster(notes[n].campaign, u) /\ CanRead(n, u)

(* checkGrantTargets *)
MayReceive(c, chosen) == chosen \subseteq ActiveMembers(c)

Grants(c, chosen) == {[user |-> u, since |-> generation[c][u]] : u \in chosen}

----------------------------------------------------------------------------
(* Commands.  Each answers with the body of the note as it is then. *)

(* A player writes for themselves, a game master for whom they choose. *)
CreateContent(u, n, audience, chosen) ==
  LET c == notes[n].campaign
  IN /\ notes[n].status = "unused"
     /\ IsActiveMember(c, u)
     /\ campaignStatus[c] = "active"
     /\ IsGameMaster(c, u) \/ (audience = "owner_only" /\ chosen = {})
     /\ MayReceive(c, chosen)
     /\ \E t \in 1..MaxTime :
          notes' = [notes EXCEPT ![n] =
            [Written(c, u, audience, t) EXCEPT !.grants = Grants(c, chosen),
                                               !.revision = IF chosen = {} THEN 1 ELSE 2]]
     /\ UNCHANGED campaignVars

(* What the other commands check first, and change in any case. *)
Revise(n, note) ==
  /\ campaignStatus[notes[n].campaign] = "active"
  /\ notes[n].revision < MaxNoteRevision
  /\ notes' = [notes EXCEPT ![n] = [note EXCEPT !.revision = @ + 1]]
  /\ UNCHANGED campaignVars

(* The grants stay when the audience changes. *)
UpdateContent(u, n, audience) ==
  /\ notes[n].status = "active"
  /\ CanManage(n, u)
  /\ audience # notes[n].audience => CanAdministerSharing(n, u)
  /\ Revise(n, [notes[n] EXCEPT !.audience = audience])

DeleteContent(u, n) ==
  /\ notes[n].status = "active"
  /\ CanManage(n, u)
  /\ Revise(n, [notes[n] EXCEPT !.status = "deleted"])

RecoverContent(u, n) ==
  /\ notes[n].status = "deleted"
  /\ CanManage(n, u)
  /\ Revise(n, [notes[n] EXCEPT !.status = "active"])

ReplaceGrants(u, n, chosen) ==
  /\ notes[n].status = "active"
  /\ CanAdministerSharing(n, u)
  /\ MayReceive(notes[n].campaign, chosen)
  /\ Revise(n, [notes[n] EXCEPT !.grants = Grants(notes[n].campaign, chosen)])

----------------------------------------------------------------------------
(* Members *)

(* Mutant: the grants of a departed member stay. *)
GrantsKept(c, u) == notes

(* deleteContentGrantsForMember *)
GrantsWithout(c, u) ==
  [n \in Notes |-> IF notes[n].campaign = c
                     THEN [notes[n] EXCEPT !.grants = {g \in @ : g.user # u}]
                     ELSE notes[n]]

ChangeMembers(c) ==
  /\ campaignRevision[c] < MaxCampaignRevision
  /\ \/ \E u, target \in Users :
          /\ generation[c][target] < MaxGeneration
          /\ Leave(u, target, c)
          /\ notes' = GrantsWithout(c, target)
     \/ /\ \/ \E u \in Users, intended \in Roles :
                /\ generation[c][u] < MaxGeneration
                /\ MemberJoins(u, c, intended)
                /\ Bump(c)
           \/ \E u, target \in Users, newRole \in Roles : SetRole(u, target, c, newRole)
           \/ \E u \in Users : Archive(u, c) \/ Recover(u, c)
        /\ UNCHANGED notes

----------------------------------------------------------------------------
(* Lists *)

(* listContentPage: the predicate of the query, by the status asked for. *)
CanList(n, c, u, status) ==
  /\ notes[n].campaign = c
  /\ notes[n].status = status
  /\ IF status = "active" THEN CanRead(n, u)
     ELSE /\ IsActiveMember(c, u)
          /\ notes[n].creator = u \/ (IsGameMaster(c, u) /\ notes[n].audience # "owner_only")

Listable == IF listing = Idle THEN {}
            ELSE {n \in Notes : CanList(n, listing.campaign, listing.reader, listing.status)}

(* Newest first, and by id among those of one millisecond. *)
Before(n, m) ==
  \/ notes[n].created > notes[m].created
  \/ notes[n].created = notes[m].created /\ n > m

(* Mutant: the rows of the cursor's millisecond are taken as listed. *)
AfterTime(cursor, n) == cursor = <<>> \/ notes[n].created < cursor[1]

After(cursor, n) ==
  \/ cursor = <<>>
  \/ notes[n].created < cursor[1]
  \/ notes[n].created = cursor[1] /\ n < cursor[2]

BeginList(u, c, status) ==
  /\ listing = Idle
  /\ IsActiveMember(c, u)
  /\ listing' = [reader |-> u, campaign |-> c, status |-> status,
                 cursor |-> <<>>, rows |-> <<>>, more |-> TRUE]

(* One page: the query asks for one row more, to know whether there is a    *)
(* next page, and the last row that is shown becomes the cursor.            *)
ListPage ==
  /\ listing # Idle
  /\ listing.more
  /\ IsActiveMember(listing.campaign, listing.reader)
  /\ LET rest == {n \in Listable : After(listing.cursor, n)}
         page == {n \in rest : Cardinality({m \in rest : Before(m, n)}) < PageSize}
         rows == CHOOSE s \in [1..Cardinality(page) -> page] :
                   \A i, j \in DOMAIN s : i < j => Before(s[i], s[j])
         last == rows[Cardinality(page)]
     IN listing' = [listing EXCEPT
          !.rows = @ \o rows,
          !.more = page # rest,
          !.cursor = IF page = rest THEN <<>> ELSE <<notes[last].created, last>>]

(* The reader has all pages, gives up, or is no longer a member. *)
EndList == listing # Idle /\ listing' = Idle

ListStep ==
  /\ \/ \E u \in Users, c \in Campaigns, status \in {"active", "deleted"} : BeginList(u, c, status)
     \/ ListPage
     \/ EndList
  /\ UNCHANGED <<campaignVars, notes>>

ContentCommand(u, n) ==
  \/ \E audience \in Audiences, chosen \in SUBSET Users : CreateContent(u, n, audience, chosen)
  \/ \E audience \in Audiences : UpdateContent(u, n, audience)
  \/ DeleteContent(u, n)
  \/ RecoverContent(u, n)
  \/ \E chosen \in SUBSET Users : ReplaceGrants(u, n, chosen)

ContentNext ==
  /\ \/ \E u \in Users, n \in Notes : ContentCommand(u, n) /\ UNCHANGED listing
     \/ \E c \in Campaigns : ChangeMembers(c) /\ UNCHANGED listing
     \/ ListStep
  /\ steady' = IF listing = Idle THEN Listable' ELSE steady \cap Listable'

ContentSpec == ContentInit /\ [][ContentNext]_contentVars

----------------------------------------------------------------------------
(* Who was given a note lost it with that membership: no grant survives a   *)
(* departure into a later membership of the same account                    *)
(* (deleteContentGrantsForMember).                                          *)
GrantsAreOfThisMembership ==
  \A n \in Notes : \A g \in notes[n].grants :
    /\ IsActiveMember(notes[n].campaign, g.user)
    /\ g.since = generation[notes[n].campaign][g.user]

(* A list that was read to its end shows every note its reader could see    *)
(* all the time, none of them twice, whatever was written, hidden, shared   *)
(* or taken back between its pages (the keyset of listContentPage).         *)
ListsAreComplete ==
  listing # Idle =>
    /\ \A i, j \in DOMAIN listing.rows : listing.rows[i] = listing.rows[j] => i = j
    /\ ~ listing.more => \A n \in steady : \E i \in DOMAIN listing.rows : listing.rows[i] = n

(* "Nobody may act on an inaccessible note by guessing its ID"              *)
(* (policy.ts:121): no step on a note is one that somebody who may not read *)
(* it could take.                                                           *)
NobodyActsOnTheUnreadable ==
  [][\A n \in Notes, u \in Users :
       notes[n].status # "unused" /\ ~ CanRead(n, u) => ~ ContentCommand(u, n)]_contentVars
=============================================================================
