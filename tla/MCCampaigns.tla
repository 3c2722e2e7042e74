----------------------------- MODULE MCCampaigns -----------------------------
(***************************************************************************)
(* The modules about a campaign in one state graph, one at a time: the     *)
(* scenario says which of them moves, under which bounds.                  *)
(***************************************************************************)
EXTENDS CampaignPlacement, Invitations, CampaignContent, CampaignCatalog, TLC

CONSTANTS gm, co, pl

VARIABLE scenario

restVars == <<placementVars, invitations, reviews, admissions, notes, listing, steady,
              templates, proposals, selection, copies, scenario>>

Scenarios == {"history", "race", "invitations", "sharing", "lists", "copies", "proposals"}

----------------------------------------------------------------------------
(* Where the others rest *)

NoSheets ==
  /\ sheets = [s \in Sheets |-> Unused]
  /\ request = [w \in Workers |-> NoRequest]
  /\ scope = [w \in Workers |-> NoCampaign]
  /\ era = [w \in Workers |-> 0]
  /\ locked = [w \in Workers |-> {}]

NoInvitations ==
  /\ invitations \in [Invites -> {Unissued(c) : c \in Campaigns}]
  /\ reviews = [u \in Users |-> Nobody]
  /\ admissions = {}

NoNotes ==
  /\ notes \in [Notes -> {Unwritten(c) : c \in Campaigns}]
  /\ listing = Idle
  /\ steady = {}

Members == [c \in Campaigns |-> (gm :> "owner") @@ (co :> "co_gm") @@ (pl :> "player")]

MCInit ==
  /\ scenario \in Scenarios
  /\ IF scenario = "invitations"
       THEN InvitationInit /\ \A c \in Campaigns : role[c][gm] = "owner"
       ELSE Gathered /\ role = Members /\ NoInvitations
  /\ IF scenario \in {"history", "race"}
       THEN /\ PlacementInit
            /\ sheets[1].owner \in {pl, NoUser} /\ sheets[2].owner \in {co, NoUser}
            /\ Exists(IF scenario = "race" THEN 1 ELSE 2)
       ELSE NoSheets
  /\ IF scenario = "lists"
       THEN /\ ContentInit
            /\ \A n \in Notes : notes[n].creator = co /\ notes[n].audience = "all_players"
            /\ notes[1].created = 1
       ELSE NoNotes
  /\ templates \in [Templates -> {NoTemplate(c) : c \in Campaigns}]
  /\ proposals \in [Proposals -> {NoSuggestion(c) : c \in Campaigns}]
  /\ selection = [u \in Users |-> NoAuthor]
  /\ copies = {}

----------------------------------------------------------------------------
(* Bounds *)

Busy == {w \in Workers : request[w] # NoRequest}

(* One transaction at a time, and a longer history. *)
History ==
  /\ Cardinality(Busy) <= 1
  /\ \A w \in Busy : request[w].kind \notin {"command", "replay"}
  /\ \A c \in Campaigns : campaignRevision[c] + Cardinality(Busy) <= 4

(* Two transactions are open together and both may commit. *)
Race ==
  /\ \A w \in Busy : request[w].kind # "campaign"
  /\ \A w \in Busy : request[w].kind \in {"command", "replay"} => request[w].sheet = 1
  /\ \A c \in Campaigns : campaignRevision[c] + Cardinality(Busy) <= 3
  /\ \A s \in Sheets : sheets[s].revision <= 2

(* Those who are not members yet review and join. *)
Joining == reviews[gm] = Nobody

(* One note through a long history of members. *)
Sharing ==
  /\ listing = Idle
  /\ \A c \in Campaigns : campaignRevision[c] <= 4
  /\ \A n \in Notes : notes[n].created <= IF n = 1 THEN 1 ELSE 0

(* A list, of the active notes for a player or the hidden ones for their    *)
(* creator, while two notes or members change.                              *)
Lists ==
  /\ listing # Idle => listing.reader = IF listing.status = "active" THEN pl ELSE co
  /\ \A n \in Notes : notes[n].grants = {}
  /\ \A n \in Notes : notes[n].revision <= 2
  /\ Cardinality({n \in Notes : notes[n].revision > 1} \cup {c \in Campaigns : campaignRevision[c] > 1}) <= 2
  /\ \A c \in Campaigns : campaignRevision[c] <= 2

Copies ==
  /\ \A p \in Proposals : proposals[p].status = "unused"
  /\ \A u \in Users : selection[u] # NoAuthor => u = pl
  /\ Cardinality(copies) <= 1
  /\ \A c \in Campaigns : campaignRevision[c] <= 3

Suggestions ==
  /\ \A u \in Users : selection[u] = NoAuthor
  /\ \A t \in Templates : templates[t].revision <= 2 /\ templates[t].audience = "all_players"
  /\ \A c \in Campaigns : campaignRevision[c] <= 3

OnlyPlacement   == UNCHANGED <<invitations, reviews, admissions, notes, listing, steady,
                               templates, proposals, selection, copies>>
OnlyInvitations == UNCHANGED <<sheets, request, scope, era, locked, notes, listing, steady,
                               templates, proposals, selection, copies>>
OnlyContent     == UNCHANGED <<sheets, request, scope, era, locked, invitations, reviews, admissions,
                               templates, proposals, selection, copies>>
OnlyCatalog     == UNCHANGED <<sheets, request, scope, era, locked, invitations, reviews, admissions,
                               notes, listing, steady>>

MCNext ==
  /\ UNCHANGED scenario
  /\ \/ scenario = "history" /\ PlacementNext /\ OnlyPlacement /\ History'
     \/ scenario = "race" /\ PlacementNext /\ OnlyPlacement /\ Race'
     \/ scenario = "invitations" /\ InvitationNext /\ OnlyInvitations /\ Joining'
     \/ scenario = "sharing" /\ ContentNext /\ OnlyContent /\ Sharing'
     \/ scenario = "lists" /\ ContentNext /\ OnlyContent /\ Lists'
     \/ scenario = "copies" /\ CatalogNext /\ OnlyCatalog /\ Copies'
     \/ scenario = "proposals" /\ CatalogNext /\ OnlyCatalog /\ Suggestions'

MCSpec == MCInit /\ [][MCNext]_restVars

----------------------------------------------------------------------------
(* What Invitations states of members holds where members join by them:     *)
(* in the other scenarios members have joined before, or join unasked.      *)
SeatsWithinLimit == scenario = "invitations" => MembersWithinLimit
AdmittedOnce     == scenario = "invitations" => MembersAreAdmittedOnce
JoinersReviewed  == [][scenario = "invitations" => JoinsAsReviewed]_restVars

Symmetry == Permutations(Workers) \cup Permutations(Invites) \cup Permutations(Templates)
              \cup Permutations(Proposals)
=============================================================================
