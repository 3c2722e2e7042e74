------------------------- MODULE CampaignPlacement -------------------------
(***************************************************************************)
(* The sheets of a campaign and the transactions that move them            *)
(* (characters/campaignPlacement.ts, with removeMember of                  *)
(* campaigns/index.ts and the sheet commands they meet).                   *)
(*                                                                         *)
(* A worker serves one request at a time in one transaction.  Before it    *)
(* holds any lock it reads the era of the caller's membership, or the      *)
(* campaign the sheet seems to be in; then it locks the row of the         *)
(* campaign, the rows of the sheets in the order of their ids, checks what *)
(* it reads under those locks and commits.  A request is what the worker   *)
(* locks and has read first; what nothing depends on before the checks     *)
(* (the chosen controllers, a new role, the revisions the caller expects)  *)
(* is chosen with them.  An expected revision is the current one or the    *)
(* request changes nothing.                                                *)
(*                                                                         *)
(* Each sheet implements Custody, which knows nothing of locks, requests,  *)
(* designations or other sheets.                                           *)
(***************************************************************************)
EXTENDS CampaignCommands, FiniteSets

CONSTANTS
  Sheets,        \* ids of character rows
  Workers,       \* transactions that may be open together
  MaxAttached,   \* maxAttachedCharacters, the limit of a campaign
  NoUser, NoCampaign, NoRequest,
  MaxRevision    \* bound on characters.revision

ASSUME PlacementAssumption ==
  /\ Sheets \subseteq Nat /\ IsFiniteSet(Sheets)
  /\ NoUser \notin Users
  /\ NoCampaign \notin Campaigns
  /\ MaxAttached \in Nat
  /\ MaxRevision \in Nat \ {0}

VARIABLES
  sheets,    \* the rows of characters with their controllers and designations
  request,   \* what a worker is serving
  scope,     \* the campaign it found the request to belong to
  era,       \* the caller's membership generation it read first
  locked     \* the row locks it holds

placementVars == <<campaignVars, sheets, request, scope, era, locked>>

Requests ==
  [kind : {"create"}, campaign : Campaigns, actor : Users]
  \cup [kind : {"place"}, campaign : Campaigns, actor : Users, sheet : Sheets]
  \cup [kind : {"leave"}, campaign : Campaigns, target : Users]
  \cup [kind : {"campaign"}, campaign : Campaigns]
  \cup [kind : {"command", "replay"}, sheet : Sheets]

Designation == [user : Users, by : Users]

Sheet ==
  [owner : Users \cup {NoUser}, campaign : Campaigns \cup {NoCampaign},
   returnOwner : Users \cup {NoUser}, placement : Nat, revision : Nat,
   lifecycle : {"active", "archived"}, controllers : SUBSET Users,
   designations : SUBSET Designation]

(* Keys of row locks. *)
CampaignRow(c) == <<"campaign", c>>
SheetRow(s)    == <<"sheet", s>>
Rows == {CampaignRow(c) : c \in Campaigns} \cup {SheetRow(s) : s \in Sheets}

PlacementTypeOK ==
  /\ CampaignTypeOK
  /\ sheets \in [Sheets -> Sheet]
  /\ request \in [Workers -> Requests \cup {NoRequest}]
  /\ scope \in [Workers -> Campaigns \cup {NoCampaign}]
  /\ era \in [Workers -> Nat]
  /\ locked \in [Workers -> SUBSET Rows]

Exists(s)   == sheets[s].placement > 0
Attached(c) == {s \in Sheets : sheets[s].campaign = c}

Standalone(u) ==
  [owner |-> u, campaign |-> NoCampaign, returnOwner |-> NoUser, placement |-> 1, revision |-> 1,
   lifecycle |-> "active", controllers |-> {}, designations |-> {}]
Unused == [Standalone(NoUser) EXCEPT !.placement = 0]   \* no row with this id

Placed(c, chosen) ==
  [Standalone(NoUser) EXCEPT !.campaign = c, !.controllers = chosen]

(* Some sheets were made before, by accounts or inside a campaign.          *)
PlacementInit ==
  /\ Gathered
  /\ sheets \in [Sheets -> {Unused} \cup {Standalone(u) : u \in Users}
                           \cup {Placed(c, {}) : c \in Campaigns}]
  /\ \A c \in Campaigns : Cardinality(Attached(c)) <= MaxAttached
  /\ request = [w \in Workers |-> NoRequest]
  /\ scope = [w \in Workers |-> NoCampaign]
  /\ era = [w \in Workers |-> 0]
  /\ locked = [w \in Workers |-> {}]

----------------------------------------------------------------------------
(* Locks *)

(* runPlacementTransaction: the era is read before any lock is taken, and a *)
(* caller who is not an active member is turned away.                       *)
BeginPlacement(w, r) ==
  /\ r.kind \in {"create", "place"}
  /\ IsActiveMember(r.campaign, r.actor)
  /\ scope' = [scope EXCEPT ![w] = r.campaign]
  /\ era' = [era EXCEPT ![w] = generation[r.campaign][r.actor]]

(* The commands on members and on the campaign read nothing first. *)
BeginOnCampaign(w, r) ==
  /\ r.kind \in {"leave", "campaign"}
  /\ scope' = [scope EXCEPT ![w] = r.campaign]
  /\ UNCHANGED era

(* A sheet command is sent to the campaign its sheet was found in. *)
BeginCommand(w, r) ==
  /\ r.kind = "command"
  /\ Exists(r.sheet)
  /\ scope' = [scope EXCEPT ![w] = sheets[r.sheet].campaign]
  /\ UNCHANGED era

(* reauthorizeReplay locks the sheet of the stored outcome and nothing else. *)
BeginReplay(w, r) ==
  /\ r.kind = "replay"
  /\ Exists(r.sheet)
  /\ UNCHANGED <<scope, era>>

Begin(w, r) ==
  /\ request[w] = NoRequest
  /\ request' = [request EXCEPT ![w] = r]
  /\ BeginPlacement(w, r) \/ BeginOnCampaign(w, r) \/ BeginCommand(w, r) \/ BeginReplay(w, r)
  /\ UNCHANGED <<campaignVars, sheets, locked>>

(* The sheets a transaction locks: the one named in the request, or, when a *)
(* member leaves, every sheet they adopted into the campaign.               *)
ToLock(w) ==
  LET r == request[w]
  IN CASE r.kind = "leave" -> {s \in Attached(r.campaign) : sheets[s].returnOwner = r.target}
       [] r.kind \in {"place", "command", "replay"} -> {r.sheet}
       [] OTHER -> {}

(* Mutant: a sheet command locks its sheet before the campaign. *)
NextRowSheetFirst(w) ==
  LET open == {s \in ToLock(w) : SheetRow(s) \notin locked[w]}
      campaignOpen == scope[w] # NoCampaign /\ CampaignRow(scope[w]) \notin locked[w]
      sheetFirst == request[w].kind = "command" /\ open # {}
  IN IF campaignOpen /\ ~ sheetFirst THEN {CampaignRow(scope[w])}
     ELSE IF open # {} THEN {SheetRow(CHOOSE s \in open : \A t \in open : s <= t)}
     ELSE {}

(* The campaign first, then the sheets in the order of their ids. *)
NextRow(w) ==
  LET open == {s \in ToLock(w) : SheetRow(s) \notin locked[w]}
  IN IF scope[w] # NoCampaign /\ CampaignRow(scope[w]) \notin locked[w] THEN {CampaignRow(scope[w])}
     ELSE IF open # {} THEN {SheetRow(CHOOSE s \in open : \A t \in open : s <= t)}
     ELSE {}

WaitsFor(w, v) == request[w] # NoRequest /\ v # w /\ NextRow(w) \cap locked[v] # {}

Lock(w) ==
  /\ request[w] # NoRequest
  /\ NextRow(w) # {}
  /\ \A v \in Workers : ~ WaitsFor(w, v)
  /\ locked' = [locked EXCEPT ![w] = @ \cup NextRow(w)]
  /\ UNCHANGED <<campaignVars, sheets, request, scope, era>>

----------------------------------------------------------------------------
(* What is checked under the locks *)

(* Mutant: the membership read before the locks is trusted. *)
MayPlaceAsRead(w, c, u) == campaignStatus[c] = "active"

MayPlace(w, c, u) ==
  /\ campaignStatus[c] = "active"
  /\ IsActiveMember(c, u)
  /\ generation[c][u] = era[w]

(* Mutant: the limit is off by one. *)
HasRoomForOneMore(c) == Cardinality(Attached(c)) <= MaxAttached
HasRoom(c) == Cardinality(Attached(c)) < MaxAttached

(* A player makes a sheet for themselves, a game master for any members. *)
MayCreate(c, u, chosen) ==
  /\ chosen \subseteq ActiveMembers(c)
  /\ IsGameMaster(c, u) \/ chosen = {u}
  /\ HasRoom(c)

MayAdopt(sheet, u, c) ==
  /\ sheet.owner = u
  /\ sheet.lifecycle = "active"
  /\ HasRoom(c)

MayAssign(sheet, gm, c, chosen, designees) ==
  /\ IsGameMaster(c, gm)
  /\ sheet.campaign = c
  /\ sheet.returnOwner \in chosen \cup {NoUser}
  /\ chosen \cup designees \subseteq ActiveMembers(c)
  /\ designees \cap chosen = {}
  /\ \A d \in sheet.designations : d.user \notin designees

(* The designation is what the claim consumes. *)
MayClaim(sheet, u, c) ==
  /\ sheet.campaign = c
  /\ \E d \in sheet.designations : d.user = u

(* The right to a sheet command, rechecked under the locks: the sheet must  *)
(* still be where it was found.                                             *)
MayCommand(w, sheet, u) ==
  /\ sheet.campaign = scope[w]
  /\ IF scope[w] = NoCampaign THEN sheet.owner = u
     ELSE campaignStatus[scope[w]] = "active" /\ IsGameMaster(scope[w], u)

----------------------------------------------------------------------------
(* What is written *)

Adopted(sheet, u, c) ==
  [sheet EXCEPT !.owner = NoUser, !.campaign = c, !.returnOwner = u, !.placement = @ + 1,
                !.revision = @ + 1, !.controllers = @ \cup {u}]

Assigned(sheet, gm, chosen, designees) ==
  [sheet EXCEPT !.controllers = chosen,
                !.designations = @ \cup {[user |-> d, by |-> gm] : d \in designees}]

Claimed(sheet, u) ==
  [sheet EXCEPT !.controllers = @ \cup {u}, !.designations = {d \in @ : d.user # u}]

(* A returned sheet is free of everybody it met in the campaign. *)
Returned(sheet) ==
  [sheet EXCEPT !.owner = sheet.returnOwner, !.campaign = NoCampaign, !.returnOwner = NoUser,
                !.placement = @ + 1, !.revision = @ + 1, !.controllers = {}, !.designations = {}]

(* Mutant: what the departed member designated survives. *)
ReleasedOfOwn(sheet, u) ==
  [sheet EXCEPT !.controllers = @ \ {u}, !.designations = {d \in @ : d.user # u}]

Released(sheet, u) ==
  [sheet EXCEPT !.controllers = @ \ {u}, !.designations = {d \in @ : u \notin {d.user, d.by}}]

(* returnForMember. *)
AfterDeparture(s, c, u) ==
  IF sheets[s].campaign # c THEN sheets[s]
  ELSE IF sheets[s].returnOwner = u THEN Returned(sheets[s])
  ELSE Released(sheets[s], u)

Transferred(sheet, heir) == [sheet EXCEPT !.owner = heir, !.revision = @ + 1]

Moved(sheet, l) == [sheet EXCEPT !.lifecycle = l, !.revision = @ + 1]

Replace(s, sheet) == sheets' = [sheets EXCEPT ![s] = sheet]

Create(w, r) ==
  \E chosen \in SUBSET Users, s \in Sheets :
    /\ MayPlace(w, r.campaign, r.actor)
    /\ MayCreate(r.campaign, r.actor, chosen)
    /\ ~ Exists(s)
    /\ Replace(s, Placed(r.campaign, chosen))

AdoptSheet(w, r) ==
  /\ MayPlace(w, r.campaign, r.actor)
  /\ MayAdopt(sheets[r.sheet], r.actor, r.campaign)
  /\ sheets[r.sheet].revision < MaxRevision
  /\ Replace(r.sheet, Adopted(sheets[r.sheet], r.actor, r.campaign))

Assign(w, r) ==
  \E chosen, designees \in SUBSET Users :
    /\ MayPlace(w, r.campaign, r.actor)
    /\ MayAssign(sheets[r.sheet], r.actor, r.campaign, chosen, designees)
    /\ Replace(r.sheet, Assigned(sheets[r.sheet], r.actor, chosen, designees))

Claim(w, r) ==
  /\ MayPlace(w, r.campaign, r.actor)
  /\ MayClaim(sheets[r.sheet], r.actor, r.campaign)
  /\ Replace(r.sheet, Claimed(sheets[r.sheet], r.actor))

Place(w, r) ==
  /\ \/ r.kind = "create" /\ Create(w, r)
     \/ r.kind = "place" /\ (AdoptSheet(w, r) \/ Assign(w, r) \/ Claim(w, r))
  /\ Bump(r.campaign)
  /\ UNCHANGED memberVars

(* removeMember, by the member or by somebody who may remove them. *)
Depart(r) ==
  /\ r.kind = "leave"
  /\ generation[r.campaign][r.target] < MaxGeneration
  /\ \A s \in Attached(r.campaign) : sheets[s].revision < MaxRevision
  /\ \E u \in Users : Leave(u, r.target, r.campaign)
  /\ sheets' = [s \in Sheets |-> AfterDeparture(s, r.campaign, r.target)]

ChangeCampaign(r) ==
  /\ r.kind = "campaign"
  /\ \E u \in Users :
       \/ /\ generation[r.campaign][u] < MaxGeneration
          /\ \E intended \in Roles : MemberJoins(u, r.campaign, intended)
          /\ Bump(r.campaign)
       \/ \E target \in Users, newRole \in Roles : SetRole(u, target, r.campaign, newRole)
       \/ Archive(u, r.campaign)
       \/ Recover(u, r.campaign)
       \/ Update(u, r.campaign)
  /\ UNCHANGED sheets

(* A transfer of a standalone sheet, or its archive and recovery, which a   *)
(* game master may do to an attached one too.                               *)
Command(w, r) ==
  /\ r.kind = "command"
  /\ sheets[r.sheet].revision < MaxRevision
  /\ \E u \in Users :
       /\ MayCommand(w, sheets[r.sheet], u)
       /\ \/ /\ scope[w] = NoCampaign
             /\ \E heir \in Users : Replace(r.sheet, Transferred(sheets[r.sheet], heir))
          \/ \E l \in {"active", "archived"} : Replace(r.sheet, Moved(sheets[r.sheet], l))
  /\ UNCHANGED campaignVars

Effect(w, r) ==
  \/ /\ scope[w] # NoCampaign
     /\ campaignRevision[scope[w]] < MaxCampaignRevision
     /\ Place(w, r) \/ Depart(r) \/ ChangeCampaign(r)
  \/ Command(w, r)

Done(w) ==
  /\ request' = [request EXCEPT ![w] = NoRequest]
  /\ scope' = [scope EXCEPT ![w] = NoCampaign]
  /\ era' = [era EXCEPT ![w] = 0]
  /\ locked' = [locked EXCEPT ![w] = {}]

Commit(w) ==
  /\ request[w] # NoRequest
  /\ NextRow(w) = {}
  /\ Effect(w, request[w])
  /\ Done(w)

(* A request is refused (its expected revisions are old, a check fails), it *)
(* was a replay, which only reads under the lock of its sheet, or its       *)
(* process dies: the transaction leaves nothing behind.                     *)
Abort(w) ==
  /\ request[w] # NoRequest
  /\ Done(w)
  /\ UNCHANGED <<campaignVars, sheets>>

PlacementNext ==
  \E w \in Workers :
    \/ \E r \in Requests : Begin(w, r)
    \/ Lock(w)
    \/ Commit(w)
    \/ Abort(w)

PlacementSpec == PlacementInit /\ [][PlacementNext]_placementVars

----------------------------------------------------------------------------
(* Two adoptions or creations never take a campaign over its limit of       *)
(* sheets (attachedCount): both count under the lock of the campaign.       *)
AttachedWithinLimit == \A c \in Campaigns : Cardinality(Attached(c)) <= MaxAttached

(* A designation lives only between two active members of the campaign its  *)
(* sheet is in: whoever leaves takes along what was promised to them and    *)
(* what they promised, and a sheet that returns takes along nothing         *)
(* (returnForMember), so that nobody who joins later can claim by it.       *)
DesignationsAreLive ==
  \A s \in Sheets : \A d \in sheets[s].designations :
    /\ sheets[s].campaign \in Campaigns
    /\ {d.user, d.by} \subseteq ActiveMembers(sheets[s].campaign)

(* No set of open transactions all wait for each other: the campaign is     *)
(* locked first, then the sheets in the order of their ids, also when many  *)
(* are returned at once (design :178).                                      *)
NoCyclicWait ==
  \A S \in (SUBSET Workers) \ {{}} : \E w \in S : \A v \in S : ~ WaitsFor(w, v)

Custody(s) == INSTANCE Custody WITH
  owner <- sheets[s].owner, campaign <- sheets[s].campaign, returnOwner <- sheets[s].returnOwner,
  placement <- sheets[s].placement, revision <- sheets[s].revision,
  lifecycle <- sheets[s].lifecycle, controllers <- sheets[s].controllers,
  MaxRevision <- MaxRevision + 1

(* Whatever the other sheets and the open transactions do, every sheet      *)
(* starts as Custody lets it start and moves only as Custody lets it move.  *)
SheetsRespectCustody ==
  [][\A s \in Sheets :
       IF Exists(s)
         THEN Custody(s)!CustodyStep \/ Custody(s)!CommandStep \/ UNCHANGED Custody(s)!custodyVars
         ELSE ~ Exists(s)' \/ Custody(s)!NewSheet']_<<memberVars, sheets>>

(* Who is a member in which role, and who holds and may claim which sheet.  *)
Access(c) ==
  <<role[c], generation[c], campaignStatus[c],
    [s \in Attached(c) |-> <<sheets[s].controllers, sheets[s].designations>>]>>

(* A change of members, controllers, designations or attached sheets raises *)
(* both counters of its campaign, so that a command composed on the earlier *)
(* picture is refused and a reviewed invitation is reviewed again           *)
(* (design :178).                                                           *)
AccessChangesAreMarked ==
  [][\A c \in Campaigns :
       Access(c)' # Access(c)
         => campaignRevision'[c] > campaignRevision[c] /\ accessRevision'[c] > accessRevision[c]
    ]_<<campaignVars, sheets>>
=============================================================================
