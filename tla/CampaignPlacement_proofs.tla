---------------------- MODULE CampaignPlacement_proofs ----------------------
(***************************************************************************)
(* What CampaignPlacement promises of designations, of the limit of sheets *)
(* and of the counters of a campaign, that its transactions never wait in  *)
(* a circle, and that each of its sheets implements Custody, proved for    *)
(* any accounts, campaigns, sheets and workers; and what the shared state  *)
(* graph of MCCampaigns keeps of the promises of Invitations.              *)
(***************************************************************************)
EXTENDS MCCampaigns, Campaigns_proofs, WellFoundedInduction

(* What each change makes of a sheet. *)
LEMMA SheetFields ==
  ASSUME NEW x \in Sheet
  PROVE  /\ \A v \in Users \cup {NoUser} : [x EXCEPT !.owner = v] \in Sheet /\ [x EXCEPT !.returnOwner = v] \in Sheet
         /\ \A c \in Campaigns \cup {NoCampaign} : [x EXCEPT !.campaign = c] \in Sheet
         /\ \A n \in Nat : [x EXCEPT !.placement = n] \in Sheet /\ [x EXCEPT !.revision = n] \in Sheet
         /\ \A l \in {"active", "archived"} : [x EXCEPT !.lifecycle = l] \in Sheet
         /\ \A U \in SUBSET Users : [x EXCEPT !.controllers = U] \in Sheet
         /\ \A D \in SUBSET Designation : [x EXCEPT !.designations = D] \in Sheet
BY DEF Sheet

LEMMA AdoptedIs ==
  ASSUME NEW x \in Sheet, NEW u \in Users, NEW c \in Campaigns
  PROVE  LET y == Adopted(x, u, c)
         IN  /\ y \in Sheet
             /\ y.owner = NoUser /\ y.campaign = c /\ y.returnOwner = u /\ y.placement = x.placement + 1
             /\ y.revision = x.revision + 1 /\ y.lifecycle = x.lifecycle
             /\ y.controllers = x.controllers \cup {u} /\ y.designations = x.designations
<1> DEFINE a == [x EXCEPT !.owner = NoUser]
           b == [a EXCEPT !.campaign = c]
           d == [b EXCEPT !.returnOwner = u]
           e == [d EXCEPT !.placement = @ + 1]
           f == [e EXCEPT !.revision = @ + 1]
           g == [f EXCEPT !.controllers = @ \cup {u}]
<1>1. a \in Sheet
  BY SheetFields
<1>2. b \in Sheet
  <2> HIDE DEF a
  <2> QED BY <1>1, SheetFields
<1>3. d \in Sheet
  <2> HIDE DEF b
  <2> QED BY <1>2, SheetFields
<1>4. e \in Sheet
  <2> HIDE DEF d
  <2>1. d.placement + 1 \in Nat
    BY <1>3 DEF Sheet
  <2> QED BY <1>3, <2>1, SheetFields
<1>5. f \in Sheet
  <2> HIDE DEF e
  <2>1. e.revision + 1 \in Nat
    BY <1>4 DEF Sheet
  <2> QED BY <1>4, <2>1, SheetFields
<1>6. g \in Sheet
  <2> HIDE DEF f
  <2>1. f.controllers \cup {u} \in SUBSET Users
    BY <1>5 DEF Sheet
  <2> QED BY <1>5, <2>1, SheetFields
<1>7. Adopted(x, u, c) \in Sheet
  BY <1>6 DEF Adopted
<1>8. /\ Adopted(x, u, c).owner = NoUser /\ Adopted(x, u, c).campaign = c
      /\ Adopted(x, u, c).returnOwner = u /\ Adopted(x, u, c).placement = x.placement + 1
  BY DEF Adopted, Sheet
<1>9. /\ Adopted(x, u, c).revision = x.revision + 1 /\ Adopted(x, u, c).lifecycle = x.lifecycle
      /\ Adopted(x, u, c).controllers = x.controllers \cup {u}
      /\ Adopted(x, u, c).designations = x.designations
  BY DEF Adopted, Sheet
<1> QED BY <1>7, <1>8, <1>9

LEMMA AssignedIs ==
  ASSUME NEW x \in Sheet, NEW giver \in Users, NEW chosen \in SUBSET Users, NEW designees \in SUBSET Users
  PROVE  LET y == Assigned(x, giver, chosen, designees)
         IN  /\ y \in Sheet
             /\ y.owner = x.owner /\ y.campaign = x.campaign /\ y.returnOwner = x.returnOwner
             /\ y.placement = x.placement /\ y.revision = x.revision /\ y.lifecycle = x.lifecycle
             /\ y.controllers = chosen
             /\ \A d \in y.designations : d \in x.designations \/ (d.user \in designees /\ d.by = giver)
<1> DEFINE more == {[user |-> d, by |-> giver] : d \in designees}
           a == [x EXCEPT !.controllers = chosen]
           b == [a EXCEPT !.designations = @ \cup more]
<1>1. more \in SUBSET Designation
  BY DEF Designation
<1>2. Assigned(x, giver, chosen, designees) = b
  BY DEF Assigned
<1> HIDE DEF more
<1>3. /\ a \in Sheet /\ a.controllers = chosen
      /\ a.owner = x.owner /\ a.campaign = x.campaign /\ a.returnOwner = x.returnOwner
      /\ a.placement = x.placement /\ a.revision = x.revision /\ a.lifecycle = x.lifecycle
      /\ a.designations = x.designations
  BY DEF Sheet
<1>4. b \in Sheet
  <2> HIDE DEF a
  <2>1. a.designations \cup more \in SUBSET Designation
    BY <1>1, <1>3 DEF Sheet
  <2> QED BY <1>3, <2>1, SheetFields
<1>5. /\ b.controllers = a.controllers /\ b.designations = a.designations \cup more
      /\ b.owner = a.owner /\ b.campaign = a.campaign /\ b.returnOwner = a.returnOwner
      /\ b.placement = a.placement /\ b.revision = a.revision /\ b.lifecycle = a.lifecycle
  <2> HIDE DEF a
  <2> QED BY <1>3 DEF Sheet
<1> QED BY <1>2, <1>3, <1>4, <1>5 DEF more

LEMMA ClaimedIs ==
  ASSUME NEW x \in Sheet, NEW u \in Users
  PROVE  LET y == Claimed(x, u)
         IN  /\ y \in Sheet
             /\ y.owner = x.owner /\ y.campaign = x.campaign /\ y.returnOwner = x.returnOwner
             /\ y.placement = x.placement /\ y.revision = x.revision /\ y.lifecycle = x.lifecycle
             /\ y.controllers = x.controllers \cup {u}
             /\ y.designations = {d \in x.designations : d.user # u}
BY DEF Claimed, Sheet, Designation

LEMMA ReturnedIs ==
  ASSUME NEW x \in Sheet
  PROVE  LET y == Returned(x)
         IN  /\ y \in Sheet
             /\ y.owner = x.returnOwner /\ y.campaign = NoCampaign /\ y.returnOwner = NoUser
             /\ y.placement = x.placement + 1 /\ y.revision = x.revision + 1
             /\ y.lifecycle = x.lifecycle /\ y.controllers = {} /\ y.designations = {}
<1> DEFINE a == [x EXCEPT !.owner = x.returnOwner]
           b == [a EXCEPT !.campaign = NoCampaign]
           d == [b EXCEPT !.returnOwner = NoUser]
           e == [d EXCEPT !.placement = @ + 1]
           f == [e EXCEPT !.revision = @ + 1]
           g == [f EXCEPT !.controllers = {}]
           h == [g EXCEPT !.designations = {}]
<1>1. a \in Sheet
  <2>1. x.returnOwner \in Users \cup {NoUser}
    BY DEF Sheet
  <2> QED BY <2>1, SheetFields
<1>2. b \in Sheet
  <2> HIDE DEF a
  <2> QED BY <1>1, SheetFields
<1>3. d \in Sheet
  <2> HIDE DEF b
  <2> QED BY <1>2, SheetFields
<1>4. e \in Sheet
  <2> HIDE DEF d
  <2>1. d.placement + 1 \in Nat
    BY <1>3 DEF Sheet
  <2> QED BY <1>3, <2>1, SheetFields
<1>5. f \in Sheet
  <2> HIDE DEF e
  <2>1. e.revision + 1 \in Nat
    BY <1>4 DEF Sheet
  <2> QED BY <1>4, <2>1, SheetFields
<1>6. g \in Sheet
  <2> HIDE DEF f
  <2> QED BY <1>5, SheetFields
<1>7. h \in Sheet
  <2> HIDE DEF g
  <2> QED BY <1>6, SheetFields
<1>8. Returned(x) \in Sheet
  BY <1>7 DEF Returned
<1>9. /\ Returned(x).owner = x.returnOwner /\ Returned(x).campaign = NoCampaign
      /\ Returned(x).returnOwner = NoUser /\ Returned(x).placement = x.placement + 1
  BY DEF Returned, Sheet
<1>10. /\ Returned(x).revision = x.revision + 1 /\ Returned(x).lifecycle = x.lifecycle
       /\ Returned(x).controllers = {} /\ Returned(x).designations = {}
  BY DEF Returned, Sheet
<1> QED BY <1>8, <1>9, <1>10

LEMMA ReleasedIs ==
  ASSUME NEW x \in Sheet, NEW u \in Users
  PROVE  LET y == Released(x, u)
         IN  /\ y \in Sheet
             /\ y.owner = x.owner /\ y.campaign = x.campaign /\ y.returnOwner = x.returnOwner
             /\ y.placement = x.placement /\ y.revision = x.revision /\ y.lifecycle = x.lifecycle
             /\ y.controllers = x.controllers \ {u}
             /\ y.designations = {d \in x.designations : u \notin {d.user, d.by}}
BY DEF Released, Sheet, Designation

LEMMA PlacedIs ==
  ASSUME NEW c \in Campaigns, NEW chosen \in SUBSET Users
  PROVE  LET y == Placed(c, chosen)
         IN  /\ y \in Sheet
             /\ y.owner = NoUser /\ y.campaign = c /\ y.returnOwner = NoUser /\ y.placement = 1
             /\ y.revision = 1 /\ y.lifecycle = "active" /\ y.controllers = chosen /\ y.designations = {}
BY DEF Placed, Standalone, Sheet

LEMMA TransferredIs ==
  ASSUME NEW x \in Sheet, NEW heir \in Users
  PROVE  LET y == Transferred(x, heir)
         IN  /\ y \in Sheet
             /\ y.owner = heir /\ y.revision = x.revision + 1
             /\ y.campaign = x.campaign /\ y.returnOwner = x.returnOwner /\ y.placement = x.placement
             /\ y.lifecycle = x.lifecycle /\ y.controllers = x.controllers
             /\ y.designations = x.designations
<1> DEFINE a == [x EXCEPT !.owner = heir]
<1>1. /\ a \in Sheet /\ a.owner = heir /\ a.revision = x.revision
      /\ a.campaign = x.campaign /\ a.returnOwner = x.returnOwner /\ a.placement = x.placement
      /\ a.lifecycle = x.lifecycle /\ a.controllers = x.controllers /\ a.designations = x.designations
  BY DEF Sheet
<1>2. Transferred(x, heir) = [a EXCEPT !.revision = @ + 1]
  BY DEF Transferred
<1> HIDE DEF a
<1>3. a.revision + 1 \in Nat
  BY <1>1 DEF Sheet
<1> QED BY <1>1, <1>2, <1>3 DEF Sheet

LEMMA MovedIs ==
  ASSUME NEW x \in Sheet, NEW l \in {"active", "archived"}
  PROVE  LET y == Moved(x, l)
         IN  /\ y \in Sheet
             /\ y.lifecycle = l /\ y.revision = x.revision + 1
             /\ y.campaign = x.campaign /\ y.returnOwner = x.returnOwner /\ y.placement = x.placement
             /\ y.owner = x.owner /\ y.controllers = x.controllers
             /\ y.designations = x.designations
<1> DEFINE a == [x EXCEPT !.lifecycle = l]
<1>1. /\ a \in Sheet /\ a.lifecycle = l /\ a.revision = x.revision
      /\ a.owner = x.owner /\ a.campaign = x.campaign /\ a.returnOwner = x.returnOwner
      /\ a.placement = x.placement /\ a.controllers = x.controllers /\ a.designations = x.designations
  BY DEF Sheet
<1>2. Moved(x, l) = [a EXCEPT !.revision = @ + 1]
  BY DEF Moved
<1> HIDE DEF a
<1>3. a.revision + 1 \in Nat
  BY <1>1 DEF Sheet
<1> QED BY <1>1, <1>2, <1>3 DEF Sheet

----------------------------------------------------------------------------
(* What holds of the sheets between two transactions, whatever is open. *)
PlacedInv ==
  /\ PlacementTypeOK
  /\ \A s \in Sheets :
       /\ sheets[s].owner # NoUser => sheets[s].campaign = NoCampaign
       /\ ~ Exists(s) => sheets[s].campaign = NoCampaign
  /\ DesignationsAreLive

LEMMA SheetIsTyped ==
  ASSUME PlacedInv, NEW s \in Sheets
  PROVE  /\ sheets[s] \in Sheet
         /\ sheets[s].campaign \in Campaigns \cup {NoCampaign} /\ sheets[s].returnOwner \in Users \cup {NoUser}
         /\ sheets[s].placement \in Nat /\ sheets[s].designations \subseteq Designation
BY DEF PlacedInv, PlacementTypeOK, Sheet

LEMMA HomelessPromiseNothing ==
  ASSUME PlacedInv, PlacementAssumption, NEW s \in Sheets, sheets[s].campaign = NoCampaign
  PROVE  sheets[s].designations = {}
BY DEF PlacedInv, DesignationsAreLive, PlacementAssumption

LEMMA RequestIsTyped ==
  ASSUME NEW r \in Requests
  PROVE  /\ r.kind \in {"create", "place"} => r.campaign \in Campaigns /\ r.actor \in Users
         /\ r.kind = "place" => r.sheet \in Sheets
         /\ r.kind = "leave" => r.campaign \in Campaigns /\ r.target \in Users
         /\ r.kind = "campaign" => r.campaign \in Campaigns
         /\ r.kind = "command" => r.sheet \in Sheets
BY DEF Requests

(* A placement command writes one sheet, into a campaign of which its actor *)
(* is a member now; a sheet that comes from outside finds room there.       *)
PlacesInto(c, s, y) ==
  /\ sheets' = [sheets EXCEPT ![s] = y]
  /\ Bump(c) /\ UNCHANGED memberVars
  /\ y.owner = NoUser /\ y.campaign = c /\ y.placement > 0
  /\ \A d \in y.designations : {d.user, d.by} \subseteq ActiveMembers(c)
  /\ sheets[s].campaign = c \/ (sheets[s].campaign = NoCampaign /\ HasRoom(c))

LEMMA PlaceIs ==
  ASSUME PlacedInv, PlacementAssumption, NEW w \in Workers, NEW r \in Requests, Place(w, r)
  PROVE  \E c \in Campaigns, s \in Sheets, y \in Sheet : PlacesInto(c, s, y)
<1>1. r.kind \in {"create", "place"} /\ Bump(r.campaign) /\ UNCHANGED memberVars
  BY DEF Place
<1>2. PICK c \in Campaigns, u \in Users : c = r.campaign /\ u = r.actor
  BY <1>1, RequestIsTyped
<1>3. CASE Create(w, r)
  <2>1. PICK chosen \in SUBSET Users, s \in Sheets :
          HasRoom(c) /\ ~ Exists(s) /\ sheets' = [sheets EXCEPT ![s] = Placed(c, chosen)]
    BY <1>2, <1>3 DEF Create, MayCreate, Replace
  <2>2. sheets[s].campaign = NoCampaign
    BY <2>1 DEF PlacedInv
  <2>3. PlacesInto(c, s, Placed(c, chosen)) /\ Placed(c, chosen) \in Sheet
    BY <1>1, <1>2, <2>1, <2>2, PlacedIs DEF PlacesInto
  <2> QED BY <2>3
<1>4. ASSUME r.kind = "place", AdoptSheet(w, r)
      PROVE  \E s \in Sheets, y \in Sheet : PlacesInto(c, s, y)
  <2>1. PICK s \in Sheets : s = r.sheet
    BY <1>4, RequestIsTyped
  <2>2. sheets[s].owner = u /\ HasRoom(c) /\ sheets' = [sheets EXCEPT ![s] = Adopted(sheets[s], u, c)]
    BY <1>2, <1>4, <2>1 DEF AdoptSheet, MayAdopt, Replace
  <2>3. sheets[s].campaign = NoCampaign
    BY <2>2 DEF PlacedInv, PlacementAssumption
  <2>4. sheets[s].designations = {} /\ sheets[s].placement \in Nat /\ sheets[s] \in Sheet
    BY <2>3, HomelessPromiseNothing, SheetIsTyped
  <2>5. PICK y \in Sheet :
          /\ y = Adopted(sheets[s], u, c) /\ y.owner = NoUser /\ y.campaign = c
          /\ y.placement = sheets[s].placement + 1 /\ y.designations = {}
    BY <2>4, AdoptedIs
  <2>6. PlacesInto(c, s, y)
    BY <1>1, <1>2, <2>2, <2>3, <2>4, <2>5 DEF PlacesInto
  <2> QED BY <2>6
<1>5. ASSUME r.kind = "place", Assign(w, r)
      PROVE  \E s \in Sheets, y \in Sheet : PlacesInto(c, s, y)
  <2>1. PICK s \in Sheets : s = r.sheet
    BY <1>5, RequestIsTyped
  <2>2. PICK chosen \in SUBSET Users, designees \in SUBSET Users :
          /\ IsActiveMember(c, u) /\ sheets[s].campaign = c /\ designees \subseteq ActiveMembers(c)
          /\ sheets' = [sheets EXCEPT ![s] = Assigned(sheets[s], u, chosen, designees)]
    BY <1>2, <1>5, <2>1 DEF Assign, MayPlace, MayAssign, Replace
  <2>3. /\ sheets[s].owner = NoUser /\ sheets[s].placement > 0
        /\ \A d \in sheets[s].designations : {d.user, d.by} \subseteq ActiveMembers(c)
        /\ sheets[s] \in Sheet
    BY <2>2, SheetIsTyped DEF PlacedInv, PlacementAssumption, DesignationsAreLive, Exists
  <2>4. PICK y \in Sheet :
          /\ y = Assigned(sheets[s], u, chosen, designees) /\ y.owner = sheets[s].owner
          /\ y.campaign = sheets[s].campaign /\ y.placement = sheets[s].placement
          /\ \A d \in y.designations :
               d \in sheets[s].designations \/ (d.user \in designees /\ d.by = u)
    <3> DEFINE z == Assigned(sheets[s], u, chosen, designees)
    <3>1. /\ z \in Sheet /\ z.owner = sheets[s].owner
          /\ z.campaign = sheets[s].campaign /\ z.placement = sheets[s].placement
          /\ \A d \in z.designations :
               d \in sheets[s].designations \/ (d.user \in designees /\ d.by = u)
      <4>1. PICK x \in Sheet : x = sheets[s]
        BY <2>3
      <4>2. /\ Assigned(x, u, chosen, designees) \in Sheet
            /\ Assigned(x, u, chosen, designees).owner = x.owner
            /\ Assigned(x, u, chosen, designees).campaign = x.campaign
            /\ Assigned(x, u, chosen, designees).placement = x.placement
            /\ \A d \in Assigned(x, u, chosen, designees).designations :
                 d \in x.designations \/ (d.user \in designees /\ d.by = u)
        <5> HIDE DEF z
        <5> QED BY ONLY AssignedIs, x \in Sheet, u \in Users, chosen \in SUBSET Users, designees \in SUBSET Users
      <4> QED BY <4>1, <4>2, Zenon
    <3> HIDE DEF z
    <3>2. \E y \in Sheet :
            /\ y = z /\ y.owner = sheets[s].owner
            /\ y.campaign = sheets[s].campaign /\ y.placement = sheets[s].placement
            /\ \A d \in y.designations :
                 d \in sheets[s].designations \/ (d.user \in designees /\ d.by = u)
      BY <3>1, Zenon
    <3> QED BY <3>2, Zenon DEF z
  <2>5. \A d \in y.designations : {d.user, d.by} \subseteq ActiveMembers(c)
    BY <2>2, <2>3, <2>4 DEF ActiveMembers
  <2>6. PlacesInto(c, s, y)
    BY <1>1, <1>2, <2>2, <2>3, <2>4, <2>5 DEF PlacesInto
  <2> QED BY <2>6
<1>6. ASSUME r.kind = "place", Claim(w, r)
      PROVE  \E s \in Sheets, y \in Sheet : PlacesInto(c, s, y)
  <2>1. PICK s \in Sheets : s = r.sheet
    BY <1>6, RequestIsTyped
  <2>2. sheets[s].campaign = c /\ sheets' = [sheets EXCEPT ![s] = Claimed(sheets[s], u)]
    BY <1>2, <1>6, <2>1 DEF Claim, MayClaim, Replace
  <2>3. /\ sheets[s].owner = NoUser /\ sheets[s].placement > 0
        /\ \A d \in sheets[s].designations : {d.user, d.by} \subseteq ActiveMembers(c)
        /\ sheets[s] \in Sheet
    BY <2>2, SheetIsTyped DEF PlacedInv, PlacementAssumption, DesignationsAreLive, Exists
  <2>4. PICK y \in Sheet :
          /\ y = Claimed(sheets[s], u) /\ y.owner = sheets[s].owner
          /\ y.campaign = sheets[s].campaign /\ y.placement = sheets[s].placement
          /\ y.designations \subseteq sheets[s].designations
    BY <2>3, ClaimedIs
  <2>5. PlacesInto(c, s, y)
    BY <1>1, <1>2, <2>2, <2>3, <2>4 DEF PlacesInto
  <2> QED BY <2>5
<1> QED BY <1>3, <1>4, <1>5, <1>6 DEF Place

LEMMA DepartIs ==
  ASSUME NEW r \in Requests, Depart(r)
  PROVE  \E c \in Campaigns, u, v \in Users :
           Leave(u, v, c) /\ sheets' = [s \in Sheets |-> AfterDeparture(s, c, v)]
<1>1. PICK c \in Campaigns, v \in Users : c = r.campaign /\ v = r.target
  BY RequestIsTyped DEF Depart
<1> QED BY <1>1 DEF Depart

(* A sheet command changes neither the place of its sheet nor its people.   *)
Commands(s, y) ==
  /\ sheets' = [sheets EXCEPT ![s] = y]
  /\ UNCHANGED campaignVars
  /\ y.campaign = sheets[s].campaign /\ y.returnOwner = sheets[s].returnOwner
  /\ y.placement = sheets[s].placement
  /\ y.controllers = sheets[s].controllers /\ y.designations = sheets[s].designations
  /\ y.owner = sheets[s].owner \/ y.campaign = NoCampaign

LEMMA CommandIs ==
  ASSUME PlacedInv, NEW w \in Workers, NEW r \in Requests, Command(w, r)
  PROVE  \E s \in Sheets, y \in Sheet : Commands(s, y)
<1>1. PICK s \in Sheets : s = r.sheet
  BY RequestIsTyped DEF Command
<1>2. sheets[s] \in Sheet /\ UNCHANGED campaignVars
  BY SheetIsTyped DEF Command
<1>3. PICK u \in Users :
        /\ sheets[s].campaign = scope[w]
        /\ \/ /\ scope[w] = NoCampaign
              /\ \E heir \in Users : sheets' = [sheets EXCEPT ![s] = Transferred(sheets[s], heir)]
           \/ \E l \in {"active", "archived"} : sheets' = [sheets EXCEPT ![s] = Moved(sheets[s], l)]
  BY <1>1 DEF Command, MayCommand, Replace
<1>4. ASSUME scope[w] = NoCampaign, NEW heir \in Users,
             sheets' = [sheets EXCEPT ![s] = Transferred(sheets[s], heir)]
      PROVE  \E y \in Sheet : Commands(s, y)
  <2>1. PICK y \in Sheet :
          /\ y = Transferred(sheets[s], heir) /\ y.campaign = sheets[s].campaign
          /\ y.returnOwner = sheets[s].returnOwner /\ y.placement = sheets[s].placement
          /\ y.controllers = sheets[s].controllers /\ y.designations = sheets[s].designations
    BY <1>2, TransferredIs, Zenon
  <2>2. Commands(s, y)
    BY <1>2, <1>3, <1>4, <2>1 DEF Commands
  <2> QED BY <2>2
<1>5. ASSUME NEW l \in {"active", "archived"}, sheets' = [sheets EXCEPT ![s] = Moved(sheets[s], l)]
      PROVE  \E y \in Sheet : Commands(s, y)
  <2>1. PICK y \in Sheet :
          /\ y = Moved(sheets[s], l) /\ y.owner = sheets[s].owner /\ y.campaign = sheets[s].campaign
          /\ y.returnOwner = sheets[s].returnOwner /\ y.placement = sheets[s].placement
          /\ y.controllers = sheets[s].controllers /\ y.designations = sheets[s].designations
    BY <1>2, MovedIs, Zenon
  <2>2. Commands(s, y)
    BY <1>2, <1>5, <2>1 DEF Commands
  <2> QED BY <2>2
<1> QED BY <1>3, <1>4, <1>5

----------------------------------------------------------------------------
(* The next row is one row of the request, as ids have a least one.         *)
LEMMA LeastExists ==
  ASSUME NEW T, T \subseteq Nat, T # {}
  PROVE  \E s \in T : \A t \in T : s <= t
<1> DEFINE R == OpToRel(<, Nat)
<1>1. IsWellFoundedOn(R, Nat)
  BY NatLessThanWellFounded
<1>2. \A x, y \in Nat : <<x, y>> \in R <=> x < y
  BY DEF OpToRel
<1> HIDE DEF R
<1>3. PICK x \in T : \A y \in T : ~ (<<y, x>> \in R)
  BY <1>1, WFMin
<1>4. \A y \in T : y \in Nat /\ x \in Nat /\ ~ (y < x)
  BY <1>2, <1>3, Zenon
<1>5. \A y \in T : x <= y
  BY <1>4
<1> QED BY <1>5

OpenSheets(w) == {s \in ToLock(w) : SheetRow(s) \notin locked[w]}

LEMMA NextRowIs ==
  ASSUME PlacementTypeOK, PlacementAssumption, NEW w \in Workers, request[w] # NoRequest
  PROVE  /\ ToLock(w) \subseteq Sheets
         /\ \/ /\ scope[w] \in Campaigns /\ CampaignRow(scope[w]) \notin locked[w]
               /\ NextRow(w) = {CampaignRow(scope[w])}
            \/ /\ scope[w] # NoCampaign => CampaignRow(scope[w]) \in locked[w]
               /\ \E s \in OpenSheets(w) :
                    NextRow(w) = {SheetRow(s)} /\ \A t \in OpenSheets(w) : s <= t
            \/ /\ scope[w] # NoCampaign => CampaignRow(scope[w]) \in locked[w]
               /\ OpenSheets(w) = {} /\ NextRow(w) = {}
         /\ NextRow(w) \subseteq Rows
<1>1. request[w] \in Requests /\ scope[w] \in Campaigns \cup {NoCampaign}
  BY DEF PlacementTypeOK
<1>2. ToLock(w) \subseteq Sheets
  <2>1. CASE request[w].kind = "leave"
    BY <2>1 DEF ToLock, Attached
  <2>2. CASE request[w].kind \in {"place", "command", "replay"}
    <3>1. request[w].sheet \in Sheets
      BY <1>1, <2>2 DEF Requests
    <3> QED BY <2>2, <3>1 DEF ToLock
  <2>3. CASE request[w].kind \in {"create", "campaign"}
    BY <2>3 DEF ToLock
  <2> QED BY <1>1, <2>1, <2>2, <2>3 DEF Requests
<1>3. CASE scope[w] # NoCampaign /\ CampaignRow(scope[w]) \notin locked[w]
  BY <1>1, <1>2, <1>3 DEF NextRow, Rows
<1>4. CASE ~ (scope[w] # NoCampaign /\ CampaignRow(scope[w]) \notin locked[w]) /\ OpenSheets(w) # {}
  <2> DEFINE s == CHOOSE s \in OpenSheets(w) : \A t \in OpenSheets(w) : s <= t
  <2>1. OpenSheets(w) \subseteq Sheets /\ OpenSheets(w) \subseteq Nat
    BY <1>2 DEF OpenSheets, PlacementAssumption
  <2>2. \E x \in OpenSheets(w) : \A t \in OpenSheets(w) : x <= t
    BY <1>4, <2>1, LeastExists
  <2>3. s \in OpenSheets(w) /\ \A t \in OpenSheets(w) : s <= t
    BY <2>2
  <2>4. NextRow(w) = {SheetRow(s)}
    BY <1>4 DEF NextRow, OpenSheets
  <2> HIDE DEF s
  <2>5. NextRow(w) \subseteq Rows
    BY <2>1, <2>3, <2>4 DEF Rows
  <2> QED BY <1>2, <1>4, <2>3, <2>4, <2>5
<1>5. CASE ~ (scope[w] # NoCampaign /\ CampaignRow(scope[w]) \notin locked[w]) /\ OpenSheets(w) = {}
  <2>1. NextRow(w) = {}
    BY <1>5 DEF NextRow, OpenSheets
  <2> QED BY <1>2, <1>5, <2>1
<1> QED BY <1>3, <1>4, <1>5

----------------------------------------------------------------------------
(* Every step keeps PlacedInv. *)
LEMMA PlacingKeepsSheets ==
  ASSUME PlacedInv, PlacementAssumption, NEW c \in Campaigns, NEW s \in Sheets, NEW y \in Sheet,
         PlacesInto(c, s, y)
  PROVE  /\ CampaignTypeOK' /\ sheets' \in [Sheets -> Sheet]
         /\ \A t \in Sheets : /\ sheets'[t].owner # NoUser => sheets'[t].campaign = NoCampaign
                              /\ ~ Exists(t)' => sheets'[t].campaign = NoCampaign
         /\ DesignationsAreLive'
<1>1. /\ CampaignTypeOK' /\ sheets' \in [Sheets -> Sheet]
  BY CountersGrow DEF PlacedInv, PlacementTypeOK, PlacesInto, CampaignTypeOK, MembershipTypeOK, memberVars
<1>2. \A t \in Sheets : sheets'[t] = IF t = s THEN y ELSE sheets[t]
  BY DEF PlacesInto, PlacedInv, PlacementTypeOK
<1>3. ASSUME NEW t \in Sheets
      PROVE  /\ sheets'[t].owner # NoUser => sheets'[t].campaign = NoCampaign
             /\ ~ Exists(t)' => sheets'[t].campaign = NoCampaign
  BY <1>2 DEF PlacesInto, PlacedInv, Exists
<1>4. \A d \in Campaigns : \A p \in ActiveMembers(d) : p \in Users /\ role'[d][p] \in ActiveRoles
  BY DEF PlacesInto, memberVars, ActiveMembers, IsActiveMember
<1>5. ASSUME NEW t \in Sheets, NEW d \in sheets'[t].designations
      PROVE  /\ sheets'[t].campaign \in Campaigns
             /\ \A p \in {d.user, d.by} : p \in Users /\ role'[sheets'[t].campaign][p] \in ActiveRoles
  BY <1>2, <1>4, <1>5 DEF PlacesInto, PlacedInv, DesignationsAreLive
<1> QED BY <1>1, <1>3, <1>5 DEF DesignationsAreLive, ActiveMembers, IsActiveMember

LEMMA AfterDepartureIs ==
  ASSUME PlacedInv, PlacementAssumption, NEW s \in Sheets, NEW c \in Campaigns, NEW v \in Users
  PROVE  LET y == AfterDeparture(s, c, v)
         IN  /\ y \in Sheet /\ y.placement >= sheets[s].placement
             /\ \/ sheets[s].campaign # c /\ y = sheets[s]
                \/ /\ sheets[s].campaign = c /\ y.campaign = NoCampaign /\ y.designations = {}
                   /\ y.controllers = {}
                \/ /\ sheets[s].campaign = c /\ y.campaign = c /\ y.owner = sheets[s].owner
                   /\ y.placement = sheets[s].placement /\ y.returnOwner = sheets[s].returnOwner
                   /\ \A d \in y.designations : d \in sheets[s].designations /\ v \notin {d.user, d.by}
<1>1. sheets[s] \in Sheet /\ sheets[s].placement \in Nat
  BY SheetIsTyped
<1>2. CASE sheets[s].campaign # c
  BY <1>1, <1>2 DEF AfterDeparture
<1>3. CASE sheets[s].campaign = c /\ sheets[s].returnOwner = v
  <2>1. AfterDeparture(s, c, v) = Returned(sheets[s])
    BY <1>3 DEF AfterDeparture
  <2> QED BY <1>1, <1>3, <2>1, ReturnedIs
<1>4. CASE sheets[s].campaign = c /\ sheets[s].returnOwner # v
  <2>1. AfterDeparture(s, c, v) = Released(sheets[s], v)
    BY <1>4 DEF AfterDeparture
  <2> QED BY <1>1, <1>4, <2>1, ReleasedIs
<1> QED BY <1>2, <1>3, <1>4

LEMMA LeavingKeepsSheets ==
  ASSUME PlacedInv, PlacementAssumption, NEW c \in Campaigns, NEW u \in Users, NEW v \in Users,
         Leave(u, v, c), sheets' = [s \in Sheets |-> AfterDeparture(s, c, v)]
  PROVE  /\ CampaignTypeOK' /\ sheets' \in [Sheets -> Sheet]
         /\ \A t \in Sheets : /\ sheets'[t].owner # NoUser => sheets'[t].campaign = NoCampaign
                              /\ ~ Exists(t)' => sheets'[t].campaign = NoCampaign
         /\ DesignationsAreLive'
<1>1. CampaignStep(c) /\ CampaignTypeOK
  BY DEF CampaignStep, Roles, ActiveRoles, PlacedInv, PlacementTypeOK
<1>2. CampaignTypeOK'
  BY <1>1, CampaignStepKeepsType
<1>3. sheets' \in [Sheets -> Sheet]
  BY AfterDepartureIs
<1>4. ASSUME NEW t \in Sheets
      PROVE  /\ sheets'[t].owner # NoUser => sheets'[t].campaign = NoCampaign
             /\ ~ Exists(t)' => sheets'[t].campaign = NoCampaign
  <2>1. sheets'[t] = AfterDeparture(t, c, v)
    OBVIOUS
  <2>2. sheets[t].placement \in Nat /\ sheets'[t].placement \in Nat
    BY <1>3, SheetIsTyped DEF Sheet
  <2>3. /\ sheets'[t].placement >= sheets[t].placement
        /\ \/ sheets'[t] = sheets[t]
           \/ sheets'[t].campaign = NoCampaign
           \/ /\ sheets'[t].campaign = sheets[t].campaign /\ sheets'[t].owner = sheets[t].owner
              /\ sheets'[t].placement = sheets[t].placement
    BY <2>1, AfterDepartureIs
  <2>4. /\ sheets[t].owner # NoUser => sheets[t].campaign = NoCampaign
        /\ sheets[t].placement = 0 => sheets[t].campaign = NoCampaign
    BY DEF PlacedInv, Exists
  <2> QED BY <2>2, <2>3, <2>4 DEF Exists
<1>5. \A d \in Campaigns : \A x \in ActiveMembers(d) :
        d # c \/ x # v => x \in Users /\ role'[d][x] \in ActiveRoles
  BY <1>1 DEF Leave, MemberLeaves, ActiveMembers, IsActiveMember, CampaignTypeOK, MembershipTypeOK
<1>6. ASSUME NEW t \in Sheets, NEW d \in sheets'[t].designations
      PROVE  /\ sheets'[t].campaign \in Campaigns
             /\ \A p \in {d.user, d.by} : p \in Users /\ role'[sheets'[t].campaign][p] \in ActiveRoles
  <2>1. sheets'[t] = AfterDeparture(t, c, v)
    OBVIOUS
  <2>2. d \in sheets[t].designations /\ sheets'[t].campaign = sheets[t].campaign
        /\ (sheets[t].campaign = c => v \notin {d.user, d.by})
    BY <1>6, <2>1, AfterDepartureIs
  <2>3. sheets[t].campaign \in Campaigns /\ {d.user, d.by} \subseteq ActiveMembers(sheets[t].campaign)
    BY <2>2 DEF PlacedInv, DesignationsAreLive
  <2> QED BY <1>5, <2>2, <2>3
<1> QED BY <1>2, <1>3, <1>4, <1>6 DEF DesignationsAreLive, ActiveMembers, IsActiveMember

LEMMA CommandingKeepsSheets ==
  ASSUME PlacedInv, PlacementAssumption, NEW s \in Sheets, NEW y \in Sheet, Commands(s, y)
  PROVE  /\ CampaignTypeOK' /\ sheets' \in [Sheets -> Sheet]
         /\ \A t \in Sheets : /\ sheets'[t].owner # NoUser => sheets'[t].campaign = NoCampaign
                              /\ ~ Exists(t)' => sheets'[t].campaign = NoCampaign
         /\ DesignationsAreLive'
<1>1. /\ CampaignTypeOK' /\ sheets' \in [Sheets -> Sheet]
  BY DEF PlacedInv, PlacementTypeOK, Commands, CampaignTypeOK, MembershipTypeOK, campaignVars
<1>2. \A t \in Sheets : sheets'[t] = IF t = s THEN y ELSE sheets[t]
  BY DEF Commands, PlacedInv, PlacementTypeOK
<1>3. ASSUME NEW t \in Sheets
      PROVE  /\ sheets'[t].owner # NoUser => sheets'[t].campaign = NoCampaign
             /\ ~ Exists(t)' => sheets'[t].campaign = NoCampaign
  BY <1>2 DEF Commands, PlacedInv, Exists
<1>4. \A d \in Campaigns : \A p \in ActiveMembers(d) : p \in Users /\ role'[d][p] \in ActiveRoles
  BY DEF Commands, campaignVars, ActiveMembers, IsActiveMember
<1>5. ASSUME NEW t \in Sheets, NEW d \in sheets'[t].designations
      PROVE  /\ sheets'[t].campaign \in Campaigns
             /\ \A p \in {d.user, d.by} : p \in Users /\ role'[sheets'[t].campaign][p] \in ActiveRoles
  <2>1. d \in sheets[t].designations /\ sheets'[t].campaign = sheets[t].campaign
    BY <1>2, <1>5 DEF Commands
  <2>2. sheets[t].campaign \in Campaigns /\ {d.user, d.by} \subseteq ActiveMembers(sheets[t].campaign)
    BY <2>1 DEF PlacedInv, DesignationsAreLive
  <2> QED BY <1>4, <2>1, <2>2
<1> QED BY <1>1, <1>3, <1>5 DEF DesignationsAreLive, ActiveMembers, IsActiveMember

LEMMA CampaignKeepsSheets ==
  ASSUME PlacedInv, PlacementAssumption, NEW r \in Requests, ChangeCampaign(r)
  PROVE  /\ CampaignTypeOK' /\ UNCHANGED sheets
         /\ DesignationsAreLive'
<1>1. PICK c \in Campaigns : c = r.campaign
  BY RequestIsTyped DEF ChangeCampaign
<1>2. PICK u \in Users, target \in Users, x \in Roles :
        \/ MemberJoins(u, c, x) /\ Bump(c)
        \/ SetRole(u, target, c, x)
        \/ Archive(u, c)
        \/ Recover(u, c)
        \/ Update(u, c)
  BY <1>1 DEF ChangeCampaign, Roles, ActiveRoles
<1>3. CampaignTypeOK /\ CampaignTypeOK'
  BY <1>2, CampaignStepKeepsType DEF CampaignStep, PlacedInv, PlacementTypeOK
<1>4. \A d \in Campaigns, v \in Users : v \in ActiveMembers(d) => v \in ActiveMembers(d)'
  BY <1>2, <1>3, StayersStay DEF ActiveMembers
<1>5. UNCHANGED sheets
  BY DEF ChangeCampaign
<1>6. DesignationsAreLive'
  BY <1>4, <1>5 DEF PlacedInv, DesignationsAreLive, ActiveMembers
<1> QED BY <1>3, <1>5, <1>6

LEMMA EffectKeepsSheets ==
  ASSUME PlacedInv, PlacementAssumption, NEW w \in Workers, NEW r \in Requests, Effect(w, r)
  PROVE  /\ CampaignTypeOK' /\ sheets' \in [Sheets -> Sheet]
         /\ \A t \in Sheets : /\ sheets'[t].owner # NoUser => sheets'[t].campaign = NoCampaign
                              /\ ~ Exists(t)' => sheets'[t].campaign = NoCampaign
         /\ DesignationsAreLive'
<1>1. CASE Place(w, r)
  BY <1>1, PlaceIs, PlacingKeepsSheets
<1>2. CASE Depart(r)
  BY <1>2, DepartIs, LeavingKeepsSheets
<1>3. CASE ChangeCampaign(r)
  <2>1. sheets' = sheets /\ sheets \in [Sheets -> Sheet]
    BY <1>3, CampaignKeepsSheets DEF PlacedInv, PlacementTypeOK
  <2> QED BY <1>3, <2>1, CampaignKeepsSheets DEF PlacedInv, Exists
<1>4. CASE Command(w, r)
  BY <1>4, CommandIs, CommandingKeepsSheets
<1> QED BY <1>1, <1>2, <1>3, <1>4 DEF Effect

LEMMA DoneKeepsTypes ==
  ASSUME PlacementTypeOK, NEW w \in Workers, Done(w)
  PROVE  /\ request' \in [Workers -> Requests \cup {NoRequest}]
         /\ scope' \in [Workers -> Campaigns \cup {NoCampaign}]
         /\ era' \in [Workers -> Nat]
         /\ locked' \in [Workers -> SUBSET Rows]
BY DEF PlacementTypeOK, Done

LEMMA StepKeepsPlaced ==
  ASSUME PlacedInv, PlacementAssumption, [PlacementNext]_placementVars
  PROVE  PlacedInv'
<1>1. CASE UNCHANGED placementVars
  BY <1>1 DEF placementVars, campaignVars, PlacedInv, PlacementTypeOK, CampaignTypeOK, MembershipTypeOK,
              DesignationsAreLive, ActiveMembers, IsActiveMember, Exists
<1>2. ASSUME UNCHANGED <<campaignVars, sheets>>,
             request' \in [Workers -> Requests \cup {NoRequest}],
             scope' \in [Workers -> Campaigns \cup {NoCampaign}],
             era' \in [Workers -> Nat], locked' \in [Workers -> SUBSET Rows]
      PROVE  PlacedInv'
  BY <1>2 DEF campaignVars, PlacedInv, PlacementTypeOK, CampaignTypeOK, MembershipTypeOK,
              DesignationsAreLive, ActiveMembers, IsActiveMember, Exists
<1>3. ASSUME NEW w \in Workers, NEW r \in Requests, Begin(w, r)
      PROVE  PlacedInv'
  <2>1. scope' \in [Workers -> Campaigns \cup {NoCampaign}]
    <3>1. CASE BeginPlacement(w, r) \/ BeginOnCampaign(w, r)
      BY <3>1, RequestIsTyped DEF BeginPlacement, BeginOnCampaign, PlacedInv, PlacementTypeOK
    <3>2. CASE BeginCommand(w, r)
      <4>1. sheets[r.sheet].campaign \in Campaigns \cup {NoCampaign}
        BY <3>2, RequestIsTyped, SheetIsTyped DEF BeginCommand
      <4> QED BY <3>2, <4>1 DEF BeginCommand, PlacedInv, PlacementTypeOK
    <3>3. CASE BeginReplay(w, r)
      BY <3>3 DEF BeginReplay, PlacedInv, PlacementTypeOK
    <3> QED BY <1>3, <3>1, <3>2, <3>3 DEF Begin
  <2>2. era' \in [Workers -> Nat]
    <3>1. CASE BeginPlacement(w, r)
      <4>1. generation[r.campaign][r.actor] \in Nat
        BY <3>1, RequestIsTyped DEF BeginPlacement, PlacedInv, PlacementTypeOK, CampaignTypeOK, MembershipTypeOK
      <4> QED BY <3>1, <4>1 DEF BeginPlacement, PlacedInv, PlacementTypeOK
    <3>2. CASE ~ BeginPlacement(w, r)
      BY <1>3, <3>2 DEF Begin, BeginOnCampaign, BeginCommand, BeginReplay, PlacedInv, PlacementTypeOK
    <3> QED BY <3>1, <3>2
  <2> QED BY <1>2, <1>3, <2>1, <2>2 DEF Begin, PlacedInv, PlacementTypeOK
<1>4. ASSUME NEW w \in Workers, Lock(w)
      PROVE  PlacedInv'
  <2>1. NextRow(w) \subseteq Rows
    BY <1>4, NextRowIs DEF Lock, PlacedInv
  <2> QED BY <1>2, <1>4, <2>1 DEF Lock, PlacedInv, PlacementTypeOK
<1>5. ASSUME NEW w \in Workers, Commit(w)
      PROVE  PlacedInv'
  <2>1. PICK r \in Requests : r = request[w] /\ Effect(w, r) /\ Done(w)
    BY <1>5 DEF Commit, PlacedInv, PlacementTypeOK
  <2>2. PlacementTypeOK
    BY DEF PlacedInv
  <2> QED BY <2>1, <2>2, EffectKeepsSheets, DoneKeepsTypes DEF PlacedInv, PlacementTypeOK
<1>6. ASSUME NEW w \in Workers, Abort(w)
      PROVE  PlacedInv'
  BY <1>2, <1>6, DoneKeepsTypes DEF Abort, PlacedInv
<1> QED BY <1>1, <1>3, <1>4, <1>5, <1>6 DEF PlacementNext

LEMMA PlacementStarts == PlacementAssumption /\ PlacementInit => PlacedInv
<1> SUFFICES ASSUME PlacementAssumption, PlacementInit
             PROVE  PlacedInv
  OBVIOUS
<1>1. /\ \A u \in Users : /\ Standalone(u) \in Sheet /\ Standalone(u).campaign = NoCampaign
                          /\ Standalone(u).designations = {}
      /\ \A c \in Campaigns : /\ Placed(c, {}) \in Sheet /\ Placed(c, {}).owner = NoUser
                              /\ Placed(c, {}).placement = 1 /\ Placed(c, {}).designations = {}
      /\ Unused \in Sheet /\ Unused.campaign = NoCampaign /\ Unused.designations = {}
  BY PlacedIs DEF Standalone, Sheet, Unused
<1>2. ASSUME NEW s \in Sheets
      PROVE  /\ sheets[s] \in Sheet /\ sheets[s].designations = {}
             /\ sheets[s].owner # NoUser => sheets[s].campaign = NoCampaign
             /\ ~ Exists(s) => sheets[s].campaign = NoCampaign
  BY <1>1 DEF PlacementInit, Exists
<1>3. PlacementTypeOK
  BY <1>2, GatheredIsTyped DEF PlacementInit, PlacementTypeOK
<1> QED BY <1>2, <1>3 DEF PlacedInv, DesignationsAreLive

(* The sheets, the requests and the locks keep their types. *)
THEOREM PlacementTypeCorrect == PlacementSpec => []PlacementTypeOK
<1>1. PlacementInit => PlacedInv
  BY PlacementStarts, PlacementAssumption
<1>2. PlacedInv /\ [PlacementNext]_placementVars => PlacedInv'
  BY StepKeepsPlaced, PlacementAssumption
<1>3. PlacedInv => PlacementTypeOK
  BY DEF PlacedInv
<1> QED BY <1>1, <1>2, <1>3, PTL DEF PlacementSpec

(* Nobody keeps or keeps promising what a campaign gave them after they     *)
(* left it (returnForMember), in any order of departures, adoptions,        *)
(* assignments and claims.                                                  *)
THEOREM DesignationsStayLive == PlacementSpec => []DesignationsAreLive
<1>1. PlacementInit => PlacedInv
  BY PlacementStarts, PlacementAssumption
<1>2. PlacedInv /\ [PlacementNext]_placementVars => PlacedInv'
  BY StepKeepsPlaced, PlacementAssumption
<1>3. PlacedInv => DesignationsAreLive
  BY DEF PlacedInv
<1> QED BY <1>1, <1>2, <1>3, PTL DEF PlacementSpec

----------------------------------------------------------------------------
(* Only the transaction of one worker commits in a step. *)
LEMMA CommitsOrRests ==
  ASSUME PlacedInv, [PlacementNext]_placementVars
  PROVE  \/ UNCHANGED <<campaignVars, sheets>>
         \/ \E w \in Workers, r \in Requests : Commit(w) /\ r = request[w] /\ Effect(w, r)
BY DEF PlacementNext, placementVars, Begin, Lock, Commit, Abort, PlacedInv, PlacementTypeOK

LEMMA PlacingKeepsLimit ==
  ASSUME PlacedInv, PlacementAssumption, AttachedWithinLimit,
         NEW c \in Campaigns, NEW s \in Sheets, NEW y \in Sheet, PlacesInto(c, s, y), NEW d \in Campaigns
  PROVE  Cardinality(Attached(d))' <= MaxAttached
<1> DEFINE A == Attached(d)
           B == {t \in Sheets : sheets'[t].campaign = d}
<1>1. Cardinality(Attached(d))' = Cardinality(B)
  BY DEF Attached
<1>2. IsFiniteSet(A) /\ Cardinality(A) \in Nat /\ Cardinality(A) <= MaxAttached /\ MaxAttached \in Nat
  BY FS_Subset, FS_CardinalityType DEF Attached, PlacementAssumption, AttachedWithinLimit
<1>3. \A t \in Sheets : sheets'[t] = IF t = s THEN y ELSE sheets[t]
  BY DEF PlacesInto, PlacedInv, PlacementTypeOK
<1>4. CASE B \subseteq A
  <2>1. Cardinality(B) <= Cardinality(A) /\ Cardinality(B) \in Nat
    BY <1>2, <1>4, FS_Subset, FS_CardinalityType
  <2> QED BY <1>1, <1>2, <2>1
<1>5. CASE ~ (B \subseteq A)
  <2>1. d = c /\ s \notin A /\ B = A \cup {s} /\ HasRoom(d)
    BY <1>3, <1>5 DEF PlacesInto, Attached
  <2>2. Cardinality(B) = Cardinality(A) + 1
    BY <1>2, <2>1, FS_AddElement
  <2> QED BY <1>1, <1>2, <2>1, <2>2 DEF HasRoom
<1> QED BY <1>4, <1>5

LEMMA OthersKeepLimit ==
  ASSUME PlacedInv, PlacementAssumption, AttachedWithinLimit, NEW d \in Campaigns,
         \A t \in Sheets : sheets'[t].campaign = d => sheets[t].campaign = d
  PROVE  Cardinality(Attached(d))' <= MaxAttached
<1> DEFINE A == Attached(d)
           B == {t \in Sheets : sheets'[t].campaign = d}
<1>1. Cardinality(Attached(d))' = Cardinality(B)
  BY DEF Attached
<1>2. IsFiniteSet(A) /\ Cardinality(A) \in Nat /\ Cardinality(A) <= MaxAttached /\ MaxAttached \in Nat
  BY FS_Subset, FS_CardinalityType DEF Attached, PlacementAssumption, AttachedWithinLimit
<1>3. B \subseteq A
  BY DEF Attached
<1>4. Cardinality(B) <= Cardinality(A) /\ Cardinality(B) \in Nat
  BY <1>2, <1>3, FS_Subset, FS_CardinalityType
<1> QED BY <1>1, <1>2, <1>4

(* Two transactions that count the sheets of a campaign never both take the *)
(* last place.                                                              *)
THEOREM AttachedStayWithinLimit == PlacementSpec => []AttachedWithinLimit
<1>1. PlacementInit => PlacedInv /\ AttachedWithinLimit
  BY PlacementStarts, PlacementAssumption DEF PlacementInit, AttachedWithinLimit
<1>2. PlacedInv /\ AttachedWithinLimit /\ [PlacementNext]_placementVars => (PlacedInv /\ AttachedWithinLimit)'
  <2> SUFFICES ASSUME PlacedInv, AttachedWithinLimit, [PlacementNext]_placementVars
               PROVE  AttachedWithinLimit'
    BY StepKeepsPlaced, PlacementAssumption
  <2>1. CASE UNCHANGED sheets
    BY <2>1 DEF AttachedWithinLimit, Attached
  <2>2. ASSUME NEW w \in Workers, NEW r \in Requests, Effect(w, r), NEW d \in Campaigns
        PROVE  Cardinality(Attached(d))' <= MaxAttached
    <3>1. CASE Place(w, r)
      BY <3>1, PlaceIs, PlacingKeepsLimit, PlacementAssumption
    <3>2. CASE Depart(r)
      <4>1. PICK c \in Campaigns, v \in Users : sheets' = [s \in Sheets |-> AfterDeparture(s, c, v)]
        BY <3>2, DepartIs
      <4>2. \A t \in Sheets : sheets'[t].campaign = d => sheets[t].campaign = d
        BY <4>1, AfterDepartureIs, PlacementAssumption DEF PlacementAssumption
      <4> QED BY <4>2, OthersKeepLimit, PlacementAssumption
    <3>3. CASE ChangeCampaign(r)
      BY <3>3, OthersKeepLimit, PlacementAssumption DEF ChangeCampaign
    <3>4. CASE Command(w, r)
      <4>1. PICK s \in Sheets, y \in Sheet : Commands(s, y)
        BY <3>4, CommandIs
      <4>2. \A t \in Sheets : sheets'[t].campaign = d => sheets[t].campaign = d
        BY <4>1 DEF Commands, PlacedInv, PlacementTypeOK
      <4> QED BY <4>2, OthersKeepLimit, PlacementAssumption
    <3> QED BY <2>2, <3>1, <3>2, <3>3, <3>4 DEF Effect
  <2> QED BY <2>1, <2>2, CommitsOrRests DEF AttachedWithinLimit
<1> QED BY <1>1, <1>2, PTL DEF PlacementSpec

----------------------------------------------------------------------------
LEMMA CampaignStepLeavesOthers ==
  ASSUME CampaignTypeOK, NEW c \in Campaigns, CampaignStep(c), NEW d \in Campaigns
  PROVE  \/ role'[d] = role[d] /\ generation'[d] = generation[d] /\ campaignStatus'[d] = campaignStatus[d]
         \/ d = c /\ Bump(d)
<1> USE DEF CampaignTypeOK, MembershipTypeOK
<1>1. PICK u \in Users, target \in Users, r \in Roles :
        \/ Leave(u, target, c)
        \/ MemberJoins(u, c, r) /\ Bump(c)
        \/ SetRole(u, target, c, r)
        \/ Archive(u, c)
        \/ Recover(u, c)
        \/ Update(u, c)
  BY DEF CampaignStep
<1>2. CASE Update(u, c)
  BY <1>2 DEF Update, memberVars
<1>3. CASE Bump(c) /\ d # c
  BY <1>1, <1>3 DEF Leave, MemberLeaves, MemberJoins, SetRole, RoleChanges, Archive, CampaignArchived,
                    Recover, CampaignRecovered, Update, memberVars
<1> QED BY <1>1, <1>2, <1>3 DEF Leave, SetRole, Archive, Recover

(* Nothing about the people of a sheet changes in c. *)
SheetsRest(c) ==
  \A t \in Sheets :
    /\ sheets'[t].campaign = c <=> sheets[t].campaign = c
    /\ sheets[t].campaign = c => /\ sheets'[t].controllers = sheets[t].controllers
                                 /\ sheets'[t].designations = sheets[t].designations

LEMMA RestingKeepsAccess ==
  ASSUME NEW c \in Campaigns, SheetsRest(c),
         role'[c] = role[c] /\ generation'[c] = generation[c] /\ campaignStatus'[c] = campaignStatus[c]
  PROVE  Access(c)' = Access(c)
<1>1. Attached(c)' = Attached(c)
  BY DEF SheetsRest, Attached
<1>2. \A t \in Attached(c) : /\ sheets'[t].controllers = sheets[t].controllers
                             /\ sheets'[t].designations = sheets[t].designations
  BY DEF SheetsRest, Attached
<1> QED BY <1>1, <1>2 DEF Access

LEMMA EffectMarksAccess ==
  ASSUME PlacedInv, PlacementAssumption, NEW w \in Workers, NEW r \in Requests, Effect(w, r), NEW c \in Campaigns
  PROVE  Access(c)' = Access(c) \/ Bump(c)
<1>1. CASE Place(w, r)
  <2>1. PICK d \in Campaigns, s \in Sheets, y \in Sheet : PlacesInto(d, s, y)
    BY <1>1, PlaceIs
  <2>2. CASE d = c
    BY <2>1, <2>2 DEF PlacesInto
  <2>3. CASE d # c
    <3>1. SheetsRest(c)
      BY <2>1, <2>3 DEF PlacesInto, SheetsRest, PlacedInv, PlacementTypeOK, PlacementAssumption
    <3> QED BY <2>1, <3>1, RestingKeepsAccess DEF PlacesInto, memberVars
  <2> QED BY <2>2, <2>3
<1>2. CASE Depart(r)
  <2>1. PICK d \in Campaigns, u \in Users, v \in Users :
          Leave(u, v, d) /\ sheets' = [s \in Sheets |-> AfterDeparture(s, d, v)]
    BY <1>2, DepartIs
  <2>2. CASE d = c
    BY <2>1, <2>2 DEF Leave
  <2>3. CASE d # c
    <3>1. SheetsRest(c)
      BY <2>1, <2>3, AfterDepartureIs DEF SheetsRest, PlacementAssumption
    <3>2. role'[c] = role[c] /\ generation'[c] = generation[c] /\ campaignStatus'[c] = campaignStatus[c]
      BY <2>1, <2>3 DEF Leave, MemberLeaves, PlacedInv, PlacementTypeOK, CampaignTypeOK, MembershipTypeOK
    <3> QED BY <3>1, <3>2, RestingKeepsAccess
  <2> QED BY <2>2, <2>3
<1>3. CASE ChangeCampaign(r)
  <2>1. PICK d \in Campaigns : d = r.campaign
    BY <1>3, RequestIsTyped DEF ChangeCampaign
  <2>2. CampaignStep(d) /\ UNCHANGED sheets
    BY <1>3, <2>1 DEF ChangeCampaign, CampaignStep, Roles, ActiveRoles
  <2>3. SheetsRest(c)
    BY <2>2 DEF SheetsRest
  <2> QED BY <2>2, <2>3, CampaignStepLeavesOthers, RestingKeepsAccess DEF PlacedInv, PlacementTypeOK
<1>4. CASE Command(w, r)
  <2>1. PICK s \in Sheets, y \in Sheet : Commands(s, y)
    BY <1>4, CommandIs
  <2>2. SheetsRest(c)
    BY <2>1 DEF Commands, SheetsRest, PlacedInv, PlacementTypeOK
  <2> QED BY <2>1, <2>2, RestingKeepsAccess DEF Commands, campaignVars
<1> QED BY <1>1, <1>2, <1>3, <1>4 DEF Effect

(* Whoever composed a command or reviewed an invitation on an earlier       *)
(* picture of who may do what in the campaign is found out by a counter.    *)
THEOREM AccessIsMarked == PlacementSpec => AccessChangesAreMarked
<1>1. PlacementInit => PlacedInv
  BY PlacementStarts, PlacementAssumption
<1>2. PlacedInv /\ [PlacementNext]_placementVars => PlacedInv'
  BY StepKeepsPlaced, PlacementAssumption
<1>3. PlacedInv /\ [PlacementNext]_placementVars
        => [\A c \in Campaigns :
              Access(c)' # Access(c)
                => campaignRevision'[c] > campaignRevision[c] /\ accessRevision'[c] > accessRevision[c]
           ]_<<campaignVars, sheets>>
  <2> SUFFICES ASSUME PlacedInv, [PlacementNext]_placementVars, ~ UNCHANGED <<campaignVars, sheets>>,
                      NEW c \in Campaigns, Access(c)' # Access(c)
               PROVE  campaignRevision'[c] > campaignRevision[c] /\ accessRevision'[c] > accessRevision[c]
    OBVIOUS
  <2>1. Bump(c)
    BY CommitsOrRests, EffectMarksAccess, PlacementAssumption
  <2> QED BY <2>1 DEF Bump, PlacedInv, PlacementTypeOK, CampaignTypeOK
<1> QED BY <1>1, <1>2, <1>3, PTL DEF PlacementSpec, AccessChangesAreMarked

----------------------------------------------------------------------------
(* Waiting *)

LEMMA GreatestExists ==
  ASSUME NEW T, T \subseteq Nat, IsFiniteSet(T), T # {}
  PROVE  \E s \in T : \A t \in T : t <= s
<1> DEFINE Above(n) == {t \in T : t > n}
           C == {Cardinality(Above(n)) : n \in T}
<1>1. \A n \in T : IsFiniteSet(Above(n)) /\ Cardinality(Above(n)) \in Nat
  <2> TAKE n \in T
  <2>1. Above(n) \in SUBSET T
    OBVIOUS
  <2> HIDE DEF Above
  <2> QED BY <2>1, FS_Subset, FS_CardinalityType
<1>2. C \subseteq Nat /\ C # {}
  BY <1>1
<1>3. PICK k \in C : \A j \in C : k <= j
  <2> HIDE DEF C
  <2> QED BY <1>2, LeastExists
<1>4. PICK m \in T : k = Cardinality(Above(m))
  BY <1>3
<1>5. ASSUME NEW t \in T, t > m
      PROVE  FALSE
  <2>0. t \in Nat /\ m \in Nat
    BY <1>4
  <2>1. Above(t) \in SUBSET Above(m) /\ t \in Above(m) /\ t \notin Above(t)
    <3>1. \A x \in T : x \in Nat /\ (x > t => x > m)
      BY <1>5, <2>0
    <3>2. t \in Above(m) /\ t \notin Above(t)
      BY <1>5, <2>0
    <3> QED BY <3>1, <3>2
  <2>2. Cardinality(Above(t)) < Cardinality(Above(m))
    <3> HIDE DEF Above
    <3>1. /\ Cardinality(Above(t)) <= Cardinality(Above(m))
          /\ Cardinality(Above(m)) = Cardinality(Above(t)) => Above(m) = Above(t)
      BY <1>1, <1>4, <2>1, FS_Subset
    <3>2. Above(m) # Above(t)
      BY <2>1
    <3>3. Cardinality(Above(t)) \in Nat /\ Cardinality(Above(m)) \in Nat
      BY <1>1, <1>4
    <3> QED BY <3>1, <3>2, <3>3
  <2>3. Cardinality(Above(t)) \in C
    OBVIOUS
  <2> HIDE DEF C, Above
  <2> QED BY <1>1, <1>3, <1>4, <2>2, <2>3
<1> QED BY <1>5

(* A row is held by one transaction; a transaction holds no row of another  *)
(* campaign than its own, no sheet before its campaign, and no sheet after  *)
(* one it still has to lock.                                                *)
LockInv ==
  \A w \in Workers :
    /\ request[w] = NoRequest => locked[w] = {}
    /\ request[w] # NoRequest /\ request[w].kind \in {"create", "place", "leave", "campaign"}
         => scope[w] = request[w].campaign
    /\ \A v \in Workers : v # w => locked[v] \cap locked[w] = {}
    /\ \A c \in Campaigns : CampaignRow(c) \in locked[w] => scope[w] = c
    /\ \A s \in Sheets : SheetRow(s) \in locked[w] =>
         /\ scope[w] # NoCampaign => CampaignRow(scope[w]) \in locked[w]
         /\ request[w] # NoRequest => \A t \in OpenSheets(w) : s < t

LEMMA NobodyWaitsForEver == PlacementTypeOK /\ PlacementAssumption /\ LockInv => NoCyclicWait
<1> SUFFICES ASSUME PlacementTypeOK, PlacementAssumption, LockInv, NEW S \in (SUBSET Workers) \ {{}},
                    \A w \in S : \E v \in S : WaitsFor(w, v)
             PROVE  FALSE
  BY Zenon DEF NoCyclicWait
<1>0. S \subseteq Workers /\ S # {}
  OBVIOUS
<1> DEFINE N == {s \in Sheets : \E w \in S : NextRow(w) = {SheetRow(s)}}
<1>1. ASSUME NEW w \in S
      PROVE  \/ scope[w] \in Campaigns /\ CampaignRow(scope[w]) \notin locked[w]
                /\ NextRow(w) = {CampaignRow(scope[w])}
             \/ \E s \in Sheets : s \in OpenSheets(w) /\ NextRow(w) = {SheetRow(s)}
  <2>1. NextRow(w) # {} /\ request[w] # NoRequest
    BY DEF WaitsFor
  <2>2. OpenSheets(w) \subseteq Sheets
    BY <2>1, NextRowIs DEF OpenSheets
  <2> QED BY <2>1, <2>2, NextRowIs
<1>2. N # {}
  <2>1. PICK w \in S : TRUE
    BY <1>0
  <2>2. CASE scope[w] \in Campaigns /\ NextRow(w) = {CampaignRow(scope[w])}
    <3>1. PICK v \in S : CampaignRow(scope[w]) \in locked[v]
      BY <2>2 DEF WaitsFor
    <3>2. scope[v] = scope[w]
      BY <2>2, <3>1 DEF LockInv
    <3>3. \E s \in Sheets : NextRow(v) = {SheetRow(s)}
      BY <1>1, <3>1, <3>2
    <3> QED BY <3>3
  <2>3. CASE \E s \in Sheets : NextRow(w) = {SheetRow(s)}
    BY <2>3
  <2> QED BY <1>1, <2>2, <2>3
<1>3. N \subseteq Nat /\ IsFiniteSet(N)
  BY FS_Subset DEF PlacementAssumption
<1>4. PICK m \in N : \A t \in N : t <= m
  BY <1>2, <1>3, GreatestExists
<1>5. PICK w \in S : NextRow(w) = {SheetRow(m)}
  BY <1>4
<1>6. PICK v \in S : SheetRow(m) \in locked[v]
  BY <1>5 DEF WaitsFor
<1>7. request[v] # NoRequest
  BY DEF WaitsFor
<1>8. /\ scope[v] # NoCampaign => CampaignRow(scope[v]) \in locked[v]
      /\ \A t \in OpenSheets(v) : m < t
  BY <1>4, <1>6, <1>7 DEF LockInv
<1>9. PICK t \in Sheets : t \in OpenSheets(v) /\ NextRow(v) = {SheetRow(t)}
  <2>1. ~ (scope[v] \in Campaigns /\ CampaignRow(scope[v]) \notin locked[v])
    BY <1>8 DEF PlacementAssumption
  <2> QED BY <1>1, <2>1
<1>10. t \in N /\ m < t
  BY <1>8, <1>9
<1> QED BY <1>3, <1>4, <1>10

(* What the others commit gives a departure no more sheets to lock, unless  *)
(* they hold its campaign.                                                  *)
LEMMA DeparturesAreSettled ==
  ASSUME PlacedInv, PlacementAssumption, NEW w \in Workers, NEW r \in Requests, Effect(w, r),
         NEW c \in Campaigns, NEW s \in Sheets, NEW u \in Users,
         sheets'[s].campaign = c, sheets'[s].returnOwner = u,
         ~ (sheets[s].campaign = c /\ sheets[s].returnOwner = u)
  PROVE  r.kind \in {"create", "place"} /\ r.campaign = c
<1>1. CASE Place(w, r)
  <2>1. r.kind \in {"create", "place"} /\ Bump(r.campaign) /\ r.campaign \in Campaigns
    BY <1>1, RequestIsTyped DEF Place
  <2>2. PICK d \in Campaigns, t \in Sheets, y \in Sheet : PlacesInto(d, t, y)
    BY <1>1, PlaceIs
  <2>3. d = r.campaign
    BY <2>1, <2>2 DEF PlacesInto, Bump, PlacedInv, PlacementTypeOK, CampaignTypeOK
  <2>4. s = t /\ d = c
    BY <2>2 DEF PlacesInto, PlacedInv, PlacementTypeOK
  <2> QED BY <2>1, <2>3, <2>4
<1>2. CASE Depart(r)
  <2>1. PICK d \in Campaigns, v \in Users : sheets' = [t \in Sheets |-> AfterDeparture(t, d, v)]
    BY <1>2, DepartIs
  <2> DEFINE y == AfterDeparture(s, d, v)
  <2>2. sheets'[s] = y
    BY <2>1
  <2>3. NoCampaign # c
    BY DEF PlacementAssumption
  <2>4. \/ y = sheets[s]
        \/ y.campaign = NoCampaign
        \/ sheets[s].campaign = d /\ y.campaign = d /\ y.returnOwner = sheets[s].returnOwner
    BY AfterDepartureIs
  <2> HIDE DEF y
  <2> QED BY <2>2, <2>3, <2>4
<1>3. CASE ChangeCampaign(r)
  BY <1>3 DEF ChangeCampaign
<1>4. CASE Command(w, r)
  <2>1. PICK t \in Sheets, y \in Sheet : Commands(t, y)
    BY <1>4, CommandIs
  <2> QED BY <2>1 DEF Commands, PlacedInv, PlacementTypeOK
<1> QED BY <1>1, <1>2, <1>3, <1>4 DEF Effect

LEMMA EndingKeepsLocks ==
  ASSUME PlacementTypeOK, LockInv, NEW w \in Workers, Done(w),
         \A v \in Workers : \A s \in Sheets :
           v # w /\ request[v] # NoRequest /\ SheetRow(s) \in locked[v]
             => OpenSheets(v)' \subseteq OpenSheets(v)
  PROVE  LockInv'
<1>1. /\ request'[w] = NoRequest /\ scope'[w] = NoCampaign /\ locked'[w] = {}
      /\ \A v \in Workers : v # w => /\ request'[v] = request[v] /\ scope'[v] = scope[v]
                                     /\ locked'[v] = locked[v]
  BY DEF Done, PlacementTypeOK
<1> SUFFICES ASSUME NEW v \in Workers
             PROVE  /\ request'[v] = NoRequest => locked'[v] = {}
                    /\ request'[v] # NoRequest /\ request'[v].kind \in {"create", "place", "leave", "campaign"}
                         => scope'[v] = request'[v].campaign
                    /\ \A x \in Workers : x # v => locked'[x] \cap locked'[v] = {}
                    /\ \A c \in Campaigns : CampaignRow(c) \in locked'[v] => scope'[v] = c
                    /\ \A s \in Sheets : SheetRow(s) \in locked'[v] =>
                         /\ scope'[v] # NoCampaign => CampaignRow(scope'[v]) \in locked'[v]
                         /\ request'[v] # NoRequest => \A t \in OpenSheets(v)' : s < t
  BY DEF LockInv, CampaignRow, SheetRow
<1>2. CASE v = w
  BY <1>1, <1>2
<1>3. CASE v # w
  <2>1. /\ request'[v] = NoRequest => locked'[v] = {}
        /\ request'[v] # NoRequest /\ request'[v].kind \in {"create", "place", "leave", "campaign"}
             => scope'[v] = request'[v].campaign
        /\ \A c \in Campaigns : CampaignRow(c) \in locked'[v] => scope'[v] = c
    BY <1>1, <1>3 DEF LockInv
  <2>2. \A x \in Workers : x # v => locked'[x] \cap locked'[v] = {}
    BY <1>1, <1>3 DEF LockInv
  <2>3. ASSUME NEW s \in Sheets, SheetRow(s) \in locked'[v]
        PROVE  /\ scope'[v] # NoCampaign => CampaignRow(scope'[v]) \in locked'[v]
               /\ request'[v] # NoRequest => \A t \in OpenSheets(v)' : s < t
    BY <1>1, <1>3, <2>3 DEF LockInv
  <2> QED BY <2>1, <2>2, <2>3
<1> QED BY <1>2, <1>3

LEMMA LockingKeepsLocks ==
  ASSUME PlacementTypeOK, PlacementAssumption, LockInv, NEW w \in Workers, Lock(w)
  PROVE  LockInv'
<1>1. /\ request[w] # NoRequest /\ NextRow(w) # {}
      /\ locked'[w] = locked[w] \cup NextRow(w)
      /\ \A v \in Workers : v # w => locked'[v] = locked[v] /\ NextRow(w) \cap locked[v] = {}
      /\ UNCHANGED <<sheets, request, scope>>
  BY DEF Lock, WaitsFor, PlacementTypeOK
<1>2. \A v \in Workers : ToLock(v)' = ToLock(v)
  BY <1>1 DEF ToLock, Attached
<1> SUFFICES ASSUME NEW v \in Workers
             PROVE  /\ request'[v] = NoRequest => locked'[v] = {}
                    /\ request'[v] # NoRequest /\ request'[v].kind \in {"create", "place", "leave", "campaign"}
                         => scope'[v] = request'[v].campaign
                    /\ \A x \in Workers : x # v => locked'[x] \cap locked'[v] = {}
                    /\ \A c \in Campaigns : CampaignRow(c) \in locked'[v] => scope'[v] = c
                    /\ \A s \in Sheets : SheetRow(s) \in locked'[v] =>
                         /\ scope'[v] # NoCampaign => CampaignRow(scope'[v]) \in locked'[v]
                         /\ request'[v] # NoRequest => \A t \in OpenSheets(v)' : s < t
  BY DEF LockInv, CampaignRow, SheetRow
<1>3. \A x \in Workers : x # v => locked'[x] \cap locked'[v] = {}
  BY <1>1 DEF LockInv
<1>4. /\ request'[v] = NoRequest => locked'[v] = {}
      /\ request'[v] # NoRequest /\ request'[v].kind \in {"create", "place", "leave", "campaign"}
           => scope'[v] = request'[v].campaign
  BY <1>1 DEF LockInv
<1>5. CASE v # w
  <2>1. OpenSheets(v)' = OpenSheets(v)
    BY <1>1, <1>2, <1>5 DEF OpenSheets
  <2> QED BY <1>1, <1>3, <1>4, <1>5, <2>1 DEF LockInv
<1>6. CASE v = w
  <2>1. OpenSheets(w) \subseteq Sheets
    BY <1>1, NextRowIs DEF OpenSheets
  <2>2. CASE scope[w] \in Campaigns /\ CampaignRow(scope[w]) \notin locked[w] /\ NextRow(w) = {CampaignRow(scope[w])}
    <3>1. \A c \in Campaigns : CampaignRow(c) \in locked'[v] => scope'[v] = c
      BY <1>1, <1>6, <2>2 DEF LockInv, CampaignRow
    <3>2. \A s \in Sheets : SheetRow(s) \notin locked'[v]
      BY <1>1, <1>6, <2>2 DEF LockInv, CampaignRow, SheetRow, PlacementAssumption
    <3> QED BY <1>3, <1>4, <3>1, <3>2
  <2>3. ASSUME scope[w] # NoCampaign => CampaignRow(scope[w]) \in locked[w],
               NEW n \in OpenSheets(w), NextRow(w) = {SheetRow(n)}, \A t \in OpenSheets(w) : n <= t
        PROVE  /\ \A c \in Campaigns : CampaignRow(c) \in locked'[v] => scope'[v] = c
               /\ \A s \in Sheets : SheetRow(s) \in locked'[v] =>
                    /\ scope'[v] # NoCampaign => CampaignRow(scope'[v]) \in locked'[v]
                    /\ request'[v] # NoRequest => \A t \in OpenSheets(v)' : s < t
    <3>1. \A c \in Campaigns : CampaignRow(c) \in locked'[v] => scope'[v] = c
      BY <1>1, <1>6, <2>3 DEF LockInv, CampaignRow, SheetRow
    <3>2. scope'[v] # NoCampaign => CampaignRow(scope'[v]) \in locked'[v]
      BY <1>1, <1>6, <2>3
    <3>3. ASSUME NEW s \in Sheets, SheetRow(s) \in locked'[v], NEW t \in OpenSheets(v)'
          PROVE  s < t
      <4>1. t \in OpenSheets(w) /\ t # n
        BY <1>1, <1>2, <1>6, <2>3, <3>3 DEF OpenSheets
      <4>2. s = n \/ SheetRow(s) \in locked[w]
        BY <1>1, <1>6, <2>3, <3>3 DEF SheetRow
      <4>3. s \in Nat /\ t \in Nat /\ n \in Nat
        BY <2>1, <4>1 DEF PlacementAssumption
      <4>4. CASE s = n
        BY <2>3, <4>1, <4>3, <4>4
      <4>5. CASE SheetRow(s) \in locked[w]
        BY <1>1, <4>1, <4>5 DEF LockInv
      <4> QED BY <4>2, <4>4, <4>5
    <3> QED BY <3>1, <3>2, <3>3
  <2> QED BY <1>1, <1>3, <1>4, <2>2, <2>3, NextRowIs
<1> QED BY <1>5, <1>6

LEMMA BeginningKeepsLocks ==
  ASSUME PlacementTypeOK, PlacementAssumption, LockInv, NEW w \in Workers, NEW r \in Requests, Begin(w, r)
  PROVE  LockInv'
<1>1. /\ request[w] = NoRequest /\ request'[w] = r
      /\ \A v \in Workers : v # w => request'[v] = request[v] /\ scope'[v] = scope[v]
      /\ UNCHANGED <<sheets, locked>>
  BY DEF Begin, BeginPlacement, BeginOnCampaign, BeginCommand, BeginReplay, PlacementTypeOK
<1>2. locked'[w] = {}
  BY <1>1 DEF LockInv
<1>3. r.kind \in {"create", "place", "leave", "campaign"} => scope'[w] = r.campaign
  BY DEF Begin, BeginPlacement, BeginOnCampaign, BeginCommand, BeginReplay, PlacementTypeOK
<1>4. \A v \in Workers : v # w => OpenSheets(v)' = OpenSheets(v)
  BY <1>1 DEF OpenSheets, ToLock, Attached
<1>5. ASSUME NEW v \in Workers
      PROVE  /\ request'[v] = NoRequest => locked'[v] = {}
             /\ request'[v] # NoRequest /\ request'[v].kind \in {"create", "place", "leave", "campaign"}
                  => scope'[v] = request'[v].campaign
             /\ \A x \in Workers : x # v => locked'[x] \cap locked'[v] = {}
             /\ \A c \in Campaigns : CampaignRow(c) \in locked'[v] => scope'[v] = c
             /\ \A s \in Sheets : SheetRow(s) \in locked'[v] =>
                  /\ scope'[v] # NoCampaign => CampaignRow(scope'[v]) \in locked'[v]
                  /\ request'[v] # NoRequest => \A t \in OpenSheets(v)' : s < t
  BY <1>1, <1>2, <1>3, <1>4 DEF LockInv
<1> QED BY <1>5 DEF LockInv, CampaignRow, SheetRow

LEMMA CommittingKeepsLocks ==
  ASSUME PlacedInv, PlacementAssumption, LockInv, NEW w \in Workers, Commit(w)
  PROVE  LockInv'
<1>1. PICK r \in Requests : r = request[w] /\ Effect(w, r) /\ Done(w) /\ NextRow(w) = {}
  BY DEF Commit, PlacedInv, PlacementTypeOK
<1>2. PlacementTypeOK /\ request[w] # NoRequest
  BY DEF PlacedInv, Commit
<1>3. ASSUME NEW v \in Workers, NEW s \in Sheets, v # w, request[v] # NoRequest, SheetRow(s) \in locked[v],
             NEW t \in OpenSheets(v)'
      PROVE  t \in OpenSheets(v)
  <2>1. /\ request'[v] = request[v] /\ scope'[v] = scope[v] /\ locked'[v] = locked[v]
        /\ request[v] \in Requests
    BY <1>1, <1>2, <1>3 DEF Done, PlacementTypeOK
  <2>2. SheetRow(t) \notin locked[v]
    BY <1>3, <2>1 DEF OpenSheets
  <2>3. CASE request[v].kind # "leave"
    <3>1. ToLock(v)' = ToLock(v)
      BY <2>1, <2>3 DEF ToLock, Requests
    <3> QED BY <1>3, <2>1, <3>1 DEF OpenSheets
  <2>4. CASE request[v].kind = "leave"
    <3>1. PICK c \in Campaigns, u \in Users : c = request[v].campaign /\ u = request[v].target
      BY <2>1, <2>4, RequestIsTyped
    <3>2. t \in Sheets /\ sheets'[t].campaign = c /\ sheets'[t].returnOwner = u
      BY <1>3, <2>1, <2>4, <3>1 DEF OpenSheets, ToLock, Attached
    <3>3. CASE sheets[t].campaign = c /\ sheets[t].returnOwner = u
      BY <2>2, <2>4, <3>1, <3>2, <3>3 DEF OpenSheets, ToLock, Attached
    <3>4. CASE ~ (sheets[t].campaign = c /\ sheets[t].returnOwner = u)
      <4>1. r.kind \in {"create", "place"} /\ r.campaign = c
        BY <1>1, <3>2, <3>4, DeparturesAreSettled
      <4>2. scope[w] = c /\ scope[v] = c
        BY <1>1, <1>2, <1>3, <2>4, <3>1, <4>1 DEF LockInv
      <4>3. CampaignRow(c) \in locked[w]
        BY <1>1, <1>2, <4>2, NextRowIs DEF PlacementAssumption
      <4>4. CampaignRow(c) \in locked[v]
        BY <1>3, <4>2 DEF LockInv, PlacementAssumption
      <4>5. locked[w] \cap locked[v] = {}
        BY <1>3 DEF LockInv
      <4> QED BY <4>3, <4>4, <4>5
    <3> QED BY <3>3, <3>4
  <2> QED BY <2>3, <2>4
<1> QED BY <1>1, <1>2, <1>3, EndingKeepsLocks

(* Open transactions never wait for each other in a circle, however many    *)
(* there are and whatever sheets they need: the campaign is locked first,   *)
(* the sheets in the order of their ids, and a campaign that is locked      *)
(* gives a departure no more sheets to return.                              *)
THEOREM TransactionsNeverDeadlock == PlacementSpec => []NoCyclicWait
<1>1. PlacementInit => PlacedInv /\ LockInv
  <2> SUFFICES ASSUME PlacementInit
               PROVE  LockInv
    BY PlacementStarts, PlacementAssumption
  <2> QED BY DEF PlacementInit, LockInv
<1>2. PlacedInv /\ LockInv /\ [PlacementNext]_placementVars => (PlacedInv /\ LockInv)'
  <2> SUFFICES ASSUME PlacedInv, LockInv, [PlacementNext]_placementVars
               PROVE  LockInv'
    BY StepKeepsPlaced, PlacementAssumption
  <2>0. PlacementTypeOK
    BY DEF PlacedInv
  <2>1. CASE UNCHANGED placementVars
    BY <2>1 DEF placementVars, LockInv, OpenSheets, ToLock, Attached
  <2>2. ASSUME NEW w \in Workers, NEW r \in Requests, Begin(w, r)
        PROVE  LockInv'
    BY <2>0, <2>2, BeginningKeepsLocks, PlacementAssumption
  <2>3. ASSUME NEW w \in Workers, Lock(w)
        PROVE  LockInv'
    BY <2>0, <2>3, LockingKeepsLocks, PlacementAssumption
  <2>4. ASSUME NEW w \in Workers, Commit(w)
        PROVE  LockInv'
    BY <2>4, CommittingKeepsLocks, PlacementAssumption
  <2>5. ASSUME NEW w \in Workers, Abort(w)
        PROVE  LockInv'
    <3>1. \A v \in Workers : v # w => OpenSheets(v)' = OpenSheets(v)
      BY <2>0, <2>5 DEF Abort, Done, PlacementTypeOK, OpenSheets, ToLock, Attached
    <3> QED BY <2>0, <2>5, <3>1, EndingKeepsLocks DEF Abort
  <2> QED BY <2>1, <2>2, <2>3, <2>4, <2>5 DEF PlacementNext
<1>3. PlacedInv /\ LockInv => NoCyclicWait
  BY NobodyWaitsForEver, PlacementAssumption DEF PlacedInv
<1> QED BY <1>1, <1>2, <1>3, PTL DEF PlacementSpec

----------------------------------------------------------------------------
(* An id without a row has no owner, and the bound stops every revision. *)
RowsInv ==
  \A s \in Sheets :
    /\ ~ Exists(s) => sheets[s].owner = NoUser
    /\ sheets[s].revision <= MaxRevision

LEMMA AssignedKeeps ==
  ASSUME NEW x \in Sheet, NEW giver \in Users, NEW chosen \in SUBSET Users, NEW designees \in SUBSET Users
  PROVE  LET y == Assigned(x, giver, chosen, designees)
         IN  /\ y.owner = x.owner /\ y.campaign = x.campaign /\ y.returnOwner = x.returnOwner
             /\ y.placement = x.placement /\ y.revision = x.revision /\ y.lifecycle = x.lifecycle
             /\ y.controllers = chosen
BY DEF Assigned, Sheet

(* A sheet's part of SheetsRespectCustody. *)
RespectsCustody(s) ==
  IF Exists(s)
    THEN Custody(s)!CustodyStep \/ Custody(s)!CommandStep \/ UNCHANGED Custody(s)!custodyVars
    ELSE ~ Exists(s)' \/ Custody(s)!NewSheet'

LEMMA UntouchedRespects ==
  ASSUME NEW s \in Sheets, UNCHANGED <<memberVars, sheets[s]>>
  PROVE  RespectsCustody(s)
<1>1. UNCHANGED Custody(s)!custodyVars
  BY DEF Custody!custodyVars, memberVars
<1>2. Exists(s)' <=> Exists(s)
  BY DEF Exists
<1> QED BY <1>1, <1>2 DEF RespectsCustody

LEMMA AdoptionRespects ==
  ASSUME PlacementAssumption, PlacedInv, RowsInv, NEW w \in Workers, NEW r \in Requests, NEW s \in Sheets,
         s = r.sheet, r.kind = "place", AdoptSheet(w, r), UNCHANGED memberVars
  PROVE  Exists(s) /\ Custody(s)!CustodyStep
<1>1. PICK c \in Campaigns, u \in Users : c = r.campaign /\ u = r.actor
  BY RequestIsTyped
<1>2. /\ campaignStatus[c] = "active" /\ IsActiveMember(c, u)
      /\ sheets[s].owner = u /\ sheets[s].lifecycle = "active" /\ sheets[s].revision < MaxRevision
      /\ sheets' = [sheets EXCEPT ![s] = Adopted(sheets[s], u, c)]
  BY <1>1 DEF AdoptSheet, MayPlace, MayAdopt, Replace
<1>3. Exists(s) /\ sheets[s].campaign = NoCampaign /\ sheets[s].revision < MaxRevision + 1
  <2>1. sheets[s].owner # NoUser
    BY <1>2 DEF PlacementAssumption
  <2>2. Exists(s) /\ sheets[s].campaign = NoCampaign
    BY <2>1 DEF RowsInv, PlacedInv
  <2>3. sheets[s].revision \in Nat
    BY SheetIsTyped DEF Sheet
  <2> QED BY <1>2, <2>2, <2>3 DEF PlacementAssumption
<1>4. /\ sheets'[s].owner = NoUser /\ sheets'[s].campaign = c /\ sheets'[s].returnOwner = u
      /\ sheets'[s].placement = sheets[s].placement + 1 /\ sheets'[s].revision = sheets[s].revision + 1
      /\ sheets'[s].lifecycle = sheets[s].lifecycle
      /\ sheets'[s].controllers = sheets[s].controllers \cup {u}
  <2>1. PICK x \in Sheet : x = sheets[s]
    BY SheetIsTyped
  <2>2. sheets'[s] = Adopted(x, u, c)
    BY <1>2, <2>1 DEF PlacedInv, PlacementTypeOK
  <2> QED BY <2>1, <2>2, AdoptedIs
<1>5. Custody(s)!Adopt(u, c)
  BY <1>2, <1>3, <1>4 DEF Custody!Adopt, Custody!OwnsStandalone, Custody!NextPlacement, Custody!IsActiveMember, Custody!memberVars, memberVars, Custody!ActiveRoles, IsActiveMember, ActiveRoles
<1> QED BY <1>3, <1>5 DEF Custody!CustodyStep

LEMMA AssignmentRespects ==
  ASSUME PlacementAssumption, PlacedInv, NEW w \in Workers, NEW r \in Requests, NEW s \in Sheets,
         s = r.sheet, r.kind = "place", Assign(w, r), UNCHANGED memberVars
  PROVE  Exists(s) /\ Custody(s)!CustodyStep
<1>1. PICK c \in Campaigns, u \in Users : c = r.campaign /\ u = r.actor
  BY RequestIsTyped
<1>2. PICK chosen \in SUBSET Users, designees \in SUBSET Users :
        /\ campaignStatus[c] = "active" /\ IsGameMaster(c, u) /\ sheets[s].campaign = c
        /\ sheets[s].returnOwner \in chosen \cup {NoUser} /\ chosen \subseteq ActiveMembers(c)
        /\ sheets' = [sheets EXCEPT ![s] = Assigned(sheets[s], u, chosen, designees)]
  BY <1>1 DEF Assign, MayPlace, MayAssign, Replace
<1>3. Exists(s)
  BY <1>2 DEF PlacedInv, PlacementAssumption
<1>4. /\ sheets'[s].owner = sheets[s].owner /\ sheets'[s].campaign = sheets[s].campaign
      /\ sheets'[s].returnOwner = sheets[s].returnOwner /\ sheets'[s].placement = sheets[s].placement
      /\ sheets'[s].revision = sheets[s].revision /\ sheets'[s].lifecycle = sheets[s].lifecycle
      /\ sheets'[s].controllers = chosen
  <2>1. PICK x \in Sheet : x = sheets[s]
    BY SheetIsTyped
  <2>2. sheets'[s] = Assigned(x, u, chosen, designees)
    BY <1>2, <2>1 DEF PlacedInv, PlacementTypeOK
  <2> QED BY <2>1, <2>2, AssignedKeeps
<1>5. Custody(s)!AssignControllers(u, c, chosen)
  BY <1>2, <1>4 DEF Custody!AssignControllers, Custody!IsGameMaster, Custody!ActiveMembers,
                    Custody!IsActiveMember, Custody!ActiveRoles, Custody!memberVars,
                    memberVars, IsGameMaster, ActiveMembers, IsActiveMember, ActiveRoles
<1> QED BY <1>3, <1>5 DEF Custody!CustodyStep

LEMMA ClaimRespects ==
  ASSUME PlacementAssumption, PlacedInv, NEW w \in Workers, NEW r \in Requests, NEW s \in Sheets,
         s = r.sheet, r.kind = "place", Claim(w, r), UNCHANGED memberVars
  PROVE  Exists(s) /\ Custody(s)!CustodyStep
<1>1. PICK c \in Campaigns, u \in Users : c = r.campaign /\ u = r.actor
  BY RequestIsTyped
<1>2. /\ campaignStatus[c] = "active" /\ IsActiveMember(c, u) /\ sheets[s].campaign = c
      /\ sheets' = [sheets EXCEPT ![s] = Claimed(sheets[s], u)]
  BY <1>1 DEF Claim, MayPlace, MayClaim, Replace
<1>3. Exists(s)
  BY <1>2 DEF PlacedInv, PlacementAssumption
<1>4. /\ sheets'[s].owner = sheets[s].owner /\ sheets'[s].campaign = sheets[s].campaign
      /\ sheets'[s].returnOwner = sheets[s].returnOwner /\ sheets'[s].placement = sheets[s].placement
      /\ sheets'[s].revision = sheets[s].revision /\ sheets'[s].lifecycle = sheets[s].lifecycle
      /\ sheets'[s].controllers = sheets[s].controllers \cup {u}
  <2>1. PICK x \in Sheet : x = sheets[s]
    BY SheetIsTyped
  <2>2. sheets'[s] = Claimed(x, u)
    BY <1>2, <2>1 DEF PlacedInv, PlacementTypeOK
  <2> QED BY <2>1, <2>2, ClaimedIs
<1>5. Custody(s)!ClaimControl(u, c)
  BY <1>2, <1>4 DEF Custody!ClaimControl, Custody!IsActiveMember, Custody!ActiveRoles, Custody!memberVars,
                    memberVars, IsActiveMember, ActiveRoles
<1> QED BY <1>3, <1>5 DEF Custody!CustodyStep

LEMMA CreationRespects ==
  ASSUME PlacementAssumption, PlacedInv, NEW w \in Workers, NEW r \in Requests, r.kind = "create",
         Create(w, r), UNCHANGED memberVars, NEW s \in Sheets
  PROVE  RespectsCustody(s)
<1>1. PICK c \in Campaigns, u \in Users : c = r.campaign /\ u = r.actor
  BY RequestIsTyped
<1>2. PICK chosen \in SUBSET Users, t \in Sheets :
        /\ chosen \subseteq ActiveMembers(c) /\ ~ Exists(t)
        /\ sheets' = [sheets EXCEPT ![t] = Placed(c, chosen)]
  BY <1>1 DEF Create, MayCreate, Replace
<1>3. CASE s # t
  BY <1>2, <1>3, UntouchedRespects DEF PlacedInv, PlacementTypeOK
<1>4. CASE s = t
  <2>1. sheets'[s] = Placed(c, chosen)
    BY <1>2, <1>4 DEF PlacedInv, PlacementTypeOK
  <2>2. /\ sheets'[s].owner = NoUser /\ sheets'[s].campaign = c /\ sheets'[s].returnOwner = NoUser
        /\ sheets'[s].placement = 1 /\ sheets'[s].revision = 1 /\ sheets'[s].lifecycle = "active"
        /\ sheets'[s].controllers = chosen
    BY <2>1, PlacedIs
  <2>3. ActiveMembers(c)' = ActiveMembers(c)
    BY DEF memberVars, ActiveMembers, IsActiveMember
  <2>4. Custody(s)!NewSheet'
    BY <1>2, <2>2, <2>3 DEF Custody!NewSheet, Custody!ActiveMembers, Custody!IsActiveMember,
                            Custody!ActiveRoles, ActiveMembers, IsActiveMember, ActiveRoles
  <2> QED BY <1>2, <1>4, <2>4 DEF RespectsCustody
<1> QED BY <1>3, <1>4

LEMMA PlacingRespects ==
  ASSUME PlacementAssumption, PlacedInv, RowsInv, NEW w \in Workers, NEW r \in Requests, Place(w, r),
         NEW s \in Sheets
  PROVE  RespectsCustody(s)
<1>1. UNCHANGED memberVars
  BY DEF Place
<1>2. CASE r.kind = "create" /\ Create(w, r)
  BY <1>1, <1>2, CreationRespects
<1>3. CASE r.kind = "place" /\ (AdoptSheet(w, r) \/ Assign(w, r) \/ Claim(w, r))
  <2>1. PICK t \in Sheets : t = r.sheet
    BY <1>3, RequestIsTyped
  <2>2. CASE s = t
    <3>1. Exists(s) /\ Custody(s)!CustodyStep
      BY <1>1, <1>3, <2>1, <2>2, AdoptionRespects, AssignmentRespects, ClaimRespects
    <3> QED BY <3>1 DEF RespectsCustody
  <2>3. CASE s # t
    <3>1. sheets'[s] = sheets[s]
      BY <1>3, <2>1, <2>3 DEF AdoptSheet, Assign, Claim, Replace, PlacedInv, PlacementTypeOK
    <3> QED BY <1>1, <3>1, UntouchedRespects
  <2> QED BY <2>2, <2>3
<1> QED BY <1>2, <1>3 DEF Place

LEMMA DepartureRespects ==
  ASSUME PlacementAssumption, PlacedInv, RowsInv, NEW r \in Requests, Depart(r), NEW s \in Sheets
  PROVE  RespectsCustody(s)
<1>1. PICK c \in Campaigns, v \in Users : c = r.campaign /\ v = r.target
  BY RequestIsTyped DEF Depart
<1>2. PICK u \in Users : MemberLeaves(u, v, c)
  BY <1>1 DEF Depart, Leave
<1>3. /\ generation[c][v] < MaxGeneration
      /\ s \in Attached(c) => sheets[s].revision < MaxRevision
      /\ sheets'[s] = AfterDeparture(s, c, v)
  BY <1>1 DEF Depart
<1>4. sheets[s].revision < MaxRevision + 1
  BY SheetIsTyped DEF RowsInv, Sheet, PlacementAssumption
<1>5. PICK x \in Sheet : x = sheets[s]
  BY SheetIsTyped
<1>6. Custody(s)!MemberLeaves(u, v, c)
  BY <1>2 DEF Custody!MemberLeaves, Custody!MayRemove, Custody!IsActiveMember, Custody!ActiveRoles,
              Custody!NextGeneration, MemberLeaves, MayRemove, IsActiveMember, ActiveRoles, NextGeneration
<1>7. Custody(s)!RemoveMember(u, v, c)
  <2>1. CASE sheets[s].campaign # c
    <3>1. sheets'[s] = sheets[s]
      BY <1>3, <2>1 DEF AfterDeparture
    <3> QED BY <1>6, <2>1, <3>1 DEF Custody!RemoveMember
  <2>2. CASE sheets[s].campaign = c /\ sheets[s].returnOwner = v
    <3>1. sheets'[s] = Returned(x)
      BY <1>3, <1>5, <2>2 DEF AfterDeparture
    <3>2. /\ sheets'[s].owner = v /\ sheets'[s].campaign = NoCampaign /\ sheets'[s].returnOwner = NoUser
          /\ sheets'[s].placement = sheets[s].placement + 1 /\ sheets'[s].revision = sheets[s].revision + 1
          /\ sheets'[s].lifecycle = sheets[s].lifecycle /\ sheets'[s].controllers = {}
      BY <1>5, <2>2, <3>1, ReturnedIs
    <3> QED BY <1>6, <2>2, <3>2 DEF Custody!RemoveMember, Custody!NextPlacement
  <2>3. CASE sheets[s].campaign = c /\ sheets[s].returnOwner # v
    <3>1. sheets'[s] = Released(x, v)
      BY <1>3, <1>5, <2>3 DEF AfterDeparture
    <3>2. /\ sheets'[s].owner = sheets[s].owner /\ sheets'[s].campaign = sheets[s].campaign
          /\ sheets'[s].returnOwner = sheets[s].returnOwner /\ sheets'[s].placement = sheets[s].placement
          /\ sheets'[s].revision = sheets[s].revision /\ sheets'[s].lifecycle = sheets[s].lifecycle
          /\ sheets'[s].controllers = sheets[s].controllers \ {v}
      BY <1>5, <3>1, ReleasedIs
    <3> QED BY <1>6, <2>3, <3>2 DEF Custody!RemoveMember, Custody!WithoutDeparted
  <2> QED BY <2>1, <2>2, <2>3
<1>8. CASE Exists(s)
  <2>1. Custody(s)!CustodyStep
    BY <1>3, <1>4, <1>7 DEF Custody!CustodyStep
  <2> QED BY <1>8, <2>1 DEF RespectsCustody
<1>9. CASE ~ Exists(s)
  <2>1. sheets'[s] = sheets[s]
    BY <1>3, <1>9 DEF AfterDeparture, PlacedInv, PlacementAssumption
  <2> QED BY <1>9, <2>1 DEF RespectsCustody, Exists
<1> QED BY <1>8, <1>9

LEMMA CampaignRespects ==
  ASSUME NEW r \in Requests, ChangeCampaign(r), NEW s \in Sheets
  PROVE  RespectsCustody(s)
<1>1. UNCHANGED sheets
  BY DEF ChangeCampaign
<1>2. CASE ~ Exists(s)
  BY <1>1, <1>2 DEF RespectsCustody, Exists
<1>3. CASE Exists(s)
  <2>1. PICK c \in Campaigns, u \in Users :
          \/ generation[c][u] < MaxGeneration /\ \E intended \in Roles : MemberJoins(u, c, intended)
          \/ \E target \in Users, newRole \in Roles : SetRole(u, target, c, newRole)
          \/ Archive(u, c)
          \/ Recover(u, c)
          \/ Update(u, c)
    BY RequestIsTyped DEF ChangeCampaign
  <2>2. UNCHANGED Custody(s)!sheetVars
    BY <1>1 DEF Custody!sheetVars
  <2>3. CASE generation[c][u] < MaxGeneration /\ \E intended \in Roles : MemberJoins(u, c, intended)
    <3>1. PICK intended \in Roles : MemberJoins(u, c, intended)
      BY <2>3
    <3>2. intended \in Custody(s)!Roles /\ Custody(s)!JoinCampaign(u, c, intended)
      BY <2>2, <3>1 DEF Custody!JoinCampaign, Custody!MemberJoins, Custody!IsActiveMember, Custody!Roles,
                        Custody!ActiveRoles, Custody!NextGeneration, MemberJoins, IsActiveMember, Roles,
                        ActiveRoles, NextGeneration
    <3> QED BY <1>3, <2>3, <3>2 DEF RespectsCustody, Custody!CustodyStep
  <2>4. CASE \E target \in Users, newRole \in Roles : SetRole(u, target, c, newRole)
    <3>1. PICK target \in Users, newRole \in Roles : RoleChanges(u, target, c, newRole)
      BY <2>4 DEF SetRole
    <3>2. newRole \in Custody(s)!Roles /\ Custody(s)!ChangeRole(u, target, c, newRole)
      BY <2>2, <3>1 DEF Custody!ChangeRole, Custody!RoleChanges, Custody!MayChangeRole, Custody!IsGameMaster,
                        Custody!Roles, Custody!ActiveRoles, RoleChanges, MayChangeRole, IsGameMaster, Roles,
                        ActiveRoles
    <3> QED BY <1>3, <3>2 DEF RespectsCustody, Custody!CustodyStep
  <2>5. CASE Archive(u, c)
    <3>1. Custody(s)!ArchiveCampaign(u, c)
      BY <2>2, <2>5 DEF Custody!ArchiveCampaign, Custody!CampaignArchived, Custody!IsGameMaster, Archive,
                        CampaignArchived, IsGameMaster
    <3> QED BY <1>3, <3>1 DEF RespectsCustody, Custody!CustodyStep
  <2>6. CASE Recover(u, c)
    <3>1. Custody(s)!RecoverCampaign(u, c)
      BY <2>2, <2>6 DEF Custody!RecoverCampaign, Custody!CampaignRecovered, Custody!IsGameMaster, Recover,
                        CampaignRecovered, IsGameMaster
    <3> QED BY <1>3, <3>1 DEF RespectsCustody, Custody!CustodyStep
  <2>7. CASE Update(u, c)
    BY <1>1, <2>7, UntouchedRespects DEF Update
  <2> QED BY <2>1, <2>3, <2>4, <2>5, <2>6, <2>7
<1> QED BY <1>2, <1>3

(* A transfer moves a standalone sheet, an archive or a recovery one whose  *)
(* owner or whose game master asks for it.                                  *)
LEMMA CommandRespects ==
  ASSUME PlacementAssumption, PlacedInv, RowsInv, NEW w \in Workers, NEW r \in Requests, Command(w, r),
         NEW s \in Sheets
  PROVE  RespectsCustody(s)
<1>1. r.kind = "command" /\ UNCHANGED memberVars
  BY DEF Command, campaignVars, memberVars
<1>2. PICK t \in Sheets : t = r.sheet
  BY <1>1, RequestIsTyped
<1>3. PICK u \in Users :
        /\ MayCommand(w, sheets[t], u)
        /\ \/ /\ scope[w] = NoCampaign
              /\ \E heir \in Users : sheets' = [sheets EXCEPT ![t] = Transferred(sheets[t], heir)]
           \/ \E l \in {"active", "archived"} : sheets' = [sheets EXCEPT ![t] = Moved(sheets[t], l)]
  BY <1>2 DEF Command, Replace
<1>4. CASE s # t
  <2>1. sheets'[s] = sheets[s]
    BY <1>3, <1>4 DEF PlacedInv, PlacementTypeOK
  <2> QED BY <1>1, <2>1, UntouchedRespects
<1>5. CASE s = t
  <2>1. PICK x \in Sheet : x = sheets[s]
    BY SheetIsTyped
  <2>2. scope[w] \in Campaigns \cup {NoCampaign}
    BY DEF PlacedInv, PlacementTypeOK
  <2>3. ASSUME scope[w] = NoCampaign, NEW heir \in Users, sheets' = [sheets EXCEPT ![t] = Transferred(sheets[t], heir)]
        PROVE  Custody(s)!CommandStep
    <3>1. sheets'[s] = Transferred(x, heir)
      BY <1>5, <2>1, <2>3 DEF PlacedInv, PlacementTypeOK
    <3>2. /\ sheets'[s].owner = heir /\ sheets'[s].campaign = sheets[s].campaign
          /\ sheets'[s].returnOwner = sheets[s].returnOwner /\ sheets'[s].placement = sheets[s].placement
          /\ sheets'[s].revision = sheets[s].revision + 1 /\ sheets'[s].lifecycle = sheets[s].lifecycle
          /\ sheets'[s].controllers = sheets[s].controllers
      BY <2>1, <3>1, TransferredIs
    <3>3. Custody(s)!TransferSheet(u, heir)
      BY <1>1, <1>3, <1>5, <2>3, <3>2 DEF Custody!TransferSheet, Custody!OwnsStandalone, Custody!memberVars,
                                         memberVars, MayCommand
    <3> QED BY <3>3 DEF Custody!CommandStep
  <2>4. ASSUME NEW l \in {"active", "archived"}, sheets' = [sheets EXCEPT ![t] = Moved(sheets[t], l)]
        PROVE  Custody(s)!CommandStep
    <3>1. sheets'[s] = Moved(x, l)
      BY <1>5, <2>1, <2>4 DEF PlacedInv, PlacementTypeOK
    <3>2. /\ sheets'[s].owner = sheets[s].owner /\ sheets'[s].campaign = sheets[s].campaign
          /\ sheets'[s].returnOwner = sheets[s].returnOwner /\ sheets'[s].placement = sheets[s].placement
          /\ sheets'[s].revision = sheets[s].revision + 1 /\ sheets'[s].lifecycle = l
          /\ sheets'[s].controllers = sheets[s].controllers
      BY <2>1, <3>1, MovedIs
    <3>3. Custody(s)!MayManage(u)
      BY <1>3, <1>5, <2>2 DEF Custody!MayManage, Custody!OwnsStandalone, Custody!IsGameMaster, MayCommand,
                              IsGameMaster
    <3>4. Custody(s)!SetLifecycle(u, l)
      BY <1>1, <3>2, <3>3 DEF Custody!SetLifecycle, Custody!memberVars, memberVars
    <3> QED BY <3>4 DEF Custody!CommandStep
  <2>5. Exists(s)
    BY <1>3, <1>5, <2>2 DEF MayCommand, RowsInv, PlacedInv, PlacementAssumption
  <2> QED BY <1>3, <2>3, <2>4, <2>5 DEF RespectsCustody
<1> QED BY <1>4, <1>5

LEMMA StepRespects ==
  ASSUME PlacementAssumption, PlacedInv, RowsInv, PlacementNext, NEW s \in Sheets
  PROVE  RespectsCustody(s)
<1>1. ASSUME UNCHANGED <<campaignVars, sheets>>
      PROVE  RespectsCustody(s)
  BY <1>1, UntouchedRespects DEF campaignVars, memberVars
<1>2. PICK w \in Workers : (\E r \in Requests : Begin(w, r)) \/ Lock(w) \/ Commit(w) \/ Abort(w)
  BY DEF PlacementNext
<1>3. CASE (\E r \in Requests : Begin(w, r)) \/ Lock(w) \/ Abort(w)
  BY <1>1, <1>3 DEF Begin, Lock, Abort
<1>4. CASE Commit(w)
  <2>1. PICK r \in Requests : Effect(w, r)
    BY <1>4 DEF Commit, PlacedInv, PlacementTypeOK
  <2> QED BY <2>1, PlacingRespects, DepartureRespects, CampaignRespects, CommandRespects DEF Effect
<1> QED BY <1>2, <1>3, <1>4

(* What a step may make of one row. *)
RowGoesOn(x, y) ==
  \/ y.placement = x.placement /\ y.owner = x.owner /\ y.revision = x.revision
  \/ y.placement > 0 /\ y.revision <= MaxRevision

LEMMA RowsGoOn ==
  ASSUME PlacementAssumption, PlacedInv, RowsInv, PlacementNext, NEW s \in Sheets
  PROVE  RowGoesOn(sheets[s], sheets'[s])
<1>1. ASSUME sheets'[s] = sheets[s]
      PROVE  RowGoesOn(sheets[s], sheets'[s])
  BY <1>1 DEF RowGoesOn
<1>2. PICK w \in Workers : (\E r \in Requests : Begin(w, r)) \/ Lock(w) \/ Commit(w) \/ Abort(w)
  BY DEF PlacementNext
<1>3. CASE (\E r \in Requests : Begin(w, r)) \/ Lock(w) \/ Abort(w)
  BY <1>1, <1>3 DEF Begin, Lock, Abort
<1>4. CASE Commit(w)
  <2>1. PICK r \in Requests : Effect(w, r)
    BY <1>4 DEF Commit, PlacedInv, PlacementTypeOK
  <2>2. PICK x \in Sheet : x = sheets[s]
    BY SheetIsTyped
  <2>3. sheets \in [Sheets -> Sheet] /\ x.placement \in Nat /\ x.revision \in Nat /\ MaxRevision \in Nat \ {0}
    BY <2>2 DEF PlacedInv, PlacementTypeOK, PlacementAssumption, Sheet
  <2>4. CASE Place(w, r) /\ r.kind = "create"
    <3>1. PICK chosen \in SUBSET Users, c \in Campaigns, t \in Sheets : sheets' = [sheets EXCEPT ![t] = Placed(c, chosen)]
      BY <2>4, RequestIsTyped DEF Place, Create, Replace
    <3>2. CASE s = t
      <4>1. sheets'[s] = Placed(c, chosen)
        BY <2>3, <3>1, <3>2
      <4>2. sheets'[s].placement = 1 /\ sheets'[s].revision = 1
        BY <4>1, PlacedIs
      <4> QED BY <2>3, <4>2 DEF RowGoesOn
    <3> QED BY <1>1, <2>3, <3>1, <3>2
  <2>5. CASE Place(w, r) /\ r.kind = "place"
    <3>1. PICK t \in Sheets, u \in Users, c \in Campaigns : t = r.sheet /\ u = r.actor /\ c = r.campaign
      BY <2>5, RequestIsTyped
    <3>2. CASE s # t
      BY <1>1, <2>3, <2>5, <3>1, <3>2 DEF Place, AdoptSheet, Assign, Claim, Replace
    <3>3. CASE s = t /\ AdoptSheet(w, r)
      <4>1. sheets'[s] = Adopted(x, u, c) /\ x.revision < MaxRevision
        BY <2>2, <2>3, <3>1, <3>3 DEF AdoptSheet, Replace
      <4>2. sheets'[s].placement = x.placement + 1 /\ sheets'[s].revision = x.revision + 1
        BY <4>1, AdoptedIs
      <4> QED BY <2>3, <4>1, <4>2 DEF RowGoesOn
    <3>4. CASE s = t /\ Assign(w, r)
      <4>1. PICK chosen \in SUBSET Users, designees \in SUBSET Users : sheets'[s] = Assigned(x, u, chosen, designees)
        BY <2>2, <2>3, <3>1, <3>4 DEF Assign, Replace
      <4> QED BY <2>2, <4>1, AssignedKeeps DEF RowGoesOn
    <3>5. CASE s = t /\ Claim(w, r)
      <4>1. sheets'[s] = Claimed(x, u)
        BY <2>2, <2>3, <3>1, <3>5 DEF Claim, Replace
      <4> QED BY <2>2, <4>1, ClaimedIs DEF RowGoesOn
    <3> QED BY <2>5, <3>2, <3>3, <3>4, <3>5 DEF Place
  <2>6. CASE Depart(r)
    <3>1. PICK c \in Campaigns, u \in Users : c = r.campaign /\ u = r.target
      BY <2>6, RequestIsTyped DEF Depart
    <3>2. /\ sheets'[s] = AfterDeparture(s, c, u)
          /\ sheets[s].campaign = c => x.revision < MaxRevision
      BY <2>2, <2>6, <3>1 DEF Depart, Attached
    <3>3. CASE sheets[s].campaign # c
      BY <1>1, <3>2, <3>3 DEF AfterDeparture
    <3>4. CASE sheets[s].campaign = c /\ sheets[s].returnOwner = u
      <4>1. sheets'[s] = Returned(x)
        BY <2>2, <3>2, <3>4 DEF AfterDeparture
      <4>2. sheets'[s].placement = x.placement + 1 /\ sheets'[s].revision = x.revision + 1
        BY <4>1, ReturnedIs
      <4> QED BY <2>3, <3>2, <3>4, <4>2 DEF RowGoesOn
    <3>5. CASE sheets[s].campaign = c /\ sheets[s].returnOwner # u
      <4>1. sheets'[s] = Released(x, u)
        BY <2>2, <3>2, <3>5 DEF AfterDeparture
      <4> QED BY <2>2, <4>1, ReleasedIs DEF RowGoesOn
    <3> QED BY <3>3, <3>4, <3>5
  <2>7. CASE ChangeCampaign(r)
    BY <1>1, <2>7 DEF ChangeCampaign
  <2>8. CASE Command(w, r)
    <3>1. PICK t \in Sheets : t = r.sheet
      BY <2>8, RequestIsTyped DEF Command
    <3>2. CASE s # t
      BY <1>1, <2>3, <2>8, <3>1, <3>2 DEF Command, Replace
    <3>3. CASE s = t
      <4>1. /\ x.revision < MaxRevision
            /\ \E u \in Users : MayCommand(w, x, u)
            /\ \/ \E heir \in Users : sheets'[s] = Transferred(x, heir)
               \/ \E l \in {"active", "archived"} : sheets'[s] = Moved(x, l)
        BY <2>2, <2>3, <2>8, <3>1, <3>3 DEF Command, Replace
      <4>2. scope[w] \in Campaigns \cup {NoCampaign}
        BY DEF PlacedInv, PlacementTypeOK
      <4>3. Exists(s)
        BY <2>2, <4>1, <4>2 DEF MayCommand, RowsInv, PlacedInv, PlacementAssumption
      <4>4. sheets'[s].placement = x.placement /\ sheets'[s].revision = x.revision + 1
        BY <4>1, TransferredIs, MovedIs
      <4>5. x.placement > 0
        BY <2>2, <4>3 DEF Exists
      <4> QED BY <2>3, <4>1, <4>4, <4>5 DEF RowGoesOn
    <3> QED BY <3>2, <3>3
  <2>9. r.kind \in {"create", "place"} \/ ~ Place(w, r)
    BY DEF Place
  <2> QED BY <2>1, <2>4, <2>5, <2>6, <2>7, <2>8, <2>9 DEF Effect
<1> QED BY <1>2, <1>3, <1>4

LEMMA RowsStay == PlacementSpec => [](PlacedInv /\ RowsInv)
<1>1. PlacementInit => PlacedInv /\ RowsInv
  <2> SUFFICES ASSUME PlacementInit, NEW s \in Sheets
               PROVE  (~ Exists(s) => sheets[s].owner = NoUser) /\ sheets[s].revision <= MaxRevision
    BY PlacementStarts, PlacementAssumption DEF RowsInv
  <2>1. sheets[s] \in {Unused} \cup {Standalone(u) : u \in Users} \cup {Placed(c, {}) : c \in Campaigns}
    BY DEF PlacementInit
  <2>2. CASE sheets[s] = Unused
    BY <2>2, PlacementAssumption DEF Unused, Standalone
  <2>3. CASE \E u \in Users : sheets[s] = Standalone(u)
    BY <2>3, PlacementAssumption DEF Standalone, Exists
  <2>4. CASE \E c \in Campaigns : sheets[s] = Placed(c, {})
    BY <2>4, PlacementAssumption DEF Placed, Standalone
  <2> QED BY <2>1, <2>2, <2>3, <2>4
<1>2. PlacedInv /\ RowsInv /\ [PlacementNext]_placementVars => (PlacedInv /\ RowsInv)'
  <2> SUFFICES ASSUME PlacedInv, RowsInv, [PlacementNext]_placementVars
               PROVE  RowsInv'
    BY StepKeepsPlaced, PlacementAssumption
  <2>1. CASE UNCHANGED placementVars
    BY <2>1 DEF placementVars, RowsInv, Exists
  <2>2. CASE PlacementNext
    <3> SUFFICES ASSUME NEW s \in Sheets
                 PROVE  (~ Exists(s)' => sheets'[s].owner = NoUser) /\ sheets'[s].revision <= MaxRevision
      BY DEF RowsInv
    <3>1. RowGoesOn(sheets[s], sheets'[s])
      BY <2>2, RowsGoOn, PlacementAssumption
    <3> QED BY <3>1 DEF RowGoesOn, RowsInv, Exists
  <2> QED BY <2>1, <2>2
<1> QED BY <1>1, <1>2, PTL DEF PlacementSpec

(* Every sheet of any number, with any transactions open, implements        *)
(* Custody: it appears as one of Custody's new sheets and from then on      *)
(* each commit moves it by an action of Custody or leaves it alone.         *)
THEOREM SheetsImplementCustody == PlacementSpec => SheetsRespectCustody
<1>1. ASSUME PlacedInv, RowsInv, [PlacementNext]_placementVars
      PROVE  [\A s \in Sheets : RespectsCustody(s)]_<<memberVars, sheets>>
  <2>1. CASE UNCHANGED placementVars
    BY <2>1 DEF placementVars, campaignVars, memberVars
  <2>2. CASE PlacementNext
    BY <1>1, <2>2, StepRespects, PlacementAssumption
  <2> QED BY <1>1, <2>1, <2>2
<1>2. ASSUME PlacedInv, RowsInv, [PlacementNext]_placementVars
      PROVE  [\A s \in Sheets :
                IF Exists(s)
                  THEN Custody(s)!CustodyStep \/ Custody(s)!CommandStep \/ UNCHANGED Custody(s)!custodyVars
                  ELSE ~ Exists(s)' \/ Custody(s)!NewSheet']_<<memberVars, sheets>>
  BY <1>1, <1>2 DEF RespectsCustody
<1> QED BY <1>2, RowsStay, PTL DEF PlacementSpec, SheetsRespectCustody

(* Custody's invariant for a sheet, in the terms of this module. *)
HeldAs(s) ==
  /\ (sheets[s].owner = NoUser) <=> (sheets[s].campaign # NoCampaign)
  /\ sheets[s].returnOwner # NoUser
       => sheets[s].campaign # NoCampaign /\ sheets[s].returnOwner \in sheets[s].controllers
  /\ sheets[s].campaign = NoCampaign => sheets[s].controllers = {}
  /\ sheets[s].campaign \in Campaigns => sheets[s].controllers \subseteq ActiveMembers(sheets[s].campaign)

LEMMA HeldIsCustody ==
  ASSUME NEW s \in Sheets
  PROVE  Custody(s)!CustodyInv <=> HeldAs(s)
BY DEF Custody!CustodyInv, HeldAs, Custody!ActiveMembers, Custody!IsActiveMember, Custody!ActiveRoles,
       ActiveMembers, IsActiveMember, ActiveRoles

LEMMA CustodyStepKeepsHeld ==
  ASSUME PlacementAssumption, PlacedInv, NEW s \in Sheets, HeldAs(s), Custody(s)!CustodyStep
  PROVE  HeldAs(s)'
<1> SUFFICES ASSUME NEW c \in Campaigns, NEW u \in Users,
               \/ Custody(s)!Adopt(u, c)
               \/ \E chosen \in SUBSET Users : Custody(s)!AssignControllers(u, c, chosen)
               \/ Custody(s)!ClaimControl(u, c)
               \/ \E target \in Users : Custody(s)!RemoveMember(u, target, c)
               \/ \E r \in Custody(s)!Roles : Custody(s)!JoinCampaign(u, c, r)
               \/ \E target \in Users, r \in Custody(s)!Roles : Custody(s)!ChangeRole(u, target, c, r)
               \/ Custody(s)!ArchiveCampaign(u, c)
               \/ Custody(s)!RecoverCampaign(u, c)
             PROVE  HeldAs(s)'
  BY DEF Custody!CustodyStep
<1>0. /\ role \in [Campaigns -> [Users -> Roles]]
      /\ sheets[s].controllers \subseteq Users /\ sheets[s].owner \in Users \cup {NoUser}
      /\ sheets[s].returnOwner \in Users \cup {NoUser} /\ sheets[s].campaign \in Campaigns \cup {NoCampaign}
  BY SheetIsTyped DEF PlacedInv, PlacementTypeOK, CampaignTypeOK, MembershipTypeOK, Sheet
<1> USE <1>0, PlacementAssumption
    DEF HeldAs, ActiveMembers, IsActiveMember, ActiveRoles, Custody!ActiveMembers, Custody!IsActiveMember,
        Custody!ActiveRoles, Custody!Roles, Custody!sheetVars, Custody!memberVars
<1>1. CASE Custody(s)!Adopt(u, c)
  BY <1>1 DEF Custody!Adopt, Custody!OwnsStandalone
<1>2. ASSUME NEW chosen \in SUBSET Users, Custody(s)!AssignControllers(u, c, chosen)
      PROVE  HeldAs(s)'
  BY <1>2 DEF Custody!AssignControllers
<1>3. CASE Custody(s)!ClaimControl(u, c)
  BY <1>3 DEF Custody!ClaimControl
<1>4. ASSUME NEW target \in Users, Custody(s)!RemoveMember(u, target, c)
      PROVE  HeldAs(s)'
  <2>1. CASE sheets[s].campaign = c /\ sheets[s].returnOwner = target
    BY <1>4, <2>1 DEF Custody!RemoveMember, Custody!MemberLeaves
  <2>2. CASE sheets[s].campaign = c /\ sheets[s].returnOwner # target
    BY <1>4, <2>2 DEF Custody!RemoveMember, Custody!MemberLeaves, Custody!WithoutDeparted
  <2>3. CASE sheets[s].campaign # c
    BY <1>4, <2>3 DEF Custody!RemoveMember, Custody!MemberLeaves
  <2> QED BY <2>1, <2>2, <2>3
<1>5. ASSUME NEW r, Custody(s)!JoinCampaign(u, c, r)
      PROVE  HeldAs(s)'
  BY <1>5 DEF Custody!JoinCampaign, Custody!MemberJoins
<1>6. ASSUME NEW target \in Users, NEW r, Custody(s)!ChangeRole(u, target, c, r)
      PROVE  HeldAs(s)'
  BY <1>6 DEF Custody!ChangeRole, Custody!RoleChanges
<1>7. CASE Custody(s)!ArchiveCampaign(u, c)
  BY <1>7 DEF Custody!ArchiveCampaign, Custody!CampaignArchived
<1>8. CASE Custody(s)!RecoverCampaign(u, c)
  BY <1>8 DEF Custody!RecoverCampaign, Custody!CampaignRecovered
<1> QED BY <1>1, <1>2, <1>3, <1>4, <1>5, <1>6, <1>7, <1>8

LEMMA CommandStepKeepsHeld ==
  ASSUME PlacementAssumption, PlacedInv, NEW s \in Sheets, HeldAs(s), Custody(s)!CommandStep
  PROVE  HeldAs(s)'
BY DEF Custody!CommandStep, Custody!EditSheet, Custody!RenameSheet, Custody!TransferSheet, Custody!SetLifecycle,
       Custody!OwnsStandalone, HeldAs, ActiveMembers, IsActiveMember, Custody!memberVars, PlacementAssumption

(* Every sheet that exists belongs to one account or one campaign, is       *)
(* controlled by active members of that campaign only, and its return owner *)
(* is one of them, for any number of sheets and open transactions           *)
(* (characters_ownership_scope_check, the return-owner invariant).          *)
THEOREM SheetsAreHeldAsCustodySays ==
  PlacementSpec => [](\A s \in Sheets : Exists(s) => Custody(s)!CustodyInv)
<1> DEFINE Held == \A s \in Sheets : Exists(s) => HeldAs(s)
<1>1. PlacementInit => Held
  <2> SUFFICES ASSUME PlacementInit, NEW s \in Sheets, Exists(s)
               PROVE  HeldAs(s)
    OBVIOUS
  <2>1. sheets[s] \in {Unused} \cup {Standalone(u) : u \in Users} \cup {Placed(c, {}) : c \in Campaigns}
    BY DEF PlacementInit
  <2>2. CASE sheets[s] = Unused
    BY <2>2 DEF Unused, Standalone, Exists
  <2>3. CASE \E u \in Users : sheets[s] = Standalone(u)
    BY <2>3, PlacementAssumption DEF Standalone, HeldAs
  <2>4. CASE \E c \in Campaigns : sheets[s] = Placed(c, {})
    BY <2>4, PlacementAssumption DEF Placed, Standalone, HeldAs
  <2> QED BY <2>1, <2>2, <2>3, <2>4
<1>2. PlacedInv /\ RowsInv /\ Held /\ [PlacementNext]_placementVars => Held'
  <2> SUFFICES ASSUME PlacedInv, RowsInv, Held, [PlacementNext]_placementVars,
                      NEW s \in Sheets, Exists(s)'
               PROVE  HeldAs(s)'
    OBVIOUS
  <2> HIDE DEF Held
  <2>1. ASSUME UNCHANGED <<memberVars, sheets[s]>>
        PROVE  HeldAs(s)'
    BY <2>1 DEF Held, HeldAs, Exists, memberVars, ActiveMembers, IsActiveMember
  <2>2. CASE UNCHANGED placementVars
    BY <2>1, <2>2 DEF placementVars, campaignVars, memberVars
  <2>3. CASE PlacementNext
    <3>1. RespectsCustody(s)
      BY <2>3, StepRespects, PlacementAssumption
    <3>2. CASE Exists(s)
      <4>1. CASE UNCHANGED Custody(s)!custodyVars
        BY <3>2, <4>1 DEF Held, HeldAs, Custody!custodyVars, ActiveMembers, IsActiveMember
      <4> QED BY <3>1, <3>2, <4>1, CustodyStepKeepsHeld, CommandStepKeepsHeld, PlacementAssumption
              DEF RespectsCustody, Held
    <3>3. CASE ~ Exists(s)
      <4>1. Custody(s)!NewSheet'
        BY <3>1, <3>3 DEF RespectsCustody
      <4> QED BY <4>1, PlacementAssumption DEF Custody!NewSheet, HeldAs, ActiveMembers, IsActiveMember, ActiveRoles,
                  Custody!ActiveMembers, Custody!IsActiveMember, Custody!ActiveRoles
    <3> QED BY <3>2, <3>3
  <2> QED BY <2>2, <2>3
<1>3. Held => \A s \in Sheets : Exists(s) => Custody(s)!CustodyInv
  BY HeldIsCustody
<1> QED BY <1>1, <1>2, <1>3, RowsStay, PTL DEF PlacementSpec

----------------------------------------------------------------------------
(* MCCampaigns: members join by invitations in one of its scenarios, and    *)
(* the others leave that scenario alone.                                    *)

Joined == InvitesTyped /\ ReviewsTell /\ SeatsCounted /\ MembersAreAdmittedOnce

LEMMA ScenarioSteps ==
  [MCNext]_restVars /\ scenario = "invitations"
    => scenario' = "invitations" /\ [InvitationNext]_invitationVars
BY DEF MCNext, restVars, invitationVars, placementVars, campaignVars, memberVars, OnlyInvitations

LEMMA JoinedStays ==
  /\ MCInit => (scenario = "invitations" => Joined)
  /\ (scenario = "invitations" => Joined) /\ [MCNext]_restVars => (scenario = "invitations" => Joined)'
<1>1. MCInit /\ scenario = "invitations" => Joined
  <2>1. MCInit /\ scenario = "invitations" => InvitationInit
    BY DEF MCInit
  <2> QED BY <2>1, InvitationsStartTyped, InvitationsStartSeated, InvitationsStartAdmitted, InvitationAssumption
          DEF Joined
<1>2. scenario = "invitations" /\ Joined /\ [MCNext]_restVars => Joined'
  BY ScenarioSteps, InvitationStepKeepsReviews, StepKeepsSeats, StepKeepsAdmissions, InvitationAssumption DEF Joined
<1>3. [MCNext]_restVars => scenario' = scenario
  BY DEF MCNext, restVars
<1> QED BY <1>1, <1>2, <1>3

(* A campaign people join by invitation never has more members than places, *)
(* in every state the shared graph reaches, for any number of accounts,     *)
(* invitations and places (countActiveMembers under the campaign's lock).   *)
THEOREM ScenariosKeepSeats == MCSpec => []SeatsWithinLimit
<1>1. (scenario = "invitations" => Joined) => SeatsWithinLimit
  BY DEF Joined, SeatsCounted, SeatsWithinLimit, MembersWithinLimit
<1> QED BY <1>1, JoinedStays, PTL DEF MCSpec

(* And each of them was admitted once, by an invitation that admits nobody  *)
(* else (acceptInvitation, consumeInvitation).                              *)
THEOREM ScenariosAdmitOnce == MCSpec => []AdmittedOnce
<1>1. (scenario = "invitations" => Joined) => AdmittedOnce
  BY DEF Joined, AdmittedOnce
<1> QED BY <1>1, JoinedStays, PTL DEF MCSpec

(* Nobody joins a campaign other than the one they reviewed, whatever else  *)
(* was read or changed since (the revisions acceptInvitation compares).     *)
THEOREM ScenariosJoinAsReviewed == MCSpec => JoinersReviewed
<1>1. (scenario = "invitations" => Joined) /\ [MCNext]_restVars
        => [scenario = "invitations" => JoinsAsReviewed]_restVars
  <2> SUFFICES ASSUME Joined, scenario = "invitations", MCNext
               PROVE  JoinsAsReviewed
    OBVIOUS
  <2>1. InvitationNext
    BY DEF MCNext
  <2> QED BY <2>1, StepJoinsAsReviewed DEF Joined
<1> QED BY <1>1, JoinedStays, PTL DEF MCSpec, JoinersReviewed
=============================================================================
