--------------------------- MODULE Custody_proofs ---------------------------
(***************************************************************************)
(* What Custody promises, proved for any sets of users and campaigns and   *)
(* any bounds.  The lemmas on CustodyStep and CommandStep are stated apart *)
(* from the specification so that a module that takes the same steps can   *)
(* cite them.                                                              *)
(***************************************************************************)
EXTENDS Custody, TLAPS

USE DEF ActiveRoles, Roles

LEMMA CustodyStepKeepsType ==
  ASSUME CustodyTypeOK, CustodyStep
  PROVE  CustodyTypeOK'
<1> SUFFICES ASSUME NEW c \in Campaigns, NEW u \in Users,
               \/ Adopt(u, c)
               \/ \E chosen \in SUBSET Users : AssignControllers(u, c, chosen)
               \/ ClaimControl(u, c)
               \/ \E target \in Users : RemoveMember(u, target, c)
               \/ \E r \in Roles : JoinCampaign(u, c, r)
               \/ \E target \in Users, r \in Roles : ChangeRole(u, target, c, r)
               \/ ArchiveCampaign(u, c)
               \/ RecoverCampaign(u, c)
             PROVE  CustodyTypeOK'
  BY DEF CustodyStep
<1> USE DEF CustodyTypeOK, MembershipTypeOK, sheetVars, memberVars
<1>1. CASE Adopt(u, c)
  BY <1>1 DEF Adopt, NextPlacement
<1>2. ASSUME NEW chosen \in SUBSET Users, AssignControllers(u, c, chosen)
      PROVE  CustodyTypeOK'
  BY <1>2 DEF AssignControllers
<1>3. CASE ClaimControl(u, c)
  BY <1>3 DEF ClaimControl
<1>4. ASSUME NEW target \in Users, RemoveMember(u, target, c)
      PROVE  CustodyTypeOK'
  <2>1. role' \in [Campaigns -> [Users -> Roles]]
    BY <1>4 DEF RemoveMember, MemberLeaves
  <2>2. generation' \in [Campaigns -> [Users -> Nat]]
    BY <1>4 DEF RemoveMember, MemberLeaves, NextGeneration
  <2> QED BY <1>4, <2>1, <2>2 DEF RemoveMember, MemberLeaves, NextPlacement, WithoutDeparted
<1>5. ASSUME NEW r \in Roles, JoinCampaign(u, c, r)
      PROVE  CustodyTypeOK'
  BY <1>5 DEF JoinCampaign, MemberJoins, NextGeneration
<1>6. ASSUME NEW target \in Users, NEW r \in Roles, ChangeRole(u, target, c, r)
      PROVE  CustodyTypeOK'
  BY <1>6 DEF ChangeRole, RoleChanges
<1>7. CASE ArchiveCampaign(u, c)
  BY <1>7 DEF ArchiveCampaign, CampaignArchived
<1>8. CASE RecoverCampaign(u, c)
  BY <1>8 DEF RecoverCampaign, CampaignRecovered
<1> QED BY <1>1, <1>2, <1>3, <1>4, <1>5, <1>6, <1>7, <1>8

LEMMA CommandStepKeepsType ==
  ASSUME CustodyTypeOK, CommandStep
  PROVE  CustodyTypeOK'
BY DEF CommandStep, EditSheet, RenameSheet, TransferSheet, SetLifecycle, CustodyTypeOK, MembershipTypeOK, memberVars

(* A sheet has an owner or a campaign, its controllers are active members   *)
(* and its return owner is one of them, after any step of custody.          *)
LEMMA CustodyStepKeepsInv ==
  ASSUME CustodyTypeOK, CustodyInv, CustodyStep
  PROVE  CustodyInv'
<1> SUFFICES ASSUME NEW c \in Campaigns, NEW u \in Users,
               \/ Adopt(u, c)
               \/ \E chosen \in SUBSET Users : AssignControllers(u, c, chosen)
               \/ ClaimControl(u, c)
               \/ \E target \in Users : RemoveMember(u, target, c)
               \/ \E r \in Roles : JoinCampaign(u, c, r)
               \/ \E target \in Users, r \in Roles : ChangeRole(u, target, c, r)
               \/ ArchiveCampaign(u, c)
               \/ RecoverCampaign(u, c)
             PROVE  CustodyInv'
  BY DEF CustodyStep
<1> USE CustodyAssumption DEF CustodyTypeOK, MembershipTypeOK, CustodyInv, ActiveMembers, IsActiveMember, sheetVars, memberVars
<1>1. CASE Adopt(u, c)
  BY <1>1 DEF Adopt, OwnsStandalone
<1>2. ASSUME NEW chosen \in SUBSET Users, AssignControllers(u, c, chosen)
      PROVE  CustodyInv'
  BY <1>2 DEF AssignControllers
<1>3. CASE ClaimControl(u, c)
  BY <1>3 DEF ClaimControl
<1>4. ASSUME NEW target \in Users, RemoveMember(u, target, c)
      PROVE  CustodyInv'
  <2>1. CASE campaign = c /\ returnOwner = target
    BY <1>4, <2>1 DEF RemoveMember, MemberLeaves
  <2>2. CASE campaign = c /\ returnOwner # target
    BY <1>4, <2>2 DEF RemoveMember, MemberLeaves, WithoutDeparted
  <2>3. CASE campaign # c
    BY <1>4, <2>3 DEF RemoveMember, MemberLeaves
  <2> QED BY <2>1, <2>2, <2>3
<1>5. ASSUME NEW r \in Roles, JoinCampaign(u, c, r)
      PROVE  CustodyInv'
  BY <1>5 DEF JoinCampaign, MemberJoins
<1>6. ASSUME NEW target \in Users, NEW r \in Roles, ChangeRole(u, target, c, r)
      PROVE  CustodyInv'
  BY <1>6 DEF ChangeRole, RoleChanges
<1>7. CASE ArchiveCampaign(u, c)
  BY <1>7 DEF ArchiveCampaign, CampaignArchived
<1>8. CASE RecoverCampaign(u, c)
  BY <1>8 DEF RecoverCampaign, CampaignRecovered
<1> QED BY <1>1, <1>2, <1>3, <1>4, <1>5, <1>6, <1>7, <1>8

LEMMA CommandStepKeepsInv ==
  ASSUME CustodyTypeOK, CustodyInv, CommandStep
  PROVE  CustodyInv'
BY CustodyAssumption
DEF CommandStep, EditSheet, RenameSheet, TransferSheet, SetLifecycle, OwnsStandalone,
    CustodyTypeOK, MembershipTypeOK, CustodyInv, ActiveMembers, IsActiveMember, memberVars

LEMMA CustodyInitIsFine == CustodyInit => CustodyTypeOK /\ CustodyInv
<1> SUFFICES ASSUME CustodyInit PROVE CustodyTypeOK /\ CustodyInv
  OBVIOUS
<1> USE CustodyAssumption DEF CustodyInit, Founded, NewSheet
<1>1. CustodyTypeOK
  BY DEF CustodyTypeOK, MembershipTypeOK, ActiveMembers
<1>2. CustodyInv
  BY DEF CustodyInv
<1> QED BY <1>1, <1>2

(* The stored sheet and membership always have their types. *)
THEOREM CustodyTypeCorrect == CustodySpec => []CustodyTypeOK
<1>1. CustodyInit => CustodyTypeOK
  BY CustodyInitIsFine
<1>2. CustodyTypeOK /\ [CustodyStep \/ (revision < MaxRevision /\ CommandStep)]_custodyVars
        => CustodyTypeOK'
  <2> SUFFICES ASSUME CustodyTypeOK,
                      [CustodyStep \/ (revision < MaxRevision /\ CommandStep)]_custodyVars
               PROVE  CustodyTypeOK'
    OBVIOUS
  <2>1. CASE CustodyStep
    BY <2>1, CustodyStepKeepsType
  <2>2. CASE CommandStep
    BY <2>2, CommandStepKeepsType
  <2>3. CASE UNCHANGED custodyVars
    BY <2>3 DEF CustodyTypeOK, MembershipTypeOK, custodyVars
  <2> QED BY <2>1, <2>2, <2>3
<1> QED BY <1>1, <1>2, PTL DEF CustodySpec

(* Through every order of adoptions, assignments, claims, removals, returns *)
(* and commands a sheet has exactly one kind of custody, only active        *)
(* members control it and a return owner keeps control until the return     *)
(* (characters_ownership_scope_check, removeMember, returnForMember).       *)
THEOREM CustodyIsConsistent == CustodySpec => []CustodyInv
<1>1. CustodyInit => CustodyInv
  BY CustodyInitIsFine
<1>2. CustodyTypeOK /\ CustodyInv
        /\ [CustodyStep \/ (revision < MaxRevision /\ CommandStep)]_custodyVars
        => CustodyInv'
  <2> SUFFICES ASSUME CustodyTypeOK, CustodyInv,
                      [CustodyStep \/ (revision < MaxRevision /\ CommandStep)]_custodyVars
               PROVE  CustodyInv'
    OBVIOUS
  <2>1. CASE CustodyStep
    BY <2>1, CustodyStepKeepsInv
  <2>2. CASE CommandStep
    BY <2>2, CommandStepKeepsInv
  <2>3. CASE UNCHANGED custodyVars
    BY <2>3 DEF CustodyInv, ActiveMembers, IsActiveMember, custodyVars
  <2> QED BY <2>1, <2>2, <2>3
<1> QED BY <1>1, <1>2, CustodyTypeCorrect, PTL DEF CustodySpec

(* Every campaign keeps exactly one owner: the owner row is never removed,  *)
(* demoted or joined by a second one (policy.ts).                           *)
THEOREM CampaignsKeepTheirOwner == CustodySpec => []OneCampaignOwner
<1>1. CustodyInit => OneCampaignOwner
  <2> SUFFICES ASSUME CustodyInit, NEW c \in Campaigns
               PROVE  \E u \in Users : {v \in Users : role[c][v] = "owner"} = {u}
    BY DEF OneCampaignOwner
  <2>1. PICK founder \in [Campaigns -> Users] :
          role = [d \in Campaigns |-> [u \in Users |-> IF u = founder[d] THEN "owner" ELSE "none"]]
    BY DEF CustodyInit, Founded, NewSheet
  <2>2. \A v \in Users : role[c][v] = "owner" <=> v = founder[c]
    BY <2>1
  <2> WITNESS founder[c] \in Users
  <2> QED BY <2>2
<1>2. CustodyTypeOK /\ OneCampaignOwner
        /\ [CustodyStep \/ (revision < MaxRevision /\ CommandStep)]_custodyVars
        => OneCampaignOwner'
  <2> SUFFICES ASSUME CustodyTypeOK, OneCampaignOwner,
                      [CustodyStep \/ (revision < MaxRevision /\ CommandStep)]_custodyVars,
                      NEW c \in Campaigns, NEW u \in Users,
                      {v \in Users : role[c][v] = "owner"} = {u}
               PROVE  {v \in Users : role'[c][v] = "owner"} = {u}
    BY DEF OneCampaignOwner
  <2>1. SUFFICES ASSUME NEW v \in Users
                 PROVE  role'[c][v] = "owner" <=> role[c][v] = "owner"
    OBVIOUS
  <2>2. CASE UNCHANGED role
    BY <2>2
  <2>3. ASSUME NEW d \in Campaigns, NEW caller \in Users, NEW target \in Users,
               RemoveMember(caller, target, d)
        PROVE  role'[c][v] = "owner" <=> role[c][v] = "owner"
    BY <2>3 DEF RemoveMember, MemberLeaves, MayRemove, CustodyTypeOK, MembershipTypeOK
  <2>4. ASSUME NEW d \in Campaigns, NEW joiner \in Users, NEW r \in Roles,
               JoinCampaign(joiner, d, r)
        PROVE  role'[c][v] = "owner" <=> role[c][v] = "owner"
    BY <2>4 DEF JoinCampaign, MemberJoins, IsActiveMember, CustodyTypeOK, MembershipTypeOK
  <2>5. ASSUME NEW d \in Campaigns, NEW caller \in Users, NEW target \in Users, NEW r \in Roles,
               ChangeRole(caller, target, d, r)
        PROVE  role'[c][v] = "owner" <=> role[c][v] = "owner"
    BY <2>5 DEF ChangeRole, RoleChanges, MayChangeRole, CustodyTypeOK, MembershipTypeOK
  <2>6. CASE CustodyStep
    BY <2>2, <2>3, <2>4, <2>5, <2>6
    DEF CustodyStep, Adopt, AssignControllers, ClaimControl, ArchiveCampaign, CampaignArchived, RecoverCampaign, CampaignRecovered, memberVars
  <2>7. CASE CommandStep
    BY <2>2, <2>7 DEF CommandStep, EditSheet, RenameSheet, TransferSheet, SetLifecycle, memberVars
  <2>8. CASE UNCHANGED custodyVars
    BY <2>2, <2>8 DEF custodyVars
  <2> QED BY <2>6, <2>7, <2>8
<1> QED BY <1>1, <1>2, CustodyTypeCorrect, PTL DEF CustodySpec

(* No adoption, return or transfer goes unnoticed by a holder of an old     *)
(* revision, and none of the sheet's counters ever goes back.               *)
THEOREM CustodyNeverChangesUnseen == CustodySpec => CustodyChangesAreVisible
<1>1. CustodyTypeOK /\ [CustodyStep \/ (revision < MaxRevision /\ CommandStep)]_custodyVars
        => [/\ revision' >= revision /\ placement' >= placement
            /\ <<owner, campaign>>' # <<owner, campaign>> => revision' > revision
            /\ campaign' # campaign => placement' > placement]_custodyVars
  <2> SUFFICES ASSUME CustodyTypeOK, CustodyStep \/ CommandStep
               PROVE  /\ revision' >= revision /\ placement' >= placement
                      /\ <<owner, campaign>>' # <<owner, campaign>> => revision' > revision
                      /\ campaign' # campaign => placement' > placement
    OBVIOUS
  <2> USE DEF CustodyTypeOK, MembershipTypeOK
  <2>1. CASE CommandStep
    BY <2>1 DEF CommandStep, EditSheet, RenameSheet, TransferSheet, SetLifecycle
  <2>2. CASE CustodyStep
    <3>1. ASSUME NEW c \in Campaigns, NEW u \in Users, NEW target \in Users, RemoveMember(u, target, c)
          PROVE  /\ revision' >= revision /\ placement' >= placement
                 /\ <<owner, campaign>>' # <<owner, campaign>> => revision' > revision
                 /\ campaign' # campaign => placement' > placement
      BY <3>1 DEF RemoveMember, MemberLeaves, NextPlacement
    <3>2. ASSUME NEW c \in Campaigns, NEW u \in Users, Adopt(u, c)
          PROVE  revision' = revision + 1 /\ placement' = placement + 1
      BY <3>2 DEF Adopt, NextPlacement
    <3> QED BY <2>2, <3>1, <3>2
        DEF CustodyStep, AssignControllers, ClaimControl, JoinCampaign, MemberJoins, ChangeRole, RoleChanges,
            ArchiveCampaign, CampaignArchived, RecoverCampaign, CampaignRecovered, sheetVars
  <2> QED BY <2>1, <2>2
<1> QED BY <1>1, CustodyTypeCorrect, PTL DEF CustodySpec, CustodyChangesAreVisible

(* A membership that ends or begins anew always has a later generation.     *)
THEOREM MembershipErasNeverRepeat == CustodySpec => MembershipErasAreDistinct
<1>1. CustodyTypeOK /\ [CustodyStep \/ (revision < MaxRevision /\ CommandStep)]_custodyVars
        => [\A c \in Campaigns, u \in Users :
              IsActiveMember(c, u)' # IsActiveMember(c, u)
                => generation'[c][u] > generation[c][u]]_memberVars
  <2> SUFFICES ASSUME CustodyTypeOK, CustodyStep \/ CommandStep,
                      NEW c \in Campaigns, NEW u \in Users
               PROVE  IsActiveMember(c, u)' # IsActiveMember(c, u)
                        => generation'[c][u] > generation[c][u]
    BY DEF custodyVars, memberVars
  <2> USE DEF CustodyTypeOK, MembershipTypeOK, IsActiveMember
  <2>1. CASE UNCHANGED role
    BY <2>1
  <2>2. ASSUME NEW d \in Campaigns, NEW caller \in Users, NEW target \in Users,
               RemoveMember(caller, target, d)
        PROVE  IsActiveMember(c, u)' # IsActiveMember(c, u)
                 => generation'[c][u] > generation[c][u]
    BY <2>2 DEF RemoveMember, MemberLeaves, NextGeneration
  <2>3. ASSUME NEW d \in Campaigns, NEW joiner \in Users, NEW r \in Roles,
               JoinCampaign(joiner, d, r)
        PROVE  IsActiveMember(c, u)' # IsActiveMember(c, u)
                 => generation'[c][u] > generation[c][u]
    BY <2>3 DEF JoinCampaign, MemberJoins, NextGeneration
  <2>4. ASSUME NEW d \in Campaigns, NEW caller \in Users, NEW target \in Users, NEW r \in Roles,
               ChangeRole(caller, target, d, r)
        PROVE  IsActiveMember(c, u)' = IsActiveMember(c, u)
    BY <2>4 DEF ChangeRole, RoleChanges, MayChangeRole
  <2> QED BY <2>1, <2>2, <2>3, <2>4
      DEF CustodyStep, CommandStep, EditSheet, RenameSheet, TransferSheet, SetLifecycle,
          Adopt, AssignControllers, ClaimControl, ArchiveCampaign, CampaignArchived, RecoverCampaign, CampaignRecovered, memberVars
<1> QED BY <1>1, CustodyTypeCorrect, PTL DEF CustodySpec, MembershipErasAreDistinct
=============================================================================
