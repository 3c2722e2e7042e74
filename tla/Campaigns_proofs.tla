-------------------------- MODULE Campaigns_proofs --------------------------
(***************************************************************************)
(* What Invitations, CampaignContent and CampaignCatalog promise, proved   *)
(* for any accounts, campaigns and limits.  The lemmas on the commands of  *)
(* CampaignCommands come first, because all three take their steps.        *)
(***************************************************************************)
EXTENDS Invitations, CampaignContent, CampaignCatalog, FiniteSetTheorems, TLAPS

(* A step of the members or the lifecycle of c. *)
CampaignStep(c) ==
  \E u, target \in Users, r \in Roles :
    \/ Leave(u, target, c)
    \/ MemberJoins(u, c, r) /\ Bump(c)
    \/ SetRole(u, target, c, r)
    \/ Archive(u, c)
    \/ Recover(u, c)
    \/ Update(u, c)

LEMMA CountersGrow ==
  ASSUME CampaignTypeOK, NEW c \in Campaigns, Bump(c)
  PROVE  /\ campaignRevision' \in [Campaigns -> Nat \ {0}]
         /\ accessRevision' \in [Campaigns -> Nat \ {0}]
         /\ \A d \in Campaigns : accessRevision'[d] >= accessRevision[d]
         /\ accessRevision'[c] > accessRevision[c]
BY DEF CampaignTypeOK, Bump

LEMMA CampaignStepKeepsType ==
  ASSUME CampaignTypeOK, NEW c \in Campaigns, CampaignStep(c)
  PROVE  CampaignTypeOK'
<1> SUFFICES ASSUME NEW u \in Users, NEW target \in Users, NEW r \in Roles,
               \/ Leave(u, target, c)
               \/ MemberJoins(u, c, r) /\ Bump(c)
               \/ SetRole(u, target, c, r)
               \/ Archive(u, c)
               \/ Recover(u, c)
               \/ Update(u, c)
             PROVE  CampaignTypeOK'
  BY DEF CampaignStep
<1> USE DEF CampaignTypeOK, MembershipTypeOK, Roles, ActiveRoles
<1>1. CASE Leave(u, target, c)
  BY <1>1, CountersGrow DEF Leave, MemberLeaves, NextGeneration
<1>2. CASE MemberJoins(u, c, r) /\ Bump(c)
  BY <1>2, CountersGrow DEF MemberJoins, NextGeneration
<1>3. CASE SetRole(u, target, c, r)
  BY <1>3, CountersGrow DEF SetRole, RoleChanges
<1>4. CASE Archive(u, c)
  BY <1>4, CountersGrow DEF Archive, CampaignArchived
<1>5. CASE Recover(u, c)
  BY <1>5, CountersGrow DEF Recover, CampaignRecovered
<1>6. CASE Update(u, c)
  BY <1>6 DEF Update, memberVars
<1> QED BY <1>1, <1>2, <1>3, <1>4, <1>5, <1>6

(* What a step of the members does to one membership: nobody is touched but *)
(* who leaves, joins or gets a role, and only those who leave or join get   *)
(* another generation.                                                      *)
LEMMA MembershipsMove ==
  ASSUME CampaignTypeOK, NEW c \in Campaigns, CampaignStep(c), NEW d \in Campaigns, NEW v \in Users
  PROVE  \/ role'[d][v] = role[d][v] /\ generation'[d][v] = generation[d][v]
         \/ /\ IsActiveMember(d, v) /\ IsActiveMember(d, v)'
            /\ role[d][v] # "owner" /\ role'[d][v] # "owner"
            /\ generation'[d][v] = generation[d][v]
         \/ d = c /\ IsActiveMember(d, v) /\ ~ IsActiveMember(d, v)' /\ \E u \in Users : Leave(u, v, c)
         \/ d = c /\ ~ IsActiveMember(d, v) /\ \E r \in Roles : MemberJoins(v, c, r) /\ Bump(c)
<1> USE DEF CampaignTypeOK, MembershipTypeOK, Roles, ActiveRoles, IsActiveMember
<1>1. PICK u \in Users, target \in Users, r \in Roles :
        \/ Leave(u, target, c)
        \/ MemberJoins(u, c, r) /\ Bump(c)
        \/ SetRole(u, target, c, r)
        \/ Archive(u, c)
        \/ Recover(u, c)
        \/ Update(u, c)
  BY DEF CampaignStep
<1>2. CASE Leave(u, target, c)
  <2>1. CASE d = c /\ v = target
    BY <1>2, <2>1 DEF Leave, MemberLeaves, MayRemove
  <2>2. CASE ~ (d = c /\ v = target)
    BY <1>2, <2>2 DEF Leave, MemberLeaves
  <2> QED BY <2>1, <2>2
<1>3. CASE MemberJoins(u, c, r) /\ Bump(c)
  <2>1. CASE d = c /\ v = u
    BY <1>3, <2>1 DEF MemberJoins
  <2>2. CASE ~ (d = c /\ v = u)
    BY <1>3, <2>2 DEF MemberJoins
  <2> QED BY <2>1, <2>2
<1>4. CASE SetRole(u, target, c, r)
  <2>1. CASE d = c /\ v = target
    BY <1>4, <2>1 DEF SetRole, RoleChanges, MayChangeRole
  <2>2. CASE ~ (d = c /\ v = target)
    BY <1>4, <2>2 DEF SetRole, RoleChanges
  <2> QED BY <2>1, <2>2
<1>5. CASE Archive(u, c) \/ Recover(u, c) \/ Update(u, c)
  BY <1>5 DEF Archive, CampaignArchived, Recover, CampaignRecovered, Update, memberVars
<1> QED BY <1>1, <1>2, <1>3, <1>4, <1>5

(* Who is a member stays one while nobody leaves. *)
LEMMA StayersStay ==
  ASSUME CampaignTypeOK, NEW c \in Campaigns, NEW u \in Users, NEW target \in Users, NEW r \in Roles,
         \/ MemberJoins(u, c, r) /\ Bump(c)
         \/ SetRole(u, target, c, r)
         \/ Archive(u, c)
         \/ Recover(u, c)
         \/ Update(u, c),
         NEW d \in Campaigns, NEW v \in Users, IsActiveMember(d, v)
  PROVE  IsActiveMember(d, v)' /\ generation'[d][v] = generation[d][v]
<1> USE DEF CampaignTypeOK, MembershipTypeOK, IsActiveMember, ActiveRoles
<1>1. CASE MemberJoins(u, c, r) /\ Bump(c)
  BY <1>1 DEF MemberJoins
<1>2. CASE SetRole(u, target, c, r)
  BY <1>2 DEF SetRole, RoleChanges
<1>3. CASE Archive(u, c) \/ Recover(u, c) \/ Update(u, c)
  BY <1>3 DEF Archive, CampaignArchived, Recover, CampaignRecovered, Update, memberVars
<1> QED BY <1>1, <1>2, <1>3

LEMMA GatheredIsTyped == Gathered => CampaignTypeOK
BY DEF Gathered, CampaignTypeOK, MembershipTypeOK, Roles

----------------------------------------------------------------------------
(* Notes *)

NotesTyped == CampaignTypeOK /\ notes \in [Notes -> Note]

LEMMA NoteIsTyped ==
  ASSUME NotesTyped, NEW n \in Notes
  PROVE  /\ notes[n].campaign \in Campaigns /\ notes[n].audience \in Audiences
         /\ notes[n].grants \subseteq NoteGrant /\ notes[n].revision \in Nat
BY DEF NotesTyped, Note

LEMMA GrantsAreTyped ==
  ASSUME CampaignTypeOK, NEW c \in Campaigns, NEW chosen \in SUBSET Users
  PROVE  Grants(c, chosen) \subseteq NoteGrant
BY DEF CampaignTypeOK, MembershipTypeOK, Grants, NoteGrant

LEMMA WrittenIsTyped ==
  ASSUME NEW c \in Campaigns, NEW u \in Users, NEW audience \in Audiences, NEW t \in Nat
  PROVE  Written(c, u, audience, t) \in Note
BY DEF Written, Unwritten, Note, NoteGrant, Audiences

(* The fields of a note one at a time.                                      *)
LEMMA NoteFields ==
  ASSUME NEW x \in Note
  PROVE  /\ \A g \in SUBSET NoteGrant : [x EXCEPT !.grants = g] \in Note
         /\ \A a \in Audiences : [x EXCEPT !.audience = a] \in Note
         /\ \A s \in {"active", "deleted"} : [x EXCEPT !.status = s] \in Note
         /\ \A k \in Nat : [x EXCEPT !.revision = k] \in Note
BY DEF Note

(* A note and the memberships its grants were given to.                     *)
Sound(note) ==
  \A g \in note.grants :
    IsActiveMember(note.campaign, g.user) /\ g.since = generation[note.campaign][g.user]

LEMMA RevisedIsSound ==
  ASSUME NotesTyped, GrantsAreOfThisMembership, NEW n \in Notes, NEW x \in Note, Revise(n, x),
         x.campaign = notes[n].campaign, Sound(x)
  PROVE  NotesTyped' /\ GrantsAreOfThisMembership'
<1> DEFINE y == [x EXCEPT !.revision = @ + 1]
<1>1. y \in Note /\ y.campaign = notes[n].campaign /\ y.grants = x.grants
  <2>1. x.revision + 1 \in Nat
    BY DEF Note
  <2> QED BY <2>1, NoteFields DEF Note
<1>2. notes' = [notes EXCEPT ![n] = y]
  BY DEF Revise
<1> HIDE DEF y
<1>3. notes' \in [Notes -> Note] /\ notes'[n] = y /\ \A m \in Notes : m # n => notes'[m] = notes[m]
  BY <1>1, <1>2 DEF NotesTyped
<1>4. UNCHANGED campaignVars
  BY DEF Revise
<1>5. NotesTyped'
  BY <1>3, <1>4 DEF NotesTyped, CampaignTypeOK, MembershipTypeOK, campaignVars
<1>6. GrantsAreOfThisMembership'
  BY <1>1, <1>3, <1>4 DEF GrantsAreOfThisMembership, Sound, IsActiveMember, campaignVars
<1> QED BY <1>5, <1>6

LEMMA NewGrantsAreSound ==
  ASSUME NotesTyped, NEW c \in Campaigns, NEW chosen \in SUBSET Users, MayReceive(c, chosen)
  PROVE  \A g \in Grants(c, chosen) : IsActiveMember(c, g.user) /\ g.since = generation[c][g.user]
BY DEF Grants, MayReceive, ActiveMembers

LEMMA CreateKeepsGrants ==
  ASSUME NotesTyped, GrantsAreOfThisMembership, NEW u \in Users, NEW n \in Notes,
         NEW audience \in Audiences, NEW chosen \in SUBSET Users,
         CreateContent(u, n, audience, chosen)
  PROVE  NotesTyped' /\ GrantsAreOfThisMembership'
<1>1. PICK c \in Campaigns : c = notes[n].campaign
  BY NoteIsTyped
<1>2. PICK t \in 1..MaxTime :
        notes' = [notes EXCEPT ![n] =
          [Written(c, u, audience, t) EXCEPT !.grants = Grants(c, chosen),
                                             !.revision = IF chosen = {} THEN 1 ELSE 2]]
  BY <1>1 DEF CreateContent
<1> DEFINE k == IF chosen = {} THEN 1 ELSE 2
           x == [Written(c, u, audience, t) EXCEPT !.grants = Grants(c, chosen)]
           y == [x EXCEPT !.revision = k]
<1>3. x \in Note
  <2>1. t \in Nat
    BY ContentAssumption
  <2>2. Written(c, u, audience, t) \in Note /\ Grants(c, chosen) \in SUBSET NoteGrant
    BY <2>1, WrittenIsTyped, GrantsAreTyped DEF NotesTyped
  <2> QED BY <2>2, NoteFields
<1>4. x.campaign = c /\ x.grants = Grants(c, chosen)
  BY DEF Written, Unwritten
<1> HIDE DEF x
<1>5. y \in Note /\ y.campaign = c /\ y.grants = Grants(c, chosen)
  BY <1>3, <1>4, NoteFields DEF Note
<1>6. notes' = [notes EXCEPT ![n] = y]
  BY <1>2 DEF x
<1> HIDE DEF y, k
<1>7. notes' \in [Notes -> Note] /\ notes'[n] = y /\ \A m \in Notes : m # n => notes'[m] = notes[m]
  BY <1>5, <1>6 DEF NotesTyped
<1>8. UNCHANGED campaignVars /\ MayReceive(c, chosen)
  BY <1>1 DEF CreateContent
<1>9. NotesTyped'
  BY <1>7, <1>8 DEF NotesTyped, CampaignTypeOK, MembershipTypeOK, campaignVars
<1>10. \A g \in Grants(c, chosen) : IsActiveMember(c, g.user) /\ g.since = generation[c][g.user]
  BY <1>8, NewGrantsAreSound
<1>11. GrantsAreOfThisMembership'
  BY <1>5, <1>7, <1>8, <1>10 DEF GrantsAreOfThisMembership, IsActiveMember, campaignVars
<1> QED BY <1>9, <1>11

LEMMA ContentCommandKeepsGrants ==
  ASSUME NotesTyped, GrantsAreOfThisMembership, NEW u \in Users, NEW n \in Notes, ContentCommand(u, n)
  PROVE  NotesTyped' /\ GrantsAreOfThisMembership'
<1>1. notes[n] \in Note /\ Sound(notes[n])
  BY DEF NotesTyped, GrantsAreOfThisMembership, Sound
<1>2. ASSUME NEW audience \in Audiences, UpdateContent(u, n, audience)
      PROVE  NotesTyped' /\ GrantsAreOfThisMembership'
  <2> DEFINE x == [notes[n] EXCEPT !.audience = audience]
  <2>1. x \in Note /\ x.campaign = notes[n].campaign /\ x.grants = notes[n].grants
    BY <1>1, NoteFields DEF Note
  <2>2. Revise(n, x)
    BY <1>2 DEF UpdateContent
  <2> HIDE DEF x
  <2> QED BY <1>1, <2>1, <2>2, RevisedIsSound DEF Sound
<1>3. ASSUME NEW s \in {"active", "deleted"}, Revise(n, [notes[n] EXCEPT !.status = s])
      PROVE  NotesTyped' /\ GrantsAreOfThisMembership'
  <2> DEFINE x == [notes[n] EXCEPT !.status = s]
  <2>1. x \in Note /\ x.campaign = notes[n].campaign /\ x.grants = notes[n].grants
    BY <1>1, NoteFields DEF Note
  <2>2. Revise(n, x)
    BY <1>3
  <2> HIDE DEF x
  <2> QED BY <1>1, <2>1, <2>2, RevisedIsSound DEF Sound
<1>4. ASSUME NEW chosen \in SUBSET Users, ReplaceGrants(u, n, chosen)
      PROVE  NotesTyped' /\ GrantsAreOfThisMembership'
  <2>1. PICK c \in Campaigns : c = notes[n].campaign
    BY NoteIsTyped
  <2> DEFINE x == [notes[n] EXCEPT !.grants = Grants(c, chosen)]
  <2>2. Grants(c, chosen) \in SUBSET NoteGrant
    BY GrantsAreTyped DEF NotesTyped
  <2>3. x \in Note /\ x.campaign = c /\ x.grants = Grants(c, chosen)
    BY <1>1, <2>1, <2>2, NoteFields DEF Note
  <2>4. Revise(n, x) /\ MayReceive(c, chosen)
    BY <1>4, <2>1 DEF ReplaceGrants
  <2> HIDE DEF x
  <2>5. Sound(x)
    BY <2>3, <2>4, NewGrantsAreSound DEF Sound
  <2> QED BY <2>1, <2>3, <2>4, <2>5, RevisedIsSound
<1> QED
  BY <1>2, <1>3, <1>4, CreateKeepsGrants DEF ContentCommand, DeleteContent, RecoverContent

LEMMA ChangeMembersKeepsGrants ==
  ASSUME NotesTyped, GrantsAreOfThisMembership, NEW c \in Campaigns, ChangeMembers(c)
  PROVE  NotesTyped' /\ GrantsAreOfThisMembership'
<1>1. CampaignStep(c)
  <2>1. "player" \in Roles
    BY DEF Roles, ActiveRoles
  <2> QED BY <2>1 DEF ChangeMembers, CampaignStep
<1>2. CampaignTypeOK'
  BY <1>1, CampaignStepKeepsType DEF NotesTyped
<1>3. CASE \E u, target \in Users : Leave(u, target, c) /\ notes' = GrantsWithout(c, target)
  <2>1. PICK target \in Users : /\ \E u \in Users : Leave(u, target, c)
                                /\ notes' = GrantsWithout(c, target)
    BY <1>3
  <2>2. \A n \in Notes :
          /\ notes'[n] \in Note /\ notes'[n].campaign = notes[n].campaign
          /\ notes'[n].grants \subseteq notes[n].grants
          /\ notes[n].campaign = c => \A g \in notes'[n].grants : g.user # target
    <3> SUFFICES ASSUME NEW n \in Notes
                 PROVE  /\ notes'[n] \in Note /\ notes'[n].campaign = notes[n].campaign
                        /\ notes'[n].grants \subseteq notes[n].grants
                        /\ notes[n].campaign = c => \A g \in notes'[n].grants : g.user # target
      OBVIOUS
    <3>1. notes[n] \in Note
      BY DEF NotesTyped
    <3>2. CASE notes[n].campaign # c
      BY <2>1, <3>1, <3>2 DEF GrantsWithout
    <3>3. CASE notes[n].campaign = c
      <4> DEFINE kept == {g \in notes[n].grants : g.user # target}
      <4>1. kept \in SUBSET NoteGrant
        BY <3>1 DEF Note
      <4>2. notes'[n] = [notes[n] EXCEPT !.grants = kept]
        BY <2>1, <3>3 DEF GrantsWithout
      <4>3. /\ [notes[n] EXCEPT !.grants = kept] \in Note
            /\ [notes[n] EXCEPT !.grants = kept].campaign = notes[n].campaign
            /\ [notes[n] EXCEPT !.grants = kept].grants = kept
        <5> HIDE DEF kept
        <5> QED BY <3>1, <4>1, NoteFields DEF Note
      <4> QED BY <4>2, <4>3
    <3> QED BY <3>2, <3>3
  <2>3. notes' \in [Notes -> Note]
    BY <2>1, <2>2 DEF GrantsWithout
  <2>4. \A d \in Campaigns, v \in Users : d # c \/ v # target =>
          role'[d][v] = role[d][v] /\ generation'[d][v] = generation[d][v]
    BY <2>1 DEF Leave, MemberLeaves, NotesTyped, CampaignTypeOK, MembershipTypeOK
  <2>5. \A n \in Notes : \A g \in notes'[n].grants : g \in NoteGrant /\ notes[n].campaign \in Campaigns
    BY <2>2, NoteIsTyped
  <2>6. GrantsAreOfThisMembership'
    BY <2>2, <2>4, <2>5 DEF GrantsAreOfThisMembership, IsActiveMember, NoteGrant
  <2> QED BY <1>2, <2>3, <2>6 DEF NotesTyped
<1>4. ASSUME UNCHANGED notes, NEW u \in Users, NEW target \in Users, NEW r \in Roles,
             \/ MemberJoins(u, c, r) /\ Bump(c)
             \/ SetRole(u, target, c, r)
             \/ Archive(u, c)
             \/ Recover(u, c)
      PROVE  NotesTyped' /\ GrantsAreOfThisMembership'
  <2>1. ASSUME NEW n \in Notes, NEW g \in notes[n].grants
        PROVE  /\ IsActiveMember(notes[n].campaign, g.user)'
               /\ g.since = generation'[notes[n].campaign][g.user]
    <3>1. PICK d \in Campaigns, v \in Users : d = notes[n].campaign /\ v = g.user
      BY NoteIsTyped DEF NoteGrant
    <3>2. IsActiveMember(d, v) /\ g.since = generation[d][v]
      BY <3>1 DEF GrantsAreOfThisMembership
    <3>3. IsActiveMember(d, v)' /\ generation'[d][v] = generation[d][v]
      BY <1>4, <3>2, StayersStay DEF NotesTyped
    <3> QED BY <1>4, <3>1, <3>2, <3>3 DEF IsActiveMember
  <2> QED BY <1>2, <1>4, <2>1 DEF NotesTyped, GrantsAreOfThisMembership
<1> QED
  <2>1. "player" \in Roles
    BY DEF Roles, ActiveRoles
  <2> QED BY <1>3, <1>4, <2>1 DEF ChangeMembers

LEMMA NotesStayTyped == ContentSpec => [](NotesTyped /\ GrantsAreOfThisMembership)
<1>1. ContentInit => NotesTyped /\ GrantsAreOfThisMembership
  <2> SUFFICES ASSUME ContentInit PROVE NotesTyped /\ GrantsAreOfThisMembership
    OBVIOUS
  <2>1. \A n \in Notes : notes[n] \in Note /\ notes[n].grants = {}
    <3> SUFFICES ASSUME NEW n \in Notes PROVE notes[n] \in Note /\ notes[n].grants = {}
      OBVIOUS
    <3>1. ASSUME NEW c \in Campaigns, notes[n] = Unwritten(c)
          PROVE  notes[n] \in Note /\ notes[n].grants = {}
      BY <3>1 DEF Unwritten, Note, Audiences
    <3>2. ASSUME NEW c \in Campaigns, NEW u \in Users, NEW audience \in Audiences, NEW t \in 1..MaxTime,
                 notes[n] = Written(c, u, audience, t)
          PROVE  notes[n] \in Note /\ notes[n].grants = {}
      <4>1. t \in Nat
        BY ContentAssumption
      <4>2. Written(c, u, audience, t) \in Note
        BY <4>1, WrittenIsTyped
      <4>3. Written(c, u, audience, t).grants = {}
        BY DEF Written, Unwritten
      <4> QED BY <3>2, <4>2, <4>3
    <3> QED BY <3>1, <3>2 DEF ContentInit
  <2>2. DOMAIN notes = Notes /\ notes = [n \in Notes |-> notes[n]]
    BY DEF ContentInit
  <2> QED BY <2>1, <2>2, GatheredIsTyped DEF ContentInit, NotesTyped, GrantsAreOfThisMembership
<1>2. NotesTyped /\ GrantsAreOfThisMembership /\ [ContentNext]_contentVars
        => NotesTyped' /\ GrantsAreOfThisMembership'
  <2> SUFFICES ASSUME NotesTyped, GrantsAreOfThisMembership, [ContentNext]_contentVars
               PROVE  NotesTyped' /\ GrantsAreOfThisMembership'
    OBVIOUS
  <2>1. CASE UNCHANGED <<campaignVars, notes>>
    BY <2>1 DEF campaignVars, NotesTyped, CampaignTypeOK, MembershipTypeOK, GrantsAreOfThisMembership,
                IsActiveMember
  <2> QED BY <2>1, ContentCommandKeepsGrants, ChangeMembersKeepsGrants
      DEF ContentNext, ListStep, contentVars
<1> QED BY <1>1, <1>2, PTL DEF ContentSpec

(* No grant survives the membership it was given to: leaving deletes it in  *)
(* the same transaction, so who comes back or joins later reads nothing by  *)
(* it (deleteContentGrantsForMember).                                       *)
THEOREM GrantsEndWithMembership == ContentSpec => []GrantsAreOfThisMembership
BY NotesStayTyped, PTL

----------------------------------------------------------------------------
(* Lists of notes *)

(* The notes of S that are listed before n, and a page of S in its order.   *)
Ahead(S, n) == {m \in S : Before(m, n)}
Sorted(s)   == \A i, j \in DOMAIN s : i < j => Before(s[i], s[j])
InOrder(S)  == CHOOSE s \in [1..Cardinality(S) -> S] : Sorted(s)

LEMMA BeforeIsAnOrder ==
  ASSUME NotesTyped
  PROVE  /\ \A n \in Notes : ~ Before(n, n)
         /\ \A n, m \in Notes : n = m \/ Before(n, m) \/ Before(m, n)
         /\ \A n, m, k \in Notes : Before(n, m) /\ Before(m, k) => Before(n, k)
<1>1. \A n \in Notes : n \in Nat /\ notes[n].created \in Nat
  BY ContentAssumption DEF NotesTyped, Note
<1> QED BY <1>1 DEF Before

LEMMA RanksOrder ==
  ASSUME NotesTyped, NEW S, S \subseteq Notes, IsFiniteSet(S),
         NEW n \in S, NEW m \in S, Before(n, m)
  PROVE  Cardinality(Ahead(S, n)) < Cardinality(Ahead(S, m))
<1>1. Ahead(S, n) \subseteq Ahead(S, m) /\ n \in Ahead(S, m) \ Ahead(S, n)
  BY BeforeIsAnOrder DEF Ahead
<1>2. IsFiniteSet(Ahead(S, m)) /\ IsFiniteSet(Ahead(S, n))
  BY FS_Subset DEF Ahead
<1>3. /\ Cardinality(Ahead(S, n)) <= Cardinality(Ahead(S, m))
      /\ Cardinality(Ahead(S, m)) = Cardinality(Ahead(S, n)) => Ahead(S, m) = Ahead(S, n)
  BY <1>1, <1>2, FS_Subset
<1>4. Cardinality(Ahead(S, n)) \in Nat /\ Cardinality(Ahead(S, m)) \in Nat
  BY <1>2, FS_CardinalityType
<1> QED BY <1>1, <1>3, <1>4

(* There is an enumeration of any set of notes in the order of the list:    *)
(* the ranks of its notes are as many as the notes.                          *)
LEMMA SetsAreSorted ==
  ASSUME NotesTyped, NEW S, S \subseteq Notes, IsFiniteSet(S)
  PROVE  \E s \in [1..Cardinality(S) -> S] : Sorted(s)
<1> DEFINE N == Cardinality(S)
           rank == [n \in S |-> Cardinality(Ahead(S, n)) + 1]
           s == [i \in 1..N |-> CHOOSE n \in S : rank[n] = i]
<1>1. N \in Nat
  BY FS_CardinalityType
<1>2. ASSUME NEW n \in S  PROVE rank[n] \in 1..N
  <2>1. Ahead(S, n) \in SUBSET S /\ n \notin Ahead(S, n)
    BY BeforeIsAnOrder DEF Ahead
  <2>2. /\ IsFiniteSet(Ahead(S, n)) /\ Cardinality(Ahead(S, n)) <= N
        /\ N = Cardinality(Ahead(S, n)) => S = Ahead(S, n)
    BY <2>1, FS_Subset
  <2>3. Cardinality(Ahead(S, n)) \in Nat
    BY <2>2, FS_CardinalityType
  <2> QED BY <1>1, <2>1, <2>2, <2>3
<1>3. ASSUME NEW n \in S, NEW m \in S, rank[n] = rank[m]  PROVE n = m
  <2>1. \A k \in S : Cardinality(Ahead(S, k)) \in Nat
    BY FS_Subset, FS_CardinalityType DEF Ahead
  <2>2. ~ Before(n, m)
    BY <1>3, <2>1, RanksOrder
  <2>3. ~ Before(m, n)
    BY <1>3, <2>1, RanksOrder
  <2> QED BY <2>2, <2>3, BeforeIsAnOrder
<1>4. rank \in Injection(S, 1..N)
  BY <1>2, <1>3 DEF Injection, IsInjective
<1>5. IsFiniteSet(1..N) /\ Cardinality(1..N) = N
  BY <1>1, FS_Interval
<1>6. rank \in Surjection(S, 1..N)
  BY <1>4, <1>5, FS_Injection
<1>7. \A i \in 1..N : \E n \in S : rank[n] = i
  BY <1>6 DEF Surjection
<1>8. ASSUME NEW i \in 1..N  PROVE s[i] \in S /\ rank[s[i]] = i
  BY <1>7
<1>9. s \in [1..N -> S]
  BY <1>8
<1>10. ASSUME NEW i \in DOMAIN s, NEW j \in DOMAIN s, i < j  PROVE Before(s[i], s[j])
  <2>1. s[i] \in S /\ s[j] \in S /\ rank[s[i]] = i /\ rank[s[j]] = j
    BY <1>8, <1>10
  <2>2. \A n \in S : rank[n] \in Nat
    BY <1>2
  <2> HIDE DEF s
  <2>3. PICK a \in S, b \in S : a = s[i] /\ b = s[j]
    BY <2>1
  <2>4. ~ Before(b, a) /\ a # b
    <3>1. \A k \in S : Cardinality(Ahead(S, k)) \in Nat
      BY FS_Subset, FS_CardinalityType DEF Ahead
    <3>2. rank[a] < rank[b] /\ rank[a] \in Nat /\ rank[b] \in Nat
      BY <1>10, <2>1, <2>2, <2>3
    <3>3. ASSUME Before(b, a)  PROVE FALSE
      <4>1. Cardinality(Ahead(S, b)) < Cardinality(Ahead(S, a))
        BY <3>3, RanksOrder
      <4> QED BY <3>1, <3>2, <4>1
    <3>4. a # b
      <4> HIDE DEF rank
      <4> QED BY <3>2
    <3> QED BY <3>3, <3>4
  <2> QED BY <2>3, <2>4, BeforeIsAnOrder
<1> QED BY <1>9, <1>10 DEF Sorted

LEMMA SortedListsAll ==
  ASSUME NotesTyped, NEW S, S \subseteq Notes, IsFiniteSet(S),
         NEW s \in [1..Cardinality(S) -> S], Sorted(s)
  PROVE  /\ \A i, j \in 1..Cardinality(S) : s[i] = s[j] => i = j
         /\ \A n \in S : \E i \in 1..Cardinality(S) : s[i] = n
<1> DEFINE N == Cardinality(S)
<1>1. N \in Nat
  BY FS_CardinalityType
<1>2. ASSUME NEW i \in 1..N, NEW j \in 1..N, s[i] = s[j]  PROVE i = j
  <2>1. ~ (i < j) /\ ~ (j < i)
    BY <1>2, BeforeIsAnOrder DEF Sorted
  <2> QED BY <1>1, <2>1
<1>3. s \in Injection(1..N, S)
  BY <1>2 DEF Injection, IsInjective
<1>4. IsFiniteSet(1..N) /\ Cardinality(1..N) = N
  BY <1>1, FS_Interval
<1>5. s \in Surjection(1..N, S)
  BY <1>3, <1>4, FS_Injection
<1> QED BY <1>2, <1>5 DEF Surjection

(* The page of a list that is not over has a last row, and the rest of the  *)
(* list comes after it.                                                      *)
FirstOf(S) == {n \in S : Cardinality(Ahead(S, n)) < PageSize}

LEMMA PagesAreNotEmpty ==
  ASSUME NotesTyped, NEW S, S \subseteq Notes, IsFiniteSet(S), S # {}
  PROVE  FirstOf(S) # {}
<1>1. PICK s \in [1..Cardinality(S) -> S] : Sorted(s)
  BY SetsAreSorted
<1>2. Cardinality(S) \in Nat /\ Cardinality(S) # 0
  BY FS_CardinalityType, FS_EmptySet
<1>3. 1 \in 1..Cardinality(S) /\ s[1] \in S
  <2>1. \A k \in Nat : k # 0 => 1 \in 1..k
    OBVIOUS
  <2>2. 1 \in 1..Cardinality(S)
    BY <1>2, <2>1
  <2> QED BY <2>2
<1>4. \A m \in S : \E i \in 1..Cardinality(S) : s[i] = m
  BY <1>1, SortedListsAll
<1>5. ASSUME NEW m \in S  PROVE ~ Before(m, s[1])
  <2>1. PICK i \in 1..Cardinality(S) : s[i] = m
    BY <1>4
  <2>2. i = 1 \/ Before(s[1], m)
    BY <1>1, <1>2, <1>3, <2>1 DEF Sorted
  <2> QED BY <1>3, <2>1, <2>2, BeforeIsAnOrder
<1>6. Ahead(S, s[1]) = {}
  BY <1>5 DEF Ahead
<1>7. Cardinality(Ahead(S, s[1])) = 0 /\ 0 < PageSize
  BY <1>6, FS_EmptySet, ContentAssumption
<1> QED BY <1>3, <1>7 DEF FirstOf

LEMMA RestIsAfter ==
  ASSUME NotesTyped, NEW S, S \subseteq Notes, IsFiniteSet(S),
         NEW n \in FirstOf(S), NEW m \in S \ FirstOf(S)
  PROVE  Before(n, m)
<1>1. Cardinality(Ahead(S, n)) \in Nat /\ Cardinality(Ahead(S, m)) \in Nat
  BY FS_Subset, FS_CardinalityType DEF Ahead, FirstOf
<1>2. ~ (Cardinality(Ahead(S, m)) < Cardinality(Ahead(S, n)))
  BY <1>1, ContentAssumption DEF FirstOf
<1>3. n \in S /\ m \in S /\ n # m
  BY DEF FirstOf
<1>4. ~ Before(m, n)
  BY <1>2, <1>3, RanksOrder
<1> QED BY <1>3, <1>4, BeforeIsAnOrder

(* What a step of a list adds.  rows is the page, in its order. *)
LEMMA PageIsListed ==
  ASSUME NotesTyped, NEW S, S \subseteq Notes,
         NEW page, page = FirstOf(S), NEW rows, rows = InOrder(page)
  PROVE  /\ rows \in Seq(page) /\ Len(rows) = Cardinality(page)
         /\ \A i, j \in DOMAIN rows : rows[i] = rows[j] => i = j
         /\ \A n \in page : \E i \in DOMAIN rows : rows[i] = n
         /\ page # S => /\ Len(rows) # 0 /\ rows[Len(rows)] \in page
                        /\ \A n \in page : n = rows[Len(rows)] \/ Before(n, rows[Len(rows)])
                        /\ \A n \in S \ page : Before(rows[Len(rows)], n)
<1> DEFINE N == Cardinality(page)
<1>1. IsFiniteSet(S) /\ IsFiniteSet(page) /\ page \subseteq S
  BY ContentAssumption, FS_Subset DEF FirstOf
<1>2. N \in Nat
  BY <1>1, FS_CardinalityType
<1>3. rows \in [1..N -> page] /\ Sorted(rows)
  BY <1>1, SetsAreSorted DEF InOrder
<1> HIDE DEF N
<1>4. rows \in Seq(page) /\ Len(rows) = N /\ DOMAIN rows = 1..N
  BY <1>2, <1>3
<1>5. /\ \A i, j \in 1..N : rows[i] = rows[j] => i = j
      /\ \A n \in page : \E i \in 1..N : rows[i] = n
  <2>1. page \subseteq Notes /\ IsFiniteSet(page)
    BY <1>1
  <2>2. rows \in [1..Cardinality(page) -> page] /\ Sorted(rows)
    BY <1>3 DEF N
  <2>3. /\ \A i, j \in 1..Cardinality(page) : rows[i] = rows[j] => i = j
        /\ \A n \in page : \E i \in 1..Cardinality(page) : rows[i] = n
    BY ONLY NotesTyped, <2>1, <2>2, SortedListsAll
  <2> QED BY <2>3 DEF N
<1>6. ASSUME page # S
      PROVE  /\ N # 0 /\ rows[N] \in page
             /\ \A n \in page : n = rows[N] \/ Before(n, rows[N])
             /\ \A n \in S \ page : Before(rows[N], n)
  <2>1. page # {}
    BY <1>1, <1>6, PagesAreNotEmpty
  <2>2. N # 0 /\ N \in 1..N
    BY <1>2, <1>5, <2>1
  <2>3. rows[N] \in page
    BY <1>3, <2>2
  <2>4. ASSUME NEW n \in page  PROVE n = rows[N] \/ Before(n, rows[N])
    <3>1. PICK i \in 1..N : rows[i] = n
      BY <1>5
    <3>2. i = N \/ i < N
      BY <1>2
    <3>3. i \in DOMAIN rows /\ N \in DOMAIN rows
      BY <1>4, <2>2
    <3> QED BY <1>3, <3>1, <3>2, <3>3 DEF Sorted
  <2>5. ASSUME NEW n \in S \ page  PROVE Before(rows[N], n)
    BY <1>1, <2>3, RestIsAfter
  <2> QED BY <2>2, <2>3, <2>4, <2>5
<1> QED BY <1>4, <1>5, <1>6 DEF N

(* A note that is written keeps the time of its creation. *)
NotesLast ==
  \A n \in Notes : notes[n].status # "unused" =>
    notes'[n].status # "unused" /\ notes'[n].created = notes[n].created

LEMMA RevisedLasts ==
  ASSUME NotesTyped, NEW n \in Notes, NEW x \in Note, Revise(n, x),
         x.status # "unused" /\ x.created = notes[n].created
  PROVE  NotesLast
<1> DEFINE y == [x EXCEPT !.revision = @ + 1]
<1>1. y.status = x.status /\ y.created = x.created
  BY DEF Note
<1>2. notes' = [notes EXCEPT ![n] = y]
  BY DEF Revise
<1> HIDE DEF y
<1>3. \A m \in Notes : notes'[m] = IF m = n THEN y ELSE notes[m]
  BY <1>2 DEF NotesTyped
<1> QED BY <1>1, <1>3 DEF NotesLast

LEMMA WrittenNotesLast ==
  ASSUME NotesTyped, ContentNext
  PROVE  NotesLast
<1>1. ASSUME NEW u \in Users, NEW n \in Notes, ContentCommand(u, n)  PROVE NotesLast
  <2>1. notes[n] \in Note
    BY DEF NotesTyped
  <2>2. CASE \E audience \in Audiences, chosen \in SUBSET Users : CreateContent(u, n, audience, chosen)
    <3>1. notes[n].status = "unused" /\ \E x : notes' = [notes EXCEPT ![n] = x]
      BY <2>2 DEF CreateContent
    <3> QED BY <3>1 DEF NotesLast, NotesTyped
  <2>3. ASSUME NEW audience \in Audiences, UpdateContent(u, n, audience)  PROVE NotesLast
    <3> DEFINE x == [notes[n] EXCEPT !.audience = audience]
    <3>1. x \in Note /\ x.status = notes[n].status /\ x.created = notes[n].created
      BY <2>1, NoteFields DEF Note
    <3>2. Revise(n, x) /\ notes[n].status = "active"
      BY <2>3 DEF UpdateContent
    <3> HIDE DEF x
    <3> QED BY <3>1, <3>2, RevisedLasts
  <2>4. ASSUME NEW s \in {"active", "deleted"}, Revise(n, [notes[n] EXCEPT !.status = s])  PROVE NotesLast
    <3> DEFINE x == [notes[n] EXCEPT !.status = s]
    <3>1. x \in Note /\ x.status = s /\ x.created = notes[n].created
      BY <2>1, NoteFields DEF Note
    <3>2. Revise(n, x) /\ s # "unused"
      BY <2>4
    <3> HIDE DEF x
    <3> QED BY <3>1, <3>2, RevisedLasts
  <2>5. ASSUME NEW chosen \in SUBSET Users, ReplaceGrants(u, n, chosen)  PROVE NotesLast
    <3>1. PICK c \in Campaigns : c = notes[n].campaign
      BY NoteIsTyped
    <3> DEFINE x == [notes[n] EXCEPT !.grants = Grants(c, chosen)]
    <3>2. Grants(c, chosen) \in SUBSET NoteGrant
      BY GrantsAreTyped DEF NotesTyped
    <3>3. x \in Note /\ x.status = notes[n].status /\ x.created = notes[n].created
      BY <2>1, <3>2, NoteFields DEF Note
    <3>4. Revise(n, x) /\ notes[n].status = "active"
      BY <2>5, <3>1 DEF ReplaceGrants
    <3> HIDE DEF x
    <3> QED BY <3>3, <3>4, RevisedLasts
  <2> QED BY <1>1, <2>2, <2>3, <2>4, <2>5 DEF ContentCommand, DeleteContent, RecoverContent
<1>2. ASSUME NEW c \in Campaigns, NEW u \in Users, notes' = GrantsWithout(c, u)  PROVE NotesLast
  <2> SUFFICES ASSUME NEW n \in Notes
               PROVE  notes'[n].status = notes[n].status /\ notes'[n].created = notes[n].created
    BY DEF NotesLast
  <2>1. notes[n] \in Note
    BY DEF NotesTyped
  <2> DEFINE kept == {g \in notes[n].grants : g.user # u}
  <2>2. notes'[n] = notes[n] \/ notes'[n] = [notes[n] EXCEPT !.grants = kept]
    BY <1>2 DEF GrantsWithout
  <2> HIDE DEF kept
  <2> QED BY <2>1, <2>2 DEF Note
<1>3. CASE UNCHANGED notes
  BY <1>3 DEF NotesLast
<1> QED BY <1>1, <1>2, <1>3 DEF ContentNext, ChangeMembers, ListStep

(* The rows of a list are apart, were written, and lie before its cursor;   *)
(* what its reader could see all the time is a row or comes after it.       *)
Listed(n) == \E i \in DOMAIN listing.rows : listing.rows[i] = n

ListInv ==
  /\ listing \in {Idle} \cup Listing
  /\ steady \subseteq Notes
  /\ listing # Idle =>
       /\ \A i \in DOMAIN listing.rows : notes[listing.rows[i]].status # "unused"
       /\ \A i, j \in DOMAIN listing.rows : listing.rows[i] = listing.rows[j] => i = j
       /\ \A n \in steady : notes[n].status # "unused"
       /\ listing.more => \A i \in DOMAIN listing.rows : ~ After(listing.cursor, listing.rows[i])
       /\ listing.more => \A n \in steady : After(listing.cursor, n) \/ Listed(n)
       /\ ~ listing.more => \A n \in steady : Listed(n)

LEMMA IdleIsNoListing == Idle \notin Listing
BY ContentAssumption DEF Idle, Listing

LEMMA ListsStand ==
  ASSUME NotesTyped, ListInv, NotesLast, UNCHANGED listing,
         steady' \subseteq Notes, listing # Idle => steady' \subseteq steady
  PROVE  ListInv'
<1>1. CASE listing = Idle
  BY <1>1 DEF ListInv
<1>2. CASE listing # Idle
  <2>0. listing' = listing
    OBVIOUS
  <2>1. listing \in Listing
    BY <1>2 DEF ListInv
  <2>2. \A i \in DOMAIN listing.rows : listing.rows[i] \in Notes
    BY <2>1 DEF Listing
  <2>3. \A n \in Notes : notes[n].status # "unused" =>
          notes'[n].status # "unused" /\ (After(listing.cursor, n)' <=> After(listing.cursor, n))
    BY <2>0 DEF NotesLast, After
  <2>4. /\ \A i \in DOMAIN listing.rows :
             notes'[listing.rows[i]].status # "unused"
             /\ (listing.more => ~ After(listing.cursor, listing.rows[i])')
    BY <1>2, <2>2, <2>3 DEF ListInv
  <2>5. \A n \in steady' :
          /\ notes'[n].status # "unused"
          /\ listing.more => After(listing.cursor, n)' \/ Listed(n)
          /\ ~ listing.more => Listed(n)
    BY <1>2, <2>3 DEF ListInv
  <2> QED BY <1>2, <2>4, <2>5 DEF ListInv, Listed
<1> QED BY <1>1, <1>2

LEMMA CursorOfLast ==
  ASSUME NotesTyped, NEW l \in Notes, NEW n \in Notes
  PROVE  After(<<notes[l].created, l>>, n) <=> Before(l, n)
<1>1. \A m \in Notes : m \in Nat /\ notes[m].created \in Nat
  BY ContentAssumption DEF NotesTyped, Note
<1>2. <<notes[l].created, l>> # <<>>
  OBVIOUS
<1> QED BY <1>1, <1>2 DEF After, Before

LEMMA AfterAndBefore ==
  ASSUME NotesTyped, NEW c \in {<<>>} \cup (Nat \X Notes), NEW l \in Notes, NEW n \in Notes,
         After(c, l), Before(l, n)
  PROVE  After(c, n)
<1>1. \A m \in Notes : m \in Nat /\ notes[m].created \in Nat
  BY ContentAssumption DEF NotesTyped, Note
<1>2. CASE c = <<>>
  BY <1>2 DEF After
<1>3. CASE c # <<>>
  <2>1. c[1] \in Nat /\ c[2] \in Nat
    BY <1>3, ContentAssumption
  <2> HIDE <1>3
  <2> QED BY <1>1, <1>3, <2>1 DEF After, Before
<1> QED BY <1>2, <1>3

LEMMA Appended ==
  ASSUME NEW r \in Seq(Notes), NEW s \in Seq(Notes)
  PROVE  /\ r \o s \in Seq(Notes)
         /\ \A i \in DOMAIN r : i \in DOMAIN (r \o s) /\ (r \o s)[i] = r[i]
         /\ \A j \in DOMAIN s : Len(r) + j \in DOMAIN (r \o s) /\ (r \o s)[Len(r) + j] = s[j]
         /\ \A k \in DOMAIN (r \o s) : k \in DOMAIN r \/ (k - Len(r) \in DOMAIN s /\ k = Len(r) + (k - Len(r)))
OBVIOUS

LEMMA ListabilityStays ==
  ASSUME UNCHANGED <<role, notes>>, NEW n, NEW c, NEW u, NEW status
  PROVE  CanList(n, c, u, status)' <=> CanList(n, c, u, status)
BY DEF CanList, CanRead, IsActiveMember, IsGameMaster, Granted

LEMMA PageKeepsLists ==
  ASSUME NotesTyped, ListInv, ListPage, UNCHANGED <<campaignVars, notes>>,
         steady' = steady \cap Listable'
  PROVE  ListInv'
<1> DEFINE l    == listing
           rest == {n \in Listable : After(l.cursor, n)}
           page == {n \in rest : Cardinality({m \in rest : Before(m, n)}) < PageSize}
           rows == CHOOSE s \in [1..Cardinality(page) -> page] :
                     \A i, j \in DOMAIN s : i < j => Before(s[i], s[j])
           last == rows[Cardinality(page)]
           all  == l.rows \o rows
           more == page # rest
           cursor == IF page = rest THEN <<>> ELSE <<notes[last].created, last>>
           x == [l EXCEPT !.rows = all, !.more = more, !.cursor = cursor]
<1>1. l # Idle /\ l.more /\ l \in Listing
  BY DEF ListPage, ListInv
<1>2. page = FirstOf(rest)
  BY DEF FirstOf, Ahead
<1>3. rows = InOrder(page)
  BY DEF InOrder, Sorted
<1>4. listing' = x
  <2>1. listing' = [l EXCEPT !.rows = @ \o rows, !.more = more, !.cursor = cursor]
    BY Zenon DEF ListPage
  <2> HIDE DEF rows, more, cursor, l
  <2>2. x = [l EXCEPT !.rows = @ \o rows, !.more = more, !.cursor = cursor]
    BY <1>1 DEF Listing
  <2> QED BY <2>1, <2>2
<1>5. /\ l.rows \in Seq(Notes) /\ l.cursor \in {<<>>} \cup (Nat \X Notes)
      /\ l.reader \in Users /\ l.campaign \in Campaigns /\ l.status \in {"active", "deleted"}
  BY <1>1 DEF Listing
<1>6. /\ rest \subseteq Notes
      /\ \A n \in rest : n \in Listable /\ After(l.cursor, n) /\ notes[n].status # "unused"
  BY <1>1, <1>5 DEF Listable, CanList
<1>7. /\ rows \in Seq(page) /\ Len(rows) = Cardinality(page)
      /\ \A i, j \in DOMAIN rows : rows[i] = rows[j] => i = j
      /\ \A n \in page : \E i \in DOMAIN rows : rows[i] = n
      /\ page # rest => /\ Len(rows) # 0 /\ last \in page
                        /\ \A n \in page : n = last \/ Before(n, last)
                        /\ \A n \in rest \ page : Before(last, n)
  <2> HIDE DEF rest, page, rows
  <2>1. rest \subseteq Notes
    BY <1>6
  <2>2. /\ rows \in Seq(page) /\ Len(rows) = Cardinality(page)
        /\ \A i, j \in DOMAIN rows : rows[i] = rows[j] => i = j
        /\ \A n \in page : \E i \in DOMAIN rows : rows[i] = n
        /\ page # rest => /\ Len(rows) # 0 /\ rows[Len(rows)] \in page
                          /\ \A n \in page : n = rows[Len(rows)] \/ Before(n, rows[Len(rows)])
                          /\ \A n \in rest \ page : Before(rows[Len(rows)], n)
    BY <1>2, <1>3, <2>1, PageIsListed
  <2> QED BY <2>2
<1>8. page \subseteq rest
  OBVIOUS
<1>9. Listable' = Listable
  <2>1. /\ x.reader = l.reader /\ x.campaign = l.campaign /\ x.status = l.status /\ x # Idle
    BY <1>1, <1>5, ContentAssumption DEF Listing, Idle
  <2> HIDE DEF x
  <2>2. /\ listing' # Idle /\ listing'.reader = l.reader /\ listing'.campaign = l.campaign
        /\ listing'.status = l.status
    BY <1>4, <2>1
  <2>3. PICK u, c, status : u = l.reader /\ c = l.campaign /\ status = l.status
    OBVIOUS
  <2>4. Listable = {n \in Notes : CanList(n, c, u, status)}
    BY <1>1, <2>3 DEF Listable
  <2>5. Listable' = {n \in Notes : CanList(n, c, u, status)'}
    BY <2>2, <2>3 DEF Listable
  <2>6. \A n \in Notes : CanList(n, c, u, status)' <=> CanList(n, c, u, status)
    BY ListabilityStays DEF campaignVars
  <2> QED BY <2>4, <2>5, <2>6
<1> HIDE DEF rest, page, rows
<1>10. rows \in Seq(Notes)
  BY <1>6, <1>7, <1>8
<1>11. /\ all \in Seq(Notes)
       /\ \A i \in DOMAIN l.rows : i \in DOMAIN all /\ all[i] = l.rows[i]
       /\ \A j \in DOMAIN rows : Len(l.rows) + j \in DOMAIN all /\ all[Len(l.rows) + j] = rows[j]
       /\ \A k \in DOMAIN all :
            k \in DOMAIN l.rows \/ (k - Len(l.rows) \in DOMAIN rows /\ k = Len(l.rows) + (k - Len(l.rows)))
  BY <1>5, <1>10, Appended
<1>12. more \in BOOLEAN /\ cursor \in {<<>>} \cup (Nat \X Notes)
  <2>1. CASE page = rest
    BY <2>1
  <2>2. CASE page # rest
    <3>1. last \in Notes
      BY <1>6, <1>7, <1>8, <2>2
    <3>2. notes[last].created \in Nat
      BY <3>1 DEF NotesTyped, Note
    <3> HIDE DEF last
    <3> QED BY <2>2, <3>1, <3>2
  <2> QED BY <2>1, <2>2
<1>13. DOMAIN rows = 1..Len(rows) /\ DOMAIN l.rows = 1..Len(l.rows) /\ Len(l.rows) \in Nat /\ Len(rows) \in Nat
  BY <1>5, <1>10
<1> HIDE DEF all, last, more, cursor
<1>14. x \in Listing /\ x.rows = all /\ x.more = more /\ x.cursor = cursor
  BY <1>1, <1>11, <1>12 DEF Listing
<1>15. x # Idle
  BY <1>14, IdleIsNoListing
<1> HIDE DEF x
<1>16. steady' \subseteq steady /\ steady' \subseteq Notes
  BY DEF ListInv
<1>17. ASSUME NEW k \in DOMAIN all
       PROVE  \/ k \in DOMAIN l.rows /\ all[k] = l.rows[k]
              \/ \E j \in DOMAIN rows : k = Len(l.rows) + j /\ all[k] = rows[j]
  BY <1>11
<1>18. \A k \in DOMAIN all : notes[all[k]].status # "unused"
  BY <1>1, <1>6, <1>7, <1>8, <1>17 DEF ListInv
<1>19. ASSUME NEW i \in DOMAIN l.rows, NEW j \in DOMAIN rows  PROVE l.rows[i] # rows[j]
  BY <1>1, <1>6, <1>7, <1>8 DEF ListInv
<1>20. \A i, j \in DOMAIN all : all[i] = all[j] => i = j
  BY <1>1, <1>7, <1>17, <1>19 DEF ListInv
<1>21. ASSUME more, NEW k \in DOMAIN all  PROVE ~ After(cursor, all[k])
  <2>1. page # rest
    BY <1>21 DEF more
  <2>2. cursor = <<notes[last].created, last>> /\ last \in page /\ last \in Notes /\ After(l.cursor, last)
    BY <1>6, <1>7, <1>8, <2>1 DEF cursor
  <2>3. \A n \in Notes : After(cursor, n) <=> Before(last, n)
    BY <2>2, CursorOfLast
  <2>4. CASE k \in DOMAIN l.rows /\ all[k] = l.rows[k]
    <3>1. all[k] \in Notes /\ ~ After(l.cursor, all[k])
      BY <1>1, <1>5, <2>4 DEF ListInv
    <3>2. ~ Before(last, all[k])
      BY <1>5, <2>2, <3>1, AfterAndBefore
    <3> QED BY <2>3, <3>1, <3>2
  <2>5. ASSUME NEW j \in DOMAIN rows, all[k] = rows[j]  PROVE ~ After(cursor, all[k])
    <3>1. all[k] \in page
      BY <1>7, <2>5
    <3>2. all[k] \in Notes /\ (all[k] = last \/ Before(all[k], last))
      BY <1>6, <1>7, <1>8, <2>1, <3>1
    <3>3. ~ Before(last, all[k])
      BY <2>2, <3>2, BeforeIsAnOrder
    <3> QED BY <2>3, <3>2, <3>3
  <2> QED BY <1>17, <2>4, <2>5
<1>22. ASSUME NEW n \in steady'
       PROVE  /\ notes[n].status # "unused"
              /\ (more /\ After(cursor, n)) \/ \E k \in DOMAIN all : all[k] = n
  <2>1. n \in steady /\ n \in Listable /\ n \in Notes
    BY <1>9, <1>16
  <2>2. notes[n].status # "unused" /\ (After(l.cursor, n) \/ Listed(n))
    BY <1>1, <2>1 DEF ListInv
  <2>3. CASE Listed(n)
    <3>1. PICK i \in DOMAIN l.rows : l.rows[i] = n
      BY <2>3 DEF Listed
    <3>2. i \in DOMAIN all /\ all[i] = n
      BY <1>11, <3>1
    <3> QED BY <2>2, <3>2
  <2>4. CASE n \in page
    <3>1. PICK j \in DOMAIN rows : rows[j] = n
      BY <1>7, <2>4
    <3>2. Len(l.rows) + j \in DOMAIN all /\ all[Len(l.rows) + j] = n
      BY <1>11, <3>1
    <3> QED BY <2>2, <3>2
  <2>5. CASE After(l.cursor, n) /\ n \notin page
    <3>1. n \in rest
      BY <2>1, <2>5 DEF rest
    <3>2. page # rest /\ more
      BY <2>5, <3>1 DEF more
    <3>3. Before(last, n) /\ last \in Notes
      BY <1>6, <1>7, <1>8, <2>5, <3>1, <3>2
    <3>4. cursor = <<notes[last].created, last>>
      BY <3>2 DEF cursor
    <3> QED BY <2>1, <2>2, <3>2, <3>3, <3>4, CursorOfLast
  <2> QED BY <2>2, <2>3, <2>4, <2>5
<1>23. notes' = notes
  OBVIOUS
<1>24. \A c, n : After(c, n)' <=> After(c, n)
  BY <1>23 DEF After
<1> QED
  BY <1>4, <1>14, <1>15, <1>16, <1>18, <1>20, <1>21, <1>22, <1>23, <1>24 DEF ListInv, Listed, After

(* Every page goes on where the last one ended, and a note that was there   *)
(* all the time cannot move behind the cursor, because its place is decided *)
(* when it is written (listContentPage).                                     *)
THEOREM ListsShowEverything == ContentSpec => []ListsAreComplete
<1>1. ContentInit => ListInv
  BY DEF ContentInit, ListInv
<1>2. NotesTyped /\ ListInv /\ [ContentNext]_contentVars => ListInv'
  <2> SUFFICES ASSUME NotesTyped, ListInv, [ContentNext]_contentVars  PROVE ListInv'
    OBVIOUS
  <2>1. CASE UNCHANGED contentVars
    BY <2>1 DEF contentVars, ListInv, Listed, After
  <2>2. CASE ContentNext
    <3>1. steady' \subseteq Notes /\ (listing # Idle => steady' \subseteq steady /\ steady' = steady \cap Listable')
      BY <2>2 DEF ContentNext, Listable, ListInv
    <3>2. CASE UNCHANGED listing
      BY <2>2, <3>1, <3>2, ListsStand, WrittenNotesLast
    <3>3. CASE ListStep
      <4>1. UNCHANGED <<campaignVars, notes>>
        BY <3>3 DEF ListStep
      <4>2. ASSUME NEW u \in Users, NEW c \in Campaigns, NEW status \in {"active", "deleted"},
                   BeginList(u, c, status)
            PROVE  ListInv'
        <5> DEFINE x == [reader |-> u, campaign |-> c, status |-> status,
                         cursor |-> <<>>, rows |-> <<>>, more |-> TRUE]
        <5>1. listing' = x
          BY <4>2 DEF BeginList
        <5>2. /\ x \in Listing /\ x.cursor = <<>> /\ x.rows = <<>> /\ x.more = TRUE
              /\ x.campaign = c /\ x.reader = u /\ x.status = status
          BY DEF Listing
        <5>3. x # Idle
          BY <5>2, IdleIsNoListing
        <5>4. listing = Idle
          BY <4>2 DEF BeginList
        <5> HIDE DEF x
        <5>5. steady' = Listable'
          BY <2>2, <5>4 DEF ContentNext
        <5>6. \A n \in steady' : notes'[n].status # "unused"
          BY <5>1, <5>2, <5>5 DEF Listable, CanList
        <5>7. \A n : After(<<>>, n)'
          BY DEF After
        <5> QED BY <3>1, <5>1, <5>2, <5>3, <5>6, <5>7 DEF ListInv, After
      <4>3. CASE ListPage
        <5>1. listing # Idle
          BY <4>3 DEF ListPage
        <5> QED BY <3>1, <4>1, <4>3, <5>1, PageKeepsLists
      <4>4. CASE EndList
        BY <3>1, <4>4 DEF EndList, ListInv
      <4> QED BY <3>3, <4>2, <4>3, <4>4 DEF ListStep
    <3> QED BY <2>2, <3>2, <3>3 DEF ContentNext
  <2> QED BY <2>1, <2>2
<1>3. ListInv => ListsAreComplete
  BY DEF ListInv, ListsAreComplete, Listed
<1> QED BY <1>1, <1>2, <1>3, NotesStayTyped, PTL DEF ContentSpec

----------------------------------------------------------------------------
(* Templates and proposals *)

(* An unused template is nobody's, and the catalogs are finite.             *)
CatalogInv ==
  /\ templates \in [Templates -> Template]
  /\ proposals \in [Proposals -> Proposal]
  /\ \A t \in Templates : templates[t].status = "unused" => templates[t].from = NoProposal
  /\ \A c \in Campaigns : IsFiniteSet(Catalog(c))
  /\ \A p \in Proposals : proposals[p].status \in {"unused", "pending"} =>
       \A t \in Templates : templates[t].from # p
  /\ \A p \in Proposals : proposals[p].status = "rejected" =>
       \A t \in Templates : templates[t].from # p
  /\ \A p \in Proposals : proposals[p].status = "approved" =>
       \E t \in Templates : {k \in Templates : templates[k].from = p} = {t}
  /\ \A c \in Campaigns : Cardinality(Catalog(c)) <= MaxTemplates

LEMMA CatalogInvIsStronger ==
  ASSUME CatalogInv
  PROVE  ProposalsPublishOnce
<1>1. ASSUME NEW p \in Proposals
      PROVE  Cardinality({t \in Templates : templates[t].from = p})
               = IF proposals[p].status = "approved" THEN 1 ELSE 0
  <2>1. proposals[p].status \in {"unused", "pending", "approved", "rejected"}
    BY DEF CatalogInv, Proposal
  <2>2. CASE proposals[p].status = "approved"
    <3>1. PICK t \in Templates : {k \in Templates : templates[k].from = p} = {t}
      BY <2>2 DEF CatalogInv
    <3> QED BY <2>2, <3>1, FS_Singleton
  <2>3. CASE proposals[p].status # "approved"
    <3>1. {k \in Templates : templates[k].from = p} = {}
      BY <2>1, <2>3 DEF CatalogInv
    <3> QED BY <2>3, <3>1, FS_EmptySet
  <2> QED BY <2>2, <2>3
<1> QED BY <1>1 DEF ProposalsPublishOnce, CatalogInv

LEMMA TemplateFields ==
  ASSUME NEW x \in Template
  PROVE  /\ \A k \in Nat : [x EXCEPT !.revision = k] \in Template /\ [x EXCEPT !.content = k] \in Template
         /\ \A s \in {"active", "archived"} : [x EXCEPT !.status = s] \in Template
         /\ \A a \in TemplateAudiences : [x EXCEPT !.audience = a] \in Template
         /\ \A g \in SUBSET TemplateGrant : [x EXCEPT !.grants = g] \in Template
BY DEF Template

(* A template that is edited, archived, recovered or shared keeps its       *)
(* campaign and its proposal and does not become unused.                    *)
LEMMA ChangeKeepsCatalog ==
  ASSUME CatalogInv, NEW u, NEW t \in Templates, NEW s \in {"active", "archived"}, NEW x \in Template,
         Change(u, t, s, x), UNCHANGED proposals,
         x.campaign = templates[t].campaign, x.from = templates[t].from, x.status # "unused"
  PROVE  CatalogInv'
<1> DEFINE y == [x EXCEPT !.revision = @ + 1]
<1>1. y \in Template /\ y.campaign = x.campaign /\ y.from = x.from /\ y.status = x.status
  <2>1. x.revision + 1 \in Nat
    BY DEF Template
  <2> QED BY <2>1, TemplateFields DEF Template
<1>2. templates' = [templates EXCEPT ![t] = y] /\ templates[t].status = s
  BY DEF Change
<1> HIDE DEF y
<1>3. /\ templates' \in [Templates -> Template] /\ templates'[t] = y
      /\ \A k \in Templates : k # t => templates'[k] = templates[k]
  BY <1>1, <1>2 DEF CatalogInv
<1>4. \A k \in Templates : /\ templates'[k].from = templates[k].from
                           /\ templates'[k].campaign = templates[k].campaign
                           /\ (templates'[k].status = "unused") = (templates[k].status = "unused")
  BY <1>1, <1>2, <1>3
<1>5. \A c \in Campaigns : Catalog(c)' = Catalog(c)
  BY <1>4 DEF Catalog
<1>6. \A p \in Proposals : {k \in Templates : templates'[k].from = p}
                             = {k \in Templates : templates[k].from = p}
  BY <1>4
<1> QED BY <1>3, <1>4, <1>5, <1>6 DEF CatalogInv

LEMMA TemplateGrantsAreTyped ==
  ASSUME CampaignTypeOK, NEW c \in Campaigns, NEW chosen \in SUBSET Users
  PROVE  TemplateGrants(c, chosen) \in SUBSET TemplateGrant
BY DEF CampaignTypeOK, MembershipTypeOK, TemplateGrants, TemplateGrant

(* A template is published for p, or for nobody. *)
LEMMA PublishMovesCatalog ==
  ASSUME CampaignTypeOK, CatalogInv, NEW t \in Templates, NEW c \in Campaigns,
         NEW audience \in TemplateAudiences, NEW chosen \in SUBSET Users,
         NEW p \in Proposals \cup {NoProposal}, Publish(t, c, audience, chosen, p)
  PROVE  /\ templates' \in [Templates -> Template]
         /\ templates'[t].status = "active" /\ templates'[t].from = p
         /\ \A k \in Templates : k # t => templates'[k] = templates[k]
         /\ \A d \in Campaigns : IsFiniteSet(Catalog(d)') /\ Cardinality(Catalog(d)') <= MaxTemplates
<1> DEFINE y == Published(c, audience, chosen, p)
<1>1. y \in Template /\ y.status = "active" /\ y.from = p /\ y.campaign = c
  BY TemplateGrantsAreTyped DEF Published, Template
<1>2. templates' = [templates EXCEPT ![t] = y] /\ templates[t].status = "unused" /\ HasSpace(c)
  BY DEF Publish
<1> HIDE DEF y
<1>3. /\ templates' \in [Templates -> Template] /\ templates'[t] = y
      /\ \A k \in Templates : k # t => templates'[k] = templates[k]
  BY <1>1, <1>2 DEF CatalogInv
<1>4. Catalog(c)' = Catalog(c) \cup {t} /\ t \notin Catalog(c)
  BY <1>1, <1>2, <1>3 DEF Catalog
<1>5. \A d \in Campaigns : d # c => Catalog(d)' = Catalog(d)
  BY <1>1, <1>2, <1>3 DEF Catalog
<1>6. IsFiniteSet(Catalog(c)') /\ Cardinality(Catalog(c)') <= MaxTemplates
  <2>1. IsFiniteSet(Catalog(c)) /\ Cardinality(Catalog(c)) < MaxTemplates
    BY <1>2 DEF CatalogInv, HasSpace
  <2>2. Cardinality(Catalog(c)) \in Nat
    BY <2>1, FS_CardinalityType
  <2>3. IsFiniteSet(Catalog(c) \cup {t}) /\ Cardinality(Catalog(c) \cup {t}) = Cardinality(Catalog(c)) + 1
    BY <1>4, <2>1, FS_AddElement
  <2> QED BY <1>4, <2>1, <2>2, <2>3, CatalogAssumption
<1>7. ASSUME NEW d \in Campaigns
      PROVE  IsFiniteSet(Catalog(d)') /\ Cardinality(Catalog(d)') <= MaxTemplates
  <2>1. CASE d = c
    BY <1>6, <2>1
  <2>2. CASE d # c
    BY <1>5, <2>2 DEF CatalogInv
  <2> QED BY <2>1, <2>2
<1> QED BY <1>1, <1>3, <1>7

LEMMA TemplateCommandKeepsCatalog ==
  ASSUME CampaignTypeOK, CatalogInv, NEW u \in Users, NEW t \in Templates, TemplateCommand(u, t)
  PROVE  CatalogInv'
<1>1. templates[t] \in Template /\ UNCHANGED proposals
  BY DEF CatalogInv, TemplateCommand
<1>2. PICK c \in Campaigns : c = templates[t].campaign
  BY <1>1 DEF Template
<1>3. CASE CreateTemplate(u, t)
  <2>1. PICK audience \in TemplateAudiences, chosen \in SUBSET Users :
          Publish(t, c, audience, chosen, NoProposal)
    BY <1>2, <1>3 DEF CreateTemplate
  <2>2. /\ templates' \in [Templates -> Template]
        /\ templates'[t].status = "active" /\ templates'[t].from = NoProposal
        /\ \A k \in Templates : k # t => templates'[k] = templates[k]
        /\ \A d \in Campaigns : IsFiniteSet(Catalog(d)') /\ Cardinality(Catalog(d)') <= MaxTemplates
    BY <2>1, PublishMovesCatalog
  <2>3. templates[t].from = NoProposal
    BY <2>1 DEF Publish, CatalogInv
  <2>4. \A k \in Templates : templates'[k].from = templates[k].from
    BY <2>2, <2>3
  <2>5. \A p \in Proposals : {k \in Templates : templates'[k].from = p}
                               = {k \in Templates : templates[k].from = p}
    BY <2>4
  <2> QED BY <1>1, <2>2, <2>4, <2>5 DEF CatalogInv
<1>4. CASE UpdateTemplate(u, t)
  <2> DEFINE x == [templates[t] EXCEPT !.content = @ + 1]
  <2>1. templates[t].content + 1 \in Nat
    BY <1>1 DEF Template
  <2>2. /\ x \in Template /\ x.campaign = templates[t].campaign /\ x.from = templates[t].from
        /\ x.status = templates[t].status
    BY <1>1, <2>1, TemplateFields DEF Template
  <2>3. Change(u, t, "active", x)
    BY <1>4 DEF UpdateTemplate
  <2> HIDE DEF x
  <2>4. x.status # "unused"
    BY <2>2, <2>3 DEF Change
  <2> QED BY <1>1, <2>2, <2>3, <2>4, ChangeKeepsCatalog
<1>5. ASSUME NEW s \in {"active", "archived"}, NEW r \in {"active", "archived"},
             Change(u, t, s, [templates[t] EXCEPT !.status = r])
      PROVE  CatalogInv'
  <2> DEFINE x == [templates[t] EXCEPT !.status = r]
  <2>1. /\ x \in Template /\ x.campaign = templates[t].campaign /\ x.from = templates[t].from
        /\ x.status # "unused"
    BY <1>1, TemplateFields DEF Template
  <2>2. Change(u, t, s, x)
    BY <1>5
  <2> HIDE DEF x
  <2> QED BY <1>1, <2>1, <2>2, ChangeKeepsCatalog
<1>6. CASE ShareTemplate(u, t)
  <2>1. PICK audience \in TemplateAudiences, chosen \in SUBSET Users :
          Change(u, t, "active",
                 [templates[t] EXCEPT !.audience = audience, !.grants = TemplateGrants(c, chosen)])
    BY <1>2, <1>6 DEF ShareTemplate
  <2> DEFINE z == [templates[t] EXCEPT !.audience = audience]
             x == [z EXCEPT !.grants = TemplateGrants(c, chosen)]
  <2>2. /\ z \in Template /\ z.campaign = templates[t].campaign /\ z.from = templates[t].from
        /\ z.status = templates[t].status
    BY <1>1, TemplateFields DEF Template
  <2> HIDE DEF z
  <2>3. /\ x \in Template /\ x.campaign = templates[t].campaign /\ x.from = templates[t].from
        /\ x.status = templates[t].status
    BY <2>2, TemplateFields, TemplateGrantsAreTyped DEF Template
  <2>4. Change(u, t, "active", x)
    BY <2>1 DEF z
  <2> HIDE DEF x
  <2>5. x.status # "unused"
    BY <2>3, <2>4 DEF Change
  <2> QED BY <1>1, <2>3, <2>4, <2>5, ChangeKeepsCatalog
<1> QED BY <1>3, <1>4, <1>5, <1>6 DEF TemplateCommand, ArchiveTemplate, RecoverTemplate

LEMMA ProposalCommandKeepsCatalog ==
  ASSUME CampaignTypeOK, CatalogInv, NEW u \in Users, NEW p \in Proposals, ProposalCommand(u, p)
  PROVE  CatalogInv'
<1>1. proposals[p] \in Proposal
  BY DEF CatalogInv
<1>2. PICK c \in Campaigns : c = proposals[p].campaign
  BY <1>1 DEF Proposal
<1>3. CASE SubmitProposal(u, p)
  <2> DEFINE y == [campaign |-> c, submitter |-> u, membership |-> generation[c][u], status |-> "pending"]
  <2>1. y \in Proposal /\ y.status = "pending"
    BY DEF Proposal, CampaignTypeOK, MembershipTypeOK
  <2>2. proposals' = [proposals EXCEPT ![p] = y] /\ proposals[p].status = "unused" /\ UNCHANGED templates
    BY <1>2, <1>3 DEF SubmitProposal
  <2> HIDE DEF y
  <2>3. proposals' \in [Proposals -> Proposal] /\ proposals'[p] = y
        /\ \A q \in Proposals : q # p => proposals'[q] = proposals[q]
    BY <2>1, <2>2 DEF CatalogInv
  <2>4. \A d \in Campaigns : Catalog(d)' = Catalog(d)
    BY <2>2 DEF Catalog
  <2> QED BY <2>1, <2>2, <2>3, <2>4 DEF CatalogInv
<1>4. ASSUME NEW s \in {"approved", "rejected"}, proposals' = [proposals EXCEPT ![p].status = s]
      PROVE  /\ proposals' \in [Proposals -> Proposal] /\ proposals'[p].status = s
             /\ \A q \in Proposals : q # p => proposals'[q] = proposals[q]
  BY <1>1, <1>4 DEF CatalogInv, Proposal
<1>5. CASE RejectProposal(u, p)
  <2>1. UNCHANGED templates /\ proposals[p].status = "pending"
    BY <1>5 DEF RejectProposal, MayDecide
  <2>2. /\ proposals' \in [Proposals -> Proposal] /\ proposals'[p].status = "rejected"
        /\ \A q \in Proposals : q # p => proposals'[q] = proposals[q]
    BY <1>4, <1>5 DEF RejectProposal
  <2>3. \A d \in Campaigns : Catalog(d)' = Catalog(d)
    BY <2>1 DEF Catalog
  <2> QED BY <2>1, <2>2, <2>3 DEF CatalogInv
<1>6. CASE ApproveProposal(u, p)
  <2>1. proposals[p].status = "pending"
    BY <1>6 DEF ApproveProposal, MayDecide
  <2>2. PICK t \in Templates : Publish(t, c, "all_players", {}, p)
    BY <1>2, <1>6 DEF ApproveProposal
  <2>3. /\ templates' \in [Templates -> Template]
        /\ templates'[t].status = "active" /\ templates'[t].from = p
        /\ \A k \in Templates : k # t => templates'[k] = templates[k]
        /\ \A d \in Campaigns : IsFiniteSet(Catalog(d)') /\ Cardinality(Catalog(d)') <= MaxTemplates
    BY <2>2, PublishMovesCatalog DEF TemplateAudiences
  <2>4. /\ proposals' \in [Proposals -> Proposal] /\ proposals'[p].status = "approved"
        /\ \A q \in Proposals : q # p => proposals'[q] = proposals[q]
    BY <1>4, <1>6 DEF ApproveProposal
  <2>5. templates[t].from = NoProposal /\ \A k \in Templates : templates[k].from # p
    BY <2>1, <2>2 DEF Publish, CatalogInv
  <2>6. {k \in Templates : templates'[k].from = p} = {t}
    BY <2>3, <2>5
  <2>7. \A q \in Proposals : q # p =>
          /\ \A k \in Templates : (templates'[k].from = q) = (templates[k].from = q)
          /\ {k \in Templates : templates'[k].from = q} = {k \in Templates : templates[k].from = q}
    BY <2>3, <2>5, CatalogAssumption
  <2> QED BY <2>3, <2>4, <2>6, <2>7 DEF CatalogInv
<1> QED BY <1>3, <1>5, <1>6 DEF ProposalCommand

(* Deciding a proposal twice, or at the limit of the catalog, makes no      *)
(* second template and no template too many (decide, publishBlankTemplate). *)
THEOREM ProposalsAreApprovedOnce == CatalogSpec => []ProposalsPublishOnce
<1>1. CatalogInit => CampaignTypeOK /\ CatalogInv
  <2> SUFFICES ASSUME CatalogInit PROVE CampaignTypeOK /\ CatalogInv
    OBVIOUS
  <2>1. templates \in [Templates -> Template]
    BY DEF CatalogInit, NoTemplate, Template, TemplateAudiences
  <2>2. proposals \in [Proposals -> Proposal]
    BY DEF CatalogInit, NoSuggestion, Proposal
  <2>3. /\ \A t \in Templates : templates[t].status = "unused" /\ templates[t].from = NoProposal
        /\ \A p \in Proposals : proposals[p].status = "unused"
    BY DEF CatalogInit, NoTemplate, NoSuggestion
  <2>4. \A c \in Campaigns : Catalog(c) = {}
    BY <2>3 DEF Catalog
  <2>5. \A c \in Campaigns : IsFiniteSet(Catalog(c)) /\ Cardinality(Catalog(c)) = 0
    BY <2>4, FS_EmptySet
  <2> QED BY <2>1, <2>2, <2>3, <2>5, GatheredIsTyped, CatalogAssumption DEF CatalogInit, CatalogInv
<1>2. CampaignTypeOK /\ CatalogInv /\ [CatalogNext]_catalogVars => CampaignTypeOK' /\ CatalogInv'
  <2> SUFFICES ASSUME CampaignTypeOK, CatalogInv, [CatalogNext]_catalogVars
               PROVE  CampaignTypeOK' /\ CatalogInv'
    OBVIOUS
  <2>1. ASSUME UNCHANGED campaignVars PROVE CampaignTypeOK'
    BY <2>1 DEF campaignVars, CampaignTypeOK, MembershipTypeOK
  <2>2. CASE UNCHANGED <<templates, proposals>>
    <3>1. \A c \in Campaigns : Catalog(c)' = Catalog(c)
      BY <2>2 DEF Catalog
    <3> QED
      <4>1. CatalogInv'
        BY <2>2, <3>1 DEF CatalogInv
      <4>2. CASE \E c \in Campaigns : ChangeMeanwhile(c)
        <5>1. "player" \in Roles
          BY DEF Roles, ActiveRoles
        <5> QED BY <4>1, <4>2, <5>1, CampaignStepKeepsType DEF ChangeMeanwhile, CampaignStep
      <4> QED BY <2>1, <4>1, <4>2
          DEF CatalogNext, TemplateCommand, SelectTemplate, ProposalCommand, PlaceTemplate, catalogVars
  <2>3. ASSUME NEW u \in Users, NEW t \in Templates, TemplateCommand(u, t)
        PROVE  CampaignTypeOK' /\ CatalogInv'
    BY <2>1, <2>3, TemplateCommandKeepsCatalog DEF TemplateCommand
  <2>4. ASSUME NEW u \in Users, NEW p \in Proposals, ProposalCommand(u, p)
        PROVE  CampaignTypeOK' /\ CatalogInv'
    BY <2>1, <2>4, ProposalCommandKeepsCatalog DEF ProposalCommand
  <2> QED BY <2>2, <2>3, <2>4
      DEF CatalogNext, SelectTemplate, PlaceTemplate, ChangeMeanwhile, catalogVars
<1>3. CatalogInv => ProposalsPublishOnce
  BY CatalogInvIsStronger
<1> QED BY <1>1, <1>2, <1>3, PTL DEF CatalogSpec

(* A copy is only made of the template as it is when the sheet command      *)
(* commits (the precondition of applyCommandTx).                            *)
THEOREM CopiesAreMadeFromTheCurrent == CatalogSpec => CopiesAreCurrent
<1>1. [CatalogNext]_catalogVars
        => [\A copy \in copies' \ copies :
              CanPlace(copy.template) /\ copy.content = templates[copy.template].content]_catalogVars
  <2> SUFFICES ASSUME CatalogNext, NEW copy \in copies' \ copies
               PROVE  CanPlace(copy.template) /\ copy.content = templates[copy.template].content
    OBVIOUS
  <2>1. PICK u \in Users : PlaceTemplate(u)
    BY DEF CatalogNext, TemplateCommand, SelectTemplate, ProposalCommand, ChangeMeanwhile
  <2>2. /\ copy = [by |-> u, template |-> selection[u].template, content |-> selection[u].content]
        /\ StillSelected(selection[u])
    BY <2>1 DEF PlaceTemplate
  <2> QED BY <2>2 DEF StillSelected
<1> QED BY <1>1, PTL DEF CatalogSpec, CopiesAreCurrent

----------------------------------------------------------------------------
(* Invitations *)

InvitesTyped ==
  /\ CampaignTypeOK
  /\ invitations \in [Invites -> Invitation]
  /\ reviews \in [Users -> Review \cup {Nobody}]
  /\ admissions \subseteq Admission

(* What a review that was read to its end is worth: while the campaign has  *)
(* the access revision it showed, members and roles are those it showed.    *)
ReviewsTell ==
  \A u \in Users : reviews[u] # Nobody =>
    LET i == reviews[u].invite  c == invitations[i].campaign
    IN  /\ i \in Invites
        /\ invitations[i].status # "unused"
        /\ invitations[i].intendedRole = reviews[u].intendedRole
        /\ reviews[u].access # 0 =>
             /\ reviews[u].access <= accessRevision[c]
             /\ reviews[u].access = accessRevision[c] => reviews[u].seen = role[c]

LEMMA ReviewIsTyped ==
  ASSUME InvitesTyped, NEW u \in Users, reviews[u] # Nobody
  PROVE  /\ reviews[u] \in Review
         /\ reviews[u].invite \in Invites /\ invitations[reviews[u].invite].campaign \in Campaigns
BY DEF InvitesTyped, Review, Invitation

LEMMA InvitationFields ==
  ASSUME NEW x \in Invitation
  PROVE  /\ \A s \in {"pending", "accepted", "declined", "revoked"} : [x EXCEPT !.status = s] \in Invitation
         /\ \A r \in IntendedRoles : [x EXCEPT !.intendedRole = r] \in Invitation
         /\ \A k \in Nat : [x EXCEPT !.token = k] \in Invitation /\ [x EXCEPT !.revision = k] \in Invitation
                           /\ [x EXCEPT !.joined = k] \in Invitation
         /\ \A b \in BOOLEAN : [x EXCEPT !.lapsed = b] \in Invitation
         /\ \A v \in Users \cup {Nobody} : [x EXCEPT !.consumer = v] \in Invitation
BY DEF Invitation

LEMMA LapsedField ==
  ASSUME NEW x \in Invitation, NEW b \in BOOLEAN
  PROVE  LET y == [x EXCEPT !.lapsed = b]
         IN  /\ y \in Invitation /\ y.status = x.status /\ y.campaign = x.campaign
             /\ y.intendedRole = x.intendedRole
<1> DEFINE y == [x EXCEPT !.lapsed = b]
<1>1. y \in Invitation
  BY InvitationFields
<1>2. y.status = x.status
  BY Zenon DEF Invitation
<1>3. y.campaign = x.campaign
  BY Zenon DEF Invitation
<1>4. y.intendedRole = x.intendedRole
  BY Zenon DEF Invitation
<1> QED BY <1>1, <1>2, <1>3, <1>4

(* One invitation moves, as its commands and its expiry move it.            *)
InviteMoves(i) ==
  /\ invitations' \in [Invites -> Invitation]
  /\ invitations'[i].campaign = invitations[i].campaign
  /\ invitations'[i].status # "unused"
  /\ invitations[i].status # "unused" => invitations'[i].intendedRole = invitations[i].intendedRole
  /\ \A k \in Invites : k # i => invitations'[k] = invitations[k]

LEMMA IssueMoves ==
  ASSUME InvitesTyped, NEW u \in Users, NEW i \in Invites, NEW intended \in IntendedRoles,
         Issue(u, i, intended)
  PROVE  InviteMoves(i) /\ invitations[i].status = "unused"
<1> DEFINE a == [invitations[i] EXCEPT !.status = "pending"]
           b == [a EXCEPT !.intendedRole = intended]
           d == [b EXCEPT !.token = 1]
           x == [d EXCEPT !.revision = 1]
<1>0. invitations[i] \in Invitation
  BY DEF InvitesTyped
<1>1. a \in Invitation /\ a.status = "pending" /\ a.campaign = invitations[i].campaign
  BY <1>0, InvitationFields DEF Invitation
<1> HIDE DEF a
<1>2. b \in Invitation /\ b.status = "pending" /\ b.campaign = invitations[i].campaign
  BY <1>1, InvitationFields DEF Invitation
<1> HIDE DEF b
<1>3. d \in Invitation /\ d.status = "pending" /\ d.campaign = invitations[i].campaign
  BY <1>2, InvitationFields DEF Invitation
<1> HIDE DEF d
<1>4. x \in Invitation /\ x.status = "pending" /\ x.campaign = invitations[i].campaign
  BY <1>3, InvitationFields DEF Invitation
<1>5. invitations' = [invitations EXCEPT ![i] = x] /\ invitations[i].status = "unused"
  BY DEF Issue, a, b, d, InvitesTyped
<1> HIDE DEF x
<1> QED BY <1>4, <1>5 DEF InviteMoves, InvitesTyped

LEMMA RotateMoves ==
  ASSUME InvitesTyped, NEW u \in Users, NEW i \in Invites, Rotate(u, i)
  PROVE  InviteMoves(i) /\ invitations[i].status = "pending"
<1> DEFINE a == [invitations[i] EXCEPT !.token = @ + 1]
           b == [a EXCEPT !.revision = @ + 1]
           x == [b EXCEPT !.lapsed = FALSE]
<1>0. invitations[i] \in Invitation /\ invitations[i].token + 1 \in Nat
      /\ invitations[i].revision + 1 \in Nat
  BY DEF InvitesTyped, Invitation
<1>1. /\ a \in Invitation /\ a.status = invitations[i].status /\ a.campaign = invitations[i].campaign
      /\ a.intendedRole = invitations[i].intendedRole /\ a.revision = invitations[i].revision
  BY <1>0, InvitationFields DEF Invitation
<1> HIDE DEF a
<1>2. /\ b \in Invitation /\ b.status = invitations[i].status /\ b.campaign = invitations[i].campaign
      /\ b.intendedRole = invitations[i].intendedRole
  BY <1>0, <1>1, InvitationFields DEF Invitation
<1> HIDE DEF b
<1>3. /\ x \in Invitation /\ x.status = invitations[i].status /\ x.campaign = invitations[i].campaign
      /\ x.intendedRole = invitations[i].intendedRole
  BY <1>2, LapsedField
<1>4. invitations' = [invitations EXCEPT ![i] = x] /\ invitations[i].status = "pending"
  BY DEF Rotate, Rotated, a, b
<1> HIDE DEF x
<1> QED BY <1>3, <1>4 DEF InviteMoves, InvitesTyped

LEMMA RevokeMoves ==
  ASSUME InvitesTyped, NEW u \in Users, NEW i \in Invites, Revoke(u, i)
  PROVE  InviteMoves(i) /\ invitations[i].status = "pending"
<1> DEFINE a == [invitations[i] EXCEPT !.status = "revoked"]
           x == [a EXCEPT !.revision = @ + 1]
<1>0. invitations[i] \in Invitation /\ invitations[i].revision + 1 \in Nat
  BY DEF InvitesTyped, Invitation
<1>1. /\ a \in Invitation /\ a.status = "revoked" /\ a.campaign = invitations[i].campaign
      /\ a.intendedRole = invitations[i].intendedRole /\ a.revision = invitations[i].revision
  BY <1>0, InvitationFields DEF Invitation
<1> HIDE DEF a
<1>2. /\ x \in Invitation /\ x.status = "revoked" /\ x.campaign = invitations[i].campaign
      /\ x.intendedRole = invitations[i].intendedRole
  BY <1>0, <1>1, InvitationFields DEF Invitation
<1>3. invitations' = [invitations EXCEPT ![i] = x] /\ invitations[i].status = "pending"
  BY <1>0 DEF Revoke, a, InvitesTyped
<1> HIDE DEF x
<1> QED BY <1>2, <1>3 DEF InviteMoves, InvitesTyped

LEMMA LapseMoves ==
  ASSUME InvitesTyped, NEW i \in Invites, Lapse(i)
  PROVE  InviteMoves(i) /\ invitations[i].status = "pending"
<1> DEFINE x == [invitations[i] EXCEPT !.lapsed = TRUE]
<1>0. invitations[i] \in Invitation
  BY DEF InvitesTyped
<1>1. /\ x \in Invitation /\ x.status = invitations[i].status /\ x.campaign = invitations[i].campaign
      /\ x.intendedRole = invitations[i].intendedRole
  BY <1>0, LapsedField
<1>2. invitations' = [invitations EXCEPT ![i] = x] /\ invitations[i].status = "pending"
  BY DEF Lapse, InvitesTyped
<1> HIDE DEF x
<1> QED BY <1>1, <1>2 DEF InviteMoves, InvitesTyped

LEMMA ConsumedMoves ==
  ASSUME InvitesTyped, NEW i \in Invites, NEW s \in {"accepted", "declined"}, NEW u \in Users,
         NEW g \in Nat, invitations' = [invitations EXCEPT ![i] = Consumed(@, s, u, g)]
  PROVE  /\ InviteMoves(i)
         /\ invitations'[i].status = s /\ invitations'[i].consumer = u /\ invitations'[i].joined = g
         /\ invitations'[i].token = invitations[i].token
<1> DEFINE a == [invitations[i] EXCEPT !.status = s]
           b == [a EXCEPT !.revision = @ + 1]
           d == [b EXCEPT !.consumer = u]
           x == [d EXCEPT !.joined = g]
           Same(y) == /\ y.campaign = invitations[i].campaign
                      /\ y.intendedRole = invitations[i].intendedRole
                      /\ y.token = invitations[i].token /\ y.status = s
<1>0. invitations[i] \in Invitation /\ invitations[i].revision + 1 \in Nat
  BY DEF InvitesTyped, Invitation
<1>1. a \in Invitation /\ Same(a) /\ a.revision = invitations[i].revision
  BY <1>0, InvitationFields DEF Invitation
<1> HIDE DEF a
<1>2. b \in Invitation /\ Same(b)
  BY <1>0, <1>1, InvitationFields DEF Invitation
<1> HIDE DEF b
<1>3. d \in Invitation /\ Same(d) /\ d.consumer = u
  BY <1>2, InvitationFields DEF Invitation
<1> HIDE DEF d
<1>4. x \in Invitation /\ Same(x) /\ x.consumer = u /\ x.joined = g
  BY <1>3, InvitationFields DEF Invitation
<1>5. invitations' = [invitations EXCEPT ![i] = x]
  BY DEF Consumed, a, b, d
<1> HIDE DEF x
<1> QED BY <1>4, <1>5 DEF InviteMoves, InvitesTyped

(* A command of the campaign that raises its access revision outdates every *)
(* review of it; Update changes no member.                                  *)
LEMMA StepKeepsReviews ==
  ASSUME InvitesTyped, ReviewsTell, NEW c \in Campaigns,
         \A d \in Campaigns : accessRevision'[d] >= accessRevision[d],
         accessRevision'[c] > accessRevision[c] \/ UNCHANGED role,
         \A d \in Campaigns : d # c => role'[d] = role[d],
         CampaignTypeOK', admissions' \subseteq Admission,
         NEW i \in Invites, InviteMoves(i) \/ UNCHANGED invitations,
         \A u \in Users : reviews'[u] = reviews[u] \/ reviews'[u] = Nobody,
         reviews' \in [Users -> Review \cup {Nobody}]
  PROVE  InvitesTyped' /\ ReviewsTell'
<1>1. InvitesTyped'
  BY DEF InvitesTyped, InviteMoves
<1>2. \A k \in Invites : /\ invitations'[k].campaign = invitations[k].campaign
                         /\ invitations[k].status # "unused" =>
                              /\ invitations'[k].status # "unused"
                              /\ invitations'[k].intendedRole = invitations[k].intendedRole
  BY DEF InviteMoves
<1>3. ASSUME NEW u \in Users, reviews'[u] # Nobody
      PROVE  LET k == reviews'[u].invite  d == invitations'[k].campaign
             IN  /\ k \in Invites
                 /\ invitations'[k].status # "unused"
                 /\ invitations'[k].intendedRole = reviews'[u].intendedRole
                 /\ reviews'[u].access # 0 =>
                      /\ reviews'[u].access <= accessRevision'[d]
                      /\ reviews'[u].access = accessRevision'[d] => reviews'[u].seen = role'[d]
  <2>1. reviews'[u] = reviews[u] /\ reviews[u] # Nobody
    BY <1>3
  <2>2. PICK k \in Invites, d \in Campaigns : k = reviews[u].invite /\ d = invitations[k].campaign
    BY <2>1, ReviewIsTyped
  <2>3. invitations'[k].campaign = d
    BY <1>2, <2>2
  <2>4. /\ invitations[k].status # "unused"
        /\ invitations[k].intendedRole = reviews[u].intendedRole
        /\ reviews[u].access # 0 =>
             /\ reviews[u].access <= accessRevision[d]
             /\ reviews[u].access = accessRevision[d] => reviews[u].seen = role[d]
    BY <2>1, <2>2 DEF ReviewsTell
  <2>5. reviews[u].access \in Nat /\ accessRevision[d] \in Nat /\ accessRevision'[d] \in Nat
    BY <2>1, ReviewIsTyped DEF Review, InvitesTyped, CampaignTypeOK
  <2>6. role'[d] = role[d] \/ accessRevision'[d] > accessRevision[d]
    OBVIOUS
  <2>7. accessRevision'[d] >= accessRevision[d]
    OBVIOUS
  <2> QED BY <1>2, <2>1, <2>2, <2>3, <2>4, <2>5, <2>6, <2>7
<1> QED BY <1>1, <1>3 DEF ReviewsTell

(* The steps of one campaign leave the others alone. *)
LEMMA CampaignStepIsLocal ==
  ASSUME CampaignTypeOK, NEW c \in Campaigns, CampaignStep(c)
  PROVE  /\ \A d \in Campaigns : d # c => role'[d] = role[d]
         /\ \A d \in Campaigns : accessRevision'[d] >= accessRevision[d]
         /\ accessRevision'[c] > accessRevision[c] \/ UNCHANGED role
<1> USE DEF CampaignTypeOK, MembershipTypeOK
<1>1. PICK u \in Users, target \in Users, r \in Roles :
        \/ Leave(u, target, c)
        \/ MemberJoins(u, c, r) /\ Bump(c)
        \/ SetRole(u, target, c, r)
        \/ Archive(u, c)
        \/ Recover(u, c)
        \/ Update(u, c)
  BY DEF CampaignStep
<1>2. CASE Bump(c)
  <2>1. \A d \in Campaigns : d # c => role'[d] = role[d]
    BY <1>1 DEF Leave, MemberLeaves, MemberJoins, SetRole, RoleChanges, Archive, CampaignArchived,
                Recover, CampaignRecovered, Update, memberVars
  <2> QED BY <1>2, <2>1, CountersGrow
<1>3. CASE Update(u, c)
  BY <1>3 DEF Update, memberVars
<1> QED BY <1>1, <1>2, <1>3 DEF Leave, SetRole, Archive, Recover

LEMMA CommandKeepsReviews ==
  ASSUME InvitesTyped, ReviewsTell, NEW c \in Campaigns,
         Bump(c), UNCHANGED memberVars, UNCHANGED admissions,
         NEW i \in Invites, InviteMoves(i),
         \A u \in Users : reviews'[u] = reviews[u] \/ reviews'[u] = Nobody,
         reviews' \in [Users -> Review \cup {Nobody}]
  PROVE  InvitesTyped' /\ ReviewsTell'
<1>1. CampaignTypeOK'
  BY CountersGrow DEF InvitesTyped, CampaignTypeOK, MembershipTypeOK, memberVars
<1>2. /\ \A d \in Campaigns : accessRevision'[d] >= accessRevision[d]
      /\ accessRevision'[c] > accessRevision[c]
  BY CountersGrow DEF InvitesTyped
<1>3. \A d \in Campaigns : role'[d] = role[d]
  BY DEF memberVars
<1>4. admissions' \subseteq Admission
  BY DEF InvitesTyped
<1> QED BY <1>1, <1>2, <1>3, <1>4, StepKeepsReviews

LEMMA NobodyJoins ==
  ASSUME CampaignTypeOK, NEW u \in Users, NEW target \in Users, NEW r \in Roles, NEW c \in Campaigns,
         \/ Leave(u, target, c)
         \/ SetRole(u, target, c, r)
         \/ Archive(u, c)
         \/ Recover(u, c)
         \/ Update(u, c),
         NEW d \in Campaigns, NEW v \in Users, ~ IsActiveMember(d, v)
  PROVE  ~ IsActiveMember(d, v)'
<1> USE DEF CampaignTypeOK, MembershipTypeOK, IsActiveMember, ActiveRoles
<1>1. CASE Leave(u, target, c)
  BY <1>1 DEF Leave, MemberLeaves
<1>2. CASE SetRole(u, target, c, r)
  BY <1>2 DEF SetRole, RoleChanges, MayChangeRole
<1>3. CASE Archive(u, c) \/ Recover(u, c) \/ Update(u, c)
  BY <1>3 DEF Archive, CampaignArchived, Recover, CampaignRecovered, Update, memberVars
<1> QED BY <1>1, <1>2, <1>3

(* What an acceptance does, in terms of the invitation and its campaign.    *)
LEMMA AcceptanceIs ==
  ASSUME InvitesTyped, NEW u \in Users, Accept(u)
  PROVE  \E i \in Invites, c \in Campaigns, g \in Nat :
           /\ reviews[u] # Nobody /\ i = reviews[u].invite /\ c = invitations[i].campaign
           /\ g = NextGeneration(c, u)
           /\ MayConsume(reviews[u]) /\ invitations[i].status = "pending"
           /\ invitations[i].token = reviews[u].token /\ reviews[u].access = accessRevision[c]
           /\ HasSeat(c) /\ MemberJoins(u, c, invitations[i].intendedRole) /\ Bump(c)
           /\ invitations' = [invitations EXCEPT ![i] = Consumed(@, "accepted", u, g)]
           /\ admissions' = admissions \cup
                {[user |-> u, campaign |-> c, generation |-> g, invite |-> i, token |-> reviews[u].token]}
           /\ Forget(u)
<1>1. reviews[u] # Nobody
  BY DEF Accept
<1>2. PICK i \in Invites, c \in Campaigns : i = reviews[u].invite /\ c = invitations[i].campaign
  BY <1>1, ReviewIsTyped
<1>3. NextGeneration(c, u) \in Nat
  BY DEF InvitesTyped, CampaignTypeOK, MembershipTypeOK, NextGeneration
<1> QED BY <1>1, <1>2, <1>3 DEF Accept, MayConsume, Opens

LEMMA JoiningIsAStep ==
  ASSUME InvitesTyped, NEW u \in Users, NEW c \in Campaigns, NEW r \in IntendedRoles,
         MemberJoins(u, c, r), Bump(c)
  PROVE  CampaignStep(c)
BY DEF CampaignStep, IntendedRoles, Roles, ActiveRoles

LEMMA ForgettingKeepsReviews ==
  ASSUME InvitesTyped, NEW u \in Users, Forget(u)
  PROVE  /\ \A v \in Users : reviews'[v] = reviews[v] \/ reviews'[v] = Nobody
         /\ reviews' \in [Users -> Review \cup {Nobody}]
BY DEF InvitesTyped, Forget

LEMMA InvitationStepKeepsReviews ==
  ASSUME InvitesTyped, ReviewsTell, InvitationAssumption, [InvitationNext]_invitationVars
  PROVE  InvitesTyped' /\ ReviewsTell'
<1>1. CASE UNCHANGED invitationVars
  BY <1>1 DEF invitationVars, campaignVars, InvitesTyped, ReviewsTell, CampaignTypeOK, MembershipTypeOK
<1>2. ASSUME NEW i \in Invites, Lapse(i)
      PROVE  InvitesTyped' /\ ReviewsTell'
  <2>1. InviteMoves(i)
    BY <1>2, LapseMoves
  <2>2. PICK c \in Campaigns : c = invitations[i].campaign
    BY DEF InvitesTyped, Invitation
  <2>3. CampaignTypeOK' /\ UNCHANGED <<role, accessRevision, reviews, admissions>>
    BY <1>2 DEF Lapse, campaignVars, InvitesTyped, CampaignTypeOK, MembershipTypeOK
  <2>4. \A d \in Campaigns : accessRevision'[d] >= accessRevision[d]
    BY <2>3 DEF InvitesTyped, CampaignTypeOK
  <2> QED BY <2>1, <2>2, <2>3, <2>4, StepKeepsReviews DEF InvitesTyped
<1>3. ASSUME NEW u \in Users, NEW i \in Invites, ReadInvitation(u, i)
      PROVE  InvitesTyped' /\ ReviewsTell'
  <2>1. PICK c \in Campaigns : c = invitations[i].campaign
    BY DEF InvitesTyped, Invitation
  <2>2. PICK review \in Review :
          /\ reviews' = [reviews EXCEPT ![u] = review]
          /\ review.invite = i /\ review.access = 0
          /\ review.intendedRole = invitations[i].intendedRole
    <3> DEFINE review == [invite |-> i, token |-> invitations[i].token,
                          revision |-> invitations[i].revision,
                          intendedRole |-> invitations[i].intendedRole, access |-> 0, seen |-> role[c]]
    <3>1. review \in Review
      BY DEF Review, InvitesTyped, Invitation, CampaignTypeOK, MembershipTypeOK
    <3> QED BY <1>3, <2>1, <3>1 DEF ReadInvitation
  <2>3. /\ UNCHANGED <<role, generation, campaignStatus, campaignRevision, accessRevision>>
        /\ UNCHANGED <<invitations, admissions>> /\ invitations[i].status = "pending"
    BY <1>3 DEF ReadInvitation, campaignVars, Opens
  <2>4. InvitesTyped'
    BY <2>2, <2>3 DEF InvitesTyped, CampaignTypeOK, MembershipTypeOK
  <2> QED BY <2>2, <2>3, <2>4 DEF ReviewsTell, InvitesTyped
<1>4. ASSUME NEW u \in Users, ReadCampaign(u)
      PROVE  InvitesTyped' /\ ReviewsTell'
  <2>1. reviews[u] # Nobody
    BY <1>4 DEF ReadCampaign
  <2>2. PICK i \in Invites, c \in Campaigns : i = reviews[u].invite /\ c = invitations[i].campaign
    BY <2>1, ReviewIsTyped
  <2>3. reviews[u] \in Review /\ accessRevision[c] \in Nat /\ role[c] \in [Users -> Roles]
    BY <2>1, ReviewIsTyped DEF InvitesTyped, CampaignTypeOK, MembershipTypeOK
  <2>4. PICK review \in Review :
          /\ reviews' = [reviews EXCEPT ![u] = review]
          /\ review.invite = i /\ review.access = accessRevision[c] /\ review.seen = role[c]
          /\ review.intendedRole = reviews[u].intendedRole
    <3> DEFINE half == [reviews[u] EXCEPT !.access = accessRevision[c]]
               review == [half EXCEPT !.seen = role[c]]
    <3>1. /\ half \in Review /\ half.access = accessRevision[c]
          /\ half.invite = reviews[u].invite /\ half.intendedRole = reviews[u].intendedRole
      BY <2>3 DEF Review
    <3> HIDE DEF half
    <3>2. /\ review \in Review /\ review.access = accessRevision[c] /\ review.seen = role[c]
          /\ review.invite = reviews[u].invite /\ review.intendedRole = reviews[u].intendedRole
      BY <2>3, <3>1 DEF Review
    <3>3. reviews' = [reviews EXCEPT ![u] = review]
      BY <1>4, <2>2 DEF ReadCampaign, half
    <3> HIDE DEF review
    <3> QED BY <2>2, <3>2, <3>3
  <2>5. /\ UNCHANGED <<role, generation, campaignStatus, campaignRevision, accessRevision>>
        /\ UNCHANGED <<invitations, admissions>>
    BY <1>4 DEF ReadCampaign, campaignVars
  <2>6. InvitesTyped'
    BY <2>4, <2>5 DEF InvitesTyped, CampaignTypeOK, MembershipTypeOK
  <2>7. invitations[i].status # "unused" /\ invitations[i].intendedRole = reviews[u].intendedRole
    BY <2>1, <2>2 DEF ReviewsTell
  <2>8. /\ reviews'[u] = review /\ \A v \in Users \ {u} : reviews'[v] = reviews[v]
        /\ reviews' \in [Users -> Review \cup {Nobody}]
    BY <2>4 DEF InvitesTyped
  <2>9. ReviewsTell'
    BY <2>2, <2>3, <2>4, <2>5, <2>7, <2>8, SMTT(20) DEF ReviewsTell
  <2> QED BY <2>6, <2>9
<1>5. ASSUME NEW u \in Users, NEW i \in Invites,
             \/ \E intended \in IntendedRoles : Issue(u, i, intended)
             \/ Rotate(u, i) \/ Revoke(u, i)
      PROVE  InvitesTyped' /\ ReviewsTell'
  <2>1. InviteMoves(i)
    BY <1>5, IssueMoves, RotateMoves, RevokeMoves
  <2>2. PICK c \in Campaigns : c = invitations[i].campaign
    BY DEF InvitesTyped, Invitation
  <2>3. Bump(c) /\ UNCHANGED memberVars /\ UNCHANGED <<reviews, admissions>>
    BY <1>5, <2>2 DEF Issue, Rotate, Revoke
  <2> QED BY <2>1, <2>2, <2>3, CommandKeepsReviews DEF InvitesTyped
<1>6. ASSUME NEW u \in Users, Accept(u)
      PROVE  InvitesTyped' /\ ReviewsTell'
  <2>1. PICK i \in Invites, c \in Campaigns, g \in Nat :
           /\ c = invitations[i].campaign /\ g = NextGeneration(c, u)
           /\ MemberJoins(u, c, invitations[i].intendedRole) /\ Bump(c)
           /\ invitations' = [invitations EXCEPT ![i] = Consumed(@, "accepted", u, g)]
           /\ admissions' = admissions \cup
                {[user |-> u, campaign |-> c, generation |-> g, invite |-> i, token |-> reviews[u].token]}
           /\ reviews[u] # Nobody
           /\ Forget(u)
    BY <1>6, AcceptanceIs
  <2>2. InviteMoves(i)
    BY <2>1, ConsumedMoves
  <2>3. CampaignStep(c) /\ invitations[i].intendedRole \in IntendedRoles
    BY <2>1, JoiningIsAStep DEF InvitesTyped, Invitation
  <2>4. CampaignTypeOK'
    BY <2>3, CampaignStepKeepsType DEF InvitesTyped
  <2>5. admissions' \subseteq Admission
    BY <2>1, ReviewIsTyped DEF InvitesTyped, Admission, Review
  <2>6. /\ \A d \in Campaigns : accessRevision'[d] >= accessRevision[d]
        /\ accessRevision'[c] > accessRevision[c]
    BY <2>1, CountersGrow DEF InvitesTyped
  <2>7. \A d \in Campaigns : d # c => role'[d] = role[d]
    BY <2>3, CampaignStepIsLocal DEF InvitesTyped
  <2> QED BY <2>1, <2>2, <2>4, <2>5, <2>6, <2>7, ForgettingKeepsReviews, StepKeepsReviews
<1>7. ASSUME NEW u \in Users, Decline(u)
      PROVE  InvitesTyped' /\ ReviewsTell'
  <2>1. PICK i \in Invites, c \in Campaigns :
          /\ i = reviews[u].invite /\ c = invitations[i].campaign
    BY <1>7, ReviewIsTyped DEF Decline
  <2>2. /\ invitations' = [invitations EXCEPT ![i] = Consumed(@, "declined", u, 0)]
        /\ Bump(c) /\ Forget(u) /\ UNCHANGED memberVars /\ UNCHANGED admissions
    BY <1>7, <2>1 DEF Decline
  <2>3. InviteMoves(i)
    BY <2>2, ConsumedMoves
  <2> QED BY <2>2, <2>3, ForgettingKeepsReviews, CommandKeepsReviews
<1>8. ASSUME NEW u \in Users, NEW c \in Campaigns, ChangeAccess(u, c)
      PROVE  InvitesTyped' /\ ReviewsTell'
  <2>1. CampaignStep(c)
    BY <1>8 DEF ChangeAccess, CampaignStep, Roles, ActiveRoles
  <2>2. CampaignTypeOK'
    BY <2>1, CampaignStepKeepsType DEF InvitesTyped
  <2>3. UNCHANGED <<invitations, reviews, admissions>>
    BY <1>8 DEF ChangeAccess
  <2>4. InvitesTyped'
    BY <2>2, <2>3 DEF InvitesTyped
  <2>5. CASE Invites = {}
    BY <2>3, <2>4, <2>5, ReviewIsTyped DEF ReviewsTell, InvitesTyped, Review
  <2>6. CASE Invites # {}
    <3>1. PICK i \in Invites : TRUE
      BY <2>6
    <3> QED BY <2>1, <2>2, <2>3, <3>1, CampaignStepIsLocal, StepKeepsReviews DEF InvitesTyped
  <2> QED BY <2>5, <2>6
<1> QED BY <1>1, <1>2, <1>3, <1>4, <1>5, <1>6, <1>7, <1>8 DEF InvitationNext

LEMMA InvitationsStartTyped == InvitationAssumption /\ InvitationInit => InvitesTyped /\ ReviewsTell
<1> SUFFICES ASSUME InvitationAssumption, InvitationInit
             PROVE  InvitesTyped /\ ReviewsTell
  OBVIOUS
<1>1. CampaignTypeOK
  BY DEF InvitationInit, Founded, CampaignTypeOK, MembershipTypeOK, Roles, ActiveRoles
<1>2. \A c \in Campaigns : Unissued(c) \in Invitation
  BY DEF Unissued, Invitation, IntendedRoles
<1>3. invitations \in [Invites -> Invitation]
  BY <1>2 DEF InvitationInit
<1> QED BY <1>1, <1>3 DEF InvitationInit, InvitesTyped, ReviewsTell

(* Nobody becomes a member but by accepting an invitation of the campaign.  *)
LEMMA OnlyAcceptanceAdmits ==
  ASSUME InvitesTyped, [InvitationNext]_invitationVars, NEW c \in Campaigns, NEW v \in Users,
         ~ IsActiveMember(c, v), IsActiveMember(c, v)'
  PROVE  Accept(v) /\ \E i \in Invites :
           /\ reviews[v] # Nobody /\ i = reviews[v].invite /\ c = invitations[i].campaign
           /\ reviews[v].access = accessRevision[c]
           /\ HasSeat(c) /\ MemberJoins(v, c, invitations[i].intendedRole)
<1>1. ~ UNCHANGED role
  BY DEF IsActiveMember
<1>2. \A u \in Users, d \in Campaigns : ~ ChangeAccess(u, d)
  <2> SUFFICES ASSUME NEW u \in Users, NEW d \in Campaigns, ChangeAccess(u, d)
               PROVE  FALSE
    OBVIOUS
  <2>1. PICK target \in Users, r \in Roles :
          \/ Leave(u, target, d)
          \/ SetRole(u, target, d, r)
          \/ Archive(u, d)
          \/ Recover(u, d)
          \/ Update(u, d)
    BY DEF ChangeAccess, Roles, ActiveRoles
  <2> QED BY <2>1, NobodyJoins DEF InvitesTyped
<1>3. PICK u \in Users : Accept(u)
  BY <1>1, <1>2 DEF InvitationNext, Lapse, ReadInvitation, ReadCampaign, Issue, Rotate, Revoke, Decline,
                    campaignVars, memberVars, invitationVars
<1>4. PICK i \in Invites, d \in Campaigns, g \in Nat :
        /\ reviews[u] # Nobody /\ i = reviews[u].invite /\ d = invitations[i].campaign
        /\ reviews[u].access = accessRevision[d]
        /\ HasSeat(d) /\ MemberJoins(u, d, invitations[i].intendedRole)
  BY <1>3, AcceptanceIs
<1>5. d = c /\ u = v
  BY <1>4 DEF MemberJoins, IsActiveMember, InvitesTyped, CampaignTypeOK, MembershipTypeOK
<1> QED BY <1>3, <1>4, <1>5

(* The types of the invitations, of the reviews and of the admissions.      *)
THEOREM InvitationsTypeCorrect == InvitationSpec => []InvitationTypeOK
<1>1. InvitationInit => InvitesTyped /\ ReviewsTell
  BY InvitationsStartTyped, InvitationAssumption
<1>2. InvitesTyped /\ ReviewsTell /\ [InvitationNext]_invitationVars => (InvitesTyped /\ ReviewsTell)'
  BY InvitationStepKeepsReviews, InvitationAssumption
<1>3. InvitesTyped => InvitationTypeOK
  BY DEF InvitesTyped, InvitationTypeOK
<1> QED BY <1>1, <1>2, <1>3, PTL DEF InvitationSpec

LEMMA StepJoinsAsReviewed ==
  ASSUME InvitesTyped, ReviewsTell, InvitationNext
  PROVE  JoinsAsReviewed
<1> SUFFICES ASSUME NEW c \in Campaigns, NEW v \in Users,
                    ~ IsActiveMember(c, v), IsActiveMember(c, v)'
             PROVE  reviews[v].seen = role[c] /\ role'[c][v] = reviews[v].intendedRole
  BY DEF JoinsAsReviewed
<1>1. PICK i \in Invites :
        /\ reviews[v] # Nobody /\ i = reviews[v].invite /\ c = invitations[i].campaign
        /\ reviews[v].access = accessRevision[c]
        /\ MemberJoins(v, c, invitations[i].intendedRole)
  BY OnlyAcceptanceAdmits
<1>2. reviews[v].access # 0
  BY <1>1 DEF InvitesTyped, CampaignTypeOK
<1>3. reviews[v].seen = role[c] /\ invitations[i].intendedRole = reviews[v].intendedRole
  BY <1>1, <1>2 DEF ReviewsTell
<1>4. role'[c][v] = invitations[i].intendedRole
  BY <1>1 DEF MemberJoins, InvitesTyped, CampaignTypeOK, MembershipTypeOK
<1> QED BY <1>3, <1>4

(* Who joins, joins in the role they reviewed a campaign whose members are  *)
(* those of the review: a change of access since then outdates it (the      *)
(* revisions acceptInvitation compares), and a review that was not read to  *)
(* its end names no access revision a campaign can have.                    *)
THEOREM MembersJoinAsReviewed == InvitationSpec => JoinedAsReviewed
<1>1. InvitationInit => InvitesTyped /\ ReviewsTell
  BY InvitationsStartTyped, InvitationAssumption
<1>2. InvitesTyped /\ ReviewsTell /\ [InvitationNext]_invitationVars => (InvitesTyped /\ ReviewsTell)'
  BY InvitationStepKeepsReviews, InvitationAssumption
<1>3. InvitesTyped /\ ReviewsTell /\ [InvitationNext]_invitationVars => [JoinsAsReviewed]_invitationVars
  BY StepJoinsAsReviewed
<1> QED BY <1>1, <1>2, <1>3, PTL DEF InvitationSpec, JoinedAsReviewed

(* No two accounts take the last place (acceptInvitation counts under the   *)
(* campaign's lock).                                                        *)
SeatsCounted == \A c \in Campaigns : IsFiniteSet(ActiveMembers(c)) /\ Cardinality(ActiveMembers(c)) <= MaxMembers

LEMMA StepKeepsSeats ==
  ASSUME InvitesTyped, SeatsCounted, InvitationAssumption, [InvitationNext]_invitationVars
  PROVE  SeatsCounted'
<1> SUFFICES ASSUME NEW c \in Campaigns
             PROVE  (IsFiniteSet(ActiveMembers(c)) /\ Cardinality(ActiveMembers(c)) <= MaxMembers)'
  BY DEF SeatsCounted
<1> DEFINE S == ActiveMembers(c)
           T == ActiveMembers(c)'
<1>1. IsFiniteSet(S) /\ Cardinality(S) <= MaxMembers /\ Cardinality(S) \in Nat /\ MaxMembers \in Nat
  BY FS_CardinalityType DEF SeatsCounted, InvitationAssumption
<1>2. CASE T \subseteq S
  <2>1. IsFiniteSet(T) /\ Cardinality(T) <= Cardinality(S) /\ Cardinality(T) \in Nat
    BY <1>1, <1>2, FS_Subset, FS_CardinalityType
  <2> QED BY <1>1, <2>1
<1>3. ASSUME NEW v \in Users, v \in T, v \notin S
      PROVE  /\ T = S \cup {v}
             /\ HasSeat(c)
  <2>1. ~ IsActiveMember(c, v) /\ IsActiveMember(c, v)'
    BY <1>3 DEF ActiveMembers
  <2>2. HasSeat(c) /\ \E r \in IntendedRoles : MemberJoins(v, c, r)
    BY <2>1, OnlyAcceptanceAdmits DEF InvitesTyped, Invitation
  <2>3. T = S \cup {v}
    BY <2>1, <2>2
       DEF MemberJoins, IsActiveMember, ActiveMembers, ActiveRoles, InvitesTyped, CampaignTypeOK, MembershipTypeOK
  <2> QED BY <2>2, <2>3
<1>4. CASE \E v \in Users : v \in T /\ v \notin S
  <2>1. PICK v \in Users : v \in T /\ v \notin S
    BY <1>4
  <2>2. T = S \cup {v} /\ HasSeat(c)
    BY <1>3, <2>1
  <2>3. IsFiniteSet(T) /\ Cardinality(T) = Cardinality(S) + 1
    BY <1>1, <2>1, <2>2, FS_AddElement
  <2> QED BY <1>1, <2>2, <2>3 DEF HasSeat
<1>5. T \subseteq Users
  BY DEF ActiveMembers
<1> QED BY <1>2, <1>4, <1>5

LEMMA InvitationsStartSeated ==
  ASSUME InvitationInit, InvitationAssumption
  PROVE  SeatsCounted
<1>1. PICK founder \in [Campaigns -> Users] :
        role = [c \in Campaigns |-> [u \in Users |-> IF u = founder[c] THEN "owner" ELSE "none"]]
  BY DEF InvitationInit, Founded
<1>2. \A c \in Campaigns : ActiveMembers(c) = {founder[c]}
  BY <1>1 DEF ActiveMembers, IsActiveMember, ActiveRoles
<1>3. \A c \in Campaigns : IsFiniteSet(ActiveMembers(c)) /\ Cardinality(ActiveMembers(c)) = 1
  BY <1>2, FS_Singleton
<1> QED BY <1>3, InvitationAssumption DEF SeatsCounted, InvitationAssumption

(* Every campaign has at most as many members as it has places.             *)
THEOREM NoMoreMembersThanSeats == InvitationSpec => []MembersWithinLimit
<1>1. InvitationInit => InvitesTyped /\ ReviewsTell /\ SeatsCounted
  BY InvitationsStartTyped, InvitationsStartSeated, InvitationAssumption
<1>2. /\ InvitesTyped /\ ReviewsTell /\ SeatsCounted
      /\ [InvitationNext]_invitationVars
      => (InvitesTyped /\ ReviewsTell /\ SeatsCounted)'
  BY InvitationStepKeepsReviews, StepKeepsSeats, InvitationAssumption
<1>3. SeatsCounted => MembersWithinLimit
  BY DEF SeatsCounted, MembersWithinLimit
<1> QED BY <1>1, <1>2, <1>3, PTL DEF InvitationSpec

(* What an admission rests on is not taken back: its invitation was         *)
(* consumed and is never pending again.                                     *)
LEMMA PendingAdmitsNobody ==
  ASSUME MembersAreAdmittedOnce, NEW i \in Invites, invitations[i].status # "accepted"
  PROVE  \A a \in admissions : a.invite # i
BY DEF MembersAreAdmittedOnce

LEMMA MovingKeepsAdmissions ==
  ASSUME InvitesTyped, MembersAreAdmittedOnce, NEW i \in Invites, InviteMoves(i),
         invitations[i].status # "accepted", UNCHANGED <<role, generation, admissions>>
  PROVE  MembersAreAdmittedOnce'
<1>1. \A a \in admissions : a.invite \in Invites /\ invitations'[a.invite] = invitations[a.invite]
  BY PendingAdmitsNobody DEF InvitesTyped, Admission, InviteMoves
<1> QED BY <1>1 DEF MembersAreAdmittedOnce, ActiveMembers, IsActiveMember

LEMMA AcceptanceKeepsAdmissions ==
  ASSUME InvitesTyped, MembersAreAdmittedOnce, NEW u \in Users, Accept(u)
  PROVE  MembersAreAdmittedOnce'
<1>1. PICK i \in Invites, c \in Campaigns, g \in Nat :
        /\ reviews[u] # Nobody /\ i = reviews[u].invite /\ c = invitations[i].campaign
        /\ g = NextGeneration(c, u)
        /\ invitations[i].status = "pending" /\ invitations[i].token = reviews[u].token
        /\ MemberJoins(u, c, invitations[i].intendedRole)
        /\ invitations' = [invitations EXCEPT ![i] = Consumed(@, "accepted", u, g)]
        /\ admissions' = admissions \cup
             {[user |-> u, campaign |-> c, generation |-> g, invite |-> i, token |-> reviews[u].token]}
  BY AcceptanceIs
<1> DEFINE new == [user |-> u, campaign |-> c, generation |-> g, invite |-> i, token |-> reviews[u].token]
<1>2. /\ InviteMoves(i)
      /\ invitations'[i].status = "accepted" /\ invitations'[i].consumer = u
      /\ invitations'[i].joined = g /\ invitations'[i].token = reviews[u].token
  <2>1. invitations' = [invitations EXCEPT ![i] = Consumed(@, "accepted", u, g)]
    BY <1>1
  <2>2. /\ InviteMoves(i)
        /\ invitations'[i].status = "accepted" /\ invitations'[i].consumer = u /\ invitations'[i].joined = g
        /\ invitations'[i].token = invitations[i].token
    BY <2>1, ConsumedMoves, Zenon
  <2> QED BY <1>1, <2>2
<1>3. \A a \in admissions : a.invite # i
  BY <1>1, PendingAdmitsNobody
<1>4. \A a \in admissions : a.invite \in Invites /\ invitations'[a.invite] = invitations[a.invite]
  BY <1>2, <1>3 DEF InvitesTyped, Admission, InviteMoves
<1>5. ASSUME NEW d \in Campaigns, NEW v \in Users, IsActiveMember(d, v)', role'[d][v] # "owner"
      PROVE  \E a \in admissions' : a.user = v /\ a.campaign = d /\ a.generation = generation'[d][v]
  <2>1. CASE d = c /\ v = u
    <3>1. generation'[c][u] = g
      BY <1>1 DEF MemberJoins, InvitesTyped, CampaignTypeOK, MembershipTypeOK
    <3>2. new \in admissions' /\ new.user = v /\ new.campaign = d /\ new.generation = g
      BY <1>1, <2>1
    <3> QED BY <2>1, <3>1, <3>2
  <2>2. CASE ~ (d = c /\ v = u)
    <3>1. role'[d][v] = role[d][v] /\ generation'[d][v] = generation[d][v]
      BY <1>1, <2>2 DEF MemberJoins, InvitesTyped, CampaignTypeOK, MembershipTypeOK
    <3>2. v \in ActiveMembers(d) /\ role[d][v] # "owner"
      BY <1>5, <3>1 DEF ActiveMembers, IsActiveMember
    <3> HIDE DEF new
    <3> QED BY <1>1, <3>1, <3>2 DEF MembersAreAdmittedOnce
  <2> QED BY <2>1, <2>2
<1>6. ASSUME NEW a \in admissions'
      PROVE  /\ invitations'[a.invite].status = "accepted"
             /\ invitations'[a.invite].consumer = a.user
             /\ invitations'[a.invite].joined = a.generation
             /\ invitations'[a.invite].token = a.token
  <2>1. CASE a = new
    BY <1>2, <2>1
  <2>2. CASE a \in admissions
    BY <1>4, <2>2 DEF MembersAreAdmittedOnce
  <2> QED BY <1>1, <2>1, <2>2
<1>7. ASSUME NEW a \in admissions', NEW b \in admissions', a.invite = b.invite
      PROVE  a = b
  <2>1. new.invite = i /\ admissions' = admissions \cup {new}
    BY <1>1
  <2>2. \A x, y \in admissions : x.invite = y.invite => x = y
    BY DEF MembersAreAdmittedOnce
  <2> HIDE DEF new
  <2> QED BY <1>3, <1>7, <2>1, <2>2
<1> QED BY <1>5, <1>6, <1>7 DEF MembersAreAdmittedOnce, ActiveMembers

LEMMA AccessKeepsAdmissions ==
  ASSUME InvitesTyped, MembersAreAdmittedOnce, NEW u \in Users, NEW c \in Campaigns, ChangeAccess(u, c)
  PROVE  MembersAreAdmittedOnce'
<1>1. PICK target \in Users, r \in Roles :
        \/ Leave(u, target, c)
        \/ SetRole(u, target, c, r)
        \/ Archive(u, c)
        \/ Recover(u, c)
        \/ Update(u, c)
  BY DEF ChangeAccess, Roles, ActiveRoles
<1>2. CampaignStep(c) /\ CampaignTypeOK
  BY <1>1 DEF CampaignStep, InvitesTyped
<1>3. ASSUME NEW d \in Campaigns, NEW v \in Users, IsActiveMember(d, v)', role'[d][v] # "owner"
      PROVE  \E a \in admissions : a.user = v /\ a.campaign = d /\ a.generation = generation'[d][v]
  <2>1. IsActiveMember(d, v)
    BY <1>1, <1>2, <1>3, NobodyJoins
  <2>2. generation'[d][v] = generation[d][v] /\ role[d][v] # "owner"
    BY <1>2, <1>3, <2>1, MembershipsMove
  <2> QED BY <2>1, <2>2 DEF MembersAreAdmittedOnce, ActiveMembers
<1>4. UNCHANGED <<invitations, admissions>>
  BY DEF ChangeAccess
<1> QED BY <1>3, <1>4 DEF MembersAreAdmittedOnce, ActiveMembers

LEMMA StepKeepsAdmissions ==
  ASSUME InvitesTyped, ReviewsTell, MembersAreAdmittedOnce, [InvitationNext]_invitationVars
  PROVE  MembersAreAdmittedOnce'
<1>1. CASE UNCHANGED invitationVars
  BY <1>1 DEF invitationVars, campaignVars, MembersAreAdmittedOnce, ActiveMembers, IsActiveMember
<1>2. CASE (\E u \in Users, i \in Invites : ReadInvitation(u, i)) \/ (\E u \in Users : ReadCampaign(u))
  <2>1. UNCHANGED <<role, generation, invitations, admissions>>
    BY <1>2 DEF ReadInvitation, ReadCampaign, campaignVars
  <2> QED BY <2>1 DEF MembersAreAdmittedOnce, ActiveMembers, IsActiveMember
<1>3. ASSUME NEW i \in Invites, Lapse(i)
      PROVE  MembersAreAdmittedOnce'
  BY <1>3, LapseMoves, MovingKeepsAdmissions DEF Lapse, campaignVars
<1>4. ASSUME NEW u \in Users, NEW i \in Invites,
             \/ \E intended \in IntendedRoles : Issue(u, i, intended)
             \/ Rotate(u, i) \/ Revoke(u, i)
      PROVE  MembersAreAdmittedOnce'
  <2>1. InviteMoves(i) /\ invitations[i].status # "accepted"
    BY <1>4, IssueMoves, RotateMoves, RevokeMoves
  <2> QED BY <1>4, <2>1, MovingKeepsAdmissions DEF Issue, Rotate, Revoke, memberVars
<1>5. ASSUME NEW u \in Users, Decline(u)
      PROVE  MembersAreAdmittedOnce'
  <2>1. PICK i \in Invites : i = reviews[u].invite
    BY <1>5, ReviewIsTyped DEF Decline
  <2>2. /\ invitations' = [invitations EXCEPT ![i] = Consumed(@, "declined", u, 0)]
        /\ invitations[i].status = "pending" /\ UNCHANGED <<role, generation, admissions>>
    BY <1>5, <2>1 DEF Decline, MayConsume, Opens, memberVars
  <2>3. InviteMoves(i)
    BY <2>2, ConsumedMoves
  <2> QED BY <2>2, <2>3, MovingKeepsAdmissions
<1> QED BY <1>1, <1>2, <1>3, <1>4, <1>5, AcceptanceKeepsAdmissions, AccessKeepsAdmissions DEF InvitationNext

LEMMA InvitationsStartAdmitted ==
  ASSUME InvitationInit
  PROVE  MembersAreAdmittedOnce
BY DEF InvitationInit, Founded, MembersAreAdmittedOnce, ActiveMembers, IsActiveMember, ActiveRoles

(* Whoever is a member was admitted under the generation they have, by an   *)
(* invitation that admits nobody else, through all its tokens and all its   *)
(* rotations (acceptInvitation, consumeInvitation).                         *)
THEOREM InvitationsAdmitOnce == InvitationSpec => []MembersAreAdmittedOnce
<1>1. InvitationInit => InvitesTyped /\ ReviewsTell /\ MembersAreAdmittedOnce
  BY InvitationsStartTyped, InvitationsStartAdmitted, InvitationAssumption
<1>2. /\ InvitesTyped /\ ReviewsTell /\ MembersAreAdmittedOnce
      /\ [InvitationNext]_invitationVars
      => (InvitesTyped /\ ReviewsTell /\ MembersAreAdmittedOnce)'
  BY InvitationStepKeepsReviews, StepKeepsAdmissions, InvitationAssumption
<1> QED BY <1>1, <1>2, PTL DEF InvitationSpec
=============================================================================
