-------------------------- MODULE PushRolls_proofs --------------------------
(***************************************************************************)
(* What PushRolls promises, proved for any number of rolls and requests,   *)
(* whatever custody and the members do meanwhile.                          *)
(***************************************************************************)
EXTENDS PushRolls, Custody_proofs

(* Parents are rolls that were made, also the one a request has read.       *)
ParentsAreRolled ==
  /\ \A r \in Rolled : rolls[r].parent \in Rolled \cup {NoRoll}
  /\ \A w \in Pushers : pushes[w] # NoPush => pushes[w].parent \in Rolled \cup {NoRoll}

PushInv == PushTypeOK /\ ParentsAreRolled /\ PushedOnce

----------------------------------------------------------------------------
LEMMA NarrowerIsNarrower ==
  ASSUME NEW a \in Audiences, NEW b \in Audiences
  PROVE  /\ NarrowerAudience(a, b) \in Audiences
         /\ Rank[NarrowerAudience(a, b)] <= Rank[a]
BY DEF Audiences, NarrowerAudience, Rank

LEMMA DefaultIsAudience ==
  ASSUME PushTypeOK
  PROVE  Default \in Audiences
BY DEF PushTypeOK, CustodyTypeOK, Default, Audiences

LEMMA ScopeIsTyped ==
  ASSUME PushTypeOK
  PROVE  Scope \in ScopeOf
BY DEF PushTypeOK, CustodyTypeOK, Scope, ScopeOf

LEMMA RequestIsTyped ==
  ASSUME PushTypeOK, NEW w \in Pushers, pushes[w] # NoPush
  PROVE  /\ pushes[w].actor \in Users /\ pushes[w].parent \in Rolls \cup {NoRoll}
         /\ pushes[w].revision \in Nat /\ pushes[w].asked \in Audiences
BY DEF PushTypeOK

LEMMA RollIsTyped ==
  ASSUME PushTypeOK, NEW r \in Rolled
  PROVE  r \in Rolls /\ rolls[r] \in Roll
BY DEF PushTypeOK, Rolled

(* Making a roll writes nothing else of the sheet than its revision.        *)
LEMMA TouchKeepsCustody ==
  ASSUME CustodyTypeOK, Touch
  PROVE  /\ CustodyTypeOK'
         /\ UNCHANGED <<owner, campaign, returnOwner, placement, lifecycle, controllers, memberVars>>
BY DEF Touch, custodyVars, memberVars, CustodyTypeOK, MembershipTypeOK

----------------------------------------------------------------------------
(* The roll a request makes.                                                *)
LEMMA RootIsTyped ==
  ASSUME PushTypeOK, NEW w \in Pushers, NEW r \in Rolls, CommitRoot(w, r)
  PROVE  [parent |-> NoRoll, root |-> r, attempt |-> 0, actor |-> pushes[w].actor,
          principal |-> pushes[w].actor, audience |-> pushes[w].asked, scope |-> Scope] \in Roll
BY RequestIsTyped, ScopeIsTyped DEF CommitRoot, Committable, Roll

LEMMA ChildIsTyped ==
  ASSUME PushTypeOK, ParentsAreRolled, NEW w \in Pushers, NEW r \in Rolls, CommitPush(w, r)
  PROVE  /\ pushes[w].parent \in Rolled
         /\ [parent |-> pushes[w].parent, root |-> rolls[pushes[w].parent].root,
             attempt |-> rolls[pushes[w].parent].attempt + 1, actor |-> pushes[w].actor,
             principal |-> rolls[pushes[w].parent].principal,
             audience |-> NarrowerAudience(rolls[pushes[w].parent].audience, Default),
             scope |-> rolls[pushes[w].parent].scope] \in Roll
<1>1. pushes[w].parent \in Rolled
  BY DEF CommitPush, Committable, ParentsAreRolled
<1>2. rolls[pushes[w].parent] \in Roll
  BY <1>1, RollIsTyped
<1>3. pushes[w].actor \in Users /\ pushes[w].parent \in Rolls
  BY <1>1, RequestIsTyped, RollIsTyped DEF CommitPush, Committable
<1>4. NarrowerAudience(rolls[pushes[w].parent].audience, Default) \in Audiences
  BY <1>2, NarrowerIsNarrower, DefaultIsAudience DEF Roll
<1>5. rolls[pushes[w].parent].attempt + 1 \in Nat
  BY <1>2 DEF Roll
<1> QED BY <1>1, <1>2, <1>3, <1>4, <1>5 DEF Roll

(* A step that makes no roll.                                               *)
LEMMA NoRollMade ==
  ASSUME PushInv, UNCHANGED rolls, CustodyTypeOK', audienceDefault' \in [Campaigns -> Audiences],
         pushes' \in [Pushers -> [actor : Users, parent : Rolls \cup {NoRoll}, revision : Nat,
                                  asked : Audiences] \cup {NoPush}],
         \A w \in Pushers : pushes'[w] # NoPush => pushes'[w].parent \in Rolled \cup {NoRoll}
  PROVE  PushInv'
<1>1. PushTypeOK'
  BY DEF PushInv, PushTypeOK
<1>2. Rolled' = Rolled /\ \A r \in Rolls : Children(r)' = Children(r)
  BY DEF Rolled, Children
<1>3. ParentsAreRolled'
  BY <1>2 DEF PushInv, ParentsAreRolled
<1>4. PushedOnce'
  BY <1>2 DEF PushInv, PushedOnce, Rolled
<1> QED BY <1>1, <1>3, <1>4 DEF PushInv

LEMMA RootKeepsInv ==
  ASSUME PushInv, NEW w \in Pushers, NEW r \in Rolls, CommitRoot(w, r)
  PROVE  PushInv'
<1> DEFINE new == [parent |-> NoRoll, root |-> r, attempt |-> 0, actor |-> pushes[w].actor,
                   principal |-> pushes[w].actor, audience |-> pushes[w].asked, scope |-> Scope]
<1>1. new \in Roll /\ new.parent = NoRoll /\ new.attempt = 0
  BY RootIsTyped DEF PushInv
<1>2. rolls' = [rolls EXCEPT ![r] = new] /\ pushes' = [pushes EXCEPT ![w] = NoPush]
  BY DEF CommitRoot
<1> HIDE DEF new
<1>3. /\ rolls'[r] = new /\ r \notin Rolled
      /\ \A k \in Rolls : k # r => rolls'[k] = rolls[k]
  BY <1>2 DEF CommitRoot, PushInv, PushTypeOK
<1>4. PushTypeOK'
  BY <1>1, <1>2, TouchKeepsCustody DEF CommitRoot, PushInv, PushTypeOK
<1>5. Rolled \subseteq Rolled' /\ Rolled' \subseteq Rolled \cup {r}
  BY <1>3 DEF Rolled
<1>6. \A v \in Pushers : pushes'[v] = NoPush \/ pushes'[v] = pushes[v]
  BY <1>2 DEF PushInv, PushTypeOK
<1>7. ParentsAreRolled'
  BY <1>1, <1>3, <1>5, <1>6 DEF ParentsAreRolled, PushInv, Rolled
<1>8. \A k \in Rolled : Children(k)' = Children(k)
  BY <1>1, <1>3, <1>5, PushAssumption DEF Children, Rolled
<1>9. Children(r)' = {}
  BY <1>1, <1>3, <1>5, PushAssumption DEF Children, Rolled, PushInv, ParentsAreRolled
<1>10. \A k \in Rolled : Children(k) \subseteq Rolled /\ k # r
  BY <1>3 DEF Children
<1>11. PushedOnce'
  <2> SUFFICES ASSUME NEW k \in Rolled'
               PROVE  /\ \A l, n \in Children(k)' : l = n
                      /\ rolls'[k].attempt <= MaxAttempts
                      /\ \A l \in Children(k)' :
                           /\ rolls'[l].scope = rolls'[k].scope
                           /\ rolls'[l].principal = rolls'[k].principal
                           /\ Rank[rolls'[l].audience] <= Rank[rolls'[k].audience]
    BY DEF PushedOnce
  <2>1. CASE k = r
    BY <1>1, <1>3, <1>9, <2>1, PushAssumption
  <2>2. CASE k \in Rolled
    <3>1. rolls'[k] = rolls[k] /\ \A l \in Children(k) : rolls'[l] = rolls[l]
      BY <1>3, <1>10, <2>2 DEF Rolled
    <3> QED BY <1>8, <2>2, <3>1 DEF PushInv, PushedOnce
  <2> QED BY <1>5, <2>1, <2>2
<1> QED BY <1>4, <1>7, <1>11 DEF PushInv

LEMMA PushKeepsInv ==
  ASSUME PushInv, NEW w \in Pushers, NEW r \in Rolls, CommitPush(w, r)
  PROVE  PushInv'
<1>0. PICK p \in Rolls : p = pushes[w].parent
  BY ChildIsTyped, RollIsTyped DEF PushInv
<1> DEFINE new == [parent |-> p, root |-> rolls[p].root, attempt |-> rolls[p].attempt + 1,
                   actor |-> pushes[w].actor, principal |-> rolls[p].principal,
                   audience |-> NarrowerAudience(rolls[p].audience, Default),
                   scope |-> rolls[p].scope]
<1>1. p \in Rolled /\ new \in Roll
  BY <1>0, ChildIsTyped DEF PushInv
<1>2. /\ rolls[p] \in Roll /\ Default \in Audiences
      /\ rolls[p].attempt < MaxAttempts /\ Children(p) = {} /\ r \notin Rolled
  BY <1>0, <1>1, RollIsTyped, DefaultIsAudience DEF PushInv, CommitPush, Unpushed
<1>3. /\ new.parent = p /\ new.scope = rolls[p].scope /\ new.principal = rolls[p].principal
      /\ new.attempt <= MaxAttempts /\ Rank[new.audience] <= Rank[rolls[p].audience]
  BY <1>2, NarrowerIsNarrower, PushAssumption DEF Roll
<1>4. rolls' = [rolls EXCEPT ![r] = new] /\ pushes' = [pushes EXCEPT ![w] = NoPush]
  BY <1>0 DEF CommitPush
<1> HIDE DEF new
<1>5. /\ rolls'[r] = new
      /\ \A k \in Rolls : k # r => rolls'[k] = rolls[k]
  BY <1>4 DEF PushInv, PushTypeOK
<1>6. PushTypeOK'
  BY <1>1, <1>4, TouchKeepsCustody DEF CommitPush, PushInv, PushTypeOK
<1>7. Rolled \subseteq Rolled' /\ Rolled' \subseteq Rolled \cup {r}
  BY <1>2, <1>5 DEF Rolled
<1>8. \A v \in Pushers : pushes'[v] = NoPush \/ pushes'[v] = pushes[v]
  BY <1>4 DEF PushInv, PushTypeOK
<1>9. ParentsAreRolled'
  BY <1>1, <1>3, <1>5, <1>7, <1>8 DEF ParentsAreRolled, PushInv, Rolled
<1>10. \A k \in Rolled : k # p => Children(k)' = Children(k)
  BY <1>2, <1>3, <1>5, <1>7 DEF Children, Rolled
<1>11. Children(r)' = {}
  BY <1>1, <1>2, <1>3, <1>5, <1>7, PushAssumption DEF Children, Rolled, PushInv, ParentsAreRolled
<1>12. Children(p)' \subseteq {r}
  BY <1>2, <1>5, <1>7 DEF Children, Rolled
<1>13. \A k \in Rolled : Children(k) \subseteq Rolled /\ k # r
  BY <1>2 DEF Children
<1>14. PushedOnce'
  <2> SUFFICES ASSUME NEW k \in Rolled'
               PROVE  /\ \A l, n \in Children(k)' : l = n
                      /\ rolls'[k].attempt <= MaxAttempts
                      /\ \A l \in Children(k)' :
                           /\ rolls'[l].scope = rolls'[k].scope
                           /\ rolls'[l].principal = rolls'[k].principal
                           /\ Rank[rolls'[l].audience] <= Rank[rolls'[k].audience]
    BY DEF PushedOnce
  <2>1. CASE k = r
    BY <1>3, <1>5, <1>11, <2>1
  <2>2. CASE k = p
    <3>1. rolls'[k] = rolls[k]
      BY <1>1, <1>5, <1>13, <2>2 DEF Rolled
    <3> QED BY <1>1, <1>3, <1>5, <1>12, <2>2, <3>1 DEF PushInv, PushedOnce
  <2>3. CASE k \in Rolled /\ k # p
    <3>1. rolls'[k] = rolls[k] /\ \A l \in Children(k) : rolls'[l] = rolls[l]
      BY <1>5, <1>13, <2>3 DEF Rolled
    <3> QED BY <1>10, <2>3, <3>1 DEF PushInv, PushedOnce
  <2> QED BY <1>7, <2>1, <2>2, <2>3
<1> QED BY <1>6, <1>9, <1>14 DEF PushInv

LEMMA PushNextKeepsInv ==
  ASSUME PushInv, PushNext
  PROVE  PushInv'
<1> USE DEF PushInv
<1>1. ASSUME NEW w \in Pushers, NEW u \in Users, NEW p \in Rolls \cup {NoRoll}, NEW a \in Audiences,
             ReadPush(w, u, p, a)
      PROVE  PushInv'
  <2>1. CustodyTypeOK'
    BY <1>1 DEF ReadPush, custodyVars, PushTypeOK, CustodyTypeOK, MembershipTypeOK
  <2>2. revision \in Nat
    BY DEF PushTypeOK, CustodyTypeOK
  <2>3. \A v \in Pushers : pushes'[v] # NoPush =>
          pushes'[v].parent \in Rolled \cup {NoRoll}
    BY <1>1 DEF ReadPush, PushTypeOK, ParentsAreRolled
  <2> HIDE DEF PushInv
  <2> QED BY <1>1, <2>1, <2>2, <2>3, NoRollMade DEF ReadPush, PushTypeOK, PushInv
<1>2. ASSUME NEW w \in Pushers, GiveUp(w)
      PROVE  PushInv'
  <2>1. CustodyTypeOK'
    BY <1>2 DEF GiveUp, custodyVars, PushTypeOK, CustodyTypeOK, MembershipTypeOK
  <2>2. \A v \in Pushers : pushes'[v] # NoPush =>
          pushes'[v].parent \in Rolled \cup {NoRoll}
    BY <1>2 DEF GiveUp, PushTypeOK, ParentsAreRolled
  <2> HIDE DEF PushInv
  <2> QED BY <1>2, <2>1, <2>2, NoRollMade DEF GiveUp, PushTypeOK, PushInv
<1>3. ASSUME NEW u \in Users, NEW c \in Campaigns, NEW a \in Audiences, SetAudienceDefault(u, c, a)
      PROVE  PushInv'
  <2>1. CustodyTypeOK'
    BY <1>3 DEF SetAudienceDefault, custodyVars, PushTypeOK, CustodyTypeOK, MembershipTypeOK
  <2> HIDE DEF PushInv
  <2> QED BY <1>3, <2>1, NoRollMade DEF SetAudienceDefault, PushTypeOK, PushInv, ParentsAreRolled
<1>4. ASSUME CustodyStep \/ CommandStep, UNCHANGED <<audienceDefault, rolls, pushes>>
      PROVE  PushInv'
  <2>1. CustodyTypeOK'
    BY <1>4, CustodyStepKeepsType, CommandStepKeepsType DEF PushTypeOK
  <2> HIDE DEF PushInv
  <2> QED BY <1>4, <2>1, NoRollMade DEF PushTypeOK, PushInv, ParentsAreRolled
<1> HIDE DEF PushInv
<1> QED BY <1>1, <1>2, <1>3, <1>4, RootKeepsInv, PushKeepsInv DEF PushNext

LEMMA PushInitIsFine == PushInit => PushInv
<1> SUFFICES ASSUME PushInit PROVE PushInv
  OBVIOUS
<1>1. PushTypeOK
  BY CustodyInitIsFine DEF PushInit, PushTypeOK
<1>2. Rolled = {}
  BY DEF PushInit, Rolled
<1> QED BY <1>1, <1>2 DEF PushInit, PushInv, ParentsAreRolled, PushedOnce

LEMMA PushInvIsInvariant == PushSpec => []PushInv
<1>1. PushInv /\ [PushNext]_pushVars => PushInv'
  <2> SUFFICES ASSUME PushInv, [PushNext]_pushVars
               PROVE  PushInv'
    OBVIOUS
  <2>1. CASE PushNext
    BY <2>1, PushNextKeepsInv
  <2>2. CASE UNCHANGED pushVars
    <3>1. CustodyTypeOK'
      BY <2>2 DEF pushVars, custodyVars, PushInv, PushTypeOK, CustodyTypeOK, MembershipTypeOK
    <3> QED BY <2>2, <3>1, NoRollMade DEF pushVars, PushInv, PushTypeOK, ParentsAreRolled
  <2> QED BY <2>1, <2>2
<1> QED BY <1>1, PushInitIsFine, PTL DEF PushSpec

(* One roll is pushed by one request only, and a chain of pushes is bounded, *)
(* keeps its placement and principal and never widens its audience, whoever  *)
(* races for it (preparePushCommit under the sheet's lock).                  *)
THEOREM RollsArePushedOnce == PushSpec => []PushedOnce
BY PushInvIsInvariant, PTL DEF PushInv

----------------------------------------------------------------------------
LEMMA WritersAreMembers ==
  ASSUME NEW u \in Users, MayWrite(u), campaign # NoCampaign
  PROVE  IsActiveMember(campaign, u)
BY DEF MayWrite, OwnsStandalone, MayControl, IsGameMaster, IsActiveMember, ActiveRoles

LEMMA MadeIsDisclosed ==
  ASSUME PushInv, PushNext, NEW r \in Rolls, rolls[r] = Unrolled, rolls'[r] # Unrolled
  PROVE  Disclosed(r)'
<1>1. PICK w \in Pushers, k \in Rolls : CommitRoot(w, k) \/ CommitPush(w, k)
  BY DEF PushNext, ReadPush, GiveUp, SetAudienceDefault
<1>2. k = r
  BY <1>1 DEF CommitRoot, CommitPush, PushInv, PushTypeOK
<1>3. /\ UNCHANGED <<owner, campaign, placement, role>>
      /\ pushes[w].actor \in Users /\ MayWrite(pushes[w].actor)
  BY <1>1, TouchKeepsCustody, RequestIsTyped
  DEF CommitRoot, CommitPush, Committable, PushInv, PushTypeOK, memberVars
<1>4. PICK u \in Users : u = pushes[w].actor
  BY <1>3
<1>5. CASE CommitRoot(w, r)
  <2> DEFINE new == [parent |-> NoRoll, root |-> r, attempt |-> 0, actor |-> u,
                     principal |-> u, audience |-> pushes[w].asked, scope |-> Scope]
  <2>1. rolls'[r] = new
    BY <1>4, <1>5 DEF CommitRoot, PushInv, PushTypeOK
  <2>2. new.actor = u /\ new.principal = u /\ new.scope = Scope /\ new.parent = NoRoll
    OBVIOUS
  <2> HIDE DEF new
  <2>3. Scope' = Scope
    BY <1>3 DEF Scope
  <2>4. CASE campaign = NoCampaign
    <3>1. owner = u
      BY <1>3, <1>4, <2>4, CustodyAssumption DEF MayWrite, OwnsStandalone
    <3> QED BY <1>3, <2>1, <2>2, <2>3, <2>4, <3>1 DEF Disclosed, MayReadPush
  <2>5. CASE campaign # NoCampaign
    <3>1. IsActiveMember(campaign, u)'
      BY <1>3, <1>4, <2>5, WritersAreMembers DEF IsActiveMember
    <3> QED BY <1>3, <2>1, <2>2, <2>3, <2>5, <3>1 DEF Disclosed, MayReadPush, CanReadRoll, IsActiveMember
  <2> QED BY <2>4, <2>5
<1>6. CASE CommitPush(w, r)
  <2>0. PICK p \in Rolls : p = pushes[w].parent
    BY <1>6, ChildIsTyped, RollIsTyped DEF PushInv
  <2> DEFINE new == [parent |-> p, root |-> rolls[p].root, attempt |-> rolls[p].attempt + 1,
                     actor |-> u, principal |-> rolls[p].principal,
                     audience |-> NarrowerAudience(rolls[p].audience, Default),
                     scope |-> rolls[p].scope]
  <2>1. p \in Rolled /\ p # r /\ rolls[p] \in Roll
    BY <1>6, <2>0, ChildIsTyped, RollIsTyped DEF PushInv, Rolled
  <2>2. rolls'[r] = new /\ rolls'[p] = rolls[p]
    BY <1>4, <1>6, <2>0, <2>1 DEF CommitPush, PushInv, PushTypeOK, Rolled
  <2>3. /\ new.actor = u /\ new.principal = rolls[p].principal /\ new.scope = rolls[p].scope
        /\ new.parent = p /\ new.audience = NarrowerAudience(rolls[p].audience, Default)
    OBVIOUS
  <2>4. /\ MayReadPush(u, rolls[p])
        /\ ChildReadable(u, p)
    BY <1>4, <1>6, <2>0 DEF CommitPush
  <2> HIDE DEF new
  <2>5. Scope' = Scope
    BY <1>3 DEF Scope
  <2>6. MayReadPush(u, rolls[p])'
    BY <1>3, <2>2, <2>4, <2>5 DEF MayReadPush, CanReadRoll, IsActiveMember, IsGameMaster
  <2>7. MayReadPush(u, rolls[r])'
    BY <1>3, <2>2, <2>3, <2>4, <2>5 DEF MayReadPush, ChildReadable, CanReadRoll, IsActiveMember, IsGameMaster
  <2> QED BY <2>2, <2>3, <2>6, <2>7 DEF Disclosed
<1> QED BY <1>1, <1>2, <1>5, <1>6

(* A roll is only made for somebody who may read it, and what it rerolls,   *)
(* at that moment (mayReadPush and the narrowed audience under the lock).   *)
THEOREM RollsAreDisclosed == PushSpec => PushesAreDisclosed
<1>1. PushInv /\ [PushNext]_pushVars
        => [\A r \in Rolls : rolls[r] = Unrolled /\ rolls'[r] # Unrolled => Disclosed(r)']_pushVars
  BY MadeIsDisclosed
<1> QED BY <1>1, PushInvIsInvariant, PTL DEF PushSpec, PushesAreDisclosed
=============================================================================
