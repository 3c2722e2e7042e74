---------------------- MODULE CharacterCommands_proofs ----------------------
(***************************************************************************)
(* The command pipeline proved for any number of workers, keys, users and  *)
(* campaigns.  The inductive invariant says what a worker at each stage    *)
(* may rely on: its job is a key it has claimed, its base is the revision  *)
(* the key was first sent with, and the state it resolved from is the      *)
(* sheet's as long as the revision has not moved.                           *)
(***************************************************************************)
EXTENDS CharacterCommands, Custody_proofs

(* Stages in which a worker holds a claim and still needs what it read. *)
Executing == Claimants \ {"finalizing"}

JobsAreKnown ==
  \A w \in Workers : pc[w] # "idle" => job[w] \in Keys

LEMMA InitType == Init => TypeOK /\ JobsAreKnown
<1> SUFFICES ASSUME Init PROVE TypeOK /\ JobsAreKnown
  OBVIOUS
<1>1. CustodyTypeOK
  BY CustodyInitIsFine DEF Init
<1>2. TypeOK
  BY <1>1 DEF Init, TypeOK, Nothing, Outcome, Standalone, OutcomeType, ScopeType,
              PassingCodes, NoSnapshot, SnapshotType, Stages
<1>3. JobsAreKnown
  BY DEF Init, JobsAreKnown
<1> QED BY <1>2, <1>3

(* Concluding leaves a worker with a stage and an outcome and clears the rest. *)
LEMMA ConcludeType ==
  ASSUME TypeOK, NEW w \in Workers, NEW stage \in Stages, NEW o \in OutcomeType,
         Conclude(w, stage, o)
  PROVE  /\ pc' \in [Workers -> Stages]
         /\ base' \in [Workers -> Nat]
         /\ snapshot' \in [Workers -> SnapshotType]
         /\ scope' \in [Workers -> ScopeType]
         /\ outcome' \in [Workers -> OutcomeType]
         /\ pc' = [pc EXCEPT ![w] = stage]
BY DEF Conclude, GoTo, TypeOK, Standalone, ScopeType, NoSnapshot, SnapshotType

LEMMA OutcomeTypes ==
  ASSUME NEW code \in ReceiptCodes \cup PassingCodes, NEW s \in ScopeType
  PROVE  Outcome(code, s) \in OutcomeType
BY DEF Outcome, OutcomeType

LEMMA StandaloneType == Standalone \in ScopeType
BY DEF Standalone, ScopeType

(* A step that changes neither the sheet nor the executions. *)
LEMMA QuietType ==
  ASSUME TypeOK, sheetUnchanged, executionUnchanged,
         crashes' \in Nat,
         pc' \in [Workers -> Stages], job' \in [Workers -> Keys \cup {NoKey}],
         base' \in [Workers -> Nat], snapshot' \in [Workers -> SnapshotType],
         scope' \in [Workers -> ScopeType], outcome' \in [Workers -> OutcomeType],
         contested' \in [Workers -> BOOLEAN]
  PROVE  TypeOK'
BY DEF TypeOK, CustodyTypeOK, MembershipTypeOK, sheetUnchanged, executionUnchanged, custodyVars

LEMMA ResolvableType == TypeOK => Resolvable \in SnapshotType
BY DEF TypeOK, CustodyTypeOK, MembershipTypeOK, Resolvable, SnapshotType

(***************************************************************************)
(* Most of what a worker does only reads: it goes on with what it read, or *)
(* it concludes with an error to be written, a stored outcome or an answer *)
(* that is no receipt.  Every invariant below is preserved by such a step  *)
(* for the same few reasons, so they are collected once.                    *)
(***************************************************************************)
GoesOn(w) ==
  \/ /\ pc[w] = "precheck"
     /\ GoTo(w, "claiming")
     /\ UNCHANGED <<base, snapshot, scope, outcome>>
  \/ \E next \in Executing, read \in {snapshot[w], Resolvable}, s \in ScopeType :
       /\ pc[w] \in Executing
       /\ next \in {"loaded", "resolved"} =>
            read = Resolvable \/ (pc[w] = "loaded" /\ read = snapshot[w])
       /\ s.campaign # scope[w].campaign => Kind(w) # "transfer"
       /\ GoTo(w, next)
       /\ snapshot' = [snapshot EXCEPT ![w] = read]
       /\ scope' = [scope EXCEPT ![w] = s]
       /\ UNCHANGED <<base, outcome>>

Concludes(w) ==
  \E o \in OutcomeType :
    \/ /\ pc[w] \in Executing
       /\ o.code \in ReceiptCodes \ {"done"}
       /\ Conclude(w, "finalizing", o)
    \/ /\ pc[w] \in Executing \cup {"claiming"}
       /\ status[job[w]] = "completed" /\ o = result[job[w]]
       /\ Conclude(w, "replaying", o)
    \/ /\ o.code \in PassingCodes \/ (pc[w] = "replaying" /\ o = outcome[w])
       /\ Conclude(w, "answered", o)

OnlyReads(w) ==
  /\ Serves(w)
  /\ sheetUnchanged /\ executionUnchanged
  /\ UNCHANGED <<job, crashes, contested>>
  /\ GoesOn(w) \/ Concludes(w)

Reads(w) ==
  \/ Precheck(w) \/ ClaimReplay(w) \/ ClaimTurnedAway(w)
  \/ LoadOwned(w) \/ LoadForeign(w) \/ LoadScope(w) \/ LoadAttached(w)
  \/ ResolveDone(w) \/ ResolveFailed(w)
  \/ CommitRefused(w) \/ CommitAlreadyDone(w)
  \/ Recheck(w) \/ Replay(w)

LEMMA ReadsOnlyRead ==
  ASSUME TypeOK, JobsAreKnown, NEW w \in Workers, Reads(w)
  PROVE  OnlyReads(w)
<1> DEFINE Framed == /\ sheetUnchanged /\ executionUnchanged
                     /\ UNCHANGED <<job, crashes, contested>>
<1>1. /\ scope[w] \in ScopeType /\ snapshot[w] \in SnapshotType /\ outcome[w] \in OutcomeType
      /\ pc \in [Workers -> Stages]
      /\ snapshot = [snapshot EXCEPT ![w] = snapshot[w]]
      /\ scope = [scope EXCEPT ![w] = scope[w]]
  BY DEF TypeOK
<1>2. \A s \in ScopeType : ErrorScope(w, s) \in ScopeType
  BY StandaloneType DEF ErrorScope
<1>3. ASSUME NEW code \in ReceiptCodes \ {"done"}, NEW s \in ScopeType,
             pc[w] \in Executing, Fail(w, code, s)
      PROVE  Concludes(w)
  <2> Outcome(code, s) \in OutcomeType /\ Outcome(code, s).code = code
    BY OutcomeTypes DEF Outcome
  <2> QED BY <1>3 DEF Concludes, Fail
<1>4. ASSUME NEW code \in PassingCodes, Deny(w, code)
      PROVE  Concludes(w)
  <2> Outcome(code, Standalone) \in OutcomeType /\ Outcome(code, Standalone).code = code
    BY OutcomeTypes, StandaloneType DEF Outcome
  <2> QED BY <1>4 DEF Concludes, Deny, Reply
<1>5. ASSUME Recall(w), pc[w] \in Executing \cup {"claiming"}, status[job[w]] = "completed"
      PROVE  Concludes(w)
  <2> job[w] \in Keys /\ result[job[w]] \in OutcomeType
    BY <1>5 DEF TypeOK, JobsAreKnown, Executing, Claimants
  <2> QED BY <1>5 DEF Concludes, Recall
<1>6. ASSUME NEW next \in Executing, pc[w] \in Executing, GoTo(w, next),
             UNCHANGED <<base, snapshot, scope, outcome>>,
             next \in {"loaded", "resolved"} => pc[w] = "loaded"
      PROVE  GoesOn(w)
  BY <1>1, <1>6 DEF GoesOn
<1>7. SUFFICES Framed /\ Serves(w) /\ (GoesOn(w) \/ Concludes(w))
  BY DEF OnlyReads
<1> USE DEF Serves, readsUnchanged
<1>a. CASE Precheck(w)
  BY <1>a, <1>4 DEF Precheck, GoesOn, PassingCodes
<1>b. CASE ClaimReplay(w)
  BY <1>b, <1>5 DEF ClaimReplay
<1>c. CASE ClaimTurnedAway(w)
  BY <1>c, <1>4 DEF ClaimTurnedAway, PassingCodes
<1>d. CASE LoadOwned(w)
  <2>1. Framed /\ pc[w] = "claimed"
    BY <1>d DEF LoadOwned
  <2>2. CASE lifecycle = "archived" /\ ~ Manages(w)
    BY <1>d, <2>1, <2>2, <1>3, StandaloneType DEF LoadOwned, Executing, Claimants, ReceiptCodes
  <2>3. CASE ~ (lifecycle = "archived" /\ ~ Manages(w))
    <3>1. GoesOn(w)
      BY <1>d, <2>1, <2>3, <1>1 DEF LoadOwned, GoesOn, Executing, Claimants
    <3> QED BY <2>1, <3>1
  <2> QED BY <2>2, <2>3
<1>e. CASE LoadForeign(w)
  BY <1>e, <1>3, <1>6, StandaloneType DEF LoadForeign, Executing, Claimants, ReceiptCodes
<1>f. CASE LoadScope(w)
  <2>1. Framed /\ pc[w] = "scoping"
    BY <1>f DEF LoadScope
  <2>2. CASE campaign = NoCampaign \/ Kind(w) = "transfer"
    BY <1>f, <2>1, <2>2, <1>3, StandaloneType DEF LoadScope, Executing, Claimants, ReceiptCodes
  <2>3. CASE ~ (campaign = NoCampaign \/ Kind(w) = "transfer")
    <3>1. [Standalone EXCEPT !.campaign = campaign] \in ScopeType
      BY DEF TypeOK, CustodyTypeOK, MembershipTypeOK, Standalone, ScopeType
    <3>2. GoesOn(w)
      BY <1>f, <2>1, <2>3, <3>1, <1>1 DEF LoadScope, GoesOn, Executing, Claimants
    <3> QED BY <2>1, <3>2
  <2> QED BY <2>2, <2>3
<1>g. CASE LoadAttached(w)
  <2>1. Framed /\ pc[w] = "authorizing" /\ job[w] \in Keys
    BY <1>g DEF LoadAttached, JobsAreKnown
  <2>2. CASE ~ AttachedRight(w)
    BY <1>g, <2>1, <2>2, <1>3, StandaloneType DEF LoadAttached, Executing, Claimants, ReceiptCodes
  <2>3. CASE AttachedRight(w)
    <3> DEFINE s == [campaign |-> scope[w].campaign, placement |-> placement,
                     membership |-> generation[campaign][Actor(w)]]
    <3>1. s \in ScopeType
      BY <1>1, <2>1, <2>3, CommandAssumption DEF AttachedRight, TypeOK, CustodyTypeOK, MembershipTypeOK, ScopeType, Actor
    <3> s.campaign = scope[w].campaign
      OBVIOUS
    <3> HIDE DEF s
    <3>2. \/ campaignStatus[campaign] # "active" /\ Fail(w, "campaign_archived", ErrorScope(w, s))
          \/ Fail(w, "archived", s)
          \/ /\ GoTo(w, "loaded")
             /\ snapshot' = [snapshot EXCEPT ![w] = Resolvable]
             /\ scope' = [scope EXCEPT ![w] = s]
             /\ UNCHANGED <<base, outcome>>
      BY <1>g, <2>3 DEF LoadAttached, s
    <3>3. CASE Fail(w, "archived", s)
      BY <2>1, <3>1, <3>3, <1>3 DEF Executing, Claimants, ReceiptCodes
    <3>4. CASE Fail(w, "campaign_archived", ErrorScope(w, s))
      BY <2>1, <3>1, <3>4, <1>2, <1>3 DEF Executing, Claimants, ReceiptCodes
    <3>5. CASE /\ GoTo(w, "loaded")
               /\ snapshot' = [snapshot EXCEPT ![w] = Resolvable]
               /\ scope' = [scope EXCEPT ![w] = s]
               /\ UNCHANGED <<base, outcome>>
      <4>1. GoesOn(w)
        BY <2>1, <3>1, <3>5 DEF GoesOn, Executing, Claimants
      <4> QED BY <2>1, <4>1
    <3> QED BY <3>2, <3>3, <3>4, <3>5
  <2> QED BY <2>2, <2>3
<1>h. CASE ResolveDone(w)
  BY <1>h, <1>6 DEF ResolveDone, Executing, Claimants
<1>i. CASE ResolveFailed(w)
  BY <1>i, <1>1, <1>2, <1>3, <1>4, StandaloneType
  DEF ResolveFailed, Executing, Claimants, ReceiptCodes, PassingCodes
<1>j. CASE CommitRefused(w)
  <2>1. Framed /\ pc[w] = "resolved"
    BY <1>j DEF CommitRefused
  <2>2. CASE GoTo(w, "conflicting") /\ UNCHANGED outcome /\ readsUnchanged
    BY <2>1, <2>2, <1>6 DEF Executing, Claimants
  <2>3. CASE Refusal(w) \in {"not_found", "archived"} /\ Fail(w, Refusal(w), ErrorScope(w, scope[w]))
    BY <2>1, <2>3, <1>1, <1>2, <1>3 DEF Executing, Claimants, ReceiptCodes
  <2>4. CASE Fail(w, "invalid_value", ErrorScope(w, scope[w]))
    BY <2>1, <2>4, <1>1, <1>2, <1>3 DEF Executing, Claimants, ReceiptCodes
  <2> QED BY <1>j, <2>2, <2>3, <2>4 DEF CommitRefused
<1>k. CASE CommitAlreadyDone(w)
  BY <1>k, <1>5 DEF CommitAlreadyDone, StillOpen, Executing, Claimants
<1>l. CASE Recheck(w)
  BY <1>l, <1>1, <1>2, <1>3 DEF Recheck, Executing, Claimants, ReceiptCodes
<1>m. CASE Replay(w)
  <2>1. Framed /\ pc[w] = "replaying"
    BY <1>m DEF Replay
  <2>2. CASE ReplayDenial(w) = "none"
    BY <1>m, <2>1, <2>2, <1>1 DEF Replay, Reply, Concludes
  <2>3. CASE ReplayDenial(w) # "none"
    BY <1>m, <2>1, <2>3, <1>4 DEF Replay, ReplayDenial, PassingCodes
  <2> QED BY <2>2, <2>3
<1> QED BY <1>a, <1>b, <1>c, <1>d, <1>e, <1>f, <1>g, <1>h, <1>i, <1>j, <1>k, <1>l, <1>m DEF Reads

----------------------------------------------------------------------------
(* Types *)

(* A worker is done, by an answer or by dying; the clock moves. *)
Leaves(w) == pc[w] # "idle" /\ crashes' \in Nat /\ Rest(w)
Ticks == /\ live' \in [Keys -> BOOLEAN]
         /\ UNCHANGED <<status, hash, result, applied, workerVars, crashes, contested>>
         /\ sheetUnchanged

Changes(w) == ClaimFresh(w) \/ ClaimLapsed(w) \/ CommitApplied(w) \/ Finalize(w) \/ Leaves(w)

LEMMA NextCases ==
  ASSUME TypeOK, JobsAreKnown, [Next]_vars
  PROVE  \/ \E w \in Workers : OnlyReads(w) \/ Changes(w)
         \/ \E w \in Workers, k \in Keys, b \in 1..(MaxRevision - 1) : Submit(w, k, b)
         \/ Ticks
         \/ ChangeCustody
         \/ UNCHANGED vars
<1>1. ASSUME NEW w \in Workers, WorkerStep(w)
      PROVE  OnlyReads(w) \/ Changes(w)
  <2>1. Reads(w) \/ Changes(w)
    BY <1>1 DEF WorkerStep, Reads, Changes, Claim, Respond, Leaves, TypeOK
  <2> QED BY <2>1, ReadsOnlyRead
<1>2. ASSUME NEW w \in Workers, Crash(w)
      PROVE  Changes(w)
  BY <1>2 DEF Crash, Serves, Changes, Leaves, TypeOK
<1>3. ASSUME NEW k \in Keys, LeaseLapses(k) \/ ReplayWindowCloses(k)
      PROVE  Ticks
  BY <1>3 DEF LeaseLapses, ReplayWindowCloses, Ticks, TypeOK
<1> QED BY <1>1, <1>2, <1>3 DEF Next

LEMMA OnlyReadsKeepsType ==
  ASSUME TypeOK, JobsAreKnown, NEW w \in Workers, OnlyReads(w)
  PROVE  TypeOK' /\ JobsAreKnown'
<1>1. /\ sheetUnchanged /\ executionUnchanged
      /\ UNCHANGED <<job, crashes, contested>> /\ pc[w] # "idle"
  BY DEF OnlyReads, Serves
<1>2. CASE GoesOn(w)
  <2>1. Resolvable \in SnapshotType /\ snapshot[w] \in SnapshotType
    BY ResolvableType DEF TypeOK
  <2>2. /\ pc' \in [Workers -> Stages] /\ snapshot' \in [Workers -> SnapshotType]
        /\ scope' \in [Workers -> ScopeType] /\ base' = base /\ outcome' = outcome
        /\ \A v \in Workers : pc'[v] # "idle" => pc[v] # "idle"
    BY <1>1, <1>2, <2>1 DEF GoesOn, GoTo, TypeOK, Stages, Executing, Claimants
  <2>3. TypeOK'
    BY <1>1, <2>2, QuietType DEF TypeOK
  <2> QED BY <1>1, <2>2, <2>3 DEF JobsAreKnown
<1>3. CASE Concludes(w)
  <2>1. PICK o \in OutcomeType, stage \in {"finalizing", "replaying", "answered"} :
          Conclude(w, stage, o)
    BY <1>3 DEF Concludes
  <2>2. stage \in Stages
    BY DEF Stages
  <2>3. TypeOK'
    BY <1>1, <2>1, <2>2, ConcludeType, QuietType DEF TypeOK
  <2> QED BY <1>1, <2>1, <2>2, <2>3, ConcludeType DEF JobsAreKnown, TypeOK
<1> QED BY <1>2, <1>3 DEF OnlyReads

(* A receipt's scope is read under the campaign's lock. *)
LEMMA ReceiptScopeType ==
  ASSUME TypeOK, JobsAreKnown, NEW w \in Workers, pc[w] # "idle", Refusal(w) = "none"
  PROVE  ReceiptScope(w) \in ScopeType
<1>1. CASE scope[w].campaign = NoCampaign
  BY <1>1, StandaloneType DEF ReceiptScope
<1>2. CASE scope[w].campaign # NoCampaign
  <2>1. CampaignRefusal(w, scope[w].campaign) = "none"
    BY <1>2 DEF Refusal
  <2>2. StillEntitled(w, scope[w].campaign)
    BY <2>1 DEF CampaignRefusal
  <2>3. campaign \in Campaigns /\ Actor(w) \in Users
    BY <2>2, CommandAssumption DEF StillEntitled, AttachedRight, Actor, JobsAreKnown
  <2> QED BY <1>2, <2>3 DEF ReceiptScope, TypeOK, CustodyTypeOK, MembershipTypeOK, ScopeType
<1> QED BY <1>1, <1>2

LEMMA EffectType ==
  ASSUME TypeOK, JobsAreKnown, NEW w \in Workers, pc[w] # "idle", Effect(w)
  PROVE  CustodyTypeOK' /\ edits' \in SUBSET Keys
<1>1. job[w] \in Keys /\ snapshot[w].edits \in SUBSET Keys
  BY DEF JobsAreKnown, TypeOK, SnapshotType
<1> QED BY <1>1 DEF Effect, TypeOK, CustodyTypeOK, MembershipTypeOK, memberVars, custodyVars

LEMMA ChangesKeepsType ==
  ASSUME TypeOK, JobsAreKnown, NEW w \in Workers, Changes(w)
  PROVE  TypeOK' /\ JobsAreKnown'
<1>1. CustodyTypeOK /\ (sheetUnchanged => CustodyTypeOK' /\ edits' = edits)
  BY DEF TypeOK, CustodyTypeOK, MembershipTypeOK, sheetUnchanged, custodyVars
<1>2. CASE ClaimFresh(w)
  <2>1. job[w] \in Keys
    BY <1>2 DEF ClaimFresh, JobsAreKnown
  <2> QED BY <1>1, <1>2, <2>1 DEF ClaimFresh, GoTo, TypeOK, JobsAreKnown, Stages
<1>3. CASE ClaimLapsed(w)
  <2>1. job[w] \in Keys
    BY <1>3 DEF ClaimLapsed, JobsAreKnown
  <2> QED BY <1>1, <1>3, <2>1 DEF ClaimLapsed, GoTo, TypeOK, JobsAreKnown, Stages
<1>4. CASE CommitApplied(w)
  <2> DEFINE o == Outcome("done", ReceiptScope(w))
  <2>1. job[w] \in Keys
    BY <1>4 DEF CommitApplied, JobsAreKnown
  <2>2. o \in OutcomeType
    BY <1>4, ReceiptScopeType, OutcomeTypes DEF CommitApplied, ReceiptCodes
  <2> HIDE DEF o
  <2>3. Conclude(w, "answered", o) /\ WriteReceipt(job[w], o)
    BY <1>4 DEF CommitApplied, Reply, o
  <2>4. CustodyTypeOK' /\ edits' \in SUBSET Keys
    BY <1>4, EffectType DEF CommitApplied
  <2>5. "answered" \in Stages
    BY DEF Stages
  <2>6. /\ status' \in [Keys -> {"none", "pending", "completed"}]
        /\ live' \in [Keys -> BOOLEAN] /\ result' \in [Keys -> OutcomeType]
        /\ applied' \in [Keys -> Nat]
    BY <1>4, <2>1, <2>2, <2>3 DEF WriteReceipt, CommitApplied, TypeOK
  <2> QED BY <1>4, <2>2, <2>3, <2>4, <2>5, <2>6, ConcludeType DEF CommitApplied, TypeOK, JobsAreKnown
<1>5. CASE Finalize(w)
  <2>1. job[w] \in Keys /\ outcome[w] \in OutcomeType
    BY <1>5 DEF Finalize, JobsAreKnown, TypeOK
  <2>2. Conclude(w, "answered", outcome[w]) /\ "answered" \in Stages
    BY <1>5 DEF Finalize, Reply, Stages
  <2>3. /\ status' \in [Keys -> {"none", "pending", "completed"}]
        /\ live' \in [Keys -> BOOLEAN] /\ result' \in [Keys -> OutcomeType]
    BY <1>5, <2>1 DEF WriteReceipt, Finalize, TypeOK
  <2> QED BY <1>1, <1>5, <2>1, <2>2, <2>3, ConcludeType DEF Finalize, TypeOK, JobsAreKnown
<1>6. CASE Leaves(w)
  <2>1. Nothing \in OutcomeType
    BY OutcomeTypes, StandaloneType DEF Nothing, PassingCodes
  <2>2. Conclude(w, "idle", Nothing) /\ "idle" \in Stages
    BY <1>6 DEF Leaves, Rest, Stages
  <2> QED BY <1>1, <1>6, <2>1, <2>2, ConcludeType
      DEF Leaves, Rest, TypeOK, JobsAreKnown, executionUnchanged
<1> QED BY <1>2, <1>3, <1>4, <1>5, <1>6 DEF Changes

LEMMA NextKeepsType ==
  ASSUME TypeOK, JobsAreKnown, [Next]_vars
  PROVE  TypeOK' /\ JobsAreKnown'
<1>1. CustodyTypeOK /\ (sheetUnchanged => CustodyTypeOK' /\ edits' = edits)
  BY DEF TypeOK, CustodyTypeOK, MembershipTypeOK, sheetUnchanged, custodyVars
<1>2. CASE \E w \in Workers : OnlyReads(w) \/ Changes(w)
  BY <1>2, OnlyReadsKeepsType, ChangesKeepsType
<1>3. ASSUME NEW w \in Workers, NEW k \in Keys, NEW b \in 1..(MaxRevision - 1), Submit(w, k, b)
      PROVE  TypeOK' /\ JobsAreKnown'
  BY <1>1, <1>3, CustodyAssumption DEF Submit, GoTo, executionUnchanged, TypeOK, JobsAreKnown, Stages
<1>4. CASE Ticks
  BY <1>1, <1>4 DEF Ticks, workerVars, TypeOK, JobsAreKnown
<1>5. CASE ChangeCustody
  <2>1. CustodyTypeOK'
    BY <1>1, <1>5, CustodyStepKeepsType DEF ChangeCustody
  <2> QED BY <1>5, <2>1 DEF ChangeCustody, executionVars, workerVars, TypeOK, JobsAreKnown
<1>6. CASE UNCHANGED vars
  BY <1>1, <1>6 DEF vars, sheetUnchanged, custodyVars, TypeOK, CustodyTypeOK, MembershipTypeOK, JobsAreKnown
<1> QED BY <1>2, <1>3, <1>4, <1>5, <1>6, NextCases

(* The executions, the sheet and every worker always have their types. *)
THEOREM TypeCorrect == Spec => []TypeOK
<1>1. Init => TypeOK /\ JobsAreKnown
  BY InitType
<1>2. TypeOK /\ JobsAreKnown /\ [Next]_vars => (TypeOK /\ JobsAreKnown)'
  BY NextKeepsType
<1> QED BY <1>1, <1>2, PTL DEF Spec
----------------------------------------------------------------------------
(* Receipts *)

(* A worker at work on a key holds a claim that is recorded, with the body  *)
(* the key was first sent with; what it concludes is an error or a receipt. *)
ClaimsAreRecorded ==
  \A w \in Workers :
    /\ pc[w] \in Claimants => status[job[w]] # "none"
    /\ pc[w] \in Executing => hash[job[w]] = base[w]
    /\ pc[w] = "finalizing" => outcome[w].code # "done"

ReceiptInv == AppliedExactlyOnce /\ ClaimsAreRecorded

LEMMA NextKeepsReceipts ==
  ASSUME TypeOK, JobsAreKnown, TypeOK', ReceiptInv, [Next]_vars
  PROVE  ReceiptInv'
<1> USE DEF ReceiptInv, AppliedExactlyOnce, ClaimsAreRecorded
<1>1. ASSUME NEW w \in Workers, OnlyReads(w)
      PROVE  ReceiptInv'
  <2>1. /\ UNCHANGED <<status, hash, result, applied, job>> /\ job[w] \in Keys
    BY <1>1 DEF OnlyReads, executionUnchanged, Serves, JobsAreKnown
  <2>2. AppliedExactlyOnce'
    BY <2>1 DEF Done
  <2>3. CASE GoesOn(w)
    <3>1. /\ base' = base /\ outcome' = outcome
          /\ \A v \in Workers : v # w => pc'[v] = pc[v]
          /\ pc'[w] # "finalizing"
          /\ pc'[w] \in Claimants => pc[w] \in Executing
      BY <2>3 DEF GoesOn, GoTo, TypeOK, Executing, Claimants
    <3>2. \A v \in Workers : pc'[v] \in Executing => pc[v] \in Executing
      BY <3>1 DEF Executing
    <3> QED BY <2>1, <2>2, <3>1, <3>2 DEF Executing
  <2>4. CASE Concludes(w)
    <3>1. /\ \A v \in Workers : v # w =>
               pc'[v] = pc[v] /\ outcome'[v] = outcome[v] /\ base'[v] = base[v]
          /\ pc'[w] \notin Executing
          /\ pc'[w] \in Claimants => pc[w] \in Executing /\ outcome'[w].code # "done"
          /\ pc'[w] = "finalizing" => pc'[w] \in Claimants
      BY <2>4 DEF Concludes, Conclude, GoTo, TypeOK, Executing, Claimants
    <3> QED BY <2>1, <2>2, <3>1 DEF Executing
  <2> QED BY <1>1, <2>3, <2>4 DEF OnlyReads
<1>2. ASSUME NEW w \in Workers, ClaimFresh(w)
      PROVE  ReceiptInv'
  <2>1. /\ job[w] \in Keys /\ job' = job /\ outcome' = outcome /\ base' = base
        /\ status[job[w]] = "none"
        /\ status' = [status EXCEPT ![job[w]] = "pending"]
        /\ hash' = [hash EXCEPT ![job[w]] = base[w]]
        /\ pc' = [pc EXCEPT ![w] = "claimed"]
        /\ result' = result /\ applied' = applied
    BY <1>2 DEF ClaimFresh, GoTo, JobsAreKnown
  <2>2. AppliedExactlyOnce'
    BY <2>1 DEF Done, TypeOK
  <2>3. \A v \in Workers : v # w /\ pc[v] \in Claimants => job[v] # job[w]
    BY <2>1
  <2> QED BY <2>1, <2>2, <2>3 DEF TypeOK, JobsAreKnown, Executing, Claimants
<1>3. ASSUME NEW w \in Workers, ClaimLapsed(w)
      PROVE  ReceiptInv'
  <2>1. /\ UNCHANGED <<status, hash, result, applied, job, outcome, base>>
        /\ status[job[w]] = "pending" /\ hash[job[w]] = base[w]
        /\ pc' = [pc EXCEPT ![w] = "claimed"]
    BY <1>3 DEF ClaimLapsed, GoTo
  <2> QED BY <2>1 DEF Done, TypeOK, Executing, Claimants
<1>4. ASSUME NEW w \in Workers, CommitApplied(w)
      PROVE  ReceiptInv'
  <2>1. /\ job[w] \in Keys /\ job' = job /\ hash' = hash
        /\ status[job[w]] # "completed"
        /\ status' = [status EXCEPT ![job[w]] = "completed"]
        /\ applied' = [applied EXCEPT ![job[w]] = @ + 1]
        /\ result' = [result EXCEPT ![job[w]] = Outcome("done", ReceiptScope(w))]
        /\ Conclude(w, "answered", Outcome("done", ReceiptScope(w)))
    BY <1>4 DEF CommitApplied, StillOpen, WriteReceipt, Reply, JobsAreKnown
  <2>2. /\ \A v \in Workers : v # w =>
             pc'[v] = pc[v] /\ outcome'[v] = outcome[v] /\ base'[v] = base[v]
        /\ pc'[w] = "answered"
    BY <2>1 DEF Conclude, GoTo, TypeOK
  <2>3. AppliedExactlyOnce'
    <3> SUFFICES ASSUME NEW k \in Keys
                 PROVE  applied'[k] = IF Done(k)' THEN 1 ELSE 0
      OBVIOUS
    <3>1. CASE k = job[w]
      BY <2>1, <3>1 DEF Done, Outcome, TypeOK
    <3>2. CASE k # job[w]
      BY <2>1, <3>2 DEF Done, TypeOK
    <3> QED BY <3>1, <3>2
  <2> QED BY <2>1, <2>2, <2>3 DEF TypeOK, JobsAreKnown, Executing, Claimants
<1>5. ASSUME NEW w \in Workers, Finalize(w)
      PROVE  ReceiptInv'
  <2>1. /\ job[w] \in Keys /\ UNCHANGED <<job, hash, applied>> /\ outcome[w].code # "done"
        /\ Conclude(w, "answered", outcome[w])
        /\ \/ UNCHANGED <<status, result>>
           \/ /\ status[job[w]] = "pending"
              /\ status' = [status EXCEPT ![job[w]] = "completed"]
              /\ result' = [result EXCEPT ![job[w]] = outcome[w]]
    BY <1>5 DEF Finalize, TakesError, WriteReceipt, Reply, JobsAreKnown
  <2>2. /\ \A v \in Workers : v # w =>
             pc'[v] = pc[v] /\ outcome'[v] = outcome[v] /\ base'[v] = base[v]
        /\ pc'[w] = "answered"
    BY <2>1 DEF Conclude, GoTo, TypeOK
  <2>3. AppliedExactlyOnce'
    BY <2>1 DEF Done, TypeOK
  <2> QED BY <2>1, <2>2, <2>3 DEF TypeOK, JobsAreKnown, Executing, Claimants
<1>6. ASSUME NEW w \in Workers, Leaves(w)
      PROVE  ReceiptInv'
  <2>1. /\ UNCHANGED <<status, hash, result, applied>>
        /\ Conclude(w, "idle", Nothing) /\ job' = [job EXCEPT ![w] = NoKey]
    BY <1>6 DEF Leaves, Rest, executionUnchanged
  <2>2. /\ \A v \in Workers : v # w =>
             pc'[v] = pc[v] /\ outcome'[v] = outcome[v] /\ base'[v] = base[v] /\ job'[v] = job[v]
        /\ pc'[w] = "idle"
    BY <2>1 DEF Conclude, GoTo, TypeOK
  <2> QED BY <2>1, <2>2 DEF Done, Executing, Claimants
<1>7. ASSUME NEW w \in Workers, NEW k \in Keys, NEW b \in 1..(MaxRevision - 1), Submit(w, k, b)
      PROVE  ReceiptInv'
  <2>1. /\ UNCHANGED <<status, hash, result, applied, outcome>>
        /\ \A v \in Workers : v # w =>
             pc'[v] = pc[v] /\ base'[v] = base[v] /\ job'[v] = job[v]
        /\ pc'[w] \in {"precheck", "claiming"}
    BY <1>7 DEF Submit, GoTo, executionUnchanged, TypeOK
  <2> QED BY <2>1 DEF Done, Executing, Claimants
<1>8. CASE Ticks \/ ChangeCustody \/ UNCHANGED vars
  <2>1. UNCHANGED <<status, hash, result, applied, outcome, pc, job, base>>
    BY <1>8 DEF Ticks, ChangeCustody, executionVars, workerVars, vars
  <2> QED BY <2>1 DEF Done
<1> QED BY <1>1, <1>2, <1>3, <1>4, <1>5, <1>6, <1>7, <1>8, NextCases DEF Changes

(* Every key is applied exactly as often as its receipt says: once when it  *)
(* says "done", else never, through retries, lapsed leases and crashes.     *)
THEOREM AppliedAsReceipted == Spec => []AppliedExactlyOnce
<1>1. Init => ReceiptInv
  BY DEF Init, ReceiptInv, AppliedExactlyOnce, ClaimsAreRecorded, Done, Executing, Claimants
<1>2. TypeOK /\ JobsAreKnown /\ ReceiptInv /\ [Next]_vars => (TypeOK /\ JobsAreKnown /\ ReceiptInv)'
  BY NextKeepsType, NextKeepsReceipts
<1>3. ReceiptInv => AppliedExactlyOnce
  BY DEF ReceiptInv
<1> QED BY <1>1, <1>2, <1>3, InitType, PTL DEF Spec
----------------------------------------------------------------------------
(* Snapshots *)

(* Observed revisions only: what a worker resolved from is at least as new  *)
(* as the revision its request names, and it is the sheet itself as long as *)
(* the revision has not moved since.  A commit needs the named revision to  *)
(* be the current one, so it always writes on top of the current state.     *)
SnapshotIsCurrent(w) ==
  /\ base[w] <= revision
  /\ pc[w] \in {"loaded", "resolved"} =>
       /\ base[w] <= snapshot[w].revision
       /\ snapshot[w].revision <= revision
       /\ snapshot[w].revision = revision => snapshot[w] = Resolvable

SnapshotsAreCurrent == \A w \in Workers : SnapshotIsCurrent(w)

LEMMA CustodyStepIsVisible ==
  ASSUME CustodyTypeOK, CustodyStep
  PROVE  /\ revision' >= revision /\ placement' >= placement
         /\ revision' = revision => placement' = placement
<1> USE DEF CustodyTypeOK, MembershipTypeOK
<1>1. ASSUME NEW c \in Campaigns, NEW u \in Users, NEW target \in Users, RemoveMember(u, target, c)
      PROVE  /\ revision' >= revision /\ placement' >= placement
             /\ revision' = revision => placement' = placement
  BY <1>1 DEF RemoveMember, MemberLeaves, NextPlacement
<1>2. ASSUME NEW c \in Campaigns, NEW u \in Users, Adopt(u, c)
      PROVE  revision' = revision + 1 /\ placement' = placement + 1
  BY <1>2 DEF Adopt, NextPlacement
<1> QED BY <1>1, <1>2
    DEF CustodyStep, AssignControllers, ClaimControl, JoinCampaign, MemberJoins, ChangeRole, RoleChanges,
        ArchiveCampaign, CampaignArchived, RecoverCampaign, CampaignRecovered, sheetVars

(* What the transaction's checks establish. *)
LEMMA NoRefusal ==
  ASSUME TypeOK, CustodyInv, JobsAreKnown, NEW w \in Workers, pc[w] # "idle", Refusal(w) = "none"
  PROVE  /\ revision = base[w]
         /\ MayWrite(Actor(w))
         /\ ~ Manages(w) => lifecycle = "active"
         /\ scope[w].campaign = NoCampaign => OwnsStandalone(Actor(w))
         /\ Kind(w) \in {"archive", "recover"} => MayManage(Actor(w))
<1>1. Actor(w) \in Users /\ revision \in Nat /\ base[w] \in Nat /\ lifecycle \in {"active", "archived"}
  BY CommandAssumption DEF JobsAreKnown, TypeOK, CustodyTypeOK, MembershipTypeOK, Actor
<1>2. CASE scope[w].campaign = NoCampaign
  <2>1. StandaloneRefusal(w) = "none"
    BY <1>2 DEF Refusal
  <2>2. owner = Actor(w) /\ revision = base[w] /\ (~ Manages(w) => lifecycle = "active")
    BY <1>1, <2>1 DEF StandaloneRefusal, Stale
  <2>3. OwnsStandalone(Actor(w))
    BY <1>1, <2>2, CustodyAssumption DEF CustodyInv, OwnsStandalone, TypeOK, CustodyTypeOK, MembershipTypeOK
  <2> QED BY <2>2, <2>3 DEF MayWrite, MayManage
<1>3. CASE scope[w].campaign # NoCampaign
  <2> DEFINE c == scope[w].campaign
  <2>1. CampaignRefusal(w, c) = "none"
    BY <1>3 DEF Refusal
  <2>2. /\ IsActiveMember(c, Actor(w)) /\ campaign = c /\ AttachedRight(w)
        /\ campaignStatus[c] = "active" /\ revision = base[w]
        /\ ~ Manages(w) => lifecycle = "active"
    BY <1>1, <2>1 DEF CampaignRefusal, StillEntitled, Frozen, Stale
  <2> QED BY <1>3, <2>2 DEF MayWrite, MayManage, MayControl, AttachedRight
<1> QED BY <1>2, <1>3

(* A commit in detail: what it leaves of the sheet. *)
LEMMA CommitFacts ==
  ASSUME TypeOK, CustodyInv, JobsAreKnown, NEW w \in Workers, CommitApplied(w)
  PROVE  /\ pc[w] = "resolved" /\ job[w] \in Keys /\ KeyKind[job[w]] \in Kinds
         /\ status[job[w]] # "completed"
         /\ revision = base[w]
         /\ revision' = IF Kind(w) = "roll" THEN revision ELSE revision + 1
         /\ edits' = IF Kind(w) \in Edits THEN snapshot[w].edits \cup {job[w]} ELSE edits
         /\ UNCHANGED <<placement, job, hash>>
         /\ status' = [status EXCEPT ![job[w]] = "completed"]
         /\ result' = [result EXCEPT ![job[w]] = Outcome("done", ReceiptScope(w))]
         /\ Conclude(w, "answered", Outcome("done", ReceiptScope(w)))
<1>1. job[w] \in Keys /\ pc[w] = "resolved" /\ Kind(w) = KeyKind[job[w]] /\ KeyKind[job[w]] \in Kinds
  BY CommandAssumption DEF CommitApplied, JobsAreKnown, Kind
<1>2. revision = base[w]
  BY <1>1, NoRefusal DEF CommitApplied
<1>3. /\ revision' = IF Kind(w) = "roll" THEN revision ELSE revision + 1
      /\ edits' = IF Kind(w) \in Edits THEN snapshot[w].edits \cup {job[w]} ELSE edits
      /\ placement' = placement
  BY <1>1 DEF CommitApplied, Effect, custodyVars, Kinds, Edits, Management
<1> QED BY <1>1, <1>2, <1>3 DEF CommitApplied, StillOpen, WriteReceipt, Reply

----------------------------------------------------------------------------
(* Custody *)

(* A command that only an owner may give never runs in a campaign's scope,  *)
(* and no request can carry the sheet beyond the bound of the model.        *)
ScopesFit ==
  \A w \in Workers :
    /\ base[w] = 0 \/ base[w] < MaxRevision
    /\ pc[w] \notin Executing => scope[w] = Standalone
    /\ scope[w].campaign # NoCampaign => Kind(w) # "transfer"

(* A commit is the step its actor asked for and may take. *)
LEMMA CommitIsEntitled ==
  ASSUME TypeOK, CustodyInv, JobsAreKnown, ScopesFit, NEW w \in Workers, CommitApplied(w)
  PROVE  EntitledEffect(w)
<1>1. Kind(w) \in Kinds /\ lifecycle \in {"active", "archived"}
  <2>1. job[w] \in Keys
    BY CommitFacts
  <2> QED BY <2>1, CommandAssumption DEF Kind, TypeOK, CustodyTypeOK, MembershipTypeOK
<1>2. /\ MayWrite(Actor(w)) /\ (~ Manages(w) => lifecycle = "active")
      /\ Kind(w) = "transfer" => OwnsStandalone(Actor(w))
      /\ Kind(w) \in {"archive", "recover"} => MayManage(Actor(w))
  BY NoRefusal DEF CommitApplied, ScopesFit
<1>3. Effect(w)
  BY DEF CommitApplied
<1>4. CASE Kind(w) \in Edits
  <2> EditSheet(Actor(w))
    BY <1>2, <1>3, <1>4 DEF Effect, Edits, EditSheet, Manages, Management
  <2> QED BY <1>4 DEF EntitledEffect
<1>5. CASE Kind(w) = "roll"
  BY <1>2, <1>3, <1>5 DEF Effect, Edits, EntitledEffect, Manages, Management
<1>6. CASE Kind(w) = "rename"
  <2> RenameSheet(Actor(w))
    BY <1>2, <1>3, <1>6 DEF Effect, Edits, RenameSheet
  <2> QED BY <1>6 DEF EntitledEffect
<1>7. CASE Kind(w) = "transfer"
  <2> PICK v \in Users : TransferSheet(Actor(w), v)
    BY <1>2, <1>3, <1>7 DEF Effect, Edits, TransferSheet
  <2> QED BY <1>7 DEF EntitledEffect
<1>8. CASE Kind(w) \in {"archive", "recover"}
  <2> PICK l \in {"active", "archived"} : SetLifecycle(Actor(w), l)
    BY <1>2, <1>3, <1>8 DEF Effect, Edits, SetLifecycle
  <2> QED BY <1>8 DEF EntitledEffect
<1> QED BY <1>1, <1>4, <1>5, <1>6, <1>7, <1>8 DEF Kinds, Management

(* So a commit is a custody command, or it is a roll. *)
LEMMA CommitIsAllowed ==
  ASSUME TypeOK, CustodyInv, JobsAreKnown, ScopesFit, NEW w \in Workers, CommitApplied(w)
  PROVE  (revision < MaxRevision /\ CommandStep) \/ UNCHANGED custodyVars
<1>1. Actor(w) \in Users /\ revision < MaxRevision
  <2>1. job[w] \in Keys /\ revision = base[w]
    BY CommitFacts
  <2> QED BY <2>1, CommandAssumption DEF Actor, ScopesFit, TypeOK, CustodyTypeOK, MembershipTypeOK
<1> QED BY <1>1, CommitIsEntitled DEF EntitledEffect, CommandStep

LEMMA StepIsAllowed ==
  ASSUME TypeOK, CustodyInv, JobsAreKnown, ScopesFit, [Next]_vars
  PROVE  [CustodyStep \/ (revision < MaxRevision /\ CommandStep)]_custodyVars
<1>1. ASSUME NEW w \in Workers, OnlyReads(w)
      PROVE  UNCHANGED custodyVars
  BY <1>1 DEF OnlyReads, sheetUnchanged
<1>2. ASSUME NEW w \in Workers, Changes(w)
      PROVE  CommitApplied(w) \/ UNCHANGED custodyVars
  BY <1>2 DEF Changes, ClaimFresh, ClaimLapsed, Finalize, Leaves, Rest, sheetUnchanged
<1>3. ASSUME NEW w \in Workers, NEW k \in Keys, NEW b \in 1..(MaxRevision - 1), Submit(w, k, b)
      PROVE  UNCHANGED custodyVars
  BY <1>3 DEF Submit, sheetUnchanged
<1>4. CASE Ticks \/ UNCHANGED vars
  BY <1>4 DEF Ticks, sheetUnchanged, vars, custodyVars
<1> QED BY <1>1, <1>2, <1>3, <1>4, NextCases, CommitIsAllowed DEF ChangeCustody

LEMMA NextKeepsCustody ==
  ASSUME TypeOK, CustodyInv, JobsAreKnown, ScopesFit, [Next]_vars
  PROVE  CustodyInv'
<1>1. CASE CustodyStep
  BY <1>1, CustodyStepKeepsInv DEF TypeOK
<1>2. CASE CommandStep
  BY <1>2, CommandStepKeepsInv DEF TypeOK
<1>3. CASE UNCHANGED custodyVars
  BY <1>3 DEF custodyVars, CustodyInv, ActiveMembers, IsActiveMember
<1> QED BY <1>1, <1>2, <1>3, StepIsAllowed

LEMMA NextKeepsScopes ==
  ASSUME TypeOK, JobsAreKnown, ScopesFit, [Next]_vars
  PROVE  ScopesFit'
<1>0. Standalone.campaign = NoCampaign
  BY DEF Standalone
<1>1. ASSUME NEW w \in Workers, NEW stage \in Stages \ Executing, \E o : Conclude(w, stage, o),
             \A v \in Workers \ {w} : job'[v] = job[v]
      PROVE  ScopesFit'
  <2> SUFFICES ASSUME NEW v \in Workers
               PROVE  (/\ base[v] = 0 \/ base[v] < MaxRevision
                       /\ pc[v] \notin Executing => scope[v] = Standalone
                       /\ scope[v].campaign # NoCampaign => Kind(v) # "transfer")'
    BY DEF ScopesFit
  <2>1. CASE v = w
    BY <1>0, <1>1, <2>1 DEF Conclude, GoTo, TypeOK
  <2>2. CASE v # w
    BY <1>1, <2>2 DEF Conclude, GoTo, TypeOK, ScopesFit, Kind
  <2> QED BY <2>1, <2>2
<1>2. ASSUME NEW w \in Workers, OnlyReads(w)
      PROVE  ScopesFit'
  <2>1. job' = job
    BY <1>2 DEF OnlyReads
  <2>2. CASE GoesOn(w)
    BY <2>1, <2>2 DEF GoesOn, GoTo, TypeOK, ScopesFit, Kind, Executing, Claimants
  <2>3. CASE Concludes(w)
    <3>1. PICK stage \in {"finalizing", "replaying", "answered"} : \E o : Conclude(w, stage, o)
      BY <2>3 DEF Concludes
    <3>2. stage \in Stages \ Executing
      BY DEF Stages, Executing, Claimants
    <3>3. \A v \in Workers \ {w} : job'[v] = job[v]
      BY <2>1
    <3> QED BY <1>1, <3>1, <3>2, <3>3
  <2> QED BY <1>2, <2>2, <2>3 DEF OnlyReads
<1>3. ASSUME NEW w \in Workers, ClaimFresh(w) \/ ClaimLapsed(w)
      PROVE  ScopesFit'
  BY <1>3 DEF ClaimFresh, ClaimLapsed, GoTo, TypeOK, ScopesFit, Kind, Executing, Claimants
<1>4. ASSUME NEW w \in Workers, CommitApplied(w) \/ Finalize(w) \/ Leaves(w)
      PROVE  ScopesFit'
  <2>1. PICK stage \in {"answered", "idle"} : \E o : Conclude(w, stage, o)
    BY <1>4 DEF CommitApplied, Finalize, Leaves, Rest, Reply
  <2>2. \A v \in Workers \ {w} : job'[v] = job[v]
    BY <1>4 DEF CommitApplied, Finalize, Leaves, Rest, TypeOK
  <2>3. stage \in Stages \ Executing
    BY DEF Stages, Executing, Claimants
  <2> QED BY <1>1, <2>1, <2>2, <2>3
<1>5. ASSUME NEW w \in Workers, NEW k \in Keys, NEW b \in 1..(MaxRevision - 1), Submit(w, k, b)
      PROVE  ScopesFit'
  <2>1. b < MaxRevision
    BY CustodyAssumption
  <2> QED BY <1>0, <1>5, <2>1
      DEF Submit, GoTo, TypeOK, ScopesFit, Kind, Executing, Claimants
<1>6. CASE Ticks \/ ChangeCustody \/ UNCHANGED vars
  BY <1>6 DEF Ticks, ChangeCustody, workerVars, vars, ScopesFit, Kind
<1> QED BY <1>2, <1>3, <1>4, <1>5, <1>6, NextCases DEF Changes

(* What the later invariants need of the earlier ones. *)
Grounded == TypeOK /\ JobsAreKnown /\ CustodyInv /\ ScopesFit

LEMMA InitGrounded == Init => Grounded
<1>1. Init => CustodyInv
  BY CustodyInitIsFine DEF Init
<1>2. Init => ScopesFit
  BY DEF Init, ScopesFit, Standalone
<1> QED BY <1>1, <1>2, InitType DEF Grounded

LEMMA NextKeepsGround ==
  ASSUME Grounded, [Next]_vars
  PROVE  Grounded'
BY NextKeepsType, NextKeepsCustody, NextKeepsScopes DEF Grounded

(* Whatever the workers do, the sheet changes hands and contents only as    *)
(* Custody allows.                                                           *)
THEOREM CommandsRespectCustody == Spec => RespectsCustody
<1>1. Init => CustodyInit
  BY DEF Init
<1>2. Grounded /\ [Next]_vars => Grounded'
  BY NextKeepsGround
<1>3. Grounded /\ [Next]_vars =>
        [CustodyStep \/ (revision < MaxRevision /\ CommandStep)]_custodyVars
  BY StepIsAllowed DEF Grounded
<1> QED BY <1>1, <1>2, <1>3, InitGrounded, PTL DEF Spec, RespectsCustody, CustodySpec

(* So the custody invariant survives the sheet commands. *)
THEOREM CommandsKeepCustody == Spec => []CustodyInv
<1>1. Grounded /\ [Next]_vars => Grounded'
  BY NextKeepsGround
<1>2. Grounded => CustodyInv
  BY DEF Grounded
<1> QED BY <1>1, <1>2, InitGrounded, PTL DEF Spec

(* A receipt, once written, stays: the error of a worker whose lease was    *)
(* taken over never replaces the outcome the other worker recorded.         *)
THEOREM ReceiptsStay == Spec => ReceiptsAreFinal
<1> DEFINE Keeps == \A k \in Keys : status[k] = "completed"
                      => status'[k] = "completed" /\ result'[k] = result[k]
<1>1. ASSUME TypeOK, JobsAreKnown, [Next]_vars
      PROVE  Keeps
  <2>1. ASSUME NEW w \in Workers, OnlyReads(w)
        PROVE  Keeps
    BY <2>1 DEF OnlyReads, executionUnchanged
  <2>2. ASSUME NEW w \in Workers, Changes(w)
        PROVE  Keeps
    BY <1>1, <2>2 DEF Changes, ClaimFresh, ClaimLapsed, CommitApplied, Finalize, Leaves, Rest,
       executionUnchanged, StillOpen, TakesError, WriteReceipt, TypeOK, JobsAreKnown
  <2>3. ASSUME NEW w \in Workers, NEW k \in Keys, NEW b \in 1..(MaxRevision - 1), Submit(w, k, b)
        PROVE  Keeps
    BY <2>3 DEF Submit, executionUnchanged
  <2>4. CASE Ticks \/ ChangeCustody \/ UNCHANGED vars
    BY <2>4 DEF Ticks, ChangeCustody, executionVars, vars
  <2> QED BY <1>1, <2>1, <2>2, <2>3, <2>4, NextCases
<1>2. TypeOK /\ JobsAreKnown /\ [Next]_vars => (TypeOK /\ JobsAreKnown)' /\ [Keeps]_vars
  BY <1>1, NextKeepsType
<1> QED BY <1>2, InitType, PTL DEF Spec, ReceiptsAreFinal

----------------------------------------------------------------------------
(* Observed revisions *)

(* A sheet whose revision has not moved has not changed. *)
LEMMA ChangesShowInTheRevision ==
  ASSUME Grounded, [Next]_vars
  PROVE  /\ revision' \in {revision, revision + 1}
         /\ revision' = revision => Resolvable' = Resolvable
<1> USE DEF Grounded, Resolvable
<1>1. ASSUME NEW w \in Workers, OnlyReads(w)
      PROVE  UNCHANGED <<revision, placement, edits>>
  BY <1>1 DEF OnlyReads, sheetUnchanged, custodyVars
<1>2. ASSUME NEW w \in Workers, ClaimFresh(w) \/ ClaimLapsed(w) \/ Finalize(w) \/ Leaves(w)
      PROVE  UNCHANGED <<revision, placement, edits>>
  BY <1>2 DEF ClaimFresh, ClaimLapsed, Finalize, Leaves, Rest, sheetUnchanged, custodyVars
<1>3. ASSUME NEW w \in Workers, CommitApplied(w)
      PROVE  /\ revision' \in {revision, revision + 1}
             /\ revision' = revision => Resolvable' = Resolvable
  <2>1. revision \in Nat
    BY DEF TypeOK, CustodyTypeOK, MembershipTypeOK
  <2> QED BY <1>3, <2>1, CommitFacts DEF Edits
<1>4. ASSUME NEW w \in Workers, NEW k \in Keys, NEW b \in 1..(MaxRevision - 1), Submit(w, k, b)
      PROVE  UNCHANGED <<revision, placement, edits>>
  BY <1>4 DEF Submit, sheetUnchanged, custodyVars
<1>5. CASE Ticks \/ UNCHANGED vars
  BY <1>5 DEF Ticks, sheetUnchanged, custodyVars, vars
<1>6. CASE ChangeCustody
  <2>1. edits' = edits /\ CustodyStep
    BY <1>6 DEF ChangeCustody
  <2>2. revision' = revision => placement' = placement
    BY <2>1, CustodyStepIsVisible DEF TypeOK
  <2>3. revision' \in {revision, revision + 1}
    BY <2>1 DEF CustodyStep, Adopt, AssignControllers, ClaimControl, RemoveMember, MemberLeaves, JoinCampaign, MemberJoins,
       ChangeRole, RoleChanges, ArchiveCampaign, CampaignArchived, RecoverCampaign, CampaignRecovered, sheetVars
  <2> QED BY <2>1, <2>2, <2>3
<1> QED BY <1>1, <1>2, <1>3, <1>4, <1>5, <1>6, NextCases DEF Changes

LEMMA NextKeepsSnapshots ==
  ASSUME ObservedOnly, Grounded, SnapshotsAreCurrent, [Next]_vars
  PROVE  SnapshotsAreCurrent'
<1> USE DEF Grounded
<1>1. /\ revision' \in {revision, revision + 1}
      /\ revision' = revision => Resolvable' = Resolvable
      /\ revision \in Nat /\ base \in [Workers -> Nat] /\ snapshot \in [Workers -> SnapshotType]
  BY ChangesShowInTheRevision DEF TypeOK, CustodyTypeOK, MembershipTypeOK
<1>2. \A v \in Workers : SnapshotIsCurrent(v)
  BY DEF SnapshotsAreCurrent
<1>3. ASSUME NEW v \in Workers, UNCHANGED <<base[v], pc[v], snapshot[v]>>
      PROVE  SnapshotIsCurrent(v)'
  <2>1. snapshot[v].revision \in Nat /\ base[v] \in Nat
    BY <1>1 DEF SnapshotType
  <2> QED BY <1>1, <1>2, <1>3, <2>1 DEF SnapshotIsCurrent
<1>4. ASSUME NEW w \in Workers, NEW stage \in {"idle", "finalizing", "replaying", "answered"},
             \E o : Conclude(w, stage, o)
      PROVE  \A v \in Workers : SnapshotIsCurrent(v)'
  <2>1. SnapshotIsCurrent(w)'
    BY <1>1, <1>4 DEF Conclude, GoTo, TypeOK, SnapshotIsCurrent
  <2>2. ASSUME NEW v \in Workers \ {w}
        PROVE  UNCHANGED <<base[v], pc[v], snapshot[v]>>
    BY <1>4, <2>2 DEF Conclude, GoTo, TypeOK
  <2> QED BY <1>3, <2>1, <2>2
<1>5. ASSUME NEW w \in Workers, OnlyReads(w)
      PROVE  \A v \in Workers : SnapshotIsCurrent(v)'
  <2>1. UNCHANGED <<revision, placement, edits>>
    BY <1>5 DEF OnlyReads, sheetUnchanged, custodyVars
  <2>2. CASE GoesOn(w)
    <3>1. ASSUME NEW v \in Workers \ {w}
          PROVE  UNCHANGED <<base[v], pc[v], snapshot[v]>>
      BY <2>2, <3>1 DEF GoesOn, GoTo, TypeOK
    <3>2. CASE pc[w] = "precheck" /\ GoTo(w, "claiming") /\ UNCHANGED <<base, snapshot, scope, outcome>>
      BY <1>1, <1>2, <3>2, <2>1, <1>3, <3>1 DEF GoTo, TypeOK, SnapshotIsCurrent
    <3>3. CASE ~ (pc[w] = "precheck" /\ GoTo(w, "claiming") /\ UNCHANGED <<base, snapshot, scope, outcome>>)
      <4>1. PICK next \in Executing, read \in {snapshot[w], Resolvable} :
              /\ next \in {"loaded", "resolved"} =>
                   read = Resolvable \/ (pc[w] = "loaded" /\ read = snapshot[w])
              /\ GoTo(w, next)
              /\ snapshot' = [snapshot EXCEPT ![w] = read]
              /\ base' = base
        BY <2>2, <3>3 DEF GoesOn
      <4>2. pc'[w] = next /\ snapshot'[w] = read /\ base'[w] = base[w]
        BY <4>1 DEF GoTo, TypeOK
      <4>3. Resolvable' = Resolvable /\ Resolvable.revision = revision
        BY <2>1 DEF Resolvable
      <4>4. SnapshotIsCurrent(w)'
        BY <1>1, <1>2, <2>1, <4>1, <4>2, <4>3 DEF SnapshotIsCurrent
      <4> QED BY <1>3, <3>1, <4>4
    <3> QED BY <1>3, <3>1, <3>2, <3>3
  <2>3. CASE Concludes(w)
    <3>1. PICK stage \in {"finalizing", "replaying", "answered"} : \E o : Conclude(w, stage, o)
      BY <2>3 DEF Concludes
    <3> QED BY <1>4, <3>1
  <2> QED BY <1>5, <2>2, <2>3 DEF OnlyReads
<1>6. ASSUME NEW w \in Workers, ClaimFresh(w) \/ ClaimLapsed(w)
      PROVE  \A v \in Workers : SnapshotIsCurrent(v)'
  <2>1. ASSUME NEW v \in Workers \ {w}
        PROVE  UNCHANGED <<base[v], pc[v], snapshot[v]>>
    BY <1>6, <2>1 DEF ClaimFresh, ClaimLapsed, GoTo, TypeOK
  <2>2. pc'[w] = "claimed" /\ base'[w] = base[w] /\ revision' = revision
    BY <1>6 DEF ClaimFresh, ClaimLapsed, GoTo, TypeOK, sheetUnchanged, custodyVars
  <2> QED BY <1>2, <1>3, <2>1, <2>2 DEF SnapshotIsCurrent
<1>7. ASSUME NEW w \in Workers, CommitApplied(w) \/ Finalize(w) \/ Leaves(w)
      PROVE  \A v \in Workers : SnapshotIsCurrent(v)'
  <2>1. PICK stage \in {"answered", "idle"} : \E o : Conclude(w, stage, o)
    BY <1>7 DEF CommitApplied, Finalize, Leaves, Rest, Reply
  <2> QED BY <1>4, <2>1
<1>8. ASSUME NEW w \in Workers, NEW k \in Keys, NEW b \in 1..(MaxRevision - 1), Submit(w, k, b)
      PROVE  \A v \in Workers : SnapshotIsCurrent(v)'
  <2>1. ASSUME NEW v \in Workers \ {w}
        PROVE  UNCHANGED <<base[v], pc[v], snapshot[v]>>
    BY <1>8, <2>1 DEF Submit, GoTo, TypeOK
  <2>2. pc'[w] \in {"precheck", "claiming"} /\ base'[w] = b /\ b <= revision /\ revision' = revision
    BY <1>8 DEF Submit, GoTo, TypeOK, sheetUnchanged, custodyVars
  <2>3. SnapshotIsCurrent(w)'
    BY <2>2 DEF SnapshotIsCurrent
  <2> QED BY <1>3, <2>1, <2>3
<1>9. ASSUME Ticks \/ ChangeCustody \/ UNCHANGED vars
      PROVE  \A v \in Workers : SnapshotIsCurrent(v)'
  <2>1. UNCHANGED <<base, pc, snapshot>>
    BY <1>9 DEF Ticks, ChangeCustody, workerVars, vars
  <2>2. ASSUME NEW v \in Workers
        PROVE  SnapshotIsCurrent(v)'
    <3> UNCHANGED <<base[v], pc[v], snapshot[v]>>
      BY <2>1
    <3> QED BY <1>3
  <2> QED BY <2>2
<1>10. \A v \in Workers : SnapshotIsCurrent(v)'
  BY <1>5, <1>6, <1>7, <1>8, <1>9, NextCases DEF Changes
<1> QED BY <1>10 DEF SnapshotsAreCurrent

(* Only a commit takes a worker from a resolved command to an answer. *)
LEMMA OnlyCommitsAnswer ==
  ASSUME TypeOK, JobsAreKnown, [Next]_vars, NEW w \in Workers,
         pc[w] = "resolved", pc'[w] = "answered"
  PROVE  CommitApplied(w)
<1>1. ASSUME NEW v \in Workers \ {w}, OnlyReads(v) \/ Changes(v)
      PROVE  pc'[w] = pc[w]
  BY <1>1 DEF OnlyReads, GoesOn, Concludes, Changes, ClaimFresh, ClaimLapsed, CommitApplied,
     Finalize, Leaves, Rest, Reply, Conclude, GoTo, TypeOK
<1>2. ASSUME WorkerStep(w) \/ Crash(w)
      PROVE  CommitApplied(w)
  BY <1>2 DEF WorkerStep, Precheck, Claim, ClaimFresh, ClaimLapsed, ClaimReplay, ClaimTurnedAway,
     LoadOwned, LoadForeign, LoadScope, LoadAttached, ResolveDone, ResolveFailed, CommitRefused,
     CommitAlreadyDone, Recheck, Finalize, Replay, Respond, Crash, Rest, Fail, Recall, Conclude,
     GoTo, TypeOK
<1>3. ASSUME NEW v \in Workers, NEW k \in Keys, NEW b \in 1..(MaxRevision - 1), Submit(v, k, b)
      PROVE  pc'[w] = pc[w]
  BY <1>3 DEF Submit, GoTo, TypeOK
<1>4. ASSUME Ticks \/ ChangeCustody \/ UNCHANGED vars
      PROVE  pc' = pc
  BY <1>4 DEF Ticks, ChangeCustody, workerVars, vars
<1>5. ASSUME NEW v \in Workers \ {w}, WorkerStep(v) \/ Crash(v)
      PROVE  pc'[w] = pc[w]
  <2>1. OnlyReads(v) \/ Changes(v)
    BY <1>5, ReadsOnlyRead DEF WorkerStep, Reads, Changes, Claim, Respond, Crash, Leaves, Serves, TypeOK
  <2> QED BY <1>1, <2>1
<1>6. ASSUME NEW k \in Keys, LeaseLapses(k) \/ ReplayWindowCloses(k)
      PROVE  pc' = pc
  BY <1>6 DEF LeaseLapses, ReplayWindowCloses, workerVars
<1> QED BY <1>2, <1>3, <1>4, <1>5, <1>6 DEF Next

(* Every commit is the step its actor asked for and may take at that moment. *)
THEOREM CommitsStayEntitled == Spec => CommitsAreEntitled
<1> DEFINE Entitled == \A w \in Workers :
                         pc[w] = "resolved" /\ pc'[w] = "answered" => EntitledEffect(w)
<1>1. Grounded /\ [Next]_vars => Grounded'
  BY NextKeepsGround
<1>2. Grounded /\ [Next]_vars => [Entitled]_vars
  BY OnlyCommitsAnswer, CommitIsEntitled DEF Grounded
<1> QED BY <1>1, <1>2, InitGrounded, PTL DEF Spec, CommitsAreEntitled

(* A commit resolved from the state it is written on. *)
LEMMA CommitIsCurrent ==
  ASSUME Grounded, SnapshotsAreCurrent, NEW w \in Workers, CommitApplied(w)
  PROVE  snapshot[w] = Resolvable /\ MayWrite(Actor(w))
<1>1. pc[w] = "resolved" /\ revision = base[w] /\ MayWrite(Actor(w))
  BY NoRefusal DEF Grounded, CommitApplied
<1>2. SnapshotIsCurrent(w)
  BY DEF SnapshotsAreCurrent
<1>3. snapshot[w].revision \in Nat /\ revision \in Nat
  BY DEF Grounded, TypeOK, SnapshotType, CustodyTypeOK, MembershipTypeOK
<1> QED BY <1>1, <1>2, <1>3 DEF SnapshotIsCurrent

(* With observed revisions, every commit lands in the placement and on the  *)
(* revision it was resolved from, for someone who may write.                 *)
THEOREM CommitsStayCurrent == ASSUME ObservedOnly PROVE Spec => CommitsAreCurrent
<1> DEFINE Current == \A w \in Workers : pc[w] = "resolved" /\ pc'[w] = "answered"
                        => /\ snapshot[w].placement = placement
                           /\ snapshot[w].revision = revision
                           /\ MayWrite(Actor(w))
<1>1. Init => SnapshotsAreCurrent
  BY DEF Init, CustodyInit, Founded, NewSheet, SnapshotsAreCurrent, SnapshotIsCurrent
<1>2. Grounded /\ SnapshotsAreCurrent /\ [Next]_vars => (Grounded /\ SnapshotsAreCurrent)'
  BY NextKeepsGround, NextKeepsSnapshots
<1>3. Grounded /\ SnapshotsAreCurrent /\ [Next]_vars => [Current]_vars
  BY OnlyCommitsAnswer, CommitIsCurrent DEF Grounded, Resolvable
<1> QED BY <1>1, <1>2, <1>3, InitGrounded, PTL DEF Spec, CommitsAreCurrent

(* What a step can do to a key's receipt, and what the sheet gains by it. *)
SettlesDone(k) ==
  /\ status[k] # "completed" /\ hash[k] = revision
  /\ status' = [status EXCEPT ![k] = "completed"] /\ hash' = hash
  /\ \E s : result' = [result EXCEPT ![k] = Outcome("done", s)]
  /\ revision' = IF KeyKind[k] = "roll" THEN revision ELSE revision + 1
  /\ edits' = IF KeyKind[k] \in Edits THEN edits \cup {k} ELSE edits

SettlesRefused(k) ==
  /\ status[k] # "completed"
  /\ status' = [status EXCEPT ![k] = "completed"] /\ hash' = hash
  /\ \E o : o.code # "done" /\ result' = [result EXCEPT ![k] = o]
  /\ UNCHANGED <<revision, edits>>

Opens(k) ==
  /\ status[k] = "none"
  /\ status' = [status EXCEPT ![k] = "pending"]
  /\ \E b : hash' = [hash EXCEPT ![k] = b]
  /\ UNCHANGED <<result, revision, edits>>

LEMMA NextSettles ==
  ASSUME Grounded, ReceiptInv, SnapshotsAreCurrent, [Next]_vars
  PROVE  \/ \E k \in Keys : SettlesDone(k) \/ SettlesRefused(k) \/ Opens(k)
         \/ /\ UNCHANGED <<status, hash, result, edits>>
            /\ revision' \in {revision, revision + 1}
<1>1. ASSUME NEW w \in Workers, OnlyReads(w) \/ ClaimLapsed(w) \/ Leaves(w)
      PROVE  UNCHANGED <<status, hash, result, edits, revision>>
  BY <1>1 DEF OnlyReads, ClaimLapsed, Leaves, Rest, sheetUnchanged, custodyVars, executionUnchanged
<1>2. ASSUME NEW w \in Workers, ClaimFresh(w)
      PROVE  job[w] \in Keys /\ Opens(job[w])
  BY <1>2 DEF ClaimFresh, Opens, sheetUnchanged, custodyVars, Grounded, JobsAreKnown
<1>3. ASSUME NEW w \in Workers, CommitApplied(w)
      PROVE  job[w] \in Keys /\ SettlesDone(job[w])
  <2>1. snapshot[w].edits = edits
    BY <1>3, CommitIsCurrent DEF Resolvable
  <2>2. pc[w] \in Executing
    BY <1>3 DEF CommitApplied, Executing, Claimants
  <2> QED BY <1>3, <2>1, <2>2, CommitFacts DEF SettlesDone, Grounded, Kind, ReceiptInv, ClaimsAreRecorded
<1>4. ASSUME NEW w \in Workers, Finalize(w)
      PROVE  /\ job[w] \in Keys
             /\ SettlesRefused(job[w]) \/ UNCHANGED <<status, hash, result, edits, revision>>
  BY <1>4 DEF Finalize, TakesError, WriteReceipt, SettlesRefused, sheetUnchanged, custodyVars,
     Grounded, JobsAreKnown, ReceiptInv, ClaimsAreRecorded
<1>5. ASSUME NEW w \in Workers, NEW k \in Keys, NEW b \in 1..(MaxRevision - 1), Submit(w, k, b)
      PROVE  UNCHANGED <<status, hash, result, edits, revision>>
  BY <1>5 DEF Submit, sheetUnchanged, custodyVars, executionUnchanged
<1>6. ASSUME Ticks \/ UNCHANGED vars
      PROVE  UNCHANGED <<status, hash, result, edits, revision>>
  BY <1>6 DEF Ticks, sheetUnchanged, custodyVars, vars
<1>7. ASSUME ChangeCustody
      PROVE  /\ UNCHANGED <<status, hash, result, edits>>
             /\ revision' \in {revision, revision + 1}
  BY <1>7, ChangesShowInTheRevision DEF ChangeCustody, executionVars
<1> QED BY <1>1, <1>2, <1>3, <1>4, <1>5, <1>6, <1>7, NextCases DEF Grounded, Changes

(* The invariant under which a command is applied exactly once and on top   *)
(* of everything applied before it.                                          *)
PipelineInv == Grounded /\ ReceiptInv /\ SnapshotsAreCurrent

LEMMA PipelineInvHolds == ASSUME ObservedOnly PROVE Spec => []PipelineInv
<1>1. Init => PipelineInv
  <2>1. Init => ReceiptInv
    BY DEF Init, ReceiptInv, AppliedExactlyOnce, ClaimsAreRecorded, Done, Executing, Claimants
  <2>2. Init => SnapshotsAreCurrent
    BY DEF Init, CustodyInit, Founded, NewSheet, SnapshotsAreCurrent, SnapshotIsCurrent
  <2> QED BY <2>1, <2>2, InitGrounded DEF PipelineInv
<1>2. ASSUME PipelineInv, [Next]_vars
      PROVE  PipelineInv'
  BY <1>2, NextKeepsGround, NextKeepsReceipts, NextKeepsSnapshots DEF Grounded, PipelineInv
<1>3. PipelineInv /\ [Next]_vars => PipelineInv'
  BY <1>2
<1> QED BY <1>1, <1>3, PTL DEF Spec

(* With observed revisions, the sheet's state is made of the acknowledged   *)
(* edits, each of them and nothing else.                                     *)
THEOREM NoUpdateIsLost == ASSUME ObservedOnly PROVE Spec => []NoLostUpdate
<1>1. Init => NoLostUpdate
  BY DEF Init, NoLostUpdate, Done
<1>2. ASSUME PipelineInv, NoLostUpdate, [Next]_vars
      PROVE  NoLostUpdate'
  <2>1. status \in [Keys -> {"none", "pending", "completed"}] /\ result \in [Keys -> OutcomeType]
    BY <1>2 DEF PipelineInv, Grounded, TypeOK
  <2>2. ASSUME NEW k \in Keys, SettlesDone(k)
        PROVE  NoLostUpdate'
    <3>1. Done(k)' /\ ~ Done(k)
      BY <2>1, <2>2 DEF SettlesDone, Done, Outcome
    <3>2. \A j \in Keys \ {k} : Done(j)' <=> Done(j)
      BY <2>1, <2>2 DEF SettlesDone, Done
    <3>3. edits' = IF KeyKind[k] \in Edits THEN edits \cup {k} ELSE edits
      BY <2>2 DEF SettlesDone
    <3> QED BY <1>2, <3>1, <3>2, <3>3 DEF NoLostUpdate
  <2>3. ASSUME NEW k \in Keys, SettlesRefused(k) \/ Opens(k)
        PROVE  NoLostUpdate'
    BY <1>2, <2>1, <2>3 DEF SettlesRefused, Opens, NoLostUpdate, Done
  <2>4. ASSUME UNCHANGED <<status, result, edits>>
        PROVE  NoLostUpdate'
    BY <1>2, <2>4 DEF NoLostUpdate, Done
  <2> QED BY <1>2, <2>2, <2>3, <2>4, NextSettles DEF PipelineInv
<1>3. PipelineInv /\ NoLostUpdate /\ [Next]_vars => NoLostUpdate'
  BY <1>2
<1> QED BY <1>1, <1>3, PipelineInvHolds, PTL DEF Spec

(* With observed revisions, the pipeline implements ExactlyOnce: claims,    *)
(* leases, snapshots, retries and crashes are invisible to the caller.       *)
THEOREM PromiseIsKept == ASSUME ObservedOnly PROVE Spec => KeepsThePromise
<1>1. Init => Once!Init
  BY DEF Init, CustodyInit, Founded, NewSheet, Once!Init, Done
<1>2. ASSUME PipelineInv, [Next]_vars
      PROVE  [Once!Next]_(Once!onceVars)
  <2>1. /\ status \in [Keys -> {"none", "pending", "completed"}]
        /\ result \in [Keys -> OutcomeType] /\ hash \in [Keys -> Nat] /\ revision \in Nat
    BY <1>2 DEF PipelineInv, Grounded, TypeOK, CustodyTypeOK, MembershipTypeOK
  <2>2. ASSUME NEW k \in Keys, SettlesDone(k)
        PROVE  Once!Apply(k)
    <3>1. Done(k)' /\ ~ Done(k)
      BY <2>1, <2>2 DEF SettlesDone, Done, Outcome
    <3>2. \A j \in Keys \ {k} : Done(j)' <=> Done(j)
      BY <2>1, <2>2 DEF SettlesDone, Done
    <3>3. /\ status[k] # "completed" /\ status' = [status EXCEPT ![k] = "completed"]
          /\ hash' = hash /\ hash[k] = revision
          /\ revision' = IF KeyKind[k] = "roll" THEN revision ELSE revision + 1
          /\ edits' = IF KeyKind[k] \in Edits THEN edits \cup {k} ELSE edits
      BY <2>2 DEF SettlesDone
    <3> QED BY <2>1, <3>1, <3>2, <3>3 DEF Once!Apply
  <2>3. ASSUME NEW k \in Keys, SettlesRefused(k)
        PROVE  Once!Refuse(k)
    BY <2>1, <2>3 DEF SettlesRefused, Once!Refuse, Done
  <2>4. ASSUME NEW k \in Keys, Opens(k)
        PROVE  UNCHANGED Once!onceVars
    BY <2>1, <2>4 DEF Opens, Once!onceVars, Done
  <2>5. ASSUME UNCHANGED <<status, hash, result, edits>>, revision' \in {revision, revision + 1}
        PROVE  Once!ChangeCustody \/ UNCHANGED Once!onceVars
    BY <2>5 DEF Once!ChangeCustody, Once!onceVars, Done
  <2> QED BY <1>2, <2>2, <2>3, <2>4, <2>5, NextSettles DEF PipelineInv, Once!Next
<1>3. PipelineInv /\ [Next]_vars => [Once!Next]_(Once!onceVars)
  BY <1>2
<1> QED BY <1>1, <1>3, PipelineInvHolds, PTL DEF Spec, KeepsThePromise, Once!Spec

----------------------------------------------------------------------------
(* Answers *)

(* Two workers hold a claim on the same key only after a lease lapsed, and  *)
(* then both are marked.  An unmarked worker's key is still open; a stored  *)
(* outcome a worker holds is the receipt.                                    *)
Alone(w) == pc[w] \in Claimants /\ ~ contested[w]

ClaimsAreExclusive ==
  /\ \A v, w \in Workers :
       v # w /\ Alone(v) /\ pc[w] \in Claimants => job[v] # job[w]
  /\ \A w \in Workers : Alone(w) => status[job[w]] = "pending"
  /\ \A w \in Workers : pc[w] = "replaying" =>
       status[job[w]] = "completed" /\ result[job[w]] = outcome[w]

AnswerInv == ClaimsAreExclusive /\ AnswersAgreeWithReceipts

(* A step of one worker that leaves every receipt and claim alone. *)
LEMMA BystandersKeepAnswers ==
  ASSUME TypeOK, JobsAreKnown, AnswerInv, NEW w \in Workers,
         UNCHANGED <<status, result, contested>>,
         \A v \in Workers \ {w} : UNCHANGED <<pc[v], job[v], outcome[v]>>,
         Alone(w)' => Alone(w) /\ job'[w] = job[w],
         pc'[w] \in Claimants => pc[w] \in Claimants /\ job'[w] = job[w],
         pc'[w] = "replaying" => status[job'[w]] = "completed" /\ result[job'[w]] = outcome'[w],
         pc'[w] = "answered" /\ outcome'[w].code \in ReceiptCodes =>
           status[job'[w]] = "completed" /\ result[job'[w]] = outcome'[w]
  PROVE  AnswerInv'
BY DEF AnswerInv, ClaimsAreExclusive, AnswersAgreeWithReceipts, Alone, Claimants

LEMMA NextKeepsAnswers ==
  ASSUME TypeOK, JobsAreKnown, ReceiptInv, AnswerInv, [Next]_vars
  PROVE  AnswerInv'
<1> USE DEF AnswerInv, ClaimsAreExclusive, AnswersAgreeWithReceipts, Alone
<1>1. ASSUME NEW w \in Workers, OnlyReads(w)
      PROVE  AnswerInv'
  <2>1. /\ UNCHANGED <<status, result, job, contested>> /\ job[w] \in Keys
    BY <1>1 DEF OnlyReads, executionUnchanged, Serves, JobsAreKnown
  <2>2. CASE GoesOn(w)
    <3>1. /\ \A v \in Workers \ {w} : UNCHANGED <<pc[v], job[v], outcome[v]>>
          /\ pc'[w] \notin {"replaying", "answered"}
          /\ pc'[w] \in Claimants => pc[w] \in Claimants
      BY <2>1, <2>2 DEF GoesOn, GoTo, TypeOK, Executing, Claimants
    <3> QED BY <2>1, <3>1, BystandersKeepAnswers
  <2>3. CASE Concludes(w)
    <3>1. /\ \A v \in Workers \ {w} : UNCHANGED <<pc[v], job[v], outcome[v]>>
          /\ pc'[w] \in Claimants => pc[w] \in Claimants
          /\ pc'[w] = "replaying" => status[job[w]] = "completed" /\ result[job[w]] = outcome'[w]
          /\ pc'[w] = "answered" => \/ outcome'[w].code \in PassingCodes
                                    \/ pc[w] = "replaying" /\ outcome'[w] = outcome[w]
      BY <2>1, <2>3 DEF Concludes, Conclude, GoTo, TypeOK, Executing, Claimants
    <3>2. PassingCodes \cap ReceiptCodes = {}
      BY DEF PassingCodes, ReceiptCodes
    <3>3. pc'[w] = "answered" /\ outcome'[w].code \in ReceiptCodes =>
            status[job[w]] = "completed" /\ result[job[w]] = outcome'[w]
      BY <3>1, <3>2
    <3> QED BY <2>1, <3>1, <3>3, BystandersKeepAnswers
  <2> QED BY <1>1, <2>2, <2>3 DEF OnlyReads
<1>2. ASSUME NEW w \in Workers, ClaimFresh(w)
      PROVE  AnswerInv'
  <2>1. /\ job[w] \in Keys /\ UNCHANGED <<job, outcome, result, contested>>
        /\ status[job[w]] = "none"
        /\ status' = [status EXCEPT ![job[w]] = "pending"]
        /\ pc' = [pc EXCEPT ![w] = "claimed"]
    BY <1>2 DEF ClaimFresh, GoTo, JobsAreKnown
  <2>2. \A v \in Workers \ {w} : pc[v] \in Claimants => job[v] # job[w]
    BY <2>1 DEF ReceiptInv, ClaimsAreRecorded
  <2> QED BY <2>1, <2>2 DEF TypeOK, JobsAreKnown, Claimants
<1>3. ASSUME NEW w \in Workers, ClaimLapsed(w)
      PROVE  AnswerInv'
  <2> DEFINE others == {v \in Workers \ {w} : job[v] = job[w] /\ pc[v] \in Claimants}
  <2>1. /\ job[w] \in Keys /\ UNCHANGED <<job, outcome, result, status>>
        /\ status[job[w]] = "pending"
        /\ pc' = [pc EXCEPT ![w] = "claimed"]
        /\ contested' = [v \in Workers |->
                           contested[v] \/ v \in others \/ (v = w /\ others # {})]
    BY <1>3 DEF ClaimLapsed, GoTo, JobsAreKnown
  <2>2. \A v \in Workers : contested[v] => contested'[v]
    BY <2>1
  <2>3. \A v \in Workers \ {w} : job[v] = job[w] /\ pc[v] \in Claimants
           => contested'[v] /\ contested'[w]
    BY <2>1
  <2>4. pc'[w] = "claimed" /\ \A v \in Workers \ {w} : pc'[v] = pc[v]
    BY <2>1 DEF TypeOK
  <2> QED BY <2>1, <2>2, <2>3, <2>4 DEF Claimants
<1>4. ASSUME NEW w \in Workers, CommitApplied(w) \/ Finalize(w)
      PROVE  AnswerInv'
  <2> DEFINE o == outcome'[w]
  <2>1. /\ job[w] \in Keys /\ UNCHANGED <<job, contested>> /\ pc[w] \in Claimants
        /\ \E x : Conclude(w, "answered", x)
        /\ \/ UNCHANGED <<status, result>> /\ status[job[w]] # "pending"
           \/ /\ status[job[w]] # "completed"
              /\ status' = [status EXCEPT ![job[w]] = "completed"]
              /\ result' = [result EXCEPT ![job[w]] = o]
    BY <1>4 DEF CommitApplied, Finalize, TakesError, StillOpen, WriteReceipt, Reply, Conclude,
       JobsAreKnown, TypeOK, Claimants
  <2>2. /\ pc'[w] = "answered"
        /\ \A v \in Workers \ {w} : UNCHANGED <<pc[v], outcome[v]>>
    BY <2>1 DEF Conclude, GoTo, TypeOK
  <2>3. CASE UNCHANGED <<status, result>> /\ status[job[w]] # "pending"
    BY <2>1, <2>2, <2>3 DEF Claimants
  <2>4. CASE /\ status[job[w]] # "completed"
             /\ status' = [status EXCEPT ![job[w]] = "completed"]
             /\ result' = [result EXCEPT ![job[w]] = o]
    <3>1. \A v \in Workers \ {w} : Alone(v) => job[v] # job[w]
      BY <2>1
    <3>2. status'[job[w]] = "completed" /\ result'[job[w]] = o
      BY <2>1, <2>4 DEF TypeOK
    <3>3. \A k \in Keys \ {job[w]} : status'[k] = status[k] /\ result'[k] = result[k]
      BY <2>1, <2>4 DEF TypeOK
    <3>4. \A v \in Workers : pc[v] # "idle" => job[v] \in Keys
      BY DEF JobsAreKnown
    <3> HIDE DEF o
    <3>5. ClaimsAreExclusive'
      BY <2>1, <2>2, <2>4, <3>1, <3>2, <3>3, <3>4 DEF Claimants
    <3>6. AnswersAgreeWithReceipts'
      <4> SUFFICES ASSUME NEW v \in Workers, pc'[v] = "answered",
                          outcome'[v].code \in ReceiptCodes, ~ contested'[v]
                   PROVE  status'[job'[v]] = "completed" /\ result'[job'[v]] = outcome'[v]
        OBVIOUS
      <4>1. CASE v = w
        BY <2>1, <3>2, <4>1 DEF o
      <4>2. CASE v # w
        <5>1. status[job[v]] = "completed" /\ result[job[v]] = outcome[v] /\ job[v] \in Keys
          BY <2>1, <2>2, <3>4, <4>2
        <5> QED BY <2>1, <2>2, <2>4, <3>3, <4>2, <5>1
      <4> QED BY <4>1, <4>2
    <3> QED BY <3>5, <3>6
  <2> QED BY <2>1, <2>3, <2>4
<1>5. ASSUME NEW w \in Workers, Leaves(w)
      PROVE  AnswerInv'
  <2>1. /\ UNCHANGED <<status, result>>
        /\ contested' = [contested EXCEPT ![w] = FALSE]
        /\ job' = [job EXCEPT ![w] = NoKey]
        /\ Conclude(w, "idle", Nothing)
    BY <1>5 DEF Leaves, Rest, executionUnchanged
  <2>2. /\ pc'[w] = "idle"
        /\ \A v \in Workers \ {w} : UNCHANGED <<pc[v], job[v], outcome[v], contested[v]>>
    BY <2>1 DEF Conclude, GoTo, TypeOK
  <2> QED BY <2>1, <2>2 DEF Claimants
<1>6. ASSUME NEW w \in Workers, NEW k \in Keys, NEW b \in 1..(MaxRevision - 1), Submit(w, k, b)
      PROVE  AnswerInv'
  <2>1. UNCHANGED <<status, result>>
    BY <1>6 DEF Submit, executionUnchanged
  <2>2. /\ pc'[w] \in {"precheck", "claiming"}
        /\ \A v \in Workers \ {w} : UNCHANGED <<pc[v], job[v], outcome[v], contested[v]>>
    BY <1>6 DEF Submit, GoTo, TypeOK
  <2> QED BY <2>1, <2>2 DEF Claimants
<1>7. CASE Ticks \/ ChangeCustody \/ UNCHANGED vars
  <2>1. UNCHANGED <<status, result, pc, job, outcome, contested>>
    BY <1>7 DEF Ticks, ChangeCustody, executionVars, workerVars, vars
  <2> QED BY <2>1
<1> QED BY <1>1, <1>2, <1>3, <1>4, <1>5, <1>6, <1>7, NextCases DEF Changes

(* Unless its lease lapsed under it, what a worker answers as an outcome is *)
(* what the key's receipt says.                                              *)
THEOREM AnswersAreReceipts == Spec => []AnswersAgreeWithReceipts
<1> DEFINE Inv == TypeOK /\ JobsAreKnown /\ ReceiptInv /\ AnswerInv
<1>1. Init => Inv
  <2>1. Init => ReceiptInv
    BY DEF Init, ReceiptInv, AppliedExactlyOnce, ClaimsAreRecorded, Done, Executing, Claimants
  <2>2. Init => AnswerInv
    BY DEF Init, AnswerInv, ClaimsAreExclusive, AnswersAgreeWithReceipts, Alone, Claimants
  <2> QED BY <2>1, <2>2, InitType
<1>2. Inv /\ [Next]_vars => Inv'
  BY NextKeepsType, NextKeepsReceipts, NextKeepsAnswers
<1>3. Inv => AnswersAgreeWithReceipts
  BY DEF AnswerInv
<1> QED BY <1>1, <1>2, <1>3, PTL DEF Spec
=============================================================================
