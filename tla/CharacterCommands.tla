------------------------- MODULE CharacterCommands -------------------------
(***************************************************************************)
(* The command pipeline of one character sheet: apply() and manage() of    *)
(* characters/index.ts with the transactions of characters/persistence.ts  *)
(* and the execution claims of characters/idempotency.ts.                   *)
(*                                                                         *)
(* A worker is one HTTP request being served.  Between its claim, its read *)
(* of the sheet, the rules runtime, its transaction and its receipt it     *)
(* holds no lock, so every step below interleaves with the other workers,  *)
(* with custody and membership changes (Custody) and with the clock: a     *)
(* lease may lapse under a slow worker and the replay window may close.     *)
(* A worker may also die at any point, and a client may send any request   *)
(* again.                                                                   *)
(*                                                                         *)
(* The sheet's state is the set of edits it contains: resolving an edit    *)
(* adds its key to the state the worker read.                               *)
(***************************************************************************)
EXTENDS Custody

CONSTANTS
  Workers,        \* requests that can be in flight together
  Keys,           \* (actor, command kind, idempotency key) triples
  NoKey,          \* the job of an idle worker
  KeyActor,       \* the actor of each key
  KeyKind,        \* the command kind of each key
  ApiKeys,        \* keys used through the public API (standaloneOnly)
  ObservedOnly,   \* clients only name revisions they have been shown
  MaxCrashes      \* bound on workers that die

Edits      == {"edit", "entry"}     \* commands that write state_json
Management == {"rename", "transfer", "archive", "recover"}
Kinds      == Edits \cup Management \cup {"roll"}

ASSUME CommandAssumption ==
  /\ NoKey \notin Keys
  /\ KeyActor \in [Keys -> Users]
  /\ KeyKind \in [Keys -> Kinds]
  /\ ApiKeys \subseteq {k \in Keys : KeyKind[k] \notin Management}
  /\ ObservedOnly \in BOOLEAN
  /\ MaxCrashes \in Nat

VARIABLES
  edits,          \* characters.state_json
  status,         \* character_command_executions.status, "none" without a row
  hash,           \* input_hash: the expected revision the key was first used with
  live,           \* lease_expires_at, or expires_at once completed, is in the future
  result,         \* result_json
  pc,             \* where each worker is
  job,            \* the key a worker serves
  base,           \* the expectedRevision of its request
  snapshot,       \* the record a worker resolved from
  scope,          \* resultScope: campaign and generations read with it
  outcome,        \* the error, stored outcome or answer a worker holds
  crashes,        \* workers that died so far
  applied,        \* history: commits of each key
  contested       \* history: another worker executed the same key meanwhile

sheetState == <<sheetVars, edits>>
executionVars == <<status, hash, live, result>>
workerVars == <<pc, job, base, snapshot, scope, outcome>>
vars == <<custodyVars, edits, status, hash, live, result,
          pc, job, base, snapshot, scope, outcome, crashes, applied, contested>>

----------------------------------------------------------------------------
(* StoredResultScope; a standalone receipt has the NULL scope. *)
ScopeType == [campaign : Campaigns \cup {NoCampaign}, placement : Nat, membership : Nat]
Standalone == [campaign |-> NoCampaign, placement |-> 0, membership |-> 0]

ReceiptCodes == {"done", "not_found", "archived", "campaign_archived", "conflict", "invalid_value"}
(* Answers no receipt is written for. *)
PassingCodes == {"mismatch", "in_progress", "expired", "denied", "unavailable", "internal"}

OutcomeType == [code : ReceiptCodes \cup PassingCodes, scope : ScopeType]
Outcome(code, s) == [code |-> code, scope |-> s]
Nothing == Outcome("internal", Standalone)

SnapshotType == [revision : Nat, placement : Nat, edits : SUBSET Keys]
NoSnapshot == [revision |-> 0, placement |-> 0, edits |-> {}]

Stages == {"idle", "precheck", "claiming", "claimed", "scoping", "authorizing", "loaded",
           "resolved", "conflicting", "finalizing", "replaying", "answered"}

(* Stages between a granted claim and its receipt. *)
Claimants == {"claimed", "scoping", "authorizing", "loaded", "resolved", "conflicting", "finalizing"}

TypeOK ==
  /\ CustodyTypeOK
  /\ edits \in SUBSET Keys
  /\ status \in [Keys -> {"none", "pending", "completed"}]
  /\ hash \in [Keys -> Nat]
  /\ live \in [Keys -> BOOLEAN]
  /\ result \in [Keys -> OutcomeType]
  /\ pc \in [Workers -> Stages]
  /\ job \in [Workers -> Keys \cup {NoKey}]
  /\ base \in [Workers -> Nat]
  /\ snapshot \in [Workers -> SnapshotType]
  /\ scope \in [Workers -> ScopeType]
  /\ outcome \in [Workers -> OutcomeType]
  /\ crashes \in Nat
  /\ applied \in [Keys -> Nat]
  /\ contested \in [Workers -> BOOLEAN]

Init ==
  /\ CustodyInit
  /\ edits = {}
  /\ status = [k \in Keys |-> "none"]
  /\ hash = [k \in Keys |-> 0]
  /\ live = [k \in Keys |-> FALSE]
  /\ result = [k \in Keys |-> Nothing]
  /\ pc = [w \in Workers |-> "idle"]
  /\ job = [w \in Workers |-> NoKey]
  /\ base = [w \in Workers |-> 0]
  /\ snapshot = [w \in Workers |-> NoSnapshot]
  /\ scope = [w \in Workers |-> Standalone]
  /\ outcome = [w \in Workers |-> Nothing]
  /\ crashes = 0
  /\ applied = [k \in Keys |-> 0]
  /\ contested = [w \in Workers |-> FALSE]

----------------------------------------------------------------------------
Actor(w) == KeyActor[job[w]]
Kind(w)  == KeyKind[job[w]]
Manages(w) == Kind(w) \in Management
Serves(w) == pc[w] \notin {"idle", "answered"}

executionUnchanged == UNCHANGED <<status, hash, live, result, applied>>
sheetUnchanged == UNCHANGED <<custodyVars, edits>>

GoTo(w, stage) == pc' = [pc EXCEPT ![w] = stage]

readsUnchanged == UNCHANGED <<base, snapshot, scope>>

(* From here on the worker only needs the outcome it holds; what it read is *)
(* not used again.                                                          *)
Conclude(w, stage, o) ==
  /\ GoTo(w, stage)
  /\ outcome' = [outcome EXCEPT ![w] = o]
  /\ base' = [base EXCEPT ![w] = 0]
  /\ snapshot' = [snapshot EXCEPT ![w] = NoSnapshot]
  /\ scope' = [scope EXCEPT ![w] = Standalone]

(* An error it will write as the key's receipt, a stored outcome it found,  *)
(* an answer.                                                                *)
Fail(w, code, s) == Conclude(w, "finalizing", Outcome(code, s))
Recall(w) == Conclude(w, "replaying", result[job[w]])
Reply(w, o) == Conclude(w, "answered", o)
Deny(w, code) == Reply(w, Outcome(code, Standalone))

(* A request reaches a worker.  A retry is the same key with the same body; *)
(* another body under the same key is a client's mistake.  A request never  *)
(* names a revision it could only exhaust the bound with.                   *)
Submit(w, k, b) ==
  /\ pc[w] = "idle"
  /\ ObservedOnly => b <= revision
  /\ GoTo(w, IF k \in ApiKeys THEN "precheck" ELSE "claiming")
  /\ job' = [job EXCEPT ![w] = k]
  /\ base' = [base EXCEPT ![w] = b]
  /\ contested' = [contested EXCEPT ![w] = FALSE]
  /\ UNCHANGED <<snapshot, scope, outcome, crashes>>
  /\ sheetUnchanged /\ executionUnchanged

(* The public API looks for an owned standalone sheet before it claims. *)
Precheck(w) ==
  /\ pc[w] = "precheck"
  /\ IF OwnsStandalone(Actor(w))
       THEN GoTo(w, "claiming") /\ UNCHANGED outcome /\ readsUnchanged
       ELSE Deny(w, "denied")
  /\ UNCHANGED <<job, crashes, contested>>
  /\ sheetUnchanged /\ executionUnchanged

----------------------------------------------------------------------------
(* claimExecution: one transaction that locks the key's row. *)

(* Mutant: a dead worker keeps its lease. *)
LeaseHeldForever(k) == status[k] = "pending"
LeaseHeld(k) == status[k] = "pending" /\ live[k]

ClaimFresh(w) ==
  /\ pc[w] = "claiming"
  /\ status[job[w]] = "none"
  /\ status' = [status EXCEPT ![job[w]] = "pending"]
  /\ hash' = [hash EXCEPT ![job[w]] = base[w]]
  /\ live' = [live EXCEPT ![job[w]] = TRUE]
  /\ GoTo(w, "claimed")
  /\ UNCHANGED <<result, applied, job, base, snapshot, scope, outcome, crashes, contested>>
  /\ sheetUnchanged

(* The lapsed lease is taken over; the execution keeps its identity. *)
ClaimLapsed(w) ==
  /\ pc[w] = "claiming"
  /\ status[job[w]] = "pending"
  /\ hash[job[w]] = base[w]
  /\ ~ LeaseHeld(job[w])
  /\ live' = [live EXCEPT ![job[w]] = TRUE]
  /\ GoTo(w, "claimed")
  /\ LET others == {v \in Workers \ {w} : job[v] = job[w] /\ pc[v] \in Claimants}
     IN  contested' = [v \in Workers |->
                         contested[v] \/ v \in others \/ (v = w /\ others # {})]
  /\ UNCHANGED <<status, hash, result, applied, job, base, snapshot, scope, outcome, crashes>>
  /\ sheetUnchanged

ClaimReplay(w) ==
  /\ pc[w] = "claiming"
  /\ status[job[w]] = "completed"
  /\ hash[job[w]] = base[w]
  /\ live[job[w]]
  /\ Recall(w)
  /\ UNCHANGED <<job, crashes, contested>>
  /\ sheetUnchanged /\ executionUnchanged

ClaimTurnedAway(w) ==
  /\ pc[w] = "claiming"
  /\ \/ /\ status[job[w]] # "none" /\ hash[job[w]] # base[w]
        /\ Deny(w, "mismatch")
     \/ /\ status[job[w]] = "completed" /\ hash[job[w]] = base[w] /\ ~ live[job[w]]
        /\ Deny(w, "expired")
     \/ /\ hash[job[w]] = base[w] /\ LeaseHeld(job[w])
        /\ Deny(w, "in_progress")
  /\ UNCHANGED <<job, crashes, contested>>
  /\ sheetUnchanged /\ executionUnchanged

Claim(w) == ClaimFresh(w) \/ ClaimLapsed(w) \/ ClaimReplay(w) \/ ClaimTurnedAway(w)

----------------------------------------------------------------------------
(* The reads before the runtime is asked; nothing is locked. *)

Resolvable == [revision |-> revision, placement |-> placement, edits |-> edits]

(* openOwnedCharacter found the sheet. *)
LoadOwned(w) ==
  /\ pc[w] = "claimed"
  /\ OwnsStandalone(Actor(w))
  /\ IF lifecycle = "archived" /\ ~ Manages(w)
       THEN Fail(w, "archived", Standalone)
       ELSE /\ GoTo(w, IF job[w] \in ApiKeys /\ revision # base[w]
                         THEN "conflicting" ELSE "loaded")
            /\ snapshot' = [snapshot EXCEPT ![w] = Resolvable]
            /\ UNCHANGED <<base, scope, outcome>>
  /\ UNCHANGED <<job, crashes, contested>>
  /\ sheetUnchanged /\ executionUnchanged

(* It did not; only an attached sheet can still be written. *)
LoadForeign(w) ==
  /\ pc[w] = "claimed"
  /\ ~ OwnsStandalone(Actor(w))
  /\ IF job[w] \in ApiKeys
       THEN Fail(w, "not_found", Standalone)
       ELSE GoTo(w, "scoping") /\ UNCHANGED outcome /\ readsUnchanged
  /\ UNCHANGED <<job, crashes, contested>>
  /\ sheetUnchanged /\ executionUnchanged

(* loadCharacterScope: the campaign the transaction will be run in. *)
LoadScope(w) ==
  /\ pc[w] = "scoping"
  /\ IF campaign = NoCampaign \/ Kind(w) = "transfer"
       THEN Fail(w, "not_found", Standalone)
       ELSE /\ GoTo(w, "authorizing")
            /\ scope' = [scope EXCEPT ![w] = [Standalone EXCEPT !.campaign = campaign]]
            /\ UNCHANGED <<base, snapshot, outcome>>
  /\ UNCHANGED <<job, crashes, contested>>
  /\ sheetUnchanged /\ executionUnchanged

(* loadAttachedSnapshot, and the manager check of archive and recover. *)
AttachedRight(w) ==
  /\ campaign \in Campaigns
  /\ IF Kind(w) \in {"archive", "recover"}
       THEN IsGameMaster(campaign, Actor(w))
       ELSE MayControl(campaign, Actor(w))

ErrorScope(w, s) == IF Manages(w) THEN Standalone ELSE s

(* The scope keeps the campaign of the earlier read and the generations of  *)
(* this one.                                                                *)
LoadAttached(w) ==
  /\ pc[w] = "authorizing"
  /\ \/ ~ AttachedRight(w) /\ Fail(w, "not_found", Standalone)
     \/ /\ AttachedRight(w)
        /\ LET s == [campaign |-> scope[w].campaign, placement |-> placement,
                     membership |-> generation[campaign][Actor(w)]]
           IN  \/ /\ campaignStatus[campaign] # "active"
                  /\ Fail(w, "campaign_archived", ErrorScope(w, s))
               \/ /\ campaignStatus[campaign] = "active"
                  /\ lifecycle = "archived" /\ ~ Manages(w)
                  /\ Fail(w, "archived", s)
               \/ /\ campaignStatus[campaign] = "active"
                  /\ lifecycle = "archived" => Manages(w)
                  /\ GoTo(w, "loaded")
                  /\ snapshot' = [snapshot EXCEPT ![w] = Resolvable]
                  /\ scope' = [scope EXCEPT ![w] = s]
                  /\ UNCHANGED <<base, outcome>>
  /\ UNCHANGED <<job, crashes, contested>>
  /\ sheetUnchanged /\ executionUnchanged

(* SystemRuntime.resolve on the snapshot.  It may refuse the command for    *)
(* good, or fail in a way that leaves the key pending for a retry.          *)
ResolveDone(w) ==
  /\ pc[w] = "loaded"
  /\ GoTo(w, "resolved")
  /\ UNCHANGED <<job, base, snapshot, scope, outcome, crashes, contested>>
  /\ sheetUnchanged /\ executionUnchanged

ResolveFailed(w) ==
  /\ pc[w] = "loaded"
  /\ \/ Fail(w, "invalid_value", ErrorScope(w, scope[w]))
     \/ Kind(w) = "entry" /\ Fail(w, "invalid_value", Standalone)
     \/ Deny(w, "internal")
  /\ UNCHANGED <<job, crashes, contested>>
  /\ sheetUnchanged /\ executionUnchanged

----------------------------------------------------------------------------
(* applyCommandTx and applyManagementCommandTx: the execution row is locked *)
(* first, then the campaign, then the sheet, and everything is checked      *)
(* again.  The first check that fails names the refusal.                     *)

(* Mutants: a check of the snapshot is not repeated in the transaction. *)
StaleIgnored(w) == FALSE
FrozenIgnored(c) == FALSE
EntitledBefore(w, c) == campaign = c

Stale(w) == revision # base[w]
Frozen(c) == campaignStatus[c] # "active"
StillEntitled(w, c) == IsActiveMember(c, Actor(w)) /\ campaign = c /\ AttachedRight(w)

StandaloneRefusal(w) ==
  IF owner # Actor(w) \/ (~ Manages(w) /\ campaign # NoCampaign) THEN "not_found"
  ELSE IF ~ Manages(w) /\ lifecycle = "archived" THEN "archived"
  ELSE IF Stale(w) THEN "conflict"
  ELSE "none"

CampaignRefusal(w, c) ==
  IF ~ StillEntitled(w, c) THEN "not_found"
  ELSE IF Frozen(c) THEN "conflict"
  ELSE IF ~ Manages(w) /\ lifecycle = "archived" THEN "archived"
  ELSE IF Stale(w) THEN "conflict"
  ELSE "none"

Refusal(w) ==
  IF scope[w].campaign = NoCampaign THEN StandaloneRefusal(w) ELSE CampaignRefusal(w, scope[w].campaign)

(* The UPDATE of the sheet, one disjunct per command kind. *)
Effect(w) ==
  LET next == revision' = revision + 1
      others == UNCHANGED <<campaign, returnOwner, placement, controllers, memberVars>>
  IN  \/ /\ Kind(w) \in Edits
         /\ edits' = snapshot[w].edits \cup {job[w]}
         /\ next /\ others /\ UNCHANGED <<owner, lifecycle>>
      \/ /\ Kind(w) = "roll"
         /\ UNCHANGED <<custodyVars, edits>>
      \/ /\ Kind(w) = "rename"
         /\ next /\ others /\ UNCHANGED <<owner, lifecycle, edits>>
      \/ /\ Kind(w) = "transfer"
         /\ owner' \in Users
         /\ next /\ others /\ UNCHANGED <<lifecycle, edits>>
      \/ /\ Kind(w) \in {"archive", "recover"}
         /\ lifecycle' = IF Kind(w) = "archive" THEN "archived" ELSE "active"
         /\ next /\ others /\ UNCHANGED <<owner, edits>>

(* Mutant: the scope names the owner column. *)
ReceiptScopeOfOwner(w) ==
  [campaign |-> owner, placement |-> placement, membership |-> 0]

(* The scope of the receipt is read in the transaction, not from the snapshot. *)
ReceiptScope(w) ==
  IF scope[w].campaign = NoCampaign
    THEN Standalone
    ELSE [campaign |-> campaign, placement |-> placement, membership |-> generation[campaign][Actor(w)]]

WriteReceipt(k, o) ==
  /\ status' = [status EXCEPT ![k] = "completed"]
  /\ result' = [result EXCEPT ![k] = o]
  /\ live' = [live EXCEPT ![k] = TRUE]

(* Mutant: the execution row is not looked at again. *)
OpenOnceClaimed(k) == TRUE
StillOpen(k) == status[k] # "completed"

CommitApplied(w) ==
  /\ pc[w] = "resolved"
  /\ StillOpen(job[w])
  /\ Refusal(w) = "none"
  /\ Effect(w)
  /\ WriteReceipt(job[w], Outcome("done", ReceiptScope(w)))
  /\ Reply(w, Outcome("done", ReceiptScope(w)))
  /\ applied' = [applied EXCEPT ![job[w]] = @ + 1]
  /\ UNCHANGED <<hash, job, crashes, contested>>

(* Rolled back; the error is written afterwards, outside the transaction. *)
CommitRefused(w) ==
  /\ pc[w] = "resolved"
  /\ StillOpen(job[w])
  /\ \/ /\ Refusal(w) = "conflict"
        /\ GoTo(w, "conflicting")
        /\ UNCHANGED outcome /\ readsUnchanged
     \/ /\ Refusal(w) \in {"not_found", "archived"}
        /\ Fail(w, Refusal(w), ErrorScope(w, scope[w]))
     \/ /\ Refusal(w) = "none"          \* no such destination, entry template or parent roll
        /\ Kind(w) \in {"transfer", "entry", "roll"}
        /\ Fail(w, "invalid_value", ErrorScope(w, scope[w]))
  /\ UNCHANGED <<job, crashes, contested>>
  /\ sheetUnchanged /\ executionUnchanged

(* already_completed: another holder of the same execution settled the key. *)
CommitAlreadyDone(w) ==
  /\ pc[w] = "resolved"
  /\ ~ StillOpen(job[w])
  /\ Recall(w)
  /\ UNCHANGED <<job, crashes, contested>>
  /\ sheetUnchanged /\ executionUnchanged

(* recheckWriteAccess: conflict details only for who may still write. *)
Recheck(w) ==
  /\ pc[w] = "conflicting"
  /\ LET entitled == IF scope[w].campaign = NoCampaign
                       THEN OwnsStandalone(Actor(w))
                       ELSE campaign \in Campaigns /\ MayControl(campaign, Actor(w))
     IN  Fail(w, IF entitled THEN "conflict" ELSE "not_found", ErrorScope(w, scope[w]))
  /\ UNCHANGED <<job, crashes, contested>>
  /\ sheetUnchanged /\ executionUnchanged

(* Mutants: an error replaces any receipt; an error is never written. *)
TakesAnyError(k) == TRUE
TakesNoError(k) == FALSE
TakesError(k) == status[k] = "pending"

(* finalizeExecutionError: only a pending key takes the error as its        *)
(* receipt, but the worker answers with it either way.                      *)
Finalize(w) ==
  /\ pc[w] = "finalizing"
  /\ IF TakesError(job[w])
       THEN WriteReceipt(job[w], outcome[w])
       ELSE UNCHANGED <<status, result, live>>
  /\ Reply(w, outcome[w])
  /\ UNCHANGED <<hash, applied, job, crashes, contested>>
  /\ sheetUnchanged

----------------------------------------------------------------------------
(* authorizeStoredOutcome: a stored outcome is shown only to who may see    *)
(* the sheet in the scope it was earned in.                                  *)
ReplayDenial(w) ==
  LET s == outcome[w].scope  u == Actor(w)
  IN  IF job[w] \in ApiKeys
        THEN IF s # Standalone \/ ~ OwnsStandalone(u) THEN "denied" ELSE "none"
      ELSE IF s.campaign = NoCampaign
        THEN IF campaign # NoCampaign \/ owner # u THEN "denied" ELSE "none"
      ELSE IF campaign # s.campaign \/ ~ MayControl(s.campaign, u)
        THEN "denied"
      ELSE IF generation[s.campaign][u] # s.membership \/ placement # s.placement
        THEN "unavailable"
      ELSE "none"

Replay(w) ==
  /\ pc[w] = "replaying"
  /\ IF ReplayDenial(w) = "none" THEN Reply(w, outcome[w]) ELSE Deny(w, ReplayDenial(w))
  /\ UNCHANGED <<job, crashes, contested>>
  /\ sheetUnchanged /\ executionUnchanged

Rest(w) ==
  /\ Conclude(w, "idle", Nothing)
  /\ job' = [job EXCEPT ![w] = NoKey]
  /\ contested' = [contested EXCEPT ![w] = FALSE]
  /\ sheetUnchanged /\ executionUnchanged

(* The answer reaches the client, or is lost on the way. *)
Respond(w) == pc[w] = "answered" /\ Rest(w) /\ UNCHANGED crashes

(* The process dies under the worker: an open transaction rolls back, what  *)
(* was committed stays, and nobody is answered.                             *)
Crash(w) ==
  /\ Serves(w)
  /\ crashes < MaxCrashes
  /\ crashes' = crashes + 1
  /\ Rest(w)

(* Time passes: LEASE_MS under a worker, REPLAY_TTL_MS after a receipt. *)
LeaseLapses(k) ==
  /\ LeaseHeld(k)
  /\ live' = [live EXCEPT ![k] = FALSE]
  /\ UNCHANGED <<status, hash, result, applied, workerVars, crashes, contested>>
  /\ sheetUnchanged

ReplayWindowCloses(k) ==
  /\ status[k] = "completed" /\ live[k]
  /\ live' = [live EXCEPT ![k] = FALSE]
  /\ UNCHANGED <<status, hash, result, applied, workerVars, crashes, contested>>
  /\ sheetUnchanged

ChangeCustody == CustodyStep /\ UNCHANGED <<edits, executionVars, workerVars, crashes, applied, contested>>

WorkerStep(w) ==
  \/ Precheck(w) \/ Claim(w)
  \/ LoadOwned(w) \/ LoadForeign(w) \/ LoadScope(w) \/ LoadAttached(w)
  \/ ResolveDone(w) \/ ResolveFailed(w)
  \/ CommitApplied(w) \/ CommitRefused(w) \/ CommitAlreadyDone(w)
  \/ Recheck(w) \/ Finalize(w) \/ Replay(w) \/ Respond(w)

Next ==
  \/ ChangeCustody
  \/ \E w \in Workers : WorkerStep(w) \/ Crash(w)
  \/ \E w \in Workers, k \in Keys, b \in 1..(MaxRevision - 1) : Submit(w, k, b)
  \/ \E k \in Keys : LeaseLapses(k) \/ ReplayWindowCloses(k)

Spec == Init /\ [][Next]_vars

(* What keeps a command going: every worker goes on, leases lapse, the      *)
(* runtime in the end decides a command it failed on, and a client sends a  *)
(* command again, with the same body, until it has an answer.               *)
Retry(k) == status[k] = "pending" /\ \E w \in Workers : Submit(w, k, hash[k])
Decide(w) == ResolveDone(w) \/ (ResolveFailed(w) /\ pc'[w] = "finalizing")

Fairness ==
  /\ \A w \in Workers : WF_vars(WorkerStep(w)) /\ SF_vars(Decide(w))
  /\ \A k \in Keys : WF_vars(LeaseLapses(k)) /\ SF_vars(Retry(k))

FairSpec == Spec /\ Fairness

----------------------------------------------------------------------------
Done(k) == status[k] = "completed" /\ result[k].code = "done"

(* A key's receipt tells the truth: it says "done" exactly when the         *)
(* command was committed, and then it was committed once, however often it  *)
(* was sent, taken over or abandoned (applyCommandTx, claimExecution,       *)
(* finalizeExecutionError).                                                 *)
AppliedExactlyOnce == \A k \in Keys : applied[k] = IF Done(k) THEN 1 ELSE 0

(* The sheet contains the acknowledged edits, all of them and nothing else: *)
(* no edit resolved from an old state overwrites another one, although the  *)
(* state a worker writes was computed with no lock held.  It holds when     *)
(* clients name only revisions they have been shown.                         *)
NoLostUpdate == edits = {k \in Keys : KeyKind[k] \in Edits /\ Done(k)}

(* An answer that has a receipt's form is the receipt, unless another       *)
(* worker executed the same key after the lease lapsed: then a conflict may *)
(* be answered for a command that other worker applied.                      *)
AnswersAgreeWithReceipts ==
  \A w \in Workers :
    pc[w] = "answered" /\ outcome[w].code \in ReceiptCodes /\ ~ contested[w]
      => status[job[w]] = "completed" /\ result[job[w]] = outcome[w]

(* A settled key keeps its outcome: a slow worker's error never replaces    *)
(* the receipt of the worker that took its lease over.                       *)
ReceiptsAreFinal ==
  [][\A k \in Keys : status[k] = "completed"
       => status'[k] = "completed" /\ result'[k] = result[k]]_vars

(* A command commits only in the placement it was resolved in, on the       *)
(* revision it was resolved from, for an actor who may write at that        *)
(* moment: it never lands on a sheet that was adopted or returned between   *)
(* its read and its transaction (i6 design 3.4), rolls included.             *)
CommitsAreCurrent ==
  [][\A w \in Workers : pc[w] = "resolved" /\ pc'[w] = "answered"
       => /\ snapshot[w].placement = placement
          /\ snapshot[w].revision = revision
          /\ MayWrite(Actor(w))]_vars

(* What the pipeline does to a sheet and its custody is what Custody        *)
(* allows: however stale what a worker read, its commit is a step that      *)
(* someone may take on the sheet as it is now.                               *)
RespectsCustody == CustodySpec

(* That someone is the worker's own actor, and the step is the one it asked *)
(* for: an edit or a roll needs an active sheet its actor may write, a      *)
(* transfer its owner, an archive or recovery its manager, at the moment    *)
(* of the commit (the locks and checks of applyCommandTx and                *)
(* applyManagementCommandTx).                                                *)
EntitledEffect(w) ==
  LET u == Actor(w)
  IN  \/ Kind(w) \in Edits /\ EditSheet(u)
      \/ Kind(w) = "roll" /\ MayWrite(u) /\ lifecycle = "active" /\ UNCHANGED custodyVars
      \/ Kind(w) = "rename" /\ RenameSheet(u)
      \/ Kind(w) = "transfer" /\ \E v \in Users : TransferSheet(u, v)
      \/ Kind(w) \in {"archive", "recover"} /\ \E l \in {"active", "archived"} : SetLifecycle(u, l)

CommitsAreEntitled ==
  [][\A w \in Workers : pc[w] = "resolved" /\ pc'[w] = "answered" => EntitledEffect(w)]_vars

(* The promise to a caller, ExactlyOnce, kept by the pipeline. *)
Once == INSTANCE ExactlyOnce WITH
  EditKeys <- {k \in Keys : KeyKind[k] \in Edits},
  RollKeys <- {k \in Keys : KeyKind[k] = "roll"},
  fate <- [k \in Keys |-> IF status[k] # "completed" THEN "open"
                          ELSE IF Done(k) THEN "applied" ELSE "refused"],
  based <- [k \in Keys |-> IF Done(k) THEN hash[k] ELSE 0],
  rev <- revision

KeepsThePromise == Once!Spec

(* A claimed command is settled in the end: neither a dead worker nor a     *)
(* lapsed lease nor a failing runtime leaves a key pending for ever, as     *)
(* long as its client retries (LEASE_MS in claimExecution).                  *)
PendingIsSettled == \A k \in Keys : status[k] = "pending" ~> status[k] = "completed"
=============================================================================
