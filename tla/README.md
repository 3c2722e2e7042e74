# Verification of Sweetroll

TLA+ models of Sweetroll, a server and web client for tabletop role-playing
characters and campaigns (`src/src`, TypeScript over PostgreSQL, and `src/web`).
TLC checks the models on small instances; TLAPS proves the main results for
every value of the constants. Paths below are relative to the repository.

## 1. The system

### Components, their state and what makes them correct

| component | state | operations | correct when |
|---|---|---|---|
| sheet commands: `characters/index.ts`, `persistence.ts`, `idempotency.ts` | `characters` (state, revision, lifecycle), `character_command_executions` | apply, manage, create, duplicate, export, reads | a command is applied once however often it is sent; no edit is lost; only the entitled act; a receipt is final and true |
| custody of a sheet: `characters/campaignPlacement.ts` | owner, campaign, return owner, controllers, designations, placement generation | create in campaign, adopt, assign, claim, return | exactly one of owner and campaign; controllers are active members; the adopter gets the sheet back; a change of custody is visible to holders of an old revision |
| membership and lifecycle: `campaigns/index.ts`, `policy.ts`, `persistence.ts` | `campaigns`, `campaign_members` | create, rename, archive, recover, change role, remove | one owner for ever; a new membership never inherits an old one's receipts |
| invitations: `campaigns/invitations.ts` | `campaign_invitations` | issue, regenerate, review, accept, decline, revoke | one token admits one account once; the member limit; who joins has seen who may read what |
| content: `campaigns/content.ts` | notes with an audience, grants to single memberships, receipts | create, update, share, delete, recover, list in pages | a grant ends with its membership; a list shows everything that was there all the time |
| templates, proposals: `campaigns/templates.ts`, `proposals.ts` | revisioned rows, grants, receipts | create, update, share, archive, propose, decide, copy to a sheet | decided once, one template per proposal; a copy is made from what may be copied now |
| scenes and displays: `campaigns/scenes.ts`, `display.ts`, `display-stream.ts`, `scene-events.ts`, web `display/sceneStream.ts` | scene rows with revisions, display credentials, open streams | edit a scene, pair, revoke, stream | a display ends up showing the current scene, in order, and nothing once its access is gone |
| pushes: `characters/push.ts` | `character_rolls` and their parents | roll, push a roll | one child per parent; disclosed to nobody the parent was kept from |
| systems: `systems/authoring.ts`, `implementation/` | drafts, versions, receipts | create, save, publish, archive, delete, evaluate | one result per key; a published version breaks an earlier one only with the author's word |
| identity, platform, bootstrap, transport | sessions, configuration, connections, routes | - | - |
| web session: `web/src/characters/session.ts`, `store.ts`, `coordination.ts` | the cached sheet, the queue of edits and a generation in IndexedDB; a copy of them in each tab; the lock of the editing tab | edit offline, drain, acknowledge, review a conflict, refresh, purge, take over | an edit that was said to be saved is applied, reviewed or purged with the access; it is applied on the sheet its user saw; one tab sends |
| web drafts: `web/src/state/draftSync.ts`, `web/src/editor/DocumentEditor.tsx`, `web/src/api/openSystem.ts` | the document in the editor, debounced and in-flight saves, the query's copy of the draft | type, save, resolve a conflict, refetch, publish | what was typed is saved or the author is told; what is published is what was reviewed |

### How they interact

The web client sends commands with an idempotency key and an expected revision.
The command pipeline claims the key (one transaction), reads the sheet (one or
more transactions), calls the rules runtime with no lock held, and commits (one
transaction: execution row, campaign, sheet, in this order). Campaign operations
share the campaign row's lock with commands on attached sheets. Removing a
member calls `returnForMember` inside its own transaction, which detaches the
sheets that member adopted. Scene changes are announced with `NOTIFY`; every
server process listens and wakes its display streams. In the browser, an
autosaving editor sends the draft's revision with each save and takes refetched
drafts in between; the tabs of one user share the store and tell each other of
writes over a `BroadcastChannel`; a Web Lock names the tab that edits.

### What is hard here

Everything between the claim and the commit of a command runs without a lock:
the sheet may be edited, transferred, adopted or returned, its actor demoted or
removed, its campaign archived; the lease may lapse and a second worker take
the same key; the process may die; the client may repeat the request, or send
the key with another body.

In the browser the drain of a session awaits the store and the network some
eight times for one edit, and at each of them the user may edit, refresh or
close the tab, another tab may write the store or take over, the connection
may go, and the access may be withdrawn; what the drain has read before is
compared again by one number, the generation of the stored record.

The transactions that place, claim and return sheets lock the campaign and then
the sheets, but read the caller's membership before; invitations are reviewed
by two reads with nothing locked; a publication is assessed against versions
that may be followed by others before its transaction begins; lists are read a
page at a time while notes and members change.

On the server a display stream reads a scene by three statements while the
scene, its files and the credential change, and is woken by notifications over
a connection that may break without notice.

`PROJECT.json` lists each such hazard at its line
with the properties that would catch it.

## 2. What is modelled

Modules that extend each other share their state:

```
Membership ── Custody ─┬─ CharacterCommands (implements ExactlyOnce, Custody)
            │           └─ PushRolls
            └ CampaignCommands ─┬─ CampaignPlacement (implements Custody, sheet by sheet)
                                ├─ Invitations
                                ├─ CampaignContent
                                └─ CampaignCatalog
SystemAuthoring      SceneStreams      DraftEditing
CharacterSession (its server implements ExactlyOnce)
```

Each `MC…` module puts several of them side by side in one state graph, where a
variable `scenario` says which of them moves, and binds the bounds. Definitions
under a comment that begins with *Mutant* are not used by the models: they are
slips of the code the properties are tried against.

### `Membership` and `Custody`

`Membership` holds the rows of campaigns and their members and the rules of
`campaigns/policy.ts` about them; `Custody` adds one sheet. Each action is one
committed transaction.

| state | code |
|---|---|
| `role`, `generation` | rows of `campaign_members`; "none" is no row, "removed" is status removed |
| `campaignStatus` | `campaigns.status` |
| `owner`, `campaign`, `returnOwner`, `placement`, `revision`, `lifecycle` | columns of `characters` |
| `controllers` | rows of `character_controllers` |

`Adopt`, `AssignControllers`, `ClaimControl` are `campaignPlacement.ts`;
`RemoveMember` is `removeMember` together with the `returnForMember` it runs;
`JoinCampaign` is what `acceptInvitation` does to a membership; `ChangeRole`,
`ArchiveCampaign`, `RecoverCampaign` are `campaigns/index.ts`. `CommandStep`
says what a sheet command may do to the sheet. The expected revisions and
membership generations these endpoints compare are left out: they only make
them refuse more often. Campaign creation and creation of a sheet in a campaign
are initial states.

### `CharacterCommands`

Extends `Custody` with the requests being served. A *worker* is one request; a
*key* is one (actor, command kind, idempotency key). Its steps:

| `pc` | step | code |
|---|---|---|
| idle | `Submit`: any client sends any key with any body | the entry of `apply` and `manage` |
| prechecking | `Precheck` | the ownership test of the public API |
| claiming | `Claim` (fresh, lapsed, replay, turned away) | `claimExecution` |
| loading, scoping, authorizing | `LoadOwned`, `LoadForeign`, `LoadScope`, `LoadAttached` | the reads of `apply` and `manage`, each a transaction of its own |
| loaded | `ResolveDone`, `ResolveFailed` | `SystemRuntime.resolve` |
| resolved | `CommitApplied`, `CommitRefused`, `CommitAlreadyDone` | `applyCommandTx`, `applyManagementCommandTx` |
| conflicting | `Recheck` | `recheckWriteAccess` in `finishCommandTx` |
| finalizing | `Finalize` | `finalizeExecutionError` |
| replaying | `Replay` | `authorizeStoredOutcome` |
| answered | `Respond` | the answer arrives or is lost |

`Crash` kills a worker anywhere. `LeaseLapses` and `ReplayWindowCloses` are the
clock. `ChangeCustody` is any step of `Custody` at any moment. `status`, `hash`,
`result`, `live` are the columns of `character_command_executions` (`live` says
that the lease, or after completion the replay window, has not ended). The body
of a request is abstracted to the revision it names. The state of a sheet is
the set of edits in it; an edit resolved from a snapshot writes the snapshot's
edits and its own. `applied` counts commits and is read by no action;
`contested` marks a worker whose lease another one took and is read by none.

Choices a reader should know of:
- `loadCampaignAuthorization` runs several statements in one READ COMMITTED
  transaction; the model reads them together.
- An exception anywhere answers `internal` and writes no receipt, which is
  `Crash` here; what `already_completed` answers goes through `Replay`.
- An edit that changes nothing writes a receipt and no revision, as a roll does.
- `campaign_archived` names the refusal the code raises as a conflict.
- Outside the public API the revision a command was computed from is never
  compared with the one its client names (`characters/index.ts:1931`). A client
  that named a *future* revision would have its command computed from the
  current state and committed once another edit had reached that revision,
  losing that edit. `ObservedOnly` says that clients name revisions they have
  been shown; the theorems about lost updates assume it.

### `ExactlyOnce`

What a caller is promised, with no workers, leases or retries: each key is
settled once, refused or applied; an applied one changed the sheet once, at the
revision it named, on top of all that was applied before. `CharacterCommands`
implements it (`KeepsThePromise`): an open key is one whose receipt is not
written. So does the server that `CharacterSession` gives its tabs
(`ServerKeepsThePromise`): fates and revisions are read off its receipts, and the
edits off its history. The tabs' server thus does nothing that the promise the
pipeline is proved to keep would forbid.

### `PushRolls`

Extends `Custody` with the rolls of the sheet. A push rerolls an earlier roll,
its parent, once, while the sheet is where the parent was rolled.

| state | code |
|---|---|
| `rolls` | `character_rolls`: who rolled, where, for whom to see, from which parent |
| `pushes[w]` | what a request read of the parent before the rules ran |
| `audienceDefault` | `campaigns.roll_audience_default` |

| action | code |
|---|---|
| `ReadPush` | `apply` and `readPushRoll`, before the runtime is called, with nothing locked |
| `CommitRoot`, `CommitPush` | the transaction: `preparePushCommit`, which reads the parent again under the sheet's lock, and `insertPushRoll` |
| `GiveUp` | a refusal, a failure or a crash |
| `SetAudienceDefault` | `update` with `rollAudienceDefault` |

Any step of `Custody` may come between. The dice and what a push changes in the
sheet are left out; a request that names no audience is covered by the choice of
one.

### `CampaignCommands`

Extends `Membership` with the two counters of a campaign. Every committed
command raises `campaignRevision`, which the next one must name; one that changes
who may see or do what raises `accessRevision` too. `Update`, `Archive`, `Recover`,
`SetRole`, `Leave` are the transactions of `campaigns/index.ts`, each one step:
it holds the campaign's row from its first check to its commit. The revision a
caller expects is the one that is current then, or the command changes nothing
(which is a stutter). `Gathered` are the campaigns as a run starts with them:
created by their owner and joined by others.

### `CampaignPlacement`

Several sheets, and the transactions that move them, lock by lock.

| state | code |
|---|---|
| `sheets[s]` | the row of `characters` with its controllers and its designations (`character_claim_designations`); `revision` 0 is no row |
| `request[w]` | what a transaction is serving |
| `scope[w]`, `era[w]` | the campaign, and the caller's membership generation, it read before it held any lock |
| `locked[w]` | the rows it has locked |

| action | code |
|---|---|
| `Begin` (`BeginPlacement`, `BeginOnCampaign`, `BeginCommand`, `BeginReplay`) | `runPlacementTransaction`, `removeMember`, `manage`, `reauthorizeReplay`: what is read before the first lock |
| `Lock` | `lockCampaign`, then `lockCharacter` for each sheet in the order of their ids; it waits while another transaction holds the row |
| `Commit`: `Create`, `AdoptSheet`, `Assign`, `Claim`, `Depart`, `ChangeCampaign`, `Command` | the checks and writes of `createInCampaign`, `adopt`, `assign`, `claim`, `removeMember` with `returnForMember`, other campaign commands, `applyManagementCommandTx` |
| `Abort` | a refusal, a failed lock or a lost connection: nothing is written |

`Custody(s)` is `Custody` for one sheet (`INSTANCE … WITH`). A replay of a
placement's receipt locks the sheet alone, as the code does. The snapshot that a
creation's receipt carries is left out.

### `Invitations`

| state | code |
|---|---|
| `invitations` | `campaign_invitations`; a token is the number of rotations |
| `reviews[u]` | what the account was shown; the invitation first, the campaign then |
| `admissions` | history: who joined, as what, by which token |

`Issue`, `Rotate`, `Revoke`, `Accept`, `Decline` are the functions of
`invitations.ts`; `Lapse` is the clock with `resolveExpiry`; `ReadInvitation` and
`ReadCampaign` are the two reads of `reviewInvitation`, which hold no lock;
`ChangeAccess` is any command on the campaign. A review also remembers who had
which role (`seen`), which no action reads. Rate limits, lists and the hashing of
tokens are left out.

### `CampaignContent`

| state | code |
|---|---|
| `notes` | `campaign_content_items` with `campaign_content_grants` |
| `listing` | a list being paged through: its reader, filter, cursor and the rows so far |
| `steady` | history: the notes its reader could list at every moment since it began |

`CreateContent`, `UpdateContent`, `DeleteContent`, `RecoverContent`, `ReplaceGrants`
are `content.ts`; `ChangeMembers` is a change of members or roles with the grants
that end with it (`deleteContentGrantsForMember`); `BeginList`, `ListPage`,
`EndList` are `listContent` with the keyset of `listContentPage`. The moderation of
text and receipts are left out.

### `CampaignCatalog`

| state | code |
|---|---|
| `templates`, `proposals` | `campaign_item_templates` with grants, `campaign_item_proposals` |
| `selection[u]` | the template a player's entry command has read |
| `copies` | the entries copied: by whom, of which template, with which of its contents |

`CreateTemplate`, `UpdateTemplate`, `ArchiveTemplate`, `RecoverTemplate`,
`ShareTemplate` are `mutate` of `templates.ts`; `SubmitProposal`,
`ApproveProposal`, `RejectProposal` are `proposals.ts`. `SelectTemplate` and
`PlaceTemplate` are the two halves of the entry command of `characters/index.ts`:
it reads the template, computes the entry with nothing locked, and looks at the
template again at its commit. The total limit of proposals, lists and receipts
are left out.

### `SystemAuthoring`

One author's systems. A request reads what it decides on before its transaction
opens, and creations and publications run under the advisory lock of their
receipt.

| state | code |
|---|---|
| `systems` | `systems` and `system_drafts` |
| `versions` | `system_versions`, with the start of the transaction that wrote them |
| `receipts` | `idempotency_receipts` |
| `work[w]` | what a request has read, and how far it is |
| `started` | transactions begun so far: the database's `now()` |

| action | code |
|---|---|
| `ReadForSave`, `SaveDraft` | `saveDraft` before and in its transaction |
| `ReadForCreate`, `Start`, `Lock`, `Create` | `createDraft`: its reads, `inTransaction`, `lockReceipt`, the writes |
| `ReadForPublish`, `Assess`, `Start`, `Lock`, `Publish` | `publish`: its reads, the comparison with the latest version, and `publishVersion`, which compares again when another version came between |
| `SetSystemLifecycle`, `DeleteSystem`, `GiveUp` | `changeLifecycle`, `deleteSystem`, a rollback or a crash |

A document is the set of definitions characters may rely on; a version breaks an
earlier one when it lacks one of them (`comparePackages`). Receipts are within
their lifetime (`RECEIPT_TTL_MS`). The receipt and draft reads that open `publish`
are one step. `created_at` of a version is the start of its transaction, so
"latest" goes by it; two such transactions hold the same draft revision, so
nothing depends on their order.

### `DraftEditing`

A system's draft in its author's browsers, each with its own copy.

| state | code |
|---|---|
| `draft` | the row of `system_drafts` |
| `editor[e]` | the refs and state of `useDraftSync`, of `DocumentEditorBody`, of the publish dialog, and the query of `useOpenSystem` |
| `strays` | saves nobody waits for any more that may still reach the server |

| action | code |
|---|---|
| `Type`, `SetArt`, `DebounceFires` | a keystroke, an image set by the server, the timer of `save` |
| `ServerSaves`, `StrayArrives`, `SaveSucceeds`, `SaveRefused`, `SaveFails` | `saveDraft` on the server, and what `fireSave` does with its answer |
| `KeepMine`, `AcceptTheirs`, `Dismiss`, `Retry` | the conflict and failure banners |
| `ServerReads`, `Refetched`, `RefetchFails`, `Refocus` | the query: an answer, its adoption by `DocumentEditorBody`, a failure, a return to the window |
| `OpenDialog`, `Submit`, `Published`, `CloseDialog` | `PublishDialog` |
| `OpenEditor`, `Close` | a visit; `cancel` and the unmounting effect |

A browser event is one step with the render and effects it causes. A document is
the set of marks made in it. A refetch that an invalidation overtakes is dropped
(the query library cancels it); a save that another one supersedes becomes a
stray.

### `SceneStreams`

One campaign's scene, one server process and the browsers that show the scene.

| state | code |
|---|---|
| `sceneRevision`, `background`, `files` | the scene row, the file it shows, the rows of `media_files` |
| `active` | display credentials that are not revoked |
| `hub`, `notices` | the `LISTEN` connection of `scene-events.ts` and what is on its way to it |
| `load` | the scene read in flight that `loadSharedScene` shares: asked, or answered by the database |
| `stream` | the closure of one response in `display-stream.ts`; its fields carry the names of the code (`last` is `lastSentRevision`, `attached` is `sink !== null`) |
| `wire` | what a stream wrote and its client has not read |
| `conn`, `client` | the browser, `web/src/display/sceneStream.ts` |

| action | code |
|---|---|
| `EditScene`, `DeleteMedia`, `RevokeDisplay` | a committed transaction with its `NOTIFY`; an image a scene refers to is not deleted (`media.ts:500`) |
| `Connect`, `CheckCredential`, `ReadScene`, `SceneArrives`, `CheckMedia` | `open` and `reload`: subscribe, then the three reads of a load, which no transaction holds together |
| `ClientDrains`, `Heartbeat`, `Stall`, `ClientGone` | `flush` and the socket |
| `ReadForImage` | the image routes, which share the same reads |
| `HandleNotice`, `HubBreaks`, `HubLost`, `HubListens` | the hub: dispatch, a broken connection, `lose`, the next `LISTEN` |
| `LoadFails`, `SceneReadFails`, `Restart`, `Disconnect`, `RetryNow` | failures and interruptions, `MaxStreamFaults` of them with `Heartbeat`, `Stall` and `HubBreaks` |
| `ReadEvent` | the client: it renews a response that ended, and never one that said `revoked` |

A stream that is lost during its first load is not closed at once: the load is
still the answer of its request (`lost`). `own` is a history field no action
reads: it says that the last load did not join a scene read that was answered
already. Layout, tokens and fog, image bytes, pairing, the timers' durations and
further server processes are left out; processes share nothing but the database
and its notifications, so one shows what each does.

### `CharacterSession`

The tabs of one user on one sheet, the browser's store, and the server.

| state | code |
|---|---|
| `store` | the `CharacterRecord` and the `QueueEntry` rows of the sheet in IndexedDB (`store.ts`) |
| `session[t]` | the closure of `createCharacterSession` in one tab: `confirmed`, `entries`, `generation`, `error`, `needsFresh`, `refetch` (`conflictRefreshPending`), `owned`, `guard` (`generationAtSend`) |
| `session[t].stage` | where the drain is: at rest, waiting for its retry timer, at the head of a pass, or at one of its awaits |
| `session[t].writing` | `entryWrites`: enqueue transactions asked for and not ended |
| `session[t].side` | a `refresh()` or a `forgetRoll()` under way beside the drain |
| `lock`, `told` | the Web Lock and the `BroadcastChannel` of `coordination.ts` |
| `online` | connected, with a verified account |
| `history`, `receipt`, `access`, `net` | the server, as `ExactlyOnce` promises it: what made each revision, the outcome of each key, whether the user may read the sheet, and the requests that may still arrive |
| `order`, `grounds`, `accepted`, `reviewed`, `purged` | `order` is the sequence number of an edit; the others are history that no action reads |

| action | code |
|---|---|
| `Open`, `Acquire`, `Takeover`, `LetGo`, `CloseTab`, `Invalidated` | `initialize`, `reloadOwned`, `release` and its quiesce callback, `dispose`, the invalidation message |
| `GoOffline`, `GoOnline` | the identity subscription |
| `Edit`, `EnqueueCommits`, `EnqueueFails` | `newEntry` and `persistEntry`, with the transaction of `enqueue` |
| `Pass`, `EntrySaved`, `Freeze`, `SendFails`, `TimerFires`, `Acknowledged`, `Refused` | `runDrainPass` and `processEntry` between their awaits |
| `Fetched`, `FetchFails`, `FreshSkipped`, `FreshArrives`, `RefetchArrives` | `reconcileFresh`, `fetchLatestForConflict`, `reconcileSnapshot` |
| `Denied`, `ActivityDenied` | `purgeAccess`, from each request that can be denied |
| `Refresh`, `RefreshAnswered`, `RefreshArrives`, `ForgetRoll`, `RollForgotten`, `Review` | `refresh`, `forgetRoll`, `resolveConflict` |
| `Serve`, `ForeignEdit` | the command pipeline; somebody else's edit, or a change of the user's access |

Choices a reader should know of:
- The cached sheet is its revision: equal revisions are equal sheets. A sheet
  that changes without its revision (a recompiled system) is left out.
- IndexedDB runs the transactions on a store in the order in which they were
  asked for; a transaction and the continuation that reads its result are one
  step where nothing else of the tab can run between them that it would notice.
- A GET is answered with the sheet at one moment and its answer arrives later;
  a denial is answered and arrives at once.
- A retry timer that fires while a drain is under way does nothing, so `timer`
  is a stage of the drain.
- Left out: online attempts (push, archive, recover), attempts too old for the
  server's replay window, account switches and sign-out, failures of the store
  other than that of `freeze`, `reauthenticate` and protocol errors, the activity
  cache, and rolls that never enter the queue.

## 3. What is checked

Run `tlc -config <cfg> <module>` in this directory.

| run | instance | scenarios | properties |
|---|---|---|---|
| `commands` (`MCCommands`) | 2 accounts, 1 campaign, 2 workers, 1 crash | *roll*: one roll sent by two workers through lapsed leases and closed replay windows while its actor leaves and returns; *hand over*: a transfer by one account against an archive and a public-API edit by the other, one worker at a time | `CustodyInv`, `AppliedExactlyOnce`, `AnswersAgreeWithReceipts`, `CommitsAreCurrent`, `CommitsAreEntitled`, `RespectsCustody` |
| `pushes` (`MCPushes`) | 2 accounts, 1 campaign, 2 workers | *edits*: two edits sent any number of times; *pushes*: three rolls in a chain, two requests, any change of custody and audience | `NoLostUpdate`, `KeepsThePromise`; `PushedOnce`, `PushesAreDisclosed` |
| `retried` (`MCRetried`, fair) | 2 workers or requests, 2 systems, 2 keys, 1 definition | *command*: one rename, one crash; *creation*: systems made and saved; *publication*: one system published and saved by several requests | `PendingIsSettled`; `OncePerKey`; `BreaksAreAcknowledged` |
| `displays` (`MCSceneStreams`, `MCDisplays.cfg`) | 2 displays, 2 streams, 2 images, 1 change, 1 fault, 1 image read | *displays*: several follow the scene through a fault; *images*: one follows it while backgrounds are replaced and images deleted | `RevokedHaveNoStream`, `StreamsAreCurrent`, `SnapshotsGoForward` |
| `browsers` (`MCBrowsers`) | *sheet*: 2 tabs, a new edit and one an earlier visit left, 1 edit of others, 1 review, 1 event; *draft*: 2 browsers, 1 mark, 1 edit, 3 clicks | | `NothingIsLost`, `AppliedOnGrounds`, `OneSender`, `QueuedIsStored`, `NoEditOutlivesAccess`, `RetriesAreIdentical`, `ServerKeepsThePromise`, `ReadsNeverGoBack`; `PublishesWhatIsShown` |
| `settles` (`MCSettles`, fair) | 1 display, 1 tab, 1 browser with 3 edits and 2 clicks; 1 fault of any kind | *display*, *sheet*, *draft* | `RevokedGoBlank`, `DisplaysCatchUp`, `DrainsOrTells`, `DraftsAreSavedOrTold` |
| `campaigns` (`MCCampaigns`) | 3 accounts, 1 campaign, 2 sheets, 2 transactions, limits of 1 and 2 | *history*, *race*, *invitations*, *sharing*, *lists*, *copies*, *proposals* | `AttachedWithinLimit`, `DesignationsAreLive`, `NoCyclicWait`, `SheetsRespectCustody`; `SeatsWithinLimit`, `AdmittedOnce`, `JoinersReviewed`; `GrantsAreOfThisMembership`, `ListsAreComplete`; `CopiesAreCurrent`, `ProposalsPublishOnce` |
| `shared_reads`, `reviewed`, `demoted`, `undone`, `overwritten` | | | five places where the code and what is said of it disagree, below |

What the properties say:

- *Commands*: a command changes the sheet at most once, and exactly when its
  receipt says so; what a client is answered is what its receipt says; a commit
  is computed from the sheet it changes, is the step its own actor asked for
  and may take at that moment, and is a step of `Custody`; no edit is
  overwritten; every receipt that was begun is finished while clients ask.
- *Campaigns*: no more sheets attached and no more members than the limits; a
  designation names a member of the era it was made in; no two transactions
  wait for each other; each sheet implements `Custody`; a token admits once;
  who joins has reviewed who has which role; a grant belongs to the membership
  it was given to; whatever was listable all the time is in the finished list;
  a copy is made from a template its user may copy, as it is then; a proposal
  makes one template.
- *Pushes*: a roll is pushed once and shown to nobody its parent is kept from.
- *Systems and drafts*: a key has one result; a publication breaks the version
  before it only if the author accepted that break; it publishes the document
  the author was shown; every edit ends up saved or reported.
- *Streams*: a stream at rest has sent the current scene and belongs to a display
  that is not revoked; what a display receives never goes back; a revoked one
  goes blank for good; one that is not catches up.
- *Sessions*: an edit the user was told is saved is queued, applied, reviewed or
  purged; it is applied to the sheet its user saw; one tab sends at a time, and
  what is sent again under a key is what was sent before; the server settles each
  key once whatever arrives twice or late; what is shown as queued is stored; no
  edit outlives the access to its sheet, and no late answer of a GET takes the
  cached sheet back; a queue is drained or the tab tells why it is not.

Every property of a passing run has a mutant in `PROJECT.json`: a plausible
slip in one definition (a check of the snapshot not repeated in the
transaction, an error that replaces any receipt, a departed member kept among
the controllers, a lease that never lapses…) under which TLC finds the
property violated.

**Bounds.** `MaxRevision` caps a sheet's revision (3: the state a worker read, one
change beside it, one after), `MaxGeneration` a membership's eras,
`MaxCampaignRevision` the commands on a campaign, `MaxCrashes` deaths of workers.
Two workers are enough for a takeover or a race, and one key for everything about
a single execution; two keys are needed for a lost update. In `campaigns` three
accounts give an owner, a co-GM and a player at once; *history* follows one
transaction at a time through three commits, *race* lets two be open and commit
together; limits of one sheet, one pending proposal and one template, and of two
members, are reached by the second attempt; a page of one note makes every list of
two or three take several pages. In `retried` two versions are one to break and one
to break it, and three transactions let one start between another's assessment
and its commit. In `SceneStreams` two revisions give a load one change to miss at
each of its steps, two streams let a display reconnect while its old stream still
loads, and one fault of any kind at any moment is what a recovery must survive. In
`CharacterSession`, `MaxEvents` counts interruptions and what the user does beside
editing: a takeover, a closed tab, a lost connection, a lost answer, a failed GET,
a denied activity page, a refresh, a forgotten roll. One of them at any moment of
two edits' way to the server is what the drain must survive; `MaxForeign` gives it
a conflict to find and `MaxReviews` an edit under its second key. In `DraftEditing`
`MaxEdits` counts keystrokes and images, `MaxClicks` visits, dialogs and returns to
a window, `MaxFaults` failed requests. Most safety properties are proved for all
bounds (section 4), so their runs are there to keep model and proof honest.
With two interruptions `DrainsOrTells` fails: two forgotten rolls around one
edit leave it stored and not shown (below), and the drain, which looks at what
is shown, does not send it before the tab reads the store again.

`commands` and `pushes` check for deadlock. In the others (`CHECK_DEADLOCK FALSE`)
the system may stop: revisions, clicks and faults are bounded, a session rests
when there is nothing to send, authors may stop writing, and a display that was
told `revoked` never returns.

Symmetry exchanges workers, tabs, browsers, displays, streams, images,
invitations, templates and proposals, and only in runs without a liveness
property; accounts with their own roles, sheets and notes (whose ids are
ordered) are never exchanged.

**Fairness** of the commands (`Fairness`, for `PendingIsSettled`): a worker that can
go on does (the event loop, and every database call ends or throws); a lease
lapses (it is wall-clock time, `LEASE_MS`); a client repeats its request with the
same body while it has no answer, which the code cannot enforce, so it is assumed
strongly fair, and so is the runtime's coming to a verdict on a command it is
asked about again and again. Deaths are finitely many. Nothing else is fair:
custody may stand still for ever. Of the streams (`StreamsFairness`): database reads
end (they answer, or fail, which is a fault); notifications on a working
connection arrive; a broken one is noticed (TCP) and renewed (the retry loop of
`scene-events.ts`); a client reads what has arrived and reconnects after its
back-off; a socket drains. No edit, revocation or fault is fair. Of the session
(`SessionFairness`): what a tab was asked to run runs (the event loop, IndexedDB's
transactions, the retry timer), a request in flight is answered, refused or
denied, or its loss is one of the interruptions; nothing the user or others do
is fair. Of the drafts (`DraftFairness`): the debounce timer fires and requests are
answered; authors promise nothing.

**Findings.** Each is a run that TLC violates.
1. `shared_reads`: a scene read that the database has answered but whose answer
   is still on its way is given to every later caller
   (`campaigns/display.ts:266`). A stream that subscribes after a change and joins
   such a read shows the older scene and is told of nothing until the next change.
2. `reviewed`: an acknowledgment that finds the store's generation moved on (a
   forgotten roll is enough) leaves the edit queued and raises a conflict
   (`session.ts:540`). The user is asked to review an edit that has been applied,
   and applying it again applies it twice.
3. `demoted`: the creator of a note may manage it whether or not its audience
   includes them (`campaigns/policy.ts:130`). A co-GM who wrote a note for game
   masters and was demoted cannot open it, and may change and delete it.
4. `undone`: an edit taken back within the debounce is saved when the timer fires
   (`draftSync.ts:212`), and the editor says *saved* while it shows something else.
5. `overwritten`: the revision of a refetched draft is passed to the next save
   although the draft was not adopted (`DocumentEditor.tsx:291`), so that the save
   replaces another browser's draft without a conflict.

Met while modelling, by a counterexample or by reading, and kept out of the
properties:
- A worker whose lease was taken over answers its own conflict although the
  other worker committed the command (`characters/index.ts:958`).
  `AnswersAgreeWithReceipts` excepts such workers (`contested`).
- A refused management command of an attached sheet stores its error without
  the scope, so its retry is denied as not found (`characters/index.ts:2323`).
- The scene and its background are read by two statements. If the background is
  replaced and the old file deleted between them, a display that has access is
  told `revoked` and makes no further attempt (`campaigns/display.ts:591`), which
  `design_v2.md:305` keeps for revoked credentials.
- An answer to a GET sent before a purge is cached after it when a failed
  `freeze` has replaced the error that marks the purge (`session.ts:665`; the
  comment in `reconcileSnapshot` says this cannot be).
- `forgetRoll` reads the store while an edit is being enqueued and takes the
  stored queue, which does not have it, for its own (`session.ts:1882`); the edit
  is stored and not shown until the tab reads the store again.
- An acknowledgment can move `confirmed` back to the older revision its edit made
  (`session.ts:717` compares no revisions), when a `refresh()` is answered between
  the base check and the send. `ReadsNeverGoBack` is therefore about reads: it
  excepts the step that takes the acknowledged edit off the queue. No edit is
  applied on the strength of such a sheet (`AppliedOnGrounds`).
- A refetch that fails in the background makes `DocumentEditor` show its error
  page, and what was typed and not saved yet goes with the editor. "Reload
  theirs" does nothing when the query already holds the latest revision, and
  leaves a flag behind by which a later refetch is adopted over newer edits.
  Opening an editor saves the unmodified document.
- A deletion of a note that is sent again is answered `not_found`
  (`campaigns/content.ts:563`); a lost acknowledgment of the commit of an image
  upload makes the server remove the bytes of a committed row; the schema's
  comment that deleting media may orphan a scene is older than `media.ts:500`.

`StreamsAreCurrent` and `DisplaysCatchUp` speak of streams whose last
load did not join an answered read, and of displays that were not told
`revoked`; `DraftsAreSavedOrTold` excepts edits that were taken back;
`PublishesWhatIsShown` excepts them too; nothing else is excepted.

## 4. What is proved

`tlapm <module>` checks a proof module. Each theorem's assumptions are those on
the constants alone, named in the module that declares them and evaluated by TLC
on every run: null values are outside the sets they null, bounds are natural
numbers, ids of sheets and notes are numbers and there are finitely many. The
sets of users, campaigns, workers, keys, rolls, systems, displays, tabs and
browsers are arbitrary. Type invariants are proved instead of run.

| module | theorem | what it states |
|---|---|---|
| `Custody_proofs` | `CustodyTypeCorrect`, `CustodyIsConsistent` | types; `CustodyInv` |
| | `CampaignsKeepTheirOwner`, `CustodyNeverChangesUnseen`, `MembershipErasNeverRepeat` | one owner for ever; a change of owner, campaign or placement raises the revision; every return of a member is a new era |
| `CharacterCommands_proofs` | `TypeCorrect`, `AppliedAsReceipted`, `ReceiptsStay`, `AnswersAreReceipts` | `AppliedExactlyOnce`, `AnswersAgreeWithReceipts`; a receipt is final |
| | `CommitsStayEntitled`, `CommandsRespectCustody`, `CommandsKeepCustody` | `CommitsAreEntitled`; the pipeline implements `Custody` |
| | `CommitsStayCurrent`, `NoUpdateIsLost`, `PromiseIsKept` (under `ObservedOnly`) | `CommitsAreCurrent`, `NoLostUpdate`; the pipeline implements `ExactlyOnce` |
| `PushRolls_proofs` | `RollsArePushedOnce`, `RollsAreDisclosed` | `PushedOnce`, `PushesAreDisclosed` |
| `Campaigns_proofs` | `InvitationsTypeCorrect`, `MembersJoinAsReviewed`, `NoMoreMembersThanSeats`, `InvitationsAdmitOnce` | `JoinedAsReviewed`, `MembersWithinLimit`, `MembersAreAdmittedOnce`, of every step of `Invitations` |
| | `GrantsEndWithMembership`, `ListsShowEverything` | `GrantsAreOfThisMembership`, `ListsAreComplete` |
| | `ProposalsAreApprovedOnce`, `CopiesAreMadeFromTheCurrent` | `ProposalsPublishOnce`, `CopiesAreCurrent` |
| `CampaignPlacement_proofs` | `PlacementTypeCorrect`, `DesignationsStayLive`, `AttachedStayWithinLimit`, `AccessIsMarked`, `TransactionsNeverDeadlock` | `DesignationsAreLive`, `AttachedWithinLimit`, `AccessChangesAreMarked`, `NoCyclicWait` |
| | `SheetsImplementCustody`, `SheetsAreHeldAsCustodySays` | every sheet takes steps of `Custody` only (`SheetsRespectCustody`), and keeps its invariant |
| | `ScenariosKeepSeats`, `ScenariosAdmitOnce`, `ScenariosJoinAsReviewed` | `SeatsWithinLimit`, `AdmittedOnce`, `JoinersReviewed`: of the composition the run checks |
| `SystemAuthoring_proofs` | `AuthoringTypeCorrect`, `KeysAreUsedOnce`, `BreaksAreNeverSilent` | `OncePerKey`, `BreaksAreAcknowledged` |
| | `DraftTypes`, `ReviewedIsPublished` | `PublishesWhatIsShown` |
| `SceneStreams_proofs` | `TypeCorrect`, `StreamsStayCurrent`, `RevokedLoseTheirStreams`, `StreamsGoForward` | `StreamsAreCurrent`, `RevokedHaveNoStream`, `SnapshotsGoForward` |
| `CharacterSession_proofs` | `TypeCorrect`, `NoEditIsLost`, `OneTabSends`, `PurgedStaysEmpty`, `ShownIsStored` | `NothingIsLost`, `OneSender`, `NoEditOutlivesAccess`, `QueuedIsStored` |
| | `AppliedAsSeen`, `RetriesAreAsSent`, `ReadsMoveForward` | `AppliedOnGrounds`, `RetriesAreIdentical`, `ReadsNeverGoBack` |
| | `ServerKeepsItsPromise` | the server the tabs talk to implements `ExactlyOnce` |

**Custody.** `CustodyInv` is inductive together with the type invariant: the
return owner must be among the controllers, else removing a member could leave a
sheet to nobody.

**Commands**, in the order of the proofs: a worker past its claim works on a key
whose row exists (`JobsAreKnown`, `ClaimsAreRecorded`); a key is applied exactly
when its receipt says done, which the lock on the execution row and
`finalizeExecutionError`'s "pending only" keep (`ReceiptInv`); the scope of a
worker has the shape of the path it took (`ScopesFit`); the revision a worker will
compare at commit is one the sheet had when the snapshot was taken or before
(`Grounded`), so whenever it is still the sheet's revision, the snapshot is the
sheet (`SnapshotsAreCurrent`): nothing puts the revision back, and every change of
edits or placement raises it. That is the invariant behind the lost-update and the
refinement theorems. `NextCases` divides the actions once into reads, commits,
receipts, submissions, clock and custody, and each later proof has one step per
class.

**Pushes.** `PushInv` says that the parent of a roll was rolled (`ParentsAreRolled`)
and has no other child. It is kept by the check of `preparePushCommit` under the
lock of the sheet: what the request read before does not matter. `RollsAreDisclosed`
follows from the order of audiences: a push takes the narrower of its own and its
parent's.

**Campaigns.** While `accessRevision` stands still nobody's role has changed, so
a review whose two revisions are still current has shown the roles that are
(`ReviewsTell`); a member count under the campaign's lock is the count at the
commit (`SeatsCounted`). Grants go in the step in which their membership does.
For lists, `ListInv` says that no row is shown twice, that none shown comes
after the cursor, and that a steady note either comes after it or has been
shown. A page needs a sorted sequence of a finite set of notes: the rank of a
note (how many come before it) is an injection into an interval of the same
cardinality, so each place is taken. That the rest comes after the last row is
then the order's transitivity; that a written note keeps its `created` is what
makes the cursor last while notes change. The theorems are first proved of the
component's own steps; `ScenarioSteps` then says that the composition the run
checks takes no other steps in its scenario of invitations, so that their
inductive invariant (`Joined`) holds there too.

**Placement.** Transactions lock the campaign and then sheets by their ids
(`LockInv`: what a transaction has still to lock comes after all it holds), so
of any set of transactions one is not waiting for another of them. The limit is
checked under the campaign's lock and only steps that hold it attach sheets.
`SheetsImplementCustody` maps each effect, sheet by sheet, to a step of
`Custody` or a stutter: there is a lemma for the adoption, the assignment, the
claim, the creation, a departure, a campaign's own command and a sheet command,
each proved from `PlacedInv` (the invariant of designations, eras and locks) and
`RowsInv` (an id without a row has no owner, a revision is at most its bound). A
row that appears is `Custody`'s initial state, so the refinement is stated of
the rows that exist, and `SheetsAreHeldAsCustodySays` carries the invariant from
creation on. It was the proof that asked for `MaxRevision` not to be 0: rows
begin at revision 1.

**Authoring.** A key's work is done at most once because its receipt is looked up
under the advisory lock and written in the same transaction (`KeysAreSpent`,
`LockIsExclusive`). A publication whose base has moved compares again inside its
transaction (`BasesAreAssessed`), and no version that its comparison does not know
can have become the latest (`ClockIsFresh`).

**Drafts.** A revision is *known* with a document (`Known`) when the draft has that
revision with that document, or has gone beyond it. `EditorOK` says of each
browser that everything it may later use is known in this way: the query's data, the
answer under way, the last saved document with the confirmed revision, what the
dialog shows with the revision it will send. A server write makes the draft's
revision larger and keeps everything known (`EditorStays`), so only the browser's
own steps are left, one lemma each.

**Streams.** The inductive invariant for currency is `StreamsInv`: while the hub
listens, a stream that is served (open and not lost) will load again, or has seen
the current scene, or the notice that will wake it is pending; and the same for
its credential. It needs `Shape`, which says what a stream holds at each stage, and
that answered reads carry a scene no newer than the row. Every step that changes
the scene adds the notice, every step that takes the notice away starts a load or
marks the one under way, and every step that ends a load has read after it was
marked. For the order of snapshots, `WiresInv` says that what waits in a stream is
newer than all it wrote, what it wrote goes up, and `last` bounds both.

**Sessions.** `SessionInv` has, beside the types, `LockInv` (a tab that may edit, or
whose drain is at work, holds the lock: the lock is given up only when the drain
rests and no write is under way) and `CacheInv` (what a tab remembers, and the
guard of each of its writes, is not newer than the stored generation, and one that
is equal names a sheet that is there: every write of the cached sheet raises the
generation, and a purge does). So a guard that still matches at its transaction
cannot follow a purge. A tab's step is either one that `Follow`s (it knows what it
knew, or what the store has), one that writes the queue alone, or one that raises
the generation; there is a lemma for each, and one short lemma per action that
cites it. `NoEditIsLost` adds `AnswersInv` (a key answered "applied" is in the
history) and divides what an action may do to the queue (`NobodyDropped`).
`ShownIsStored` adds `ShownInv`: each edit the editing tab shows is stored, or being
written, or the tab's generation is behind the store's and a message of another
tab is on its way to it (`Shown`).

`AppliedAsSeen` is the longest argument. What has to be known is that an edit
*traces* to what its user saw: the revision it names exists and nobody else has
edited after the user's revision and up to it (`Traced`). Then the server's check,
that the revision named is the current one, gives the property. Three layers keep
it:
- `ServedInv`: an applied receipt and the history name each other.
- `SeatInv`: a tab at the stored generation has the stored sheet (`Seated`); what it
  remembers the server has had (`Seen`); and while one tab works with the lock no
  other can store a sheet after a purge it has not been told of (`Exposed`,
  `Risky`): the answer of a `refresh()` could otherwise revive the sheet under it.
- `GroundsInv`: every edit that is queued, shown, written, sent or answered traces
  (`Queued`, `KnownIn`, `WorldInv`); what was sent of an edit is what the queue and
  the tab have of it, frozen (`SentBy`, `Agrees`); a key that is being written is
  known nowhere else (`Unsaved`); and no edit that waits names a revision past the
  one its tab knows, or past the answer the tab waits for (`Bounded`), which is
  what lets `Settled` move an edit to the acknowledged revision: between the two
  there is only the user's own edit.

Each action is first put into a class by what it changes (`StepMoves`: fifteen
classes, from a quiet step to a review), and each class then has one lemma per
layer. The layers hold on complete runs of instances of 0.2 and 2.7 million
states, which is how they were found.

Three more results fall out of these layers. `RetriesAreAsSent`: `WorldInv` says
that requests under one key agree, and `Queued` that a queued edit under a key
that was sent is frozen with the revision sent. `ReadsMoveForward`: of the
fifteen classes only three change the stored sheet; a read that is confirmed comes
at the stored generation, at which the tab holds the stored sheet (`Seated`) and
has compared it; an acknowledgment takes its edit off the queue, where it was
(`Stored`); a purge leaves no sheet. `ServerKeepsItsPromise`: serving a request is
`Apply`, `Refuse` or a stutter of `ExactlyOnce`, somebody else's edit is its
`ChangeCustody`, and no step of a tab touches what is mapped; that a key is
applied once needs `ServedInv`.

**Only model-checked.** `PendingIsSettled`, `RevokedGoBlank`, `DisplaysCatchUp`,
`DrainsOrTells`, `DraftsAreSavedOrTold` are liveness, out of the prover's reach.
Every other property of the passing runs is proved, for every value of the
constants. The five violations are counterexamples.

What no theorem here can reach is what a recursive definition computes for every
input (induction over data) and anything that needs `ENABLED`; the modules that are
proved about have no recursive operator.

## 5. Not modelled, and the plan

1. `CharacterSession` further: online attempts, attempts that have expired,
   account switches.
2. `SceneStreams` further: pairing codes, tokens and fog, several processes'
   derivative cache.
3. Media: quotas, uploads under their advisory lock, the removal of bytes.
4. Receipts of campaign commands and the snapshot of a creation's receipt.
5. Algorithms: expression evaluation, role policies, entry slots, as operators
   against reference definitions.

Not planned: rendering and forms, image processing and scanning, storage,
metrics, configuration, the authentication library (input and output, or code
outside the repository). `PROJECT.json` lists every component with what is left
out of it.
