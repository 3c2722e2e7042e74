---------------------------- MODULE DraftEditing ----------------------------
(***************************************************************************)
(* A system's draft in the author's browsers: the autosave of              *)
(* web/src/state/draftSync.ts, the editor around it                        *)
(* (web/src/editor/DocumentEditor.tsx), the query that keeps the draft as  *)
(* the server answered it last (web/src/api/openSystem.ts), and the draft  *)
(* row that the saves are compared with (SystemAuthoring).                  *)
(*                                                                         *)
(* Every editor is a browser of its own, with its own copy of the draft.   *)
(* An event (a keystroke, a timer, an answer, a click) is one step with    *)
(* the render and the effects it causes.  Requests and answers are apart,  *)
(* and the query drops an answer that an invalidation has overtaken.       *)
(*                                                                         *)
(* A document is the set of marks made in it.                               *)
(***************************************************************************)
EXTENDS Naturals, FiniteSets

CONSTANTS
  Editors,       \* browsers in which the author may open the system
  Marks,         \* what the author may type into a document
  Art,           \* a template's image, put into the draft by the server
  NoDocument,    \* null in pendingRef and lastSavedHashRef
  NoRequest,     \* nothing is on the wire
  NoData,        \* the query has no workspace
  MaxEdits,      \* bound on what the author types, and on images set
  MaxClicks,     \* bound on visits, dialogs, and returns to a window
  MaxFaults      \* bound on requests that fail

VARIABLES
  draft,         \* the row of system_drafts
  editor,        \* the browsers
  strays,        \* saves nobody waits for that may still reach the server
  edits, clicks, faults

draftVars == <<draft, editor, strays, edits, clicks, faults>>

Document == SUBSET (Marks \cup {Art})
Workspace == [revision : Nat, document : Document]

(* A PUT of the draft with its answer, and the revision its document was    *)
(* made from and whether the author chose to replace another's (history).   *)
Put == [document : Document, expected : Nat, base : Nat, forced : BOOLEAN,
        answer : {"none", "saved", "conflict", "failed"}, latest : Nat]

(* A publication on its way, and the document its author looked at. *)
Publication == [expected : Nat, shown : Document, undone : BOOLEAN]

Editor == [
  page : {"closed", "loading", "shown", "failed"},
  ws : Workspace \cup {NoData},       \* the query's data
  get : {"none", "asked", "answered"},  \* a refetch, and its answer
  got : Workspace \cup {NoData},
  document : Document,
  base : Nat,                         \* history: the revision document was made from
  seen : Nat,                         \* lastServerRevision
  adopt : BOOLEAN,                    \* adoptNextRef
  saved : Document \cup {NoDocument}, \* lastSavedHashRef
  pending : Document \cup {NoDocument},
  known : Nat,                        \* knownRevisionRef, 0 for null
  timer : BOOLEAN,                    \* the debounce timer runs
  status : {"idle", "saving", "saved", "conflict", "error"},
  banner : Nat,                       \* latestRevision of the conflict shown, 0 for none
  confirmed : Nat,                    \* confirmedRevision, 0 for null
  put : Put \cup {NoRequest},         \* the save in flight
  dialog : BOOLEAN,                   \* the publish dialog is open
  publish : Publication \cup {NoRequest},
  undone : BOOLEAN]                   \* history: an edit was taken back while it waited for its timer

ASSUME DraftAssumption ==
  /\ \A d \in Document : d # NoDocument
  /\ NoData \notin Workspace
  /\ NoRequest \notin Put /\ NoRequest \notin Publication

DraftTypeOK ==
  /\ draft \in Workspace
  /\ editor \in [Editors -> Editor]
  /\ strays \in SUBSET Put
  /\ edits \in Nat /\ clicks \in Nat /\ faults \in Nat

Shut(ws) ==
  [page |-> "closed", ws |-> ws, get |-> "none", got |-> NoData, document |-> {}, base |-> 0, seen |-> 0,
   adopt |-> FALSE, saved |-> NoDocument, pending |-> NoDocument, known |-> 0, timer |-> FALSE,
   status |-> "idle", banner |-> 0, confirmed |-> 0, put |-> NoRequest, dialog |-> FALSE,
   publish |-> NoRequest, undone |-> FALSE]

DraftInit ==
  /\ draft = [revision |-> 1, document |-> {}]
  /\ editor = [e \in Editors |-> Shut(NoData)]
  /\ strays = {}
  /\ edits = 0 /\ clicks = 0 /\ faults = 0

Become(e, r) == editor' = [editor EXCEPT ![e] = r]
(* invalidateQueries: a refetch under way is dropped. *)
Refetch(r)   == [r EXCEPT !.get = "asked", !.got = NoData]
Shown(e)     == editor[e].page = "shown"
Clicks       == clicks < MaxClicks /\ clicks' = clicks + 1

(* What is on the wire when nobody waits for its answer any more *)
Left(r) == IF r.put # NoRequest /\ r.put.answer = "none" THEN {r.put} ELSE {}

----------------------------------------------------------------------------
(* useDraftSync *)

Later(m, n) == IF m >= n THEN m ELSE n

(* Mutant: the stash of an edit made during a save gets a timer of its own  *)
(* only.                                                                     *)
SaveOnce(r) ==
  IF r.document = r.saved \/ r.put # NoRequest THEN r
  ELSE [r EXCEPT !.known = Later(r.known, r.ws.revision), !.pending = r.document, !.timer = TRUE]

(* save(document, draftRevision), which the editor calls for every change:  *)
(* what is saved already is not saved again, and a save in flight owns the  *)
(* next one.                                                                 *)
Save(r) ==
  IF r.document = r.saved
    THEN [r EXCEPT !.undone = r.timer /\ r.pending \notin {NoDocument, r.document}]
    ELSE [r EXCEPT !.known = Later(r.known, r.ws.revision), !.pending = r.document,
                   !.timer = @ \/ r.put = NoRequest, !.undone = @ /\ r.dialog]

(* fireSave *)
Fire(r, document, expected, forced) ==
  [r EXCEPT !.put = [document |-> document, expected |-> expected, base |-> r.base,
                     forced |-> forced, answer |-> "none", latest |-> 0],
            !.saved = NoDocument, !.status = "saving"]

(* The debounce has passed. *)
DebounceFires(e) ==
  LET r == [editor[e] EXCEPT !.timer = FALSE]
  IN  /\ Shown(e) /\ editor[e].timer
      /\ Become(e,
           IF r.pending \in {NoDocument, r.saved} THEN [r EXCEPT !.pending = NoDocument]
           ELSE IF r.put # NoRequest THEN r
           ELSE Fire([r EXCEPT !.pending = NoDocument], r.pending, r.known, FALSE))
      /\ UNCHANGED <<draft, strays, edits, clicks, faults>>

(* onSuccess: the answer's revision is the one the stash is saved against,  *)
(* and the query is refetched (onSaved).                                     *)
SaveSucceeds(e) ==
  LET put  == editor[e].put
      next == put.latest
      r    == Refetch([editor[e] EXCEPT !.put = NoRequest, !.known = next, !.confirmed = next,
                                !.saved = put.document, !.status = "saved", !.banner = 0,
                                !.base = IF @ = put.base THEN next ELSE @])
  IN  /\ put # NoRequest /\ put.answer = "saved"
      /\ Become(e,
           IF r.pending \notin {NoDocument, put.document}
             THEN Fire([r EXCEPT !.pending = NoDocument], r.pending, next, FALSE)
             ELSE r)
      /\ UNCHANGED <<draft, strays, edits, clicks, faults>>

(* onError: a conflict asks the author, anything else waits for a retry.    *)
SaveRefused(e) ==
  LET put == editor[e].put
      r   == [editor[e] EXCEPT !.put = NoRequest]
  IN  /\ put # NoRequest
      /\ \/ put.answer = "conflict" /\ Become(e, [r EXCEPT !.status = "conflict", !.banner = put.latest])
         \/ put.answer = "failed" /\ Become(e, [r EXCEPT !.status = "error"])
      /\ UNCHANGED <<draft, strays, edits, clicks, faults>>

(* onKeepMine replaces the revision of the conflict with what is shown now. *)
KeepMine(e) ==
  LET r == editor[e]
  IN  /\ Shown(e) /\ r.banner # 0
      /\ Become(e, Fire([r EXCEPT !.banner = 0], r.document, r.banner, TRUE))
      /\ strays' = strays \cup Left(r)
      /\ UNCHANGED <<draft, edits, clicks, faults>>

(* onAcceptTheirs: the next refetch is adopted whatever is unsaved. *)
AcceptTheirs(e) ==
  /\ Shown(e) /\ editor[e].banner # 0
  /\ Become(e, Refetch([editor[e] EXCEPT !.banner = 0, !.status = "idle", !.adopt = TRUE]))
  /\ UNCHANGED <<draft, strays, edits, clicks, faults>>

Dismiss(e) ==
  /\ Shown(e) /\ editor[e].banner # 0
  /\ Become(e, [editor[e] EXCEPT !.banner = 0, !.status = "idle"])
  /\ UNCHANGED <<draft, strays, edits, clicks, faults>>

Retry(e) ==
  /\ Shown(e) /\ editor[e].status = "error"
  /\ Become(e, Save(editor[e]))
  /\ UNCHANGED <<draft, strays, edits, clicks, faults>>

----------------------------------------------------------------------------
(* DocumentEditorBody *)

(* It starts with the query's document, and saves it at once. *)
Mount(r) ==
  Save([Shut(r.ws) EXCEPT !.page = "shown", !.get = r.get, !.got = r.got, !.document = r.ws.document,
                          !.base = r.ws.revision, !.seen = r.ws.revision])

(* A refetched draft is adopted when nothing is unsaved. *)
Adopt(r) ==
  IF ~ r.adopt /\ (r.ws.revision = r.seen \/ r.document # r.saved) THEN r
  ELSE Save([r EXCEPT !.adopt = FALSE, !.seen = r.ws.revision, !.document = r.ws.document,
                      !.base = r.ws.revision])

(* An edit: a mark is made or taken back.  The publish dialog is modal. *)
Type(e, m) ==
  LET r == editor[e]
  IN  /\ Shown(e) /\ ~ r.dialog /\ edits < MaxEdits
      /\ Become(e, Save([r EXCEPT !.document = (@ \ {m}) \cup ({m} \ @)]))
      /\ edits' = edits + 1
      /\ UNCHANGED <<draft, strays, clicks, faults>>

(* A template's image is set on the server, in the draft that is clean here *)
(* (ItemArtwork, setItemImage), and the query is refetched.                  *)
SetArt(e) ==
  LET r == editor[e]
  IN  /\ Shown(e) /\ ~ r.dialog /\ r.document = r.saved /\ r.status = "saved"
      /\ Art \notin draft.document /\ edits < MaxEdits
      /\ draft' = [revision |-> draft.revision + 1, document |-> draft.document \cup {Art}]
      /\ Become(e, Refetch(r))
      /\ edits' = edits + 1
      /\ UNCHANGED <<strays, clicks, faults>>

(* publishReady and the dialog *)
OpenDialog(e) ==
  LET r == editor[e]
  IN  /\ Shown(e) /\ ~ r.dialog /\ r.document = r.saved /\ r.status = "saved"
      /\ Clicks
      /\ Become(e, [r EXCEPT !.dialog = TRUE])
      /\ UNCHANGED <<draft, strays, edits, faults>>

CloseDialog(e) ==
  /\ editor[e].dialog /\ editor[e].publish = NoRequest
  /\ Become(e, [editor[e] EXCEPT !.dialog = FALSE])
  /\ UNCHANGED <<draft, strays, edits, clicks, faults>>

(* Mutant: the publication expects the revision of the query. *)
ShownRevision(r) == r.ws.revision

(* confirmedDraftRevision *)
ConfirmedRevision(r) == IF r.confirmed # 0 THEN r.confirmed ELSE r.ws.revision

Submit(e) ==
  LET r == editor[e]
  IN  /\ r.dialog /\ r.publish = NoRequest
      /\ Become(e, [r EXCEPT !.publish = [expected |-> ConfirmedRevision(r), shown |-> r.document,
                                          undone |-> r.undone]])
      /\ UNCHANGED <<draft, strays, edits, clicks, faults>>

(* Published, or refused because the draft has another revision. *)
Published(e) ==
  /\ editor[e].publish # NoRequest
  /\ Become(e, [editor[e] EXCEPT !.publish = NoRequest])
  /\ UNCHANGED <<draft, strays, edits, clicks, faults>>

----------------------------------------------------------------------------
(* useOpenSystem, and the pages around the editor *)

(* A workspace that is cached is shown while it is refetched, or not        *)
(* refetched at all for half a minute.                                       *)
OpenEditor(e) ==
  LET r == editor[e]
  IN  /\ r.page = "closed"
      /\ Clicks
      /\ \/ r.ws # NoData /\ Become(e, Mount(r))
         \/ r.ws # NoData /\ Become(e, Mount(Refetch(r)))
         \/ Become(e, Refetch([r EXCEPT !.page = "loading", !.ws = NoData]))
      /\ UNCHANGED <<draft, strays, edits, faults>>

(* Unmounting cancels what has not been sent; a request that was sent may   *)
(* arrive.                                                                   *)
Close(e) ==
  LET r == editor[e]
  IN  /\ r.page # "closed"
      /\ Clicks
      /\ Become(e, [Shut(r.ws) EXCEPT !.get = r.get, !.got = r.got])
      /\ strays' = strays \cup Left(r)
      /\ UNCHANGED <<draft, edits, faults>>

(* The window is looked at again, or the network returns. *)
Refocus(e) ==
  /\ editor[e].page # "closed" /\ editor[e].get = "none"
  /\ Clicks
  /\ Become(e, Refetch(editor[e]))
  /\ UNCHANGED <<draft, strays, edits, faults>>

ServerReads(e) ==
  /\ editor[e].get = "asked"
  /\ Become(e, [editor[e] EXCEPT !.get = "answered", !.got = draft])
  /\ UNCHANGED <<draft, strays, edits, clicks, faults>>

Refetched(e) ==
  LET r == [editor[e] EXCEPT !.ws = editor[e].got, !.get = "none", !.got = NoData]
  IN  /\ editor[e].get = "answered"
      /\ Become(e, CASE r.page = "closed" -> r
                     [] r.page = "shown"  -> IF r.ws = editor[e].ws THEN r ELSE Adopt(r)
                     [] OTHER             -> Mount(r))
      /\ UNCHANGED <<draft, strays, edits, clicks, faults>>

Fault == faults < MaxFaults /\ faults' = faults + 1

(* A refetch that fails puts its error in the place of the editor. *)
RefetchFails(e) ==
  LET r == editor[e]
  IN  /\ r.get # "none"
      /\ Fault
      /\ Become(e, [Shut(r.ws) EXCEPT !.page = IF r.page = "closed" THEN "closed" ELSE "failed"])
      /\ strays' = strays \cup Left(r)
      /\ UNCHANGED <<draft, edits, clicks>>

----------------------------------------------------------------------------
(* The draft row *)

Stored(put) == [revision |-> draft.revision + 1, document |-> put.document]

ServerSaves(e) ==
  LET put == editor[e].put
  IN  /\ put # NoRequest /\ put.answer = "none"
      /\ IF put.expected = draft.revision
           THEN /\ draft' = Stored(put)
                /\ Become(e, [editor[e] EXCEPT !.put.answer = "saved", !.put.latest = draft.revision + 1])
           ELSE /\ Become(e, [editor[e] EXCEPT !.put.answer = "conflict", !.put.latest = draft.revision])
                /\ UNCHANGED draft
      /\ UNCHANGED <<strays, edits, clicks, faults>>

StrayArrives(put) ==
  /\ put \in strays
  /\ strays' = strays \ {put}
  /\ IF put.expected = draft.revision THEN draft' = Stored(put) ELSE UNCHANGED draft
  /\ UNCHANGED <<editor, edits, clicks, faults>>

(* The save fails, or its answer is lost. *)
SaveFails(e) ==
  LET put == editor[e].put
  IN  /\ put # NoRequest /\ put.answer \in {"none", "saved"}
      /\ Fault
      /\ Become(e, [editor[e] EXCEPT !.put.answer = "failed"])
      /\ UNCHANGED <<draft, strays, edits, clicks>>

----------------------------------------------------------------------------
Proceeds(e) ==
  \/ DebounceFires(e) \/ SaveSucceeds(e) \/ SaveRefused(e)
  \/ ServerReads(e) \/ Refetched(e) \/ ServerSaves(e)

Author(e) ==
  \/ KeepMine(e) \/ AcceptTheirs(e) \/ Dismiss(e) \/ Retry(e)
  \/ \E m \in Marks : Type(e, m)
  \/ SetArt(e) \/ OpenDialog(e) \/ CloseDialog(e) \/ Submit(e)
  \/ OpenEditor(e) \/ Close(e) \/ Refocus(e)

DraftNext ==
  \/ \E e \in Editors : Proceeds(e) \/ Author(e) \/ Published(e) \/ SaveFails(e) \/ RefetchFails(e)
  \/ \E put \in strays : StrayArrives(put)

DraftSpec == DraftInit /\ [][DraftNext]_draftVars

(* Timers fire and requests are answered; authors promise nothing. *)
DraftFairness == \A e \in Editors : WF_draftVars(Proceeds(e))

DraftFairSpec == DraftSpec /\ DraftFairness

----------------------------------------------------------------------------
(* Once the author stops, every edit is saved or the author was told that   *)
(* it was not: no edit is left behind in the stash of a save that ended, in *)
(* a timer or in a queue of one (save, fireSave).  An edit that was taken   *)
(* back in time is the exception: see SavedIsShown.                          *)
DraftsAreSavedOrTold ==
  \A e \in Editors :
    <>[](Shown(e) =>
           /\ ~ editor[e].timer /\ editor[e].put = NoRequest
           /\ \/ editor[e].status \in {"idle", "conflict", "error"}
              \/ editor[e].document = editor[e].saved
              \/ editor[e].undone)

(* A publication that the server may still accept publishes the document    *)
(* its author had on the screen, whatever was refetched, adopted or saved   *)
(* since the dialog was opened (publishReady, confirmedDraftRevision).       *)
PublishesWhatIsShown ==
  \A e \in Editors :
    LET p == editor[e].publish
    IN  p # NoRequest /\ p.expected = draft.revision /\ ~ p.undone => p.shown = draft.document

(* "Autosave drafts, show the last saved state, and never make a user guess *)
(* whether data persisted" (design_v2.md:84): an editor at rest that says   *)
(* "saved" has saved what it shows.                                          *)
SavedIsShown ==
  \A e \in Editors :
    /\ Shown(e) /\ editor[e].status = "saved"
    /\ ~ editor[e].timer /\ editor[e].put = NoRequest /\ editor[e].get = "none"
    => editor[e].document = editor[e].saved

(* "local edits newer than the last confirmed save are preserved, and the   *)
(* next save resolves divergence through the revision check plus explicit   *)
(* conflict resolution" (web/src/editor/DocumentEditor.tsx:238-240): a save *)
(* that takes something out of the draft was made from the revision it      *)
(* replaces, or its author chose to keep theirs.                             *)
OverwritesAreExplicit ==
  [][\A e \in Editors :
       LET put == editor[e].put
       IN  /\ put # NoRequest /\ put.answer = "none"
           /\ draft' = Stored(put) /\ ~ (draft.document \subseteq put.document)
           => put.forced \/ put.base = put.expected]_draftVars
=============================================================================
