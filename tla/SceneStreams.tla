---------------------------- MODULE SceneStreams ----------------------------
(***************************************************************************)
(* Paired displays following one scene: the scene writes and revocations   *)
(* that announce themselves (campaigns/persistence.ts), the hub that       *)
(* listens (scene-events.ts), the snapshot reads (display.ts), the server's *)
(* event streams (display-stream.ts) and the displays' clients             *)
(* (web/src/display/sceneStream.ts).                                        *)
(*                                                                         *)
(* There is one server process.  A stream loads a snapshot in three reads  *)
(* with no transaction around them: its credential, the scene, and the     *)
(* scene's background.  The scene read is shared by everybody who asks     *)
(* while it is in flight.                                                   *)
(***************************************************************************)
EXTENDS Naturals, Sequences

CONSTANTS
  Displays,       \* paired displays, one client each
  Streams,        \* server-side streams that can exist together
  Files,          \* media files a background can be
  NoOne,           \* no stream, no display, no file
  MaxSceneRevision,    \* bound on scenes.revision
  MaxStreamFaults,      \* bound on failures, stalls and interruptions
  MaxImageReads   \* bound on reads of the scene by the image routes

ASSUME StreamsAssumption ==
  /\ NoOne \notin Streams \cup Displays \cup Files
  /\ MaxSceneRevision \in Nat /\ MaxStreamFaults \in Nat /\ MaxImageReads \in Nat

VARIABLES
  sceneRevision,       \* scenes.revision
  background,     \* scenes.background_file_id
  files,          \* media_files
  active,         \* display_credentials.revoked_at is null
  hub,            \* the LISTEN connection: ready, broken unnoticed, or down
  notices,        \* notifications on their way to the hub
  load,           \* the scene read in flight (sceneLoads)
  stream,         \* the streams of the process
  wire,           \* what a stream has written and its client has not read
  conn,           \* the stream a client is connected to
  client,         \* what a display's client knows and shows
  streamFaults, imageReads

dbVars     == <<sceneRevision, background, files, active>>
hubVars    == <<hub, notices>>
streamVars == <<stream, wire>>
clientVars == <<conn, client>>
bounds     == <<streamFaults, imageReads>>
sceneStreamVars == <<sceneRevision, background, files, active, hub, notices, load, stream, wire, conn, client,
          streamFaults, imageReads>>

Scene  == [revision : Nat, background : Files \cup {NoOne}]
Notice == [kind : {"scene", "campaign"}] \cup [kind : {"display"}, display : Displays]

(* What a client reads: a snapshot, or how the response ended. *)
StreamEvent == [event : {"scene"}, revision : Nat] \cup [event : {"revoked", "end"}]

SceneEvent(v) == [event |-> "scene", revision |-> v]
Ending(e) == [event |-> e]

(* A stream is free, or at one of the reads of a load, or waits for events. *)
Loading == {"credential", "scene", "media"}

StreamType == [
  stage : Loading \cup {"free", "quiet"},
  display : Displays \cup {NoOne},
  attached : BOOLEAN,     \* the response has begun: sink is set
  dirty : BOOLEAN,        \* an event arrived during a load
  last : Nat,             \* lastSentRevision
  pending : Nat,          \* the snapshot that waits for the client, 0 for none
  blocked : BOOLEAN,      \* backpressured
  held : Scene,           \* the scene this load has read
  lost : BOOLEAN,         \* closed during the first load, which goes on
  own : BOOLEAN]          \* history: this load did not join an answered read

StreamsTypeOK ==
  /\ sceneRevision \in Nat \ {0}
  /\ background \in Files
  /\ files \in SUBSET Files
  /\ active \in [Displays -> BOOLEAN]
  /\ hub \in {"ready", "broken", "down"}
  /\ notices \in Seq(Notice)
  /\ load \in [phase : {"none", "asked", "read"}, scene : Scene]
  /\ stream \in [Streams -> StreamType]
  /\ wire \in [Streams -> Seq(StreamEvent)]
  /\ conn \in [Displays -> Streams \cup {NoOne}]
  /\ client \in [Displays -> [status : {"connecting", "open", "reconnecting", "revoked"},
                              shown : Nat]]
  /\ streamFaults \in Nat /\ imageReads \in Nat

Unread == [revision |-> 0, background |-> NoOne]
NoRead == [phase |-> "none", scene |-> Unread]

Current == [revision |-> sceneRevision, background |-> background]

(* A stream object before anything happened to it. *)
Fresh(d) ==
  [stage |-> "free", display |-> d, attached |-> FALSE, dirty |-> FALSE, last |-> 0,
   pending |-> 0, blocked |-> FALSE, held |-> Unread, lost |-> FALSE, own |-> TRUE]

StreamsInit ==
  /\ sceneRevision = 1
  /\ background \in Files
  /\ files = Files
  /\ active = [d \in Displays |-> TRUE]
  /\ hub = "ready"
  /\ notices = << >>
  /\ load = NoRead
  /\ stream = [s \in Streams |-> Fresh(NoOne)]
  /\ wire = [s \in Streams |-> << >>]
  /\ conn = [d \in Displays |-> NoOne]
  /\ client = [d \in Displays |-> [status |-> "connecting", shown |-> 0]]
  /\ streamFaults = 0 /\ imageReads = 0

StreamFault == streamFaults < MaxStreamFaults /\ streamFaults' = streamFaults + 1

----------------------------------------------------------------------------
(* Commits of the scene, media and display commands.  NOTIFY is part of the *)
(* transaction, and reaches a connection that listens at the commit.        *)

(* Mutant: the commit is not announced. *)
Unannounced(n) == UNCHANGED notices
Announce(n) == notices' = IF hub = "ready" THEN Append(notices, n) ELSE notices

DisplayNotice(d) == [kind |-> "display", display |-> d]

(* Mutant: a write takes the revision back. *)
PreviousRevision == sceneRevision - 1
NextRevision == sceneRevision + 1

(* A move, a fog edit or a background, each under the scene's revision. *)
EditScene ==
  /\ sceneRevision < MaxSceneRevision
  /\ sceneRevision' = NextRevision
  /\ background' \in files
  /\ Announce([kind |-> "scene"])
  /\ UNCHANGED <<files, active, hub, load, streamVars, clientVars, bounds>>

(* An image that the scene shows is not deleted; one that a load has seen   *)
(* may be.                                                                   *)
DeleteMedia(f) ==
  /\ f \in files \ {background}
  /\ files' = files \ {f}
  /\ Announce([kind |-> "campaign"])
  /\ UNCHANGED <<sceneRevision, background, active, hub, load, streamVars, clientVars, bounds>>

RevokeDisplay(d) ==
  /\ active[d]
  /\ active' = [active EXCEPT ![d] = FALSE]
  /\ Announce(DisplayNotice(d))
  /\ UNCHANGED <<sceneRevision, background, files, hub, load, streamVars, clientVars, bounds>>

----------------------------------------------------------------------------
(* Streams, display-stream.ts *)

IsOpen(s) == stream[s].stage # "free"

UpdateStream(s, r) == stream' = [stream EXCEPT ![s] = r]

(* close(): the response ends after what was written; what waited is lost.  *)
CloseStream(s, ending) ==
  /\ UpdateStream(s, Fresh(NoOne))
  /\ wire' = [wire EXCEPT ![s] = Append(@, Ending(ending))]

(* Every stream of a set ends. *)
EndAll(S) ==
  /\ stream' = [s \in Streams |-> IF s \in S THEN Fresh(NoOne) ELSE stream[s]]
  /\ wire' = [s \in Streams |-> IF s \in S THEN Append(wire[s], Ending("end")) ELSE wire[s]]

(* The first load's refusal is a 404; a later one is an event, which a      *)
(* client that does not drain misses.                                        *)
RevokedEnding(s) == IF stream[s].attached /\ stream[s].blocked THEN "end" ELSE "revoked"

(* An event for a stream that is loading is remembered, else it loads now.  *)
Reload(r) ==
  IF r.stage \in Loading THEN [r EXCEPT !.dirty = TRUE] ELSE [r EXCEPT !.stage = "credential"]

Relevant(r, n) == r.stage # "free" /\ ~ r.lost /\ (n.kind = "display" => n.display = r.display)

(* deliver() and flush(), for a stream that goes on as r: the new record    *)
(* and what is written.                                                      *)

(* Mutant: any revision is delivered. *)
AnyRevision(r, v) == TRUE
Newer(r, v) == v > r.last

Outgoing(r, v) == IF Newer(r, v) THEN v ELSE r.pending
Sendable(r, v) == r.attached /\ ~ r.blocked /\ Outgoing(r, v) # 0

(* Mutant: a snapshot that cannot be written now is dropped. *)
KeptNothing(r, v) == [r EXCEPT !.last = IF Newer(r, v) THEN v ELSE @, !.pending = 0]
Kept(r, v) ==
  [r EXCEPT !.last = IF Newer(r, v) THEN v ELSE @,
            !.pending = IF Sendable(r, v) THEN 0 ELSE Outgoing(r, v)]

(* Writing may find the client's buffer full, which arms the stall timer.   *)
Deliver(s, r, v) ==
  IF Sendable(r, v)
    THEN /\ wire' = [wire EXCEPT ![s] = Append(@, SceneEvent(Outgoing(r, v)))]
         /\ \E full \in BOOLEAN : UpdateStream(s, [Kept(r, v) EXCEPT !.blocked = full])
    ELSE UpdateStream(s, Kept(r, v)) /\ UNCHANGED wire

(* The first read of a load; it joins the scene read in flight, or starts one. *)
CheckCredential(s) ==
  /\ stream[s].stage = "credential"
  /\ IF active[stream[s].display]
       THEN /\ UpdateStream(s, [stream[s] EXCEPT !.stage = "scene", !.own = load.phase # "read"])
            /\ load' = IF load.phase = "none" THEN [load EXCEPT !.phase = "asked"] ELSE load
            /\ UNCHANGED wire
       ELSE CloseStream(s, RevokedEnding(s)) /\ UNCHANGED load
  /\ UNCHANGED <<dbVars, hubVars, clientVars, bounds>>

(* The database answers the scene read; then the answer arrives. *)
ReadScene ==
  /\ load.phase = "asked"
  /\ load' = [phase |-> "read", scene |-> Current]
  /\ UNCHANGED <<dbVars, hubVars, streamVars, clientVars, bounds>>

Awaiting == {s \in Streams : stream[s].stage = "scene"}

SceneArrives ==
  /\ load.phase = "read"
  /\ load' = NoRead
  /\ stream' = [s \in Streams |->
                  IF s \in Awaiting
                    THEN [stream[s] EXCEPT !.stage = "media", !.held = load.scene]
                    ELSE stream[s]]
  /\ UNCHANGED <<dbVars, hubVars, wire, clientVars, bounds>>

(* Mutant: an event that came during the load is forgotten. *)
AtRest(r) == [r EXCEPT !.stage = "quiet", !.held = Unread, !.dirty = FALSE, !.attached = TRUE]

(* A load that an event has overtaken starts over; else the stream waits,   *)
(* and the response begins if it had not.                                    *)
AfterLoad(r) ==
  IF r.dirty
    THEN [r EXCEPT !.stage = "credential", !.held = Unread, !.dirty = FALSE]
    ELSE [r EXCEPT !.stage = "quiet", !.held = Unread, !.attached = TRUE]

CheckMedia(s) ==
  /\ stream[s].stage = "media"
  /\ IF stream[s].held.background \in files
       THEN IF stream[s].lost
              THEN CloseStream(s, "end")
              ELSE Deliver(s, AfterLoad(stream[s]), stream[s].held.revision)
       ELSE CloseStream(s, RevokedEnding(s))
  /\ UNCHANGED <<dbVars, hubVars, load, clientVars, bounds>>

(* A read that fails otherwise ends the stream; the client comes back.  A   *)
(* scene read fails for everybody who shares it.                             *)
LoadFails(s) ==
  /\ stream[s].stage \in {"credential", "media"}
  /\ StreamFault
  /\ CloseStream(s, "end")
  /\ UNCHANGED <<dbVars, hubVars, load, clientVars, imageReads>>

SceneReadFails ==
  /\ load.phase # "none"
  /\ StreamFault
  /\ load' = NoRead
  /\ EndAll(Awaiting)
  /\ UNCHANGED <<dbVars, hubVars, clientVars, imageReads>>

(* The buffer empties: the latest waiting snapshot follows. *)
ClientDrains(s) ==
  /\ stream[s].blocked
  /\ Deliver(s, [stream[s] EXCEPT !.blocked = FALSE], stream[s].last)
  /\ UNCHANGED <<dbVars, hubVars, load, clientVars, bounds>>

(* Any write, a heartbeat's too, may fill the buffer. *)
Heartbeat(s) ==
  /\ stream[s].attached /\ ~ stream[s].blocked
  /\ StreamFault
  /\ UpdateStream(s, [stream[s] EXCEPT !.blocked = TRUE])
  /\ UNCHANGED <<dbVars, hubVars, load, wire, clientVars, imageReads>>

Stall(s) ==
  /\ stream[s].blocked
  /\ StreamFault
  /\ CloseStream(s, "end")
  /\ UNCHANGED <<dbVars, hubVars, load, clientVars, imageReads>>

(* The response of a client that left closes, once it has begun. *)
ClientGone(s) ==
  /\ stream[s].attached
  /\ \A d \in Displays : conn[d] # s
  /\ UpdateStream(s, Fresh(NoOne)) /\ UNCHANGED wire
  /\ UNCHANGED <<dbVars, hubVars, load, clientVars, bounds>>

(* The image routes share the scene reads, and wait for nothing here. *)
ReadForImage ==
  /\ imageReads < MaxImageReads
  /\ imageReads' = imageReads + 1
  /\ load.phase = "none"
  /\ load' = [load EXCEPT !.phase = "asked"]
  /\ UNCHANGED <<dbVars, hubVars, streamVars, clientVars, streamFaults>>

----------------------------------------------------------------------------
(* The hub, scene-events.ts *)

HandleNotice ==
  /\ hub # "down" /\ notices # << >>
  /\ notices' = Tail(notices)
  /\ stream' = [s \in Streams |->
                  IF Relevant(stream[s], Head(notices)) THEN Reload(stream[s]) ELSE stream[s]]
  /\ UNCHANGED <<dbVars, hub, load, wire, clientVars, bounds>>

(* The connection breaks; some notifications still arrive. *)
HubBreaks ==
  /\ hub = "ready"
  /\ StreamFault
  /\ hub' = "broken"
  /\ \E n \in 0..Len(notices) : notices' = SubSeq(notices, 1, n)
  /\ UNCHANGED <<dbVars, load, streamVars, clientVars, imageReads>>

(* Mutant: streams at rest are not told. *)
Busy == {s \in Streams : stream[s].attached /\ stream[s].stage # "quiet"}

(* lose(): every subscriber is told.  A stream ends, unless its first load  *)
(* is under way, whose answer it still is.                                   *)
Attached == {s \in Streams : stream[s].attached}

HubLost ==
  /\ hub = "broken"
  /\ hub' = "down"
  /\ notices' = << >>
  /\ stream' = [s \in Streams |-> CASE s \in Attached -> Fresh(NoOne)
                                    [] IsOpen(s) /\ ~ stream[s].attached -> [stream[s] EXCEPT !.lost = TRUE]
                                    [] OTHER -> stream[s]]
  /\ wire' = [s \in Streams |-> IF s \in Attached THEN Append(wire[s], Ending("end")) ELSE wire[s]]
  /\ UNCHANGED <<dbVars, load, clientVars, bounds>>

HubListens ==
  /\ hub = "down"
  /\ hub' = "ready"
  /\ UNCHANGED <<dbVars, notices, load, streamVars, clientVars, bounds>>

----------------------------------------------------------------------------
(* The process goes down, in an orderly way or not, and comes back. *)
Restart ==
  /\ StreamFault
  /\ hub' = "down" /\ notices' = << >>
  /\ load' = NoRead
  /\ EndAll({s \in Streams : IsOpen(s)})
  /\ UNCHANGED <<dbVars, clientVars, imageReads>>

----------------------------------------------------------------------------
(* The client, sceneStream.ts and DisplayView.tsx *)

Blank(status) == [status |-> status, shown |-> 0]

(* connect(): subscribed before the first load, or refused by a hub that is *)
(* not listening.                                                            *)
Connect(d) ==
  /\ conn[d] = NoOne
  /\ client[d].status \in {"connecting", "reconnecting"}
  /\ \E s \in Streams :
       /\ ~ IsOpen(s)
       /\ \A e \in Displays : conn[e] # s
       /\ conn' = [conn EXCEPT ![d] = s]
       /\ IF hub = "down"
            THEN wire' = [wire EXCEPT ![s] = <<Ending("end")>>] /\ UNCHANGED stream
            ELSE /\ wire' = [wire EXCEPT ![s] = << >>]
                 /\ UpdateStream(s, [Fresh(d) EXCEPT !.stage = "credential"])
  /\ UNCHANGED <<dbVars, hubVars, load, client, bounds>>

OlderScene(d, v) == v <= client[d].shown /\ client[d].status = "open"

(* A 404 or a `revoked` ends the attempts; any other end starts another. *)
StatusAfter(item) == IF item.event = "revoked" THEN "revoked" ELSE "reconnecting"

ReadEvent(d) ==
  /\ conn[d] # NoOne
  /\ wire[conn[d]] # << >>
  /\ LET item == Head(wire[conn[d]])
     IN  IF item.event = "scene"
           THEN /\ client' = [client EXCEPT ![d] =
                     IF OlderScene(d, item.revision)
                       THEN @
                       ELSE [status |-> "open", shown |-> item.revision]]
                /\ UNCHANGED conn
           ELSE /\ client' = [client EXCEPT ![d] = Blank(StatusAfter(item))]
                /\ conn' = [conn EXCEPT ![d] = NoOne]
  /\ wire' = [wire EXCEPT ![conn[d]] = Tail(@)]
  /\ UNCHANGED <<dbVars, hubVars, load, stream, bounds>>

(* stopCurrent(): what has arrived is not read any more. *)
Leave(d, status) ==
  /\ StreamFault
  /\ conn' = [conn EXCEPT ![d] = NoOne]
  /\ client' = [client EXCEPT ![d] = Blank(status)]
  /\ wire' = [s \in Streams |-> IF s = conn[d] THEN << >> ELSE wire[s]]
  /\ UNCHANGED <<dbVars, hubVars, load, stream, imageReads>>

(* The idle timer fires or the network fails. *)
Disconnect(d) == conn[d] # NoOne /\ Leave(d, "reconnecting")

RetryNow(d) == Leave(d, "connecting")

----------------------------------------------------------------------------
Commits == EditScene \/ (\E f \in Files : DeleteMedia(f)) \/ (\E d \in Displays : RevokeDisplay(d))

Goes(s) == CheckCredential(s) \/ CheckMedia(s) \/ ClientDrains(s) \/ ClientGone(s)
Falters(s) == LoadFails(s) \/ Heartbeat(s) \/ Stall(s)

ClientFollows(d) == Connect(d) \/ ReadEvent(d)
Interrupted(d) == Disconnect(d) \/ RetryNow(d)

StreamsNext ==
  \/ Commits
  \/ ReadScene \/ SceneArrives \/ SceneReadFails \/ ReadForImage
  \/ HandleNotice \/ HubBreaks \/ HubLost \/ HubListens \/ Restart
  \/ \E s \in Streams : Goes(s) \/ Falters(s)
  \/ \E d \in Displays : ClientFollows(d) \/ Interrupted(d)

StreamsSpec == StreamsInit /\ [][StreamsNext]_sceneStreamVars

(* Reads end, notifications arrive, a lost connection is noticed and        *)
(* renewed, a client reads what arrives and reconnects, a slow one drains.  *)
StreamsFairness ==
  /\ WF_sceneStreamVars(ReadScene) /\ WF_sceneStreamVars(SceneArrives)
  /\ WF_sceneStreamVars(HandleNotice) /\ WF_sceneStreamVars(HubLost) /\ WF_sceneStreamVars(HubListens)
  /\ \A s \in Streams : WF_sceneStreamVars(Goes(s))
  /\ \A d \in Displays : WF_sceneStreamVars(ClientFollows(d))

StreamsFairSpec == StreamsSpec /\ StreamsFairness

----------------------------------------------------------------------------
(* Nothing is under way that could tell stream s of a change. *)
Undisturbed(s) ==
  /\ hub = "ready"
  /\ stream[s].stage = "quiet"
  /\ \A i \in 1..Len(notices) : ~ Relevant(stream[s], notices[i])

(* A display that was revoked keeps no stream: as soon as the notification  *)
(* is handled and the loads it caused are over, no stream serves it,        *)
(* whatever else was loading, waiting or breaking when it was revoked       *)
(* (revokeDisplayCredential, reload, lose).                                  *)
RevokedHaveNoStream ==
  \A s \in Streams : Undisturbed(s) => active[stream[s].display]

(* A stream at rest has sent the current scene: no change is missed,        *)
(* wherever it fell in a load, in a write or in a lost connection (reload,  *)
(* open).  The last load must not have joined a scene read that was already *)
(* answered: see LaterReadsSeeLatest.                                        *)
StreamsAreCurrent ==
  \A s \in Streams : Undisturbed(s) /\ stream[s].own => stream[s].last = sceneRevision

(* "Only in-flight loads are shared, so a later read always observes the    *)
(* latest committed revision" (campaigns/display.ts:259-260): so no stream  *)
(* at rest is behind.                                                        *)
LaterReadsSeeLatest ==
  \A s \in Streams : Undisturbed(s) => stream[s].last = sceneRevision

(* A stream never writes a snapshot that is not newer than all it wrote     *)
(* before, although its loads may return older scenes (deliver).            *)
SnapshotsGoForward ==
  \A s \in Streams :
    \A i, j \in 1..Len(wire[s]) :
      i < j /\ wire[s][j].event = "scene" =>
        wire[s][i].event = "scene" /\ wire[s][i].revision < wire[s][j].revision

(* A display whose credential is revoked goes blank in the end and stays    *)
(* so, whatever was on its way to it.                                        *)
RevokedGoBlank == \A d \in Displays : ~ active[d] ~> [](client[d].shown = 0)

(* Once nobody changes the scene any more (and there are no further faults) *)
(* a display that has access shows its latest revision, unless it was told  *)
(* that it is revoked (so is one whose load saw a background that was        *)
(* replaced and deleted meanwhile), or its load joined an answered read.     *)
Joined(d) == conn[d] # NoOne /\ ~ stream[conn[d]].own
DisplaysCatchUp ==
  \A d \in Displays :
    <>[](client[d].shown = sceneRevision \/ ~ active[d] \/ client[d].status = "revoked" \/ Joined(d))
=============================================================================
