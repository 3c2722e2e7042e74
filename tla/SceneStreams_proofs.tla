------------------------- MODULE SceneStreams_proofs -------------------------
(***************************************************************************)
(* What SceneStreams promises, proved for any displays, streams and files  *)
(* and any bounds on edits and faults.                                     *)
(***************************************************************************)
EXTENDS SceneStreams, TLAPS

USE StreamsAssumption

----------------------------------------------------------------------------
(* What a delivery does to a stream. *)

LEMMA KeptFields ==
  ASSUME NEW r \in StreamType, NEW v \in Nat
  PROVE  /\ Outgoing(r, v) \in Nat
         /\ Kept(r, v) \in StreamType
         /\ Kept(r, v).last = IF v > r.last THEN v ELSE r.last
         /\ Kept(r, v).stage = r.stage /\ Kept(r, v).dirty = r.dirty
         /\ Kept(r, v).display = r.display /\ Kept(r, v).attached = r.attached
         /\ Kept(r, v).own = r.own /\ Kept(r, v).lost = r.lost /\ Kept(r, v).held = r.held
BY DEF Kept, Outgoing, Newer, Sendable, StreamType

LEMMA DeliverFields ==
  ASSUME StreamsTypeOK, NEW s \in Streams, NEW r \in StreamType, NEW v \in Nat, Deliver(s, r, v)
  PROVE  /\ wire' \in [Streams -> Seq(StreamEvent)]
         /\ stream' \in [Streams -> StreamType]
         /\ \A t \in Streams \ {s} : stream'[t] = stream[t]
         /\ stream'[s].last = IF v > r.last THEN v ELSE r.last
         /\ stream'[s].stage = r.stage /\ stream'[s].dirty = r.dirty
         /\ stream'[s].display = r.display /\ stream'[s].attached = r.attached
         /\ stream'[s].own = r.own /\ stream'[s].lost = r.lost /\ stream'[s].held = r.held
<1> DEFINE k == Kept(r, v)
<1>1. k \in StreamType /\ Outgoing(r, v) \in Nat
  BY KeptFields
<1>2. PICK q \in StreamType : /\ stream' = [stream EXCEPT ![s] = q]
                              /\ q = k \/ \E full \in BOOLEAN : q = [k EXCEPT !.blocked = full]
  <2>1. \A full \in BOOLEAN : [k EXCEPT !.blocked = full] \in StreamType
    BY <1>1 DEF StreamType
  <2> QED BY <1>1, <2>1 DEF Deliver, UpdateStream
<1>3. /\ q.last = k.last /\ q.stage = k.stage /\ q.dirty = k.dirty /\ q.display = k.display
      /\ q.attached = k.attached /\ q.own = k.own /\ q.lost = k.lost /\ q.held = k.held
  BY <1>1, <1>2 DEF StreamType
<1>4. stream'[s] = q /\ stream' \in [Streams -> StreamType]
  BY <1>2 DEF StreamsTypeOK
<1>5. wire' \in [Streams -> Seq(StreamEvent)]
  <2>1. SceneEvent(Outgoing(r, v)) \in StreamEvent
    BY <1>1 DEF SceneEvent, StreamEvent
  <2>2. \A n \in StreamEvent : [wire EXCEPT ![s] = Append(@, n)] \in [Streams -> Seq(StreamEvent)]
    BY DEF StreamsTypeOK
  <2> QED BY <2>1, <2>2 DEF Deliver, StreamsTypeOK
<1>6. \A t \in Streams \ {s} : stream'[t] = stream[t]
  BY <1>2 DEF StreamsTypeOK
<1>7. /\ k.last = IF v > r.last THEN v ELSE r.last
      /\ k.stage = r.stage /\ k.dirty = r.dirty
      /\ k.display = r.display /\ k.attached = r.attached
      /\ k.own = r.own /\ k.lost = r.lost /\ k.held = r.held
  BY KeptFields
<1> HIDE DEF k
<1> QED BY <1>3, <1>4, <1>5, <1>6, <1>7

LEMMA FreshType ==
  \A d \in Displays \cup {NoOne} : Fresh(d) \in StreamType
BY DEF Fresh, StreamType, Unread, Scene

LEMMA AfterLoadType ==
  ASSUME NEW r \in StreamType
  PROVE  AfterLoad(r) \in StreamType
BY DEF AfterLoad, StreamType, Loading, Unread, Scene

(* The updates the actions make to a stream, and to the shared read. *)
LEMMA StreamUpdates ==
  ASSUME NEW r \in StreamType
  PROVE  /\ [r EXCEPT !.lost = TRUE] \in StreamType
         /\ [r EXCEPT !.blocked = TRUE] \in StreamType
         /\ [r EXCEPT !.blocked = FALSE] \in StreamType
         /\ \A own \in BOOLEAN : [r EXCEPT !.stage = "scene", !.own = own] \in StreamType
         /\ \A held \in Scene : [r EXCEPT !.stage = "media", !.held = held] \in StreamType
BY DEF StreamType, Loading

LEMMA LoadUpdates ==
  ASSUME StreamsTypeOK
  PROVE  /\ load.scene \in Scene
         /\ [load EXCEPT !.phase = "asked"] \in [phase : {"none", "asked", "read"}, scene : Scene]
<1>1. \A l \in [phase : {"none", "asked", "read"}, scene : Scene] :
        l.scene \in Scene /\ [l EXCEPT !.phase = "asked"] \in [phase : {"none", "asked", "read"}, scene : Scene]
  OBVIOUS
<1> QED BY <1>1 DEF StreamsTypeOK

LEMMA EndingType == \A e \in {"revoked", "end"} : Ending(e) \in StreamEvent
BY DEF Ending, StreamEvent

(* Ending one stream, or several, keeps the types and frees them. *)
LEMMA CloseType ==
  ASSUME StreamsTypeOK, NEW s \in Streams, NEW e \in {"revoked", "end"}, CloseStream(s, e)
  PROVE  /\ wire' \in [Streams -> Seq(StreamEvent)] /\ stream' \in [Streams -> StreamType]
         /\ stream' = [stream EXCEPT ![s] = Fresh(NoOne)]
BY EndingType, FreshType DEF CloseStream, UpdateStream, StreamsTypeOK

LEMMA EndAllType ==
  ASSUME StreamsTypeOK, NEW S \in SUBSET Streams, EndAll(S)
  PROVE  wire' \in [Streams -> Seq(StreamEvent)] /\ stream' \in [Streams -> StreamType]
BY EndingType, FreshType DEF EndAll, StreamsTypeOK

LEMMA NoticeType ==
  ASSUME StreamsTypeOK, NEW n \in Notice, Announce(n)
  PROVE  notices' \in Seq(Notice)
BY DEF Announce, StreamsTypeOK

LEMMA InitType == StreamsInit => StreamsTypeOK
BY FreshType DEF StreamsInit, StreamsTypeOK, NoRead, Unread, Scene

LEMMA CommitsKeepType == StreamsTypeOK /\ Commits => StreamsTypeOK'
<1> SUFFICES ASSUME StreamsTypeOK, Commits PROVE StreamsTypeOK'
  OBVIOUS
<1> USE DEF hubVars, streamVars, clientVars, bounds
<1>1. CASE EditScene
  <2>1. [kind |-> "scene"] \in Notice
    BY DEF Notice
  <2> QED BY <1>1, <2>1, NoticeType DEF EditScene, NextRevision, StreamsTypeOK
<1>2. ASSUME NEW f \in Files, DeleteMedia(f) PROVE StreamsTypeOK'
  <2>1. [kind |-> "campaign"] \in Notice
    BY DEF Notice
  <2> QED BY <1>2, <2>1, NoticeType DEF DeleteMedia, StreamsTypeOK
<1>3. ASSUME NEW d \in Displays, RevokeDisplay(d) PROVE StreamsTypeOK'
  <2>1. DisplayNotice(d) \in Notice
    BY DEF Notice, DisplayNotice
  <2> QED BY <1>3, <2>1, NoticeType DEF RevokeDisplay, StreamsTypeOK
<1> QED BY <1>1, <1>2, <1>3 DEF Commits

LEMMA GoesKeepsType ==
  ASSUME StreamsTypeOK, NEW s \in Streams, Goes(s) \/ Falters(s)
  PROVE  StreamsTypeOK'
<1> USE DEF dbVars, hubVars, streamVars, clientVars, bounds
<1>0. stream[s] \in StreamType /\ RevokedEnding(s) \in {"revoked", "end"}
  BY DEF StreamsTypeOK, RevokedEnding
<1>1. CASE CheckCredential(s)
  <2>1. CASE active[stream[s].display]
    <3>1. stream' \in [Streams -> StreamType]
      <4>1. PICK own \in BOOLEAN : own = (load.phase # "read")
        BY Zenon
      <4>2. stream' = [stream EXCEPT ![s] = [stream[s] EXCEPT !.stage = "scene", !.own = own]]
        BY <1>1, <2>1, <4>1, Zenon DEF CheckCredential, UpdateStream
      <4> QED BY <1>0, <4>2, StreamUpdates DEF StreamsTypeOK
    <3> QED BY <1>1, <2>1, <3>1, LoadUpdates DEF CheckCredential, StreamsTypeOK
  <2>2. CASE ~ active[stream[s].display]
    BY <1>0, <1>1, <2>2, CloseType DEF CheckCredential, StreamsTypeOK
  <2> QED BY <2>1, <2>2
<1>2. CASE CheckMedia(s)
  <2>1. AfterLoad(stream[s]) \in StreamType /\ stream[s].held.revision \in Nat
    BY <1>0, AfterLoadType DEF StreamType, Scene
  <2>2. wire' \in [Streams -> Seq(StreamEvent)] /\ stream' \in [Streams -> StreamType]
    BY <1>0, <1>2, <2>1, CloseType, DeliverFields DEF CheckMedia
  <2> QED BY <1>2, <2>2 DEF CheckMedia, StreamsTypeOK
<1>3. CASE ClientDrains(s)
  <2>1. [stream[s] EXCEPT !.blocked = FALSE] \in StreamType /\ stream[s].last \in Nat
    BY <1>0 DEF StreamType
  <2>2. wire' \in [Streams -> Seq(StreamEvent)] /\ stream' \in [Streams -> StreamType]
    BY <1>3, <2>1, DeliverFields DEF ClientDrains
  <2> QED BY <1>3, <2>2 DEF ClientDrains, StreamsTypeOK
<1>4. CASE ClientGone(s)
  BY <1>4, FreshType DEF ClientGone, UpdateStream, StreamsTypeOK
<1>5. CASE LoadFails(s)
  BY <1>5, CloseType DEF LoadFails, StreamFault, StreamsTypeOK
<1>6. CASE Heartbeat(s)
  <2>1. [stream[s] EXCEPT !.blocked = TRUE] \in StreamType
    BY <1>0 DEF StreamType
  <2> QED BY <1>6, <2>1 DEF Heartbeat, UpdateStream, StreamFault, StreamsTypeOK
<1>7. CASE Stall(s)
  BY <1>7, CloseType DEF Stall, StreamFault, StreamsTypeOK
<1> QED BY <1>1, <1>2, <1>3, <1>4, <1>5, <1>6, <1>7 DEF Goes, Falters

LEMMA LoadKeepsType ==
  ASSUME StreamsTypeOK, ReadScene \/ SceneArrives \/ SceneReadFails \/ ReadForImage
  PROVE  StreamsTypeOK'
<1> USE DEF dbVars, hubVars, streamVars, clientVars, bounds
<1>1. CASE ReadScene
  BY <1>1 DEF ReadScene, Current, Scene, StreamsTypeOK
<1>2. NoRead \in [phase : {"none", "asked", "read"}, scene : Scene]
  BY DEF NoRead, Unread, Scene
<1>3. CASE SceneArrives
  <2>1. \A s \in Streams : [stream[s] EXCEPT !.stage = "media", !.held = load.scene] \in StreamType
    BY LoadUpdates, StreamUpdates DEF StreamsTypeOK
  <2> QED BY <1>2, <1>3, <2>1 DEF SceneArrives, StreamsTypeOK
<1>4. CASE SceneReadFails
  BY <1>2, <1>4, EndAllType DEF SceneReadFails, Awaiting, StreamFault, StreamsTypeOK
<1>5. CASE ReadForImage
  BY <1>5, LoadUpdates DEF ReadForImage, StreamsTypeOK
<1> QED BY <1>1, <1>3, <1>4, <1>5

LEMMA ReloadType ==
  ASSUME NEW r \in StreamType PROVE Reload(r) \in StreamType
BY DEF Reload, StreamType, Loading

LEMMA HubKeepsType ==
  ASSUME StreamsTypeOK, HandleNotice \/ HubBreaks \/ HubLost \/ HubListens \/ Restart
  PROVE  StreamsTypeOK'
<1> USE DEF dbVars, hubVars, streamVars, clientVars, bounds
<1>1. CASE HandleNotice
  <2>1. notices' \in Seq(Notice)
    BY <1>1 DEF HandleNotice, StreamsTypeOK
  <2> QED BY <1>1, <2>1, ReloadType DEF HandleNotice, StreamsTypeOK
<1>2. CASE HubBreaks
  <2>1. \A n \in 0..Len(notices) : SubSeq(notices, 1, n) \in Seq(Notice)
    BY DEF StreamsTypeOK
  <2> QED BY <1>2, <2>1 DEF HubBreaks, StreamFault, StreamsTypeOK
<1>3. CASE HubLost
  <2>1. \A s \in Streams : [stream[s] EXCEPT !.lost = TRUE] \in StreamType
    BY StreamUpdates DEF StreamsTypeOK
  <2>2. stream' \in [Streams -> StreamType]
    BY <1>3, <2>1, FreshType DEF HubLost, StreamsTypeOK
  <2>3. wire' \in [Streams -> Seq(StreamEvent)]
    BY <1>3, EndingType DEF HubLost, StreamsTypeOK
  <2> QED BY <1>3, <2>2, <2>3 DEF HubLost, StreamsTypeOK
<1>4. CASE HubListens
  BY <1>4 DEF HubListens, StreamsTypeOK
<1>5. CASE Restart
  <2>1. NoRead \in [phase : {"none", "asked", "read"}, scene : Scene]
    BY DEF NoRead, Unread, Scene
  <2> QED BY <1>5, <2>1, EndAllType DEF Restart, StreamFault, StreamsTypeOK
<1> QED BY <1>1, <1>2, <1>3, <1>4, <1>5

LEMMA ClientKeepsType ==
  ASSUME StreamsTypeOK, NEW d \in Displays, ClientFollows(d) \/ Interrupted(d)
  PROVE  StreamsTypeOK'
<1> USE DEF dbVars, hubVars, streamVars, clientVars, bounds
<1>1. CASE Connect(d)
  <2>1. PICK s \in Streams :
          /\ conn' = [conn EXCEPT ![d] = s]
          /\ \/ wire' = [wire EXCEPT ![s] = <<Ending("end")>>] /\ UNCHANGED stream
             \/ /\ wire' = [wire EXCEPT ![s] = << >>]
                /\ UpdateStream(s, [Fresh(d) EXCEPT !.stage = "credential"])
    BY <1>1 DEF Connect
  <2>2. [Fresh(d) EXCEPT !.stage = "credential"] \in StreamType
    BY FreshType DEF StreamType, Loading
  <2>3. <<Ending("end")>> \in Seq(StreamEvent) /\ << >> \in Seq(StreamEvent)
    BY EndingType
  <2>4. stream' \in [Streams -> StreamType]
    BY <2>1, <2>2 DEF UpdateStream, StreamsTypeOK
  <2>5. wire' \in [Streams -> Seq(StreamEvent)]
    BY <2>1, <2>3 DEF StreamsTypeOK
  <2>6. conn' \in [Displays -> Streams \cup {NoOne}]
    BY <2>1 DEF StreamsTypeOK
  <2> QED BY <1>1, <2>4, <2>5, <2>6 DEF Connect, StreamsTypeOK
<1>2. CASE ReadEvent(d)
  <2>1. conn[d] \in Streams /\ wire[conn[d]] \in Seq(StreamEvent) /\ wire[conn[d]] # << >>
    BY <1>2 DEF ReadEvent, StreamsTypeOK
  <2>2. Tail(wire[conn[d]]) \in Seq(StreamEvent) /\ Head(wire[conn[d]]) \in StreamEvent
    BY <2>1
  <2> DEFINE item == Head(wire[conn[d]])
  <2>3. item.event = "scene" => item.revision \in Nat
    BY <2>2 DEF StreamEvent
  <2>4. StatusAfter(item) \in {"revoked", "reconnecting"}
    BY DEF StatusAfter
  <2> HIDE DEF item
  <2>5. client' \in [Displays -> [status : {"connecting", "open", "reconnecting", "revoked"}, shown : Nat]]
    <3>1. CASE item.event = "scene"
      <4>1. client' = client \/ client' = [client EXCEPT ![d] = [status |-> "open", shown |-> item.revision]]
        BY <1>2, <3>1 DEF ReadEvent, item, StreamsTypeOK
      <4>2. \A n \in Nat : [status |-> "open", shown |-> n]
                \in [status : {"connecting", "open", "reconnecting", "revoked"}, shown : Nat]
        OBVIOUS
      <4>3. client \in [Displays -> [status : {"connecting", "open", "reconnecting", "revoked"}, shown : Nat]]
        BY DEF StreamsTypeOK
      <4>4. PICK n \in Nat : n = item.revision
        BY <3>1, <2>3
      <4>5. client' = client \/ client' = [client EXCEPT ![d] = [status |-> "open", shown |-> n]]
        BY <4>1, <4>4
      <4> QED BY <4>2, <4>3, <4>5
    <3>2. CASE item.event # "scene"
      <4>1. client' = [client EXCEPT ![d] = Blank(StatusAfter(item))]
        BY <1>2, <3>2 DEF ReadEvent, item
      <4> QED BY <4>1, <2>4 DEF Blank, StreamsTypeOK
    <3> QED BY <3>1, <3>2
  <2>6. conn' \in [Displays -> Streams \cup {NoOne}]
    BY <1>2 DEF ReadEvent, StreamsTypeOK
  <2>7. wire' \in [Streams -> Seq(StreamEvent)]
    BY <1>2, <2>1, <2>2 DEF ReadEvent, StreamsTypeOK
  <2> QED BY <1>2, <2>5, <2>6, <2>7 DEF ReadEvent, StreamsTypeOK
<1>3. CASE Disconnect(d) \/ RetryNow(d)
  <2>1. PICK status \in {"reconnecting", "connecting"} : Leave(d, status)
    BY <1>3 DEF Disconnect, RetryNow
  <2> QED BY <2>1 DEF Leave, StreamFault, Blank, StreamsTypeOK
<1> QED BY <1>1, <1>2, <1>3 DEF ClientFollows, Interrupted

LEMMA NextKeepsType == StreamsTypeOK /\ [StreamsNext]_sceneStreamVars => StreamsTypeOK'
<1> SUFFICES ASSUME StreamsTypeOK, [StreamsNext]_sceneStreamVars PROVE StreamsTypeOK'
  OBVIOUS
<1>1. CASE UNCHANGED sceneStreamVars
  BY <1>1 DEF sceneStreamVars, StreamsTypeOK
<1> QED BY <1>1, CommitsKeepType, LoadKeepsType, HubKeepsType, GoesKeepsType, ClientKeepsType DEF StreamsNext

(* The database, the hub, the streams and the clients keep their types. *)
THEOREM TypeCorrect == StreamsSpec => []StreamsTypeOK
BY InitType, NextKeepsType, PTL DEF StreamsSpec

----------------------------------------------------------------------------
(* The inductive invariant.  A stream that the hub serves is covered: it    *)
(* will load again, or what it has read or sent is the current scene, or a  *)
(* notice of a newer one is on its way; and the same for its credential.    *)

SceneNews == \E i \in 1..Len(notices) : notices[i].kind = "scene"
DisplayNews(d) == \E i \in 1..Len(notices) : notices[i].kind = "display" /\ notices[i].display = d

WillLoad(r) == r.stage = "credential" \/ r.dirty

SeesScene(r) ==
  r.own => /\ r.stage = "scene" /\ load.phase = "read" => load.scene.revision = sceneRevision
           /\ r.stage = "media" => r.held.revision = sceneRevision
           /\ r.stage = "quiet" => r.last = sceneRevision

Shape(r) ==
  /\ r.lost => ~ r.attached
  /\ r.stage = "quiet" => r.attached /\ ~ r.dirty
  /\ r.stage # "free" => r.display \in Displays
  /\ r.stage = "scene" => load.phase # "none"
  /\ r.last <= sceneRevision /\ r.held.revision <= sceneRevision

Served(r) == hub = "ready" /\ r.stage # "free" /\ ~ r.lost

StreamInv(r) ==
  /\ Shape(r)
  /\ hub = "down" /\ r.stage # "free" => r.lost
  /\ Served(r) => \/ WillLoad(r)
                  \/ /\ SceneNews \/ SeesScene(r)
                     /\ DisplayNews(r.display) \/ active[r.display]

StreamsInv ==
  /\ StreamsTypeOK
  /\ load.scene.revision <= sceneRevision
  /\ \A s \in Streams : StreamInv(stream[s])

LEMMA NoticesGrow ==
  ASSUME StreamsTypeOK, NEW n \in Notice, Announce(n)
  PROVE  /\ SceneNews => SceneNews'
         /\ \A d : DisplayNews(d) => DisplayNews(d)'
         /\ hub = "ready" /\ n.kind = "scene" => SceneNews'
         /\ \A d : hub = "ready" /\ n.kind = "display" /\ n.display = d => DisplayNews(d)'
<1>1. CASE notices' = notices /\ hub # "ready"
  BY <1>1 DEF SceneNews, DisplayNews
<1>2. CASE notices' = Append(notices, n)
  <2>1. notices \in Seq(Notice)
    BY DEF StreamsTypeOK
  <2>2. /\ Len(notices') = Len(notices) + 1 /\ notices'[Len(notices) + 1] = n
        /\ \A i \in 1..Len(notices) : notices'[i] = notices[i]
    BY <1>2, <2>1
  <2>3. Len(notices) \in Nat /\ Len(notices) + 1 \in 1..Len(notices')
    BY <2>1, <2>2
  <2>4. \A i \in 1..Len(notices) : i \in 1..Len(notices')
    BY <2>2, <2>3
  <2> QED BY <2>2, <2>3, <2>4 DEF SceneNews, DisplayNews
<1> QED BY <1>1, <1>2 DEF Announce

LEMMA NoticeHandled ==
  ASSUME StreamsTypeOK, notices # << >>, notices' = Tail(notices)
  PROVE  /\ Head(notices) \in Notice
         /\ SceneNews => Head(notices).kind = "scene" \/ SceneNews'
         /\ \A d : DisplayNews(d) =>
              \/ Head(notices).kind = "display" /\ Head(notices).display = d
              \/ DisplayNews(d)'
<1>1. notices \in Seq(Notice) /\ notices # << >>
  BY DEF StreamsTypeOK
<1>2. Len(notices) \in Nat \ {0} /\ Len(notices') = Len(notices) - 1 /\ Head(notices) = notices[1]
  BY <1>1
<1>3. \A i \in 1..Len(notices) : i = 1 \/ (i - 1 \in 1..Len(notices') /\ notices'[i - 1] = notices[i])
  BY <1>1, <1>2
<1>4. Head(notices) \in Notice
  BY <1>1
<1> QED BY <1>2, <1>3, <1>4 DEF SceneNews, DisplayNews

(* A stream that a step does not concern, and one that is free.             *)
LEMMA Unmoved ==
  ASSUME NEW s \in Streams, StreamInv(stream[s]), UNCHANGED <<dbVars, hubVars, load>>,
         stream'[s].stage = stream[s].stage, stream'[s].display = stream[s].display,
         stream'[s].attached = stream[s].attached, stream'[s].dirty = stream[s].dirty,
         stream'[s].last = stream[s].last, stream'[s].held = stream[s].held,
         stream'[s].lost = stream[s].lost, stream'[s].own = stream[s].own
  PROVE  StreamInv(stream[s])'
BY DEF dbVars, hubVars, StreamInv, Shape, Served, WillLoad, SeesScene, SceneNews, DisplayNews

LEMMA FreeInv ==
  ASSUME StreamsTypeOK', NEW s \in Streams, stream'[s] = Fresh(NoOne)
  PROVE  StreamInv(stream[s])'
<1>1. sceneRevision' \in Nat
  BY DEF StreamsTypeOK
<1> QED BY <1>1 DEF StreamInv, Shape, Served, Fresh, Unread

(* A stream that a step did not concern stays covered when the scene or a   *)
(* credential changes, because the change is announced.                     *)
LEMMA CommitsKeepStreams ==
  ASSUME StreamsInv, StreamsTypeOK', Commits, NEW s \in Streams
  PROVE  StreamInv(stream[s])'
<1> DEFINE r == stream[s]
<1>0. /\ StreamsTypeOK /\ StreamInv(r) /\ stream[s] \in StreamType
      /\ sceneRevision \in Nat /\ r.last \in Nat /\ r.held.revision \in Nat
  BY DEF StreamsInv, StreamsTypeOK, StreamType, Scene
<1>1. stream' = stream /\ load' = load /\ hub' = hub
  BY DEF Commits, EditScene, DeleteMedia, RevokeDisplay, streamVars
<1>2. CASE EditScene
  <2>1. [kind |-> "scene"] \in Notice
    BY DEF Notice
  <2>2. sceneRevision' = sceneRevision + 1 /\ active' = active /\ Announce([kind |-> "scene"])
    BY <1>2 DEF EditScene, NextRevision
  <2>3. (hub = "ready" => SceneNews') /\ \A d : DisplayNews(d) => DisplayNews(d)'
    BY <1>0, <2>1, <2>2, NoticesGrow
  <2> QED BY <1>0, <1>1, <2>2, <2>3 DEF StreamInv, Shape, Served, WillLoad
<1>3. ASSUME NEW f \in Files, DeleteMedia(f) PROVE StreamInv(stream[s])'
  <2>1. [kind |-> "campaign"] \in Notice
    BY DEF Notice
  <2>2. sceneRevision' = sceneRevision /\ active' = active /\ Announce([kind |-> "campaign"])
    BY <1>3 DEF DeleteMedia
  <2>3. (SceneNews => SceneNews') /\ \A d : DisplayNews(d) => DisplayNews(d)'
    BY <1>0, <2>1, <2>2, NoticesGrow
  <2> QED BY <1>0, <1>1, <2>2, <2>3 DEF StreamInv, Shape, Served, WillLoad, SeesScene
<1>4. ASSUME NEW d \in Displays, RevokeDisplay(d) PROVE StreamInv(stream[s])'
  <2>1. DisplayNotice(d) \in Notice /\ DisplayNotice(d).kind = "display" /\ DisplayNotice(d).display = d
    BY DEF Notice, DisplayNotice
  <2>2. sceneRevision' = sceneRevision /\ active' = [active EXCEPT ![d] = FALSE] /\ Announce(DisplayNotice(d))
    BY <1>4 DEF RevokeDisplay
  <2>3. /\ SceneNews => SceneNews'
        /\ \A e : DisplayNews(e) => DisplayNews(e)'
        /\ hub = "ready" => DisplayNews(d)'
    BY <1>0, <2>1, <2>2, NoticesGrow
  <2>4. \A e \in Displays : e # d => active'[e] = active[e]
    BY <1>0, <2>2 DEF StreamsTypeOK
  <2>5. Shape(stream[s])'
    BY <1>0, <1>1, <2>2 DEF StreamInv, Shape
  <2>6. Served(stream[s])' => Served(r) /\ r.display \in Displays
    BY <1>0, <1>1 DEF StreamInv, Shape, Served
  <2>7. Served(r) => DisplayNews(r.display)' \/ active'[r.display] \/ WillLoad(r)
    BY <1>0, <1>1, <2>3, <2>4, <2>6 DEF StreamInv, Shape, Served, DisplayNews
  <2>8. Served(r) => WillLoad(r) \/ SceneNews' \/ SeesScene(stream[s])'
    BY <1>0, <1>1, <2>2, <2>3 DEF StreamInv, SeesScene
  <2> QED BY <1>0, <1>1, <2>5, <2>6, <2>7, <2>8 DEF StreamInv, WillLoad
<1> QED BY <1>2, <1>3, <1>4 DEF Commits

(* A stream's own step: a credential it has checked was active, what it     *)
(* delivers is the scene its load has read, and a load that was overtaken   *)
(* starts again.                                                             *)
LEMMA GoesKeepsStreams ==
  ASSUME StreamsInv, StreamsTypeOK', NEW s \in Streams, Goes(s) \/ Falters(s), NEW t \in Streams
  PROVE  StreamInv(stream[t])'
<1> USE DEF bounds, clientVars
<1>0. /\ StreamsTypeOK /\ StreamInv(stream[t]) /\ stream[s] \in StreamType /\ StreamInv(stream[s])
      /\ sceneRevision \in Nat /\ stream[s].last \in Nat /\ stream[s].held.revision \in Nat
  BY DEF StreamsInv, StreamsTypeOK, StreamType, Scene
<1>1. dbVars' = dbVars /\ hubVars' = hubVars /\ sceneRevision' = sceneRevision /\ active' = active
      /\ hub' = hub /\ notices' = notices
  BY DEF Goes, Falters, CheckCredential, CheckMedia, ClientDrains, ClientGone, LoadFails, Heartbeat,
         Stall, dbVars, hubVars
<1>2. CASE stream'[s] = Fresh(NoOne) /\ stream' = [stream EXCEPT ![s] = Fresh(NoOne)] /\ load' = load
  <2>1. CASE t = s
    BY <1>2, <2>1, FreeInv
  <2>2. CASE t # s
    BY <1>0, <1>1, <1>2, <2>2, Unmoved DEF StreamsTypeOK
  <2> QED BY <2>1, <2>2
<1>3. \A e \in {"revoked", "end"} : CloseStream(s, e) /\ load' = load => StreamInv(stream[t])'
  BY <1>0, <1>2, CloseType DEF StreamsTypeOK
<1>4. RevokedEnding(s) \in {"revoked", "end"}
  BY DEF RevokedEnding
<1>5. CASE CheckCredential(s) /\ active[stream[s].display]
  <2>1. PICK own \in BOOLEAN : own = (load.phase # "read")
    BY Zenon
  <2>2. stream' = [stream EXCEPT ![s] = [stream[s] EXCEPT !.stage = "scene", !.own = own]]
    BY <1>5, <2>1, Zenon DEF CheckCredential, UpdateStream
  <2>3. /\ stream[s].stage = "credential"
        /\ load' = IF load.phase = "none" THEN [load EXCEPT !.phase = "asked"] ELSE load
    BY <1>5 DEF CheckCredential
  <2>4. /\ load'.phase # "none" /\ (load'.phase = "read" => load.phase = "read")
        /\ load'.scene = load.scene
        /\ load.phase # "none" => load' = load
        /\ load.phase = "none" => load'.phase = "asked"
    <3>1. load \in [phase : {"none", "asked", "read"}, scene : Scene]
      BY <1>0 DEF StreamsTypeOK
    <3> QED BY <2>3, <3>1
  <2>5. CASE t = s
    <3> DEFINE q == [stream[s] EXCEPT !.stage = "scene", !.own = own]
    <3>1. /\ stream'[s] = q /\ q.stage = "scene" /\ q.own = own /\ q.display = stream[s].display
          /\ q.attached = stream[s].attached /\ q.lost = stream[s].lost /\ q.dirty = stream[s].dirty
          /\ q.last = stream[s].last /\ q.held = stream[s].held
      BY <1>0, <2>2 DEF StreamsTypeOK, StreamType
    <3> HIDE DEF q
    <3>2. Shape(stream[s])'
      BY <1>0, <1>1, <2>3, <2>4, <3>1 DEF StreamInv, Shape
    <3>3. SeesScene(stream[s])' /\ active'[stream'[s].display]
      BY <1>1, <1>5, <2>1, <2>4, <3>1 DEF SeesScene
    <3> QED BY <1>0, <1>1, <2>3, <2>5, <3>1, <3>2, <3>3 DEF StreamInv
  <2>6. CASE t # s
    <3>1. stream'[t] = stream[t]
      BY <1>0, <2>2, <2>6 DEF StreamsTypeOK
    <3> QED BY <1>0, <1>1, <2>4, <3>1
            DEF StreamInv, Shape, Served, WillLoad, SeesScene, SceneNews, DisplayNews
  <2> QED BY <2>5, <2>6
<1>6. CASE CheckCredential(s) /\ ~ active[stream[s].display]
  BY <1>3, <1>4, <1>6 DEF CheckCredential
<1>7. ASSUME NEW q \in StreamType, NEW v \in Nat, Deliver(s, q, v), load' = load,
             ~ q.lost, q.lost = stream[s].lost, stream[s].stage # "free",
             q.display = stream[s].display, q.held.revision <= sceneRevision,
             q.last = stream[s].last, v <= sceneRevision, q.stage \in {"credential", "quiet"},
             q.stage = "quiet" => q.attached /\ ~ q.dirty,
             q.stage = "quiet" /\ Served(stream[s]) =>
               /\ SceneNews \/ (q.own => v = sceneRevision)
               /\ DisplayNews(q.display) \/ active[q.display]
      PROVE  StreamInv(stream[t])'
  <2>1. /\ \A u \in Streams \ {s} : stream'[u] = stream[u]
        /\ stream'[s].last = IF v > q.last THEN v ELSE q.last
        /\ stream'[s].stage = q.stage /\ stream'[s].dirty = q.dirty
        /\ stream'[s].display = q.display /\ stream'[s].attached = q.attached
        /\ stream'[s].own = q.own /\ stream'[s].lost = q.lost /\ stream'[s].held = q.held
    BY <1>0, <1>7, DeliverFields
  <2>2. CASE t = s
    <3>1. stream'[s].last <= sceneRevision /\ (v = sceneRevision => stream'[s].last = sceneRevision)
      BY <1>0, <1>7, <2>1 DEF StreamInv, Shape
    <3>2. Shape(stream[s])'
      BY <1>0, <1>1, <1>7, <2>1, <3>1 DEF StreamInv, Shape
    <3>3. Served(stream[s])' => Served(stream[s])
      BY <1>1, <1>7, <2>1 DEF Served
    <3>4. hub # "down"
      BY <1>0, <1>7 DEF StreamInv
    <3>5. stream'[s].stage = "quiet" /\ Served(stream[s]) =>
            /\ SceneNews' \/ SeesScene(stream[s])'
            /\ DisplayNews(stream[s].display)' \/ active'[stream'[s].display]
      BY <1>0, <1>1, <1>7, <2>1, <3>1 DEF SceneNews, DisplayNews, SeesScene
    <3> QED BY <1>0, <1>1, <1>7, <2>1, <2>2, <3>2, <3>3, <3>4, <3>5 DEF StreamInv, WillLoad
  <2>3. CASE t # s
    BY <1>0, <1>1, <1>7, <2>1, <2>3, Unmoved
  <2> QED BY <2>2, <2>3
<1>8. CASE CheckMedia(s)
  <2>1. stream[s].stage = "media" /\ load' = load
    BY <1>8 DEF CheckMedia
  <2>2. CASE Deliver(s, AfterLoad(stream[s]), stream[s].held.revision) /\ ~ stream[s].lost
    <3> DEFINE q == AfterLoad(stream[s])
    <3>1. q \in StreamType
      BY <1>0, AfterLoadType
    <3>2. /\ q.stage = IF stream[s].dirty THEN "credential" ELSE "quiet"
          /\ q.last = stream[s].last /\ q.display = stream[s].display /\ q.own = stream[s].own
          /\ q.lost = stream[s].lost /\ ~ q.dirty /\ q.held.revision = 0
          /\ ~ stream[s].dirty => q.attached
      BY <1>0 DEF AfterLoad, StreamType, Unread
    <3> HIDE DEF q
    <3>3. Served(stream[s]) /\ ~ stream[s].dirty =>
            /\ SceneNews \/ (stream[s].own => stream[s].held.revision = sceneRevision)
            /\ DisplayNews(stream[s].display) \/ active[stream[s].display]
      BY <1>0, <2>1 DEF StreamInv, WillLoad, SeesScene
    <3>4. stream[s].held.revision <= sceneRevision
      BY <1>0 DEF StreamInv, Shape
    <3>5. q.stage = "quiet" /\ Served(stream[s]) =>
            /\ SceneNews \/ (q.own => stream[s].held.revision = sceneRevision)
            /\ DisplayNews(q.display) \/ active[q.display]
      BY <3>2, <3>3
    <3>6. Deliver(s, q, stream[s].held.revision)
      BY <2>2 DEF q
    <3> QED BY <1>0, <1>7, <2>1, <2>2, <3>1, <3>2, <3>4, <3>5, <3>6
  <2> QED BY <1>3, <1>4, <1>8, <2>1, <2>2 DEF CheckMedia
<1>9. CASE ClientDrains(s) \/ Heartbeat(s)
  <2> DEFINE q == [stream[s] EXCEPT !.blocked = FALSE]
  <2>1. /\ q \in StreamType
        /\ q.stage = stream[s].stage /\ q.display = stream[s].display
        /\ q.attached = stream[s].attached /\ q.dirty = stream[s].dirty
        /\ q.last = stream[s].last /\ q.held = stream[s].held
        /\ q.lost = stream[s].lost /\ q.own = stream[s].own
    BY <1>0 DEF StreamType
  <2>2. load' = load /\ (ClientDrains(s) => Deliver(s, q, stream[s].last))
    BY <1>9 DEF ClientDrains, Heartbeat
  <2> HIDE DEF q
  <2>3. CASE ClientDrains(s)
    <3>1. /\ \A u \in Streams \ {s} : stream'[u] = stream[u]
          /\ stream'[s].last = q.last
          /\ stream'[s].stage = q.stage /\ stream'[s].dirty = q.dirty
          /\ stream'[s].display = q.display /\ stream'[s].attached = q.attached
          /\ stream'[s].own = q.own /\ stream'[s].lost = q.lost /\ stream'[s].held = q.held
      BY <1>0, <2>1, <2>2, <2>3, DeliverFields
    <3> QED BY <1>0, <1>1, <2>1, <2>2, <3>1, Unmoved
  <2>4. CASE Heartbeat(s)
    <3>1. stream' = [stream EXCEPT ![s] = [stream[s] EXCEPT !.blocked = TRUE]]
      BY <2>4 DEF Heartbeat, UpdateStream
    <3>2. /\ \A u \in Streams \ {s} : stream'[u] = stream[u]
          /\ stream'[s] = [stream[s] EXCEPT !.blocked = TRUE]
      BY <1>0, <3>1 DEF StreamsTypeOK
    <3>3. /\ stream'[s].stage = stream[s].stage /\ stream'[s].display = stream[s].display
          /\ stream'[s].attached = stream[s].attached /\ stream'[s].dirty = stream[s].dirty
          /\ stream'[s].last = stream[s].last /\ stream'[s].held = stream[s].held
          /\ stream'[s].lost = stream[s].lost /\ stream'[s].own = stream[s].own
      BY <1>0, <3>2 DEF StreamType
    <3> QED BY <1>0, <1>1, <2>2, <3>2, <3>3, Unmoved
  <2> QED BY <1>9, <2>3, <2>4
<1>10. CASE ClientGone(s) \/ LoadFails(s) \/ Stall(s)
  <2>1. load' = load /\ (CloseStream(s, "end") \/ UpdateStream(s, Fresh(NoOne)))
    BY <1>10 DEF ClientGone, LoadFails, Stall
  <2>2. UpdateStream(s, Fresh(NoOne)) => stream' = [stream EXCEPT ![s] = Fresh(NoOne)] /\ stream'[s] = Fresh(NoOne)
    BY <1>0 DEF UpdateStream, StreamsTypeOK
  <2> QED BY <1>2, <1>3, <2>1, <2>2
<1> QED BY <1>5, <1>6, <1>8, <1>9, <1>10 DEF Goes, Falters, CheckCredential

(* The shared read: who waits for one that will be answered later sees the  *)
(* scene of that moment.                                                     *)
LEMMA LoadKeepsStreams ==
  ASSUME StreamsInv, StreamsTypeOK', ReadScene \/ SceneArrives \/ SceneReadFails \/ ReadForImage,
         NEW t \in Streams
  PROVE  StreamInv(stream[t])'
<1> USE DEF dbVars, hubVars, streamVars, clientVars, bounds
<1>0. /\ StreamsTypeOK /\ StreamInv(stream[t]) /\ stream[t] \in StreamType /\ sceneRevision \in Nat
      /\ load \in [phase : {"none", "asked", "read"}, scene : Scene]
      /\ load.scene.revision <= sceneRevision
  BY DEF StreamsInv, StreamsTypeOK
<1>1. sceneRevision' = sceneRevision /\ active' = active /\ hub' = hub /\ notices' = notices
  BY DEF ReadScene, SceneArrives, SceneReadFails, ReadForImage
<1>2. CASE ReadScene
  <2>1. load'.phase = "read" /\ load'.scene.revision = sceneRevision /\ stream' = stream /\ load.phase = "asked"
    BY <1>2 DEF ReadScene, Current
  <2> QED BY <1>0, <1>1, <2>1
          DEF StreamInv, Shape, Served, WillLoad, SeesScene, SceneNews, DisplayNews
<1>3. CASE SceneArrives
  <2>1. load.phase = "read"
    BY <1>3 DEF SceneArrives
  <2>2. CASE stream[t].stage = "scene"
    <3> DEFINE q == [stream[t] EXCEPT !.stage = "media", !.held = load.scene]
    <3>1. stream'[t] = q
      BY <1>0, <1>3, <2>2 DEF SceneArrives, Awaiting
    <3>2. /\ q.stage = "media" /\ q.held = load.scene /\ q.display = stream[t].display
          /\ q.attached = stream[t].attached /\ q.dirty = stream[t].dirty
          /\ q.last = stream[t].last /\ q.lost = stream[t].lost /\ q.own = stream[t].own
      BY <1>0 DEF StreamType
    <3> HIDE DEF q
    <3> QED BY <1>0, <1>1, <2>1, <2>2, <3>1, <3>2
            DEF StreamInv, Shape, Served, WillLoad, SeesScene, SceneNews, DisplayNews
  <2>3. CASE stream[t].stage # "scene"
    <3>1. stream'[t] = stream[t]
      BY <1>3, <2>3 DEF SceneArrives, Awaiting
    <3> QED BY <1>0, <1>1, <2>3, <3>1
            DEF StreamInv, Shape, Served, WillLoad, SeesScene, SceneNews, DisplayNews
  <2> QED BY <2>2, <2>3
<1>4. CASE SceneReadFails
  <2>1. stream'[t] = IF stream[t].stage = "scene" THEN Fresh(NoOne) ELSE stream[t]
    BY <1>4 DEF SceneReadFails, EndAll, Awaiting
  <2>2. CASE stream[t].stage = "scene"
    BY <2>1, <2>2, FreeInv
  <2>3. CASE stream[t].stage # "scene"
    BY <1>0, <1>1, <2>1, <2>3
       DEF StreamInv, Shape, Served, WillLoad, SeesScene, SceneNews, DisplayNews
  <2> QED BY <2>2, <2>3
<1>5. CASE ReadForImage
  <2>1. load.phase = "none" /\ load'.phase = "asked" /\ stream' = stream
    BY <1>0, <1>5 DEF ReadForImage
  <2> QED BY <1>0, <1>1, <2>1
          DEF StreamInv, Shape, Served, WillLoad, SeesScene, SceneNews, DisplayNews
<1> QED BY <1>2, <1>3, <1>4, <1>5

(* A notice reaches every stream it concerns before it is forgotten, and a  *)
(* hub that listens again serves none of the streams from before.            *)
LEMMA HubKeepsStreams ==
  ASSUME StreamsInv, StreamsTypeOK', HandleNotice \/ HubBreaks \/ HubLost \/ HubListens \/ Restart,
         NEW t \in Streams
  PROVE  StreamInv(stream[t])'
<1> USE DEF dbVars, hubVars, streamVars, clientVars, bounds
<1>0. /\ StreamsTypeOK /\ StreamInv(stream[t]) /\ stream[t] \in StreamType /\ sceneRevision \in Nat
  BY DEF StreamsInv, StreamsTypeOK
<1>1. sceneRevision' = sceneRevision /\ active' = active
  BY DEF HandleNotice, HubBreaks, HubLost, HubListens, Restart
<1>2. CASE HandleNotice
  <2> DEFINE n == Head(notices)
  <2>1. load' = load /\ hub' = hub /\ notices # << >> /\ notices' = Tail(notices)
    BY <1>2 DEF HandleNotice
  <2>2. /\ n \in Notice
        /\ SceneNews => n.kind = "scene" \/ SceneNews'
        /\ \A d : DisplayNews(d) => (n.kind = "display" /\ n.display = d) \/ DisplayNews(d)'
    BY <1>0, <2>1, NoticeHandled
  <2>3. stream'[t] = IF Relevant(stream[t], n) THEN Reload(stream[t]) ELSE stream[t]
    BY <1>2 DEF HandleNotice
  <2> HIDE DEF n
  <2>4. CASE Relevant(stream[t], n)
    <3> DEFINE q == Reload(stream[t])
    <3>1. /\ WillLoad(q) /\ q.display = stream[t].display
          /\ q.attached = stream[t].attached
          /\ q.last = stream[t].last /\ q.held = stream[t].held /\ q.lost = stream[t].lost
          /\ q.stage = "quiet" => FALSE
          /\ q.stage = "scene" => stream[t].stage = "scene"
      BY <1>0 DEF Reload, StreamType, Loading, WillLoad
    <3>2. stream'[t] = q /\ stream[t].stage # "free"
      BY <2>3, <2>4 DEF Relevant
    <3> HIDE DEF q
    <3> QED BY <1>0, <1>1, <2>1, <3>1, <3>2 DEF StreamInv, Shape, WillLoad
  <2>5. CASE ~ Relevant(stream[t], n)
    <3>1. stream'[t] = stream[t]
      BY <2>3, <2>5
    <3>2. Served(stream[t]) => n.kind # "scene" /\ ~ (n.kind = "display" /\ n.display = stream[t].display)
      BY <2>2, <2>5 DEF Relevant, Served, Notice
    <3>3. /\ Served(stream[t]) /\ SceneNews => SceneNews'
          /\ Served(stream[t]) /\ DisplayNews(stream[t].display) => DisplayNews(stream[t].display)'
      BY <2>2, <3>1, <3>2 DEF DisplayNews
    <3>4. Shape(stream[t])' /\ (Served(stream[t])' => Served(stream[t]))
      BY <1>0, <1>1, <2>1, <3>1 DEF StreamInv, Shape, Served
    <3>5. SeesScene(stream[t]) => SeesScene(stream[t])'
      BY <1>1, <2>1, <3>1 DEF SeesScene
    <3> QED BY <1>0, <1>1, <2>1, <3>1, <3>3, <3>4, <3>5 DEF StreamInv, WillLoad
  <2> QED BY <2>4, <2>5
<1>3. CASE HubBreaks
  BY <1>0, <1>1, <1>3 DEF HubBreaks, StreamInv, Shape, Served
<1>4. CASE HubLost
  <2>1. CASE t \in Attached
    BY <1>4, <2>1, FreeInv DEF HubLost, Attached
  <2>2. CASE t \notin Attached /\ IsOpen(t)
    <3> DEFINE q == [stream[t] EXCEPT !.lost = TRUE]
    <3>1. stream'[t] = q
      BY <1>4, <2>2 DEF HubLost, Attached
    <3>2. /\ q.stage = stream[t].stage /\ q.display = stream[t].display
          /\ q.attached = stream[t].attached /\ q.dirty = stream[t].dirty
          /\ q.last = stream[t].last /\ q.held = stream[t].held /\ q.lost
      BY <1>0 DEF StreamType
    <3> HIDE DEF q
    <3> QED BY <1>0, <1>1, <1>4, <2>2, <3>1, <3>2 DEF HubLost, StreamInv, Shape, Served, Attached
  <2>3. CASE t \notin Attached /\ ~ IsOpen(t)
    BY <1>0, <1>1, <1>4, <2>3 DEF HubLost, StreamInv, Shape, Served, IsOpen
  <2> QED BY <2>1, <2>2, <2>3
<1>5. CASE HubListens
  BY <1>0, <1>1, <1>5 DEF HubListens, StreamInv, Shape, Served
<1>6. CASE Restart
  <2>1. stream'[t] = IF IsOpen(t) THEN Fresh(NoOne) ELSE stream[t]
    BY <1>6 DEF Restart, EndAll
  <2>2. CASE IsOpen(t)
    BY <2>1, <2>2, FreeInv
  <2>3. CASE ~ IsOpen(t)
    BY <1>0, <1>1, <1>6, <2>1, <2>3 DEF Restart, StreamInv, Shape, Served, IsOpen
  <2> QED BY <2>2, <2>3
<1> QED BY <1>2, <1>3, <1>4, <1>5, <1>6

(* A new stream loads first. *)
LEMMA ClientKeepsStreams ==
  ASSUME StreamsInv, StreamsTypeOK', NEW d \in Displays, ClientFollows(d) \/ Interrupted(d), NEW t \in Streams
  PROVE  StreamInv(stream[t])'
<1> USE DEF clientVars, bounds
<1>0. /\ StreamsTypeOK /\ StreamInv(stream[t]) /\ sceneRevision \in Nat
  BY DEF StreamsInv, StreamsTypeOK
<1>1. dbVars' = dbVars /\ hubVars' = hubVars /\ load' = load
  BY DEF ClientFollows, Interrupted, Connect, ReadEvent, Disconnect, RetryNow, Leave, dbVars, hubVars
<1>2. CASE stream' = stream
  BY <1>0, <1>1, <1>2, Unmoved
<1>3. CASE Connect(d) /\ stream' # stream
  <2>1. PICK s \in Streams : hub # "down" /\ UpdateStream(s, [Fresh(d) EXCEPT !.stage = "credential"])
    BY <1>3 DEF Connect
  <2>2. stream'[t] = IF t = s THEN [Fresh(d) EXCEPT !.stage = "credential"] ELSE stream[t]
    BY <1>0, <2>1 DEF UpdateStream, StreamsTypeOK
  <2>3. CASE t = s
    <3>1. /\ stream'[t].stage = "credential" /\ stream'[t].display = d /\ ~ stream'[t].lost
          /\ stream'[t].last = 0 /\ stream'[t].held.revision = 0
      BY <2>2, <2>3 DEF Fresh, Unread
    <3>2. sceneRevision' = sceneRevision /\ hub' = hub
      BY <1>1 DEF dbVars, hubVars
    <3> QED BY <1>0, <2>1, <3>1, <3>2 DEF StreamInv, Shape, WillLoad
  <2>4. CASE t # s
    BY <1>0, <1>1, <2>2, <2>4, Unmoved
  <2> QED BY <2>3, <2>4
<1> QED BY <1>2, <1>3 DEF ClientFollows, Interrupted, ReadEvent, Disconnect, RetryNow, Leave

LEMMA NextKeepsStreams == StreamsInv /\ [StreamsNext]_sceneStreamVars => StreamsInv'
<1> SUFFICES ASSUME StreamsInv, [StreamsNext]_sceneStreamVars PROVE StreamsInv'
  OBVIOUS
<1>0. StreamsTypeOK /\ StreamsTypeOK' /\ load.scene.revision <= sceneRevision /\ sceneRevision \in Nat
  BY NextKeepsType DEF StreamsInv, StreamsTypeOK
<1>1. CASE UNCHANGED sceneStreamVars
  BY <1>0, <1>1 DEF sceneStreamVars, StreamsInv, StreamInv, Shape, Served, WillLoad, SeesScene, SceneNews, DisplayNews
<1>2. CASE StreamsNext
  <2>1. \A t \in Streams : StreamInv(stream[t])'
    BY <1>0, <1>2, CommitsKeepStreams, GoesKeepsStreams, LoadKeepsStreams, HubKeepsStreams,
       ClientKeepsStreams DEF StreamsNext
  <2>2. load'.scene.revision <= sceneRevision'
    <3>1. NoRead.scene.revision = 0 /\ sceneRevision' \in Nat
      BY <1>0 DEF NoRead, Unread, StreamsTypeOK
    <3>2. [load EXCEPT !.phase = "asked"].scene = load.scene
      BY <1>0 DEF StreamsTypeOK
    <3>3. CASE Commits
      BY <1>0, <3>3 DEF Commits, EditScene, NextRevision, DeleteMedia, RevokeDisplay, StreamsTypeOK, Scene
    <3>4. CASE ReadScene \/ SceneArrives \/ SceneReadFails \/ ReadForImage
      <4>1. sceneRevision' = sceneRevision
        BY <3>4 DEF ReadScene, SceneArrives, SceneReadFails, ReadForImage, dbVars
      <4>2. ReadScene => load'.scene.revision = sceneRevision
        BY DEF ReadScene, Current
      <4>3. ReadForImage => load'.scene = load.scene
        BY <3>2 DEF ReadForImage
      <4>4. SceneArrives \/ SceneReadFails => load'.scene.revision = 0
        BY <3>1 DEF SceneArrives, SceneReadFails
      <4>5. 0 <= sceneRevision
        BY <1>0
      <4> QED BY <1>0, <3>4, <4>1, <4>2, <4>3, <4>4, <4>5
    <3>5. CASE HandleNotice \/ HubBreaks \/ HubLost \/ HubListens \/ Restart
      BY <1>0, <3>1, <3>5 DEF HandleNotice, HubBreaks, HubLost, HubListens, Restart, dbVars
    <3>6. ASSUME NEW s \in Streams, Goes(s) \/ Falters(s) PROVE load'.scene.revision <= sceneRevision'
      <4>1. sceneRevision' = sceneRevision /\ (load' = load \/ load' = [load EXCEPT !.phase = "asked"])
        BY <3>6 DEF Goes, Falters, CheckCredential, CheckMedia, ClientDrains, ClientGone, LoadFails,
                    Heartbeat, Stall, dbVars
      <4> QED BY <1>0, <3>2, <4>1
    <3>7. ASSUME NEW d \in Displays, ClientFollows(d) \/ Interrupted(d) PROVE load'.scene.revision <= sceneRevision'
      BY <1>0, <3>7 DEF ClientFollows, Interrupted, Connect, ReadEvent, Disconnect, RetryNow, Leave, dbVars
    <3> QED BY <1>2, <3>3, <3>4, <3>5, <3>6, <3>7 DEF StreamsNext
  <2> QED BY <1>0, <2>1, <2>2 DEF StreamsInv
<1> QED BY <1>1, <1>2

LEMMA InitStreams == StreamsInit => StreamsInv
<1> SUFFICES ASSUME StreamsInit PROVE StreamsInv
  OBVIOUS
<1>1. StreamsTypeOK /\ load.scene.revision <= sceneRevision
  BY InitType DEF StreamsInit, NoRead, Unread
<1>2. \A s \in Streams : StreamInv(stream[s])
  BY DEF StreamsInit, StreamInv, Shape, Served, Fresh, Unread
<1> QED BY <1>1, <1>2 DEF StreamsInv

LEMMA SpecStreams == StreamsSpec => []StreamsInv
BY InitStreams, NextKeepsStreams, PTL DEF StreamsSpec

(* No stream that the hub serves and that has nothing left to load misses a *)
(* change of the scene, for any number of displays, edits and faults.       *)
THEOREM StreamsStayCurrent == StreamsSpec => []StreamsAreCurrent
<1>1. StreamsInv => StreamsAreCurrent
  <2> SUFFICES ASSUME StreamsInv, NEW s \in Streams, Undisturbed(s), stream[s].own
               PROVE  stream[s].last = sceneRevision
    BY DEF StreamsAreCurrent
  <2>1. StreamInv(stream[s]) /\ Served(stream[s]) /\ ~ WillLoad(stream[s])
    BY DEF StreamsInv, Undisturbed, StreamInv, Served, WillLoad, Shape
  <2>2. ~ SceneNews
    BY <2>1 DEF SceneNews, Undisturbed, Relevant, Served
  <2> QED BY <2>1, <2>2 DEF StreamInv, SeesScene, Undisturbed
<1> QED BY <1>1, SpecStreams, PTL

(* No stream at rest serves a display whose credential was revoked. *)
THEOREM RevokedLoseTheirStreams == StreamsSpec => []RevokedHaveNoStream
<1>1. StreamsInv => RevokedHaveNoStream
  <2> SUFFICES ASSUME StreamsInv, NEW s \in Streams, Undisturbed(s)
               PROVE  active[stream[s].display]
    BY DEF RevokedHaveNoStream
  <2>1. StreamInv(stream[s]) /\ Served(stream[s]) /\ ~ WillLoad(stream[s])
    BY DEF StreamsInv, Undisturbed, StreamInv, Served, WillLoad, Shape
  <2>2. ~ DisplayNews(stream[s].display)
    BY <2>1 DEF DisplayNews, Undisturbed, Relevant, Served
  <2> QED BY <2>1, <2>2 DEF StreamInv
<1> QED BY <1>1, SpecStreams, PTL

----------------------------------------------------------------------------
(* What a stream wrote, and what it still means to write: the snapshots on  *)
(* the wire go forward, none is newer than the last one sent, and the one    *)
(* that waits for the client is newer than all of them.                      *)
Written(r, w) ==
  /\ r.stage = "free" => ~ r.blocked /\ ~ r.attached
  /\ \A i, j \in 1..Len(w) :
       i < j /\ w[j].event = "scene" => w[i].event = "scene" /\ w[i].revision < w[j].revision
  /\ r.stage # "free" =>
       /\ r.pending <= r.last
       /\ \A i \in 1..Len(w) : /\ w[i].event = "scene"
                               /\ w[i].revision <= r.last
                               /\ r.pending # 0 => w[i].revision < r.pending

WiresInv == StreamsTypeOK /\ \A s \in Streams : Written(stream[s], wire[s])

LEMMA AppendItems ==
  ASSUME NEW w \in Seq(StreamEvent), NEW e \in StreamEvent
  PROVE  /\ Len(w) \in Nat /\ Len(Append(w, e)) = Len(w) + 1
         /\ Append(w, e)[Len(w) + 1] = e
         /\ \A i \in 1..Len(w) : Append(w, e)[i] = w[i]
OBVIOUS

(* For an open stream only the wire, what waits and what was sent last      *)
(* matter.                                                                   *)
LEMMA WrittenSame ==
  ASSUME NEW r, NEW q, NEW w, Written(r, w),
         q.stage # "free", r.stage # "free",
         q.last = r.last, q.pending = r.pending
  PROVE  Written(q, w)
BY DEF Written

(* A stream that ends may still say so, and is free from then on. *)
LEMMA WrittenEnd ==
  ASSUME NEW r \in StreamType, NEW w \in Seq(StreamEvent), NEW e \in {"revoked", "end"}, Written(r, w)
  PROVE  Written(Fresh(NoOne), w) /\ Written(Fresh(NoOne), Append(w, Ending(e)))
<1>1. Fresh(NoOne).stage = "free" /\ ~ Fresh(NoOne).blocked /\ ~ Fresh(NoOne).attached
  BY DEF Fresh
<1>2. Ending(e) \in StreamEvent /\ Ending(e).event # "scene"
  BY EndingType DEF Ending
<1>3. /\ Len(w) \in Nat /\ Len(Append(w, Ending(e))) = Len(w) + 1
      /\ Append(w, Ending(e))[Len(w) + 1] = Ending(e)
      /\ \A i \in 1..Len(w) : Append(w, Ending(e))[i] = w[i]
  BY <1>2, AppendItems
<1>4. \A i, j \in 1..Len(w) :
         i < j /\ w[j].event = "scene" => w[i].event = "scene" /\ w[i].revision < w[j].revision
  BY DEF Written
<1> DEFINE ending == Ending(e)
           v == Append(w, ending)
           fresh == Fresh(NoOne)
<1>5. \A i, j \in 1..Len(v) :
         i < j /\ v[j].event = "scene" => v[i].event = "scene" /\ v[i].revision < v[j].revision
  <2> HIDE DEF v, ending
  <2> SUFFICES ASSUME NEW i \in 1..Len(v), NEW j \in 1..Len(v), i < j, v[j].event = "scene"
               PROVE  v[i].event = "scene" /\ v[i].revision < v[j].revision
    OBVIOUS
  <2>1. j \in 1..Len(w) /\ i \in 1..Len(w)
    BY <1>2, <1>3 DEF v, ending
  <2>2. v[i] = w[i] /\ v[j] = w[j]
    BY <2>1, <1>3 DEF v, ending
  <2> QED BY <1>4, <2>1, <2>2
<1> HIDE DEF v, fresh
<1>6. Written(fresh, w) /\ Written(fresh, v)
  BY <1>1, <1>4, <1>5 DEF Written, fresh
<1> QED BY <1>6 DEF v, fresh, ending

(* A delivery writes only what is newer than all that was written before. *)
LEMMA DeliverWrites ==
  ASSUME StreamsTypeOK, NEW s \in Streams, NEW r \in StreamType, NEW v \in Nat, Deliver(s, r, v),
         r.stage # "free", Written(r, wire[s])
  PROVE  /\ Written(stream[s], wire[s])'
         /\ \A t \in Streams \ {s} : stream'[t] = stream[t] /\ wire'[t] = wire[t]
<1> DEFINE w == wire[s]
           n == Outgoing(r, v)
           k == Kept(r, v)
<1>1. w \in Seq(StreamEvent) /\ n \in Nat /\ k \in StreamType
  BY KeptFields DEF StreamsTypeOK
<1>2. k.stage # "free" /\ k.last = (IF v > r.last THEN v ELSE r.last) /\ r.last \in Nat /\ r.pending \in Nat
  <2>1. r.last \in Nat /\ r.pending \in Nat
    BY DEF StreamType
  <2> QED BY <2>1, KeptFields
<1>3. k.pending = (IF Sendable(r, v) THEN 0 ELSE n)
  BY DEF Kept, StreamType
<1>4. n = (IF v > r.last THEN v ELSE r.pending)
  BY DEF Outgoing, Newer
<1>5. /\ r.pending <= r.last
      /\ \A i \in 1..Len(w) : /\ w[i].event = "scene"
                              /\ w[i].revision <= r.last
                              /\ r.pending # 0 => w[i].revision < r.pending
      /\ \A i, j \in 1..Len(w) :
           i < j /\ w[j].event = "scene" => w[i].event = "scene" /\ w[i].revision < w[j].revision
  BY DEF Written
<1>6. \A i \in 1..Len(w) : w[i].revision \in Nat
  BY <1>1, <1>5 DEF StreamEvent
<1>7. CASE Sendable(r, v)
  <2> DEFINE u == Append(w, SceneEvent(n))
  <2>1. n # 0 /\ wire' = [wire EXCEPT ![s] = u]
    BY <1>7 DEF Deliver, Sendable
  <2>2. PICK full \in BOOLEAN : stream' = [stream EXCEPT ![s] = [k EXCEPT !.blocked = full]]
    BY <1>7 DEF Deliver, UpdateStream
  <2>3. /\ stream'[s] = [k EXCEPT !.blocked = full] /\ wire'[s] = u
        /\ \A t \in Streams \ {s} : stream'[t] = stream[t] /\ wire'[t] = wire[t]
    BY <2>1, <2>2 DEF StreamsTypeOK
  <2>4. stream'[s].stage # "free" /\ stream'[s].last = k.last /\ stream'[s].pending = 0
    BY <1>1, <1>2, <1>3, <1>7, <2>3 DEF StreamType
  <2>5. /\ SceneEvent(n) \in StreamEvent
        /\ SceneEvent(n).event = "scene" /\ SceneEvent(n).revision = n
    BY <1>1 DEF SceneEvent, StreamEvent
  <2>6. /\ Len(w) \in Nat /\ Len(u) = Len(w) + 1
        /\ u[Len(w) + 1] = SceneEvent(n)
        /\ \A i \in 1..Len(w) : u[i] = w[i]
    BY <1>1, <2>5, AppendItems
  <2>7. n <= k.last /\ r.last <= k.last /\ \A i \in 1..Len(w) : w[i].revision < n
    BY <1>2, <1>4, <1>5, <1>6, <2>1
  <2> HIDE DEF u, w, n, k
  <2>8. \A i \in 1..Len(u) : u[i].event = "scene" /\ u[i].revision <= k.last /\ u[i].revision \in Nat
    <3> SUFFICES ASSUME NEW i \in 1..Len(u)
                 PROVE  u[i].event = "scene" /\ u[i].revision <= k.last /\ u[i].revision \in Nat
      OBVIOUS
    <3>1. CASE i \in 1..Len(w)
      BY <1>1, <1>2, <1>5, <1>6, <2>6, <2>7, <3>1
    <3>2. CASE i = Len(w) + 1
      BY <1>1, <2>5, <2>6, <2>7, <3>2
    <3> QED BY <2>6, <3>1, <3>2
  <2>9. \A i, j \in 1..Len(u) : i < j => u[i].revision < u[j].revision
    <3> SUFFICES ASSUME NEW i \in 1..Len(u), NEW j \in 1..Len(u), i < j PROVE u[i].revision < u[j].revision
      OBVIOUS
    <3>1. i \in 1..Len(w) /\ u[i] = w[i]
      BY <2>6
    <3>2. CASE j \in 1..Len(w)
      BY <1>5, <2>6, <3>1, <3>2
    <3>3. CASE j = Len(w) + 1
      BY <2>5, <2>6, <2>7, <3>1, <3>3
    <3>4. j \in 1..Len(w) \/ j = Len(w) + 1
      BY <2>6
    <3> QED BY <3>2, <3>3, <3>4
  <2> QED BY <1>2, <2>3, <2>4, <2>8, <2>9 DEF Written, StreamType
<1>8. CASE ~ Sendable(r, v)
  <2>1. wire' = wire /\ stream' = [stream EXCEPT ![s] = k]
    BY <1>8 DEF Deliver, UpdateStream
  <2>2. stream'[s] = k /\ \A t \in Streams \ {s} : stream'[t] = stream[t]
    BY <2>1 DEF StreamsTypeOK
  <2>3. /\ k.pending <= k.last
        /\ \A i \in 1..Len(w) : w[i].revision <= k.last /\ (k.pending # 0 => w[i].revision < k.pending)
    <3> HIDE DEF k, n, w
    <3> QED BY <1>1, <1>2, <1>3, <1>4, <1>5, <1>6, <1>8
  <2> QED BY <1>2, <1>5, <2>1, <2>2, <2>3 DEF Written
<1> QED BY <1>7, <1>8

(* Closing a stream, and ending some of them. *)
LEMMA CloseWrites ==
  ASSUME WiresInv, NEW s \in Streams, NEW e \in {"revoked", "end"},
         \/ CloseStream(s, e)
         \/ UpdateStream(s, Fresh(NoOne)) /\ UNCHANGED wire
  PROVE  \A t \in Streams : Written(stream[t], wire[t])'
<1> SUFFICES ASSUME NEW t \in Streams PROVE Written(stream'[t], wire'[t])
  OBVIOUS
<1>1. stream[t] \in StreamType /\ wire[t] \in Seq(StreamEvent) /\ Written(stream[t], wire[t])
  BY DEF WiresInv, StreamsTypeOK
<1>2. CASE t = s
  <2>1. stream'[t] = Fresh(NoOne) /\ (wire'[t] = wire[t] \/ wire'[t] = Append(wire[t], Ending(e)))
    BY <1>2 DEF CloseStream, UpdateStream, WiresInv, StreamsTypeOK
  <2> QED BY <1>1, <2>1, WrittenEnd
<1>3. CASE t # s
  <2>1. stream'[t] = stream[t] /\ wire'[t] = wire[t]
    BY <1>3 DEF CloseStream, UpdateStream, WiresInv, StreamsTypeOK
  <2> QED BY <1>1, <2>1
<1> QED BY <1>2, <1>3

LEMMA EndAllWrites ==
  ASSUME WiresInv, NEW S \in SUBSET Streams, EndAll(S)
  PROVE  \A t \in Streams : Written(stream[t], wire[t])'
<1> SUFFICES ASSUME NEW t \in Streams PROVE Written(stream'[t], wire'[t])
  OBVIOUS
<1>1. stream[t] \in StreamType /\ wire[t] \in Seq(StreamEvent) /\ Written(stream[t], wire[t])
  BY DEF WiresInv, StreamsTypeOK
<1>2. CASE t \in S
  <2>1. stream'[t] = Fresh(NoOne) /\ wire'[t] = Append(wire[t], Ending("end"))
    BY <1>2 DEF EndAll
  <2> QED BY <1>1, <2>1, WrittenEnd
<1>3. CASE t \notin S
  <2>1. stream'[t] = stream[t] /\ wire'[t] = wire[t]
    BY <1>3 DEF EndAll
  <2> QED BY <1>1, <2>1
<1> QED BY <1>2, <1>3

LEMMA GoesWrites ==
  ASSUME WiresInv, NEW s \in Streams, Goes(s) \/ Falters(s)
  PROVE  \A t \in Streams : Written(stream[t], wire[t])'
<1>0. /\ StreamsTypeOK /\ stream[s] \in StreamType /\ RevokedEnding(s) \in {"revoked", "end"}
      /\ \A t \in Streams : Written(stream[t], wire[t])
  BY DEF WiresInv, StreamsTypeOK, RevokedEnding
<1>1. CASE CheckCredential(s)
  <2>1. CASE active[stream[s].display]
    <3> DEFINE q == [stream[s] EXCEPT !.stage = "scene", !.own = load.phase # "read"]
    <3>1. wire' = wire /\ stream' = [stream EXCEPT ![s] = q] /\ stream[s].stage = "credential"
      BY <1>1, <2>1 DEF CheckCredential, UpdateStream
    <3>2. q.stage = "scene" /\ q.last = stream[s].last /\ q.pending = stream[s].pending
      BY <1>0 DEF StreamType
    <3> HIDE DEF q
    <3>3. Written(q, wire[s])
      BY <1>0, <3>1, <3>2, WrittenSame
    <3> QED BY <1>0, <3>1, <3>3 DEF StreamsTypeOK
  <2>2. CASE ~ active[stream[s].display]
    BY <1>0, <1>1, <2>2, CloseWrites DEF CheckCredential
  <2> QED BY <2>1, <2>2
<1>2. CASE CheckMedia(s)
  <2> DEFINE q == AfterLoad(stream[s])
  <2>1. q \in StreamType /\ stream[s].held.revision \in Nat
    BY <1>0, AfterLoadType DEF StreamType, Scene
  <2>2. /\ stream[s].stage # "free" /\ q.stage # "free"
        /\ q.last = stream[s].last /\ q.pending = stream[s].pending
    BY <1>0, <1>2 DEF CheckMedia, AfterLoad, StreamType
  <2>3. CloseStream(s, "end") \/ CloseStream(s, RevokedEnding(s)) \/ Deliver(s, q, stream[s].held.revision)
    BY <1>2 DEF CheckMedia
  <2> HIDE DEF q
  <2>4. Written(q, wire[s])
    BY <1>0, <2>2, WrittenSame
  <2> QED BY <1>0, <2>1, <2>2, <2>3, <2>4, DeliverWrites, CloseWrites
<1>3. CASE ClientDrains(s)
  <2> DEFINE q == [stream[s] EXCEPT !.blocked = FALSE]
  <2>1. q \in StreamType /\ stream[s].last \in Nat
    BY <1>0 DEF StreamType
  <2>2. /\ stream[s].stage # "free" /\ q.stage # "free"
        /\ q.last = stream[s].last /\ q.pending = stream[s].pending
    BY <1>0, <1>3 DEF ClientDrains, StreamType, Written
  <2>3. Deliver(s, q, stream[s].last)
    BY <1>3 DEF ClientDrains
  <2> HIDE DEF q
  <2>4. Written(q, wire[s])
    BY <1>0, <2>2, WrittenSame
  <2> QED BY <1>0, <2>1, <2>2, <2>3, <2>4, DeliverWrites
<1>4. CASE Heartbeat(s)
  <2> DEFINE q == [stream[s] EXCEPT !.blocked = TRUE]
  <2>1. stream[s].attached /\ wire' = wire /\ stream' = [stream EXCEPT ![s] = q]
    BY <1>4 DEF Heartbeat, UpdateStream
  <2>2. /\ q.stage = stream[s].stage /\ q.last = stream[s].last /\ q.pending = stream[s].pending
    BY <1>0 DEF StreamType
  <2>3. stream[s].stage # "free" /\ q.stage # "free"
    BY <1>0, <2>1, <2>2 DEF Written
  <2> HIDE DEF q
  <2>4. Written(q, wire[s])
    BY <1>0, <2>2, <2>3, WrittenSame
  <2> QED BY <1>0, <2>1, <2>4 DEF StreamsTypeOK
<1>5. CASE ClientGone(s) \/ LoadFails(s) \/ Stall(s)
  BY <1>5, CloseWrites DEF ClientGone, LoadFails, Stall
<1> QED BY <1>1, <1>2, <1>3, <1>4, <1>5 DEF Goes, Falters

LEMMA LoadWrites ==
  ASSUME WiresInv, ReadScene \/ SceneArrives \/ SceneReadFails \/ ReadForImage
  PROVE  \A t \in Streams : Written(stream[t], wire[t])'
<1> USE DEF streamVars
<1>0. /\ StreamsTypeOK /\ \A t \in Streams : stream[t] \in StreamType /\ Written(stream[t], wire[t])
  BY DEF WiresInv, StreamsTypeOK
<1>1. CASE ReadScene \/ ReadForImage
  BY <1>0, <1>1 DEF ReadScene, ReadForImage
<1>2. CASE SceneArrives
  <2> SUFFICES ASSUME NEW t \in Streams PROVE Written(stream'[t], wire'[t])
    OBVIOUS
  <2> DEFINE q == [stream[t] EXCEPT !.stage = "media", !.held = load.scene]
  <2>1. /\ wire' = wire
        /\ stream'[t] = IF stream[t].stage = "scene" THEN q ELSE stream[t]
    BY <1>2 DEF SceneArrives, Awaiting
  <2>2. q.stage = "media" /\ q.last = stream[t].last /\ q.pending = stream[t].pending
    BY <1>0 DEF StreamType
  <2> HIDE DEF q
  <2>3. stream[t].stage = "scene" => Written(q, wire[t])
    BY <1>0, <2>2, WrittenSame
  <2> QED BY <1>0, <2>1, <2>3
<1>3. CASE SceneReadFails
  BY <1>3, EndAllWrites DEF SceneReadFails, Awaiting
<1> QED BY <1>1, <1>2, <1>3

LEMMA HubWrites ==
  ASSUME WiresInv, HandleNotice \/ HubBreaks \/ HubLost \/ HubListens \/ Restart
  PROVE  \A t \in Streams : Written(stream[t], wire[t])'
<1> USE DEF streamVars
<1>0. /\ StreamsTypeOK
      /\ \A t \in Streams : /\ stream[t] \in StreamType /\ wire[t] \in Seq(StreamEvent)
                            /\ Written(stream[t], wire[t])
  BY DEF WiresInv, StreamsTypeOK
<1>1. CASE HandleNotice
  <2> SUFFICES ASSUME NEW t \in Streams PROVE Written(stream'[t], wire'[t])
    OBVIOUS
  <2> DEFINE q == Reload(stream[t])
  <2>1. /\ wire' = wire
        /\ stream'[t] = stream[t] \/ (stream'[t] = q /\ stream[t].stage # "free")
    BY <1>1 DEF HandleNotice, Relevant
  <2>2. /\ q.last = stream[t].last /\ q.pending = stream[t].pending
        /\ stream[t].stage # "free" => q.stage # "free"
    BY <1>0 DEF Reload, StreamType
  <2> HIDE DEF q
  <2>3. stream[t].stage # "free" => Written(q, wire[t])
    BY <1>0, <2>2, WrittenSame
  <2> QED BY <1>0, <2>1, <2>3
<1>2. CASE HubBreaks \/ HubListens
  BY <1>0, <1>2 DEF HubBreaks, HubListens
<1>3. CASE HubLost
  <2> SUFFICES ASSUME NEW t \in Streams PROVE Written(stream'[t], wire'[t])
    OBVIOUS
  <2>1. CASE t \in Attached
    <3>1. stream'[t] = Fresh(NoOne) /\ wire'[t] = Append(wire[t], Ending("end"))
      BY <1>3, <2>1 DEF HubLost, Attached
    <3> QED BY <1>0, <3>1, WrittenEnd
  <2>2. CASE t \notin Attached /\ IsOpen(t)
    <3> DEFINE q == [stream[t] EXCEPT !.lost = TRUE]
    <3>1. stream'[t] = q /\ wire'[t] = wire[t]
      BY <1>3, <2>2 DEF HubLost, Attached
    <3>2. /\ stream[t].stage # "free" /\ q.stage = stream[t].stage
          /\ q.last = stream[t].last /\ q.pending = stream[t].pending
      BY <1>0, <2>2 DEF StreamType, IsOpen
    <3> HIDE DEF q
    <3> QED BY <1>0, <3>1, <3>2, WrittenSame
  <2>3. CASE t \notin Attached /\ ~ IsOpen(t)
    <3>1. stream'[t] = stream[t] /\ wire'[t] = wire[t]
      BY <1>3, <2>3 DEF HubLost
    <3> QED BY <1>0, <3>1
  <2> QED BY <2>1, <2>2, <2>3
<1>4. CASE Restart
  BY <1>4, EndAllWrites DEF Restart
<1> QED BY <1>1, <1>2, <1>3, <1>4

(* A client reads from the front, and a new stream begins with an empty     *)
(* wire.                                                                     *)
LEMMA ClientWrites ==
  ASSUME WiresInv, NEW d \in Displays, ClientFollows(d) \/ Interrupted(d)
  PROVE  \A t \in Streams : Written(stream[t], wire[t])'
<1> SUFFICES ASSUME NEW t \in Streams PROVE Written(stream'[t], wire'[t])
  OBVIOUS
<1>0. /\ StreamsTypeOK /\ stream[t] \in StreamType /\ wire[t] \in Seq(StreamEvent)
      /\ Written(stream[t], wire[t])
  BY DEF WiresInv, StreamsTypeOK
<1>1. CASE Connect(d)
  <2>1. PICK s \in Streams :
          /\ stream[s].stage = "free"
          /\ \/ wire' = [wire EXCEPT ![s] = <<Ending("end")>>] /\ UNCHANGED stream
             \/ /\ wire' = [wire EXCEPT ![s] = << >>]
                /\ UpdateStream(s, [Fresh(d) EXCEPT !.stage = "credential"])
    BY <1>1 DEF Connect, IsOpen
  <2>2. CASE t # s
    <3>1. stream'[t] = stream[t] /\ wire'[t] = wire[t]
      BY <1>0, <2>1, <2>2 DEF UpdateStream, StreamsTypeOK
    <3> QED BY <1>0, <3>1
  <2>3. CASE t = s /\ wire' = [wire EXCEPT ![s] = <<Ending("end")>>] /\ UNCHANGED stream
    <3>1. stream'[t] = stream[t] /\ wire'[t] = <<Ending("end")>> /\ stream[t].stage = "free"
      BY <2>1, <2>3, <1>0 DEF StreamsTypeOK
    <3> QED BY <1>0, <3>1 DEF Written
  <2>4. CASE t = s /\ wire' = [wire EXCEPT ![s] = << >>] /\ UpdateStream(s, [Fresh(d) EXCEPT !.stage = "credential"])
    <3>1. stream'[t] = [Fresh(d) EXCEPT !.stage = "credential"] /\ wire'[t] = << >>
      BY <2>4, <1>0 DEF UpdateStream, StreamsTypeOK
    <3>2. stream'[t].stage = "credential" /\ stream'[t].last = 0 /\ stream'[t].pending = 0
      BY <3>1 DEF Fresh
    <3> QED BY <3>1, <3>2 DEF Written
  <2> QED BY <2>1, <2>2, <2>3, <2>4
<1>2. CASE ReadEvent(d)
  <2>1. /\ stream' = stream /\ conn[d] \in Streams /\ wire[conn[d]] # << >>
        /\ wire' = [wire EXCEPT ![conn[d]] = Tail(wire[conn[d]])]
    BY <1>0, <1>2 DEF ReadEvent, StreamsTypeOK
  <2>2. wire'[t] = wire[t] \/ (wire'[t] = Tail(wire[t]) /\ wire[t] # << >>)
    BY <1>0, <2>1 DEF StreamsTypeOK
  <2>3. CASE wire'[t] = Tail(wire[t]) /\ wire[t] # << >>
    <3>1. /\ Len(wire[t]) \in Nat /\ Len(wire'[t]) = Len(wire[t]) - 1
          /\ \A i \in 1..Len(wire'[t]) : i + 1 \in 1..Len(wire[t]) /\ wire'[t][i] = wire[t][i + 1]
      BY <1>0, <2>3
    <3> DEFINE w == wire[t]
               v == wire'[t]
    <3>2. \A i, j \in 1..Len(v) :
            i < j /\ v[j].event = "scene" => v[i].event = "scene" /\ v[i].revision < v[j].revision
      <4>1. \A i, j \in 1..Len(w) :
              i < j /\ w[j].event = "scene" => w[i].event = "scene" /\ w[i].revision < w[j].revision
        BY <1>0 DEF Written
      <4> HIDE DEF v
      <4> SUFFICES ASSUME NEW i \in 1..Len(v), NEW j \in 1..Len(v), i < j, v[j].event = "scene"
                   PROVE  v[i].event = "scene" /\ v[i].revision < v[j].revision
        OBVIOUS
      <4>2. /\ i + 1 \in 1..Len(w) /\ j + 1 \in 1..Len(w) /\ i + 1 < j + 1
            /\ v[i] = w[i + 1] /\ v[j] = w[j + 1]
        BY <3>1 DEF v
      <4> QED BY <4>1, <4>2
    <3>3. stream[t].stage # "free" =>
            /\ stream[t].pending <= stream[t].last
            /\ \A i \in 1..Len(v) : /\ v[i].event = "scene"
                                    /\ v[i].revision <= stream[t].last
                                    /\ stream[t].pending # 0 => v[i].revision < stream[t].pending
      <4>1. stream[t].stage # "free" =>
              /\ stream[t].pending <= stream[t].last
              /\ \A i \in 1..Len(w) : /\ w[i].event = "scene"
                                      /\ w[i].revision <= stream[t].last
                                      /\ stream[t].pending # 0 => w[i].revision < stream[t].pending
        BY <1>0 DEF Written
      <4> HIDE DEF w, v
      <4> QED BY <3>1, <4>1 DEF w, v
    <3>4. stream'[t] = stream[t]
      BY <2>1
    <3> HIDE DEF w, v
    <3>5. Written(stream[t], v)
      BY <1>0, <3>2, <3>3 DEF Written
    <3> QED BY <3>4, <3>5 DEF v
  <2> QED BY <1>0, <2>1, <2>2, <2>3
<1>3. CASE Disconnect(d) \/ RetryNow(d)
  <2>1. stream' = stream /\ (wire'[t] = wire[t] \/ wire'[t] = << >>)
    BY <1>0, <1>3 DEF Disconnect, RetryNow, Leave, StreamsTypeOK
  <2>2. Written(stream[t], << >>)
    BY <1>0, Len(<< >>) = 0 DEF Written, StreamType
  <2> QED BY <1>0, <2>1, <2>2
<1> QED BY <1>1, <1>2, <1>3 DEF ClientFollows, Interrupted

LEMMA NextKeepsWires == WiresInv /\ [StreamsNext]_sceneStreamVars => WiresInv'
<1> SUFFICES ASSUME WiresInv, [StreamsNext]_sceneStreamVars PROVE WiresInv'
  OBVIOUS
<1>0. StreamsTypeOK'
  BY NextKeepsType DEF WiresInv
<1>1. CASE UNCHANGED sceneStreamVars
  BY <1>0, <1>1 DEF sceneStreamVars, WiresInv
<1>2. CASE StreamsNext
  <2>1. Commits => \A t \in Streams : Written(stream[t], wire[t])'
    BY DEF Commits, EditScene, DeleteMedia, RevokeDisplay, streamVars, WiresInv
  <2>2. \A t \in Streams : Written(stream[t], wire[t])'
    BY <1>2, <2>1, GoesWrites, LoadWrites, HubWrites, ClientWrites DEF StreamsNext
  <2> QED BY <1>0, <2>2 DEF WiresInv
<1> QED BY <1>1, <1>2

(* A display never reads a snapshot that is older than one it has read from *)
(* the same stream, whatever order the loads, the faults and the client's   *)
(* reading came in.                                                          *)
THEOREM StreamsGoForward == StreamsSpec => []SnapshotsGoForward
<1>1. StreamsInit => WiresInv
  <2> SUFFICES ASSUME StreamsInit PROVE WiresInv
    OBVIOUS
  <2>1. StreamsTypeOK /\ \A s \in Streams : stream[s] = Fresh(NoOne) /\ wire[s] = << >>
    BY InitType DEF StreamsInit
  <2>2. Written(Fresh(NoOne), << >>)
    BY DEF Written, Fresh
  <2> QED BY <2>1, <2>2 DEF WiresInv
<1>2. WiresInv => SnapshotsGoForward
  BY DEF WiresInv, Written, SnapshotsGoForward
<1> QED BY <1>1, <1>2, NextKeepsWires, PTL DEF StreamsSpec
=============================================================================
