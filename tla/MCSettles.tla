------------------------------ MODULE MCSettles ------------------------------
(***************************************************************************)
(* What clients do on their own until they have settled: a display follows  *)
(* the scene, a tab drains its queue, an editor saves its draft.  One of    *)
(* them moves; the others are where nothing of theirs is due.               *)
(***************************************************************************)
EXTENDS SceneStreams, CharacterSession, DraftEditing

VARIABLE scenario

settleVars == <<sceneStreamVars, sessionVars, draftVars, scenario>>

(* Every display was told that it is revoked, and asks no more. *)
NoDisplay ==
  /\ sceneRevision = 1
  /\ background = CHOOSE f \in Files : TRUE
  /\ files = Files
  /\ active = [d \in Displays |-> FALSE]
  /\ hub = "ready" /\ notices = << >> /\ load = NoRead
  /\ stream = [s \in Streams |-> Fresh(NoOne)]
  /\ wire = [s \in Streams |-> << >>]
  /\ conn = [d \in Displays |-> NoOne]
  /\ client = [d \in Displays |-> Blank("revoked")]
  /\ streamFaults = 0 /\ imageReads = 0

NoVisit == SessionInit /\ store = [confirmed |-> None, generation |-> 0, queue |-> {}]

MCInit ==
  /\ DraftInit
  /\ \/ scenario = "display" /\ StreamsInit /\ NoVisit
     \/ scenario = "sheet" /\ NoDisplay /\ SessionInit
     \/ scenario = "draft" /\ NoDisplay /\ NoVisit

MCNext ==
  /\ UNCHANGED scenario
  /\ \/ scenario = "display" /\ StreamsNext /\ UNCHANGED <<sessionVars, draftVars>>
     \/ scenario = "sheet" /\ SessionNext /\ UNCHANGED <<sceneStreamVars, draftVars>>
     \/ scenario = "draft" /\ DraftNext /\ UNCHANGED <<sceneStreamVars, sessionVars>>

MCSpec ==
  MCInit /\ [][MCNext]_settleVars /\ StreamsFairness /\ SessionFairness /\ DraftFairness
=============================================================================
