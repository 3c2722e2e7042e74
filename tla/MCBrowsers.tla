------------------------------ MODULE MCBrowsers ------------------------------
(***************************************************************************)
(* Two tabs of one browser on one sheet, or two browsers on one draft.      *)
(***************************************************************************)
EXTENDS CharacterSession, DraftEditing, TLC

VARIABLE scenario

browserVars == <<sessionVars, draftVars, scenario>>

NoVisit == SessionInit /\ store = [confirmed |-> None, generation |-> 0, queue |-> {}]

MCInit ==
  /\ DraftInit
  /\ \/ scenario = "sheet" /\ SessionInit
     \/ scenario = "draft" /\ NoVisit

MCNext ==
  /\ UNCHANGED scenario
  /\ \/ scenario = "sheet" /\ SessionNext /\ UNCHANGED draftVars
     \/ scenario = "draft" /\ DraftNext /\ UNCHANGED sessionVars

MCSpec == MCInit /\ [][MCNext]_browserVars

Alike == Permutations(Tabs) \cup Permutations(Editors)
=============================================================================
