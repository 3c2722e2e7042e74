--------------------------- MODULE MCSceneStreams ----------------------------
(***************************************************************************)
(* Instances of the display streams.  Either several displays follow the    *)
(* scene and nobody touches its images, or one display follows it while     *)
(* backgrounds are replaced, images deleted and images read, and nothing    *)
(* fails.                                                                    *)
(***************************************************************************)
EXTENDS SceneStreams, FiniteSets, TLC

VARIABLE scenario

Symmetry == Permutations(Displays) \cup Permutations(Streams) \cup Permutations(Files)

Followers == {d \in Displays : conn[d] # NoOne \/ client[d].status # "connecting"}

MCInit == StreamsInit /\ scenario \in {"displays", "images"}

MCNext ==
  /\ StreamsNext
  /\ UNCHANGED scenario
  /\ \/ scenario = "displays" /\ UNCHANGED <<background, files, imageReads>>
     \/ scenario = "images" /\ Cardinality(Followers') <= 1 /\ UNCHANGED streamFaults

MCSpec == MCInit /\ [][MCNext]_<<sceneStreamVars, scenario>>
=============================================================================
