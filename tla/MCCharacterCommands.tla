------------------------- MODULE MCCharacterCommands -------------------------
(* Instances of the command pipeline: who sends which commands. *)
EXTENDS CharacterCommands, TLC

CONSTANTS u1, u2

ByOne    == [k \in Keys |-> u1]
BothEdit == [k \in Keys |-> "edit"]
OneRename == [k \in Keys |-> "rename"]

Symmetry == Permutations(Workers)
=============================================================================
