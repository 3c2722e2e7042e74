----------------------------- MODULE MCCommands -----------------------------
(***************************************************************************)
(* Two instances of the command pipeline in one state graph: one roll by a *)
(* member who leaves and comes back, with two workers and a crash; and a   *)
(* transfer by one account against an archive and an entry edit (through   *)
(* the public API) by the other, with one worker.                          *)
(***************************************************************************)
EXTENDS CharacterCommands, FiniteSets, TLC

CONSTANTS u1, u2, roll, transfer, archive, entry

Actors   == [k \in Keys |-> IF k \in {archive, entry} THEN u2 ELSE u1]
Commands == [k \in Keys |-> CASE k = roll -> "roll" [] k = transfer -> "transfer"
                              [] k = archive -> "archive" [] k = entry -> "entry"]

VARIABLE scenario

Sent == {k \in Keys : status[k] # "none"} \cup {job[w] : w \in Workers}

Within ==
  \/ scenario = "roll" /\ Sent \subseteq {roll, NoKey}
  \/ /\ scenario = "hand over"
     /\ roll \notin Sent
     /\ Cardinality({w \in Workers : pc[w] # "idle"}) <= 1
     /\ crashes = 0 /\ \A k \in Keys : status[k] # "none" => live[k]
     /\ \A c \in Campaigns, u \in Users : generation[c][u] <= 1

MCInit == Init /\ scenario \in {"roll", "hand over"}
MCNext == Next /\ UNCHANGED scenario /\ Within'
MCSpec == MCInit /\ [][MCNext]_<<vars, scenario>>

Symmetry == Permutations(Workers)
=============================================================================
