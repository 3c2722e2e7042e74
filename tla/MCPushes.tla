------------------------------ MODULE MCPushes ------------------------------
(***************************************************************************)
(* Two edits of one sheet, sent any number of times, or two pushes of its  *)
(* rolls: one of the two moves.                                             *)
(***************************************************************************)
EXTENDS MCCharacterCommands, PushRolls, FiniteSets

VARIABLE scenario

restVars == <<vars, audienceDefault, rolls, pushes, scenario>>

MCInit ==
  /\ scenario \in {"edits", "pushes"}
  /\ Init
  /\ role = [c \in Campaigns |-> (u1 :> "owner") @@ (u2 :> "none")]
  /\ scenario = "edits" => owner # u2
  /\ audienceDefault = [c \in Campaigns |-> "campaign"]
  /\ rolls = [r \in Rolls |-> Unrolled]
  /\ pushes = [w \in Pushers |-> NoPush]

(* u2 is nobody's member. *)
Editing == \A c \in Campaigns : ~ IsActiveMember(c, u2)

(* One chain of pushes in a campaign that stays, of a sheet u2 may control. *)
Pushing ==
  /\ \A c \in Campaigns : campaignStatus[c] = "active"
  /\ lifecycle = "active"
  /\ controllers \subseteq {u2}
  /\ revision <= 2
  /\ \E n \in 0..Cardinality(Rolls) : Rolled = 1..n
  /\ Cardinality({r \in Rolled : rolls[r].parent = NoRoll}) <= 1

MCNext ==
  /\ UNCHANGED scenario
  /\ \/ scenario = "edits" /\ Next /\ UNCHANGED <<audienceDefault, rolls, pushes>> /\ Editing'
     \/ /\ scenario = "pushes" /\ PushNext
        /\ UNCHANGED <<edits, executionVars, workerVars, crashes, applied, contested>>
        /\ Pushing'

MCSpec == MCInit /\ [][MCNext]_restVars
=============================================================================
