----------------------------- MODULE MCRetried -----------------------------
(***************************************************************************)
(* Requests that are sent again: a command whose worker may die, creations *)
(* of systems with one key, and publications.  One of them moves.           *)
(***************************************************************************)
EXTENDS MCCharacterCommands, SystemAuthoring

VARIABLE scenario

restVars == <<vars, authoringVars, scenario>>

(* A system with a draft and no version. *)
Drafted(s, k) ==
  /\ \E d \in Documents :
       systems = [x \in Systems |->
         IF x = s THEN [lifecycle |-> "active", revision |-> 1, document |-> d, key |-> k]
         ELSE Uncreated]
  /\ versions = {}
  /\ receipts = {<<"create", k>>}
  /\ work = [w \in Requests |-> NoWork]
  /\ started = 1

MCInit ==
  /\ scenario \in {"command", "creation", "publication"}
  /\ Init
  /\ IF scenario = "publication"
       THEN Drafted(CHOOSE s \in Systems : TRUE, CHOOSE k \in RequestKeys : TRUE)
       ELSE AuthoringInit
  /\ scenario # "command" => owner = u1

Busy == {w \in Requests : work[w] # NoWork}

(* Systems are made, and a draft saved by two requests at once. *)
Creating == \A w \in Busy : work[w].kind # "publish"

(* One system, archived but not deleted; one request at a time saves, one   *)
(* has the author's word for a break.                                        *)
Publishing ==
  /\ \A s \in Systems : systems[s].lifecycle # "deleted"
  /\ \A w \in Busy : work[w].kind # "create"
  /\ Cardinality({w \in Busy : work[w].kind = "save"}) <= 1
  /\ Cardinality({w \in Busy : work[w].kind = "publish" /\ work[w].acknowledged}) <= 1

MCNext ==
  /\ UNCHANGED scenario
  /\ \/ scenario = "command" /\ Next /\ UNCHANGED authoringVars
     \/ scenario = "creation" /\ AuthoringNext /\ UNCHANGED vars /\ Creating'
     \/ scenario = "publication" /\ AuthoringNext /\ UNCHANGED vars /\ Publishing'

MCSpec == MCInit /\ [][MCNext]_restVars /\ Fairness
=============================================================================
