---------------------------- MODULE ExactlyOnce ----------------------------
(***************************************************************************)
(* What a caller of a character command is promised: each idempotency key  *)
(* is settled at most once, either refused or applied, and an applied      *)
(* command changed the sheet exactly once, at the revision it named, on    *)
(* top of everything applied before it.  There are no workers, leases,     *)
(* snapshots or retries here; CharacterCommands is checked and proved to   *)
(* implement this module in spite of them.                                 *)
(***************************************************************************)
EXTENDS Naturals

CONSTANTS
  Keys,       \* idempotency keys, one per command
  EditKeys,   \* keys of commands that write the sheet's state
  RollKeys    \* keys of commands that only roll: no new revision

VARIABLES
  fate,       \* how each key was settled
  based,      \* the revision an applied command was applied to
  rev,        \* the sheet's revision
  edits       \* the edits the sheet's state contains

onceVars == <<fate, based, rev, edits>>

Init ==
  /\ fate = [k \in Keys |-> "open"]
  /\ based = [k \in Keys |-> 0]
  /\ rev = 1
  /\ edits = {}

Apply(k) ==
  /\ fate[k] = "open"
  /\ fate' = [fate EXCEPT ![k] = "applied"]
  /\ based' = [based EXCEPT ![k] = rev]
  /\ rev' = IF k \in RollKeys THEN rev ELSE rev + 1
  /\ edits' = IF k \in EditKeys THEN edits \cup {k} ELSE edits

Refuse(k) ==
  /\ fate[k] = "open"
  /\ fate' = [fate EXCEPT ![k] = "refused"]
  /\ UNCHANGED <<based, rev, edits>>

(* The sheet is attached to a campaign or returned from one. *)
ChangeCustody ==
  /\ rev' = rev + 1
  /\ UNCHANGED <<fate, based, edits>>

Next == ChangeCustody \/ \E k \in Keys : Apply(k) \/ Refuse(k)

Spec == Init /\ [][Next]_onceVars
=============================================================================
