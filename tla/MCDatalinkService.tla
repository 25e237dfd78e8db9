-------------------------- MODULE MCDatalinkService --------------------------
(***************************************************************************)
(* The sidecar's datalink service with two configs and two legs, so that   *)
(* each can be the wrong one; and what two presses of SEND come to         *)
(* (WriteOutcome).  The two share nothing, so each is explored with the    *)
(* other at rest.                                                          *)
(***************************************************************************)
EXTENDS DatalinkService, WriteOutcome, TLC

VARIABLE explored

Symmetry ==
  Permutations(Legs) \cup Permutations(Configs) \cup Permutations(Slots) \cup Permutations(Presses)

MCInit ==
  /\ Init /\ InitOutcome
  /\ \/ explored = "service" /\ host = "lacking" /\ build = "old" /\ kinds = [p \in Presses |-> "canned"]
     \/ explored = "words"

MCNext ==
  /\ UNCHANGED explored
  /\ \/ explored = "service" /\ Next /\ UNCHANGED outcomeVars
     \/ explored = "words" /\ NextOutcome /\ UNCHANGED vars

MCSpec == MCInit /\ [][MCNext]_<<vars, outcomeVars, explored>>
=============================================================================
