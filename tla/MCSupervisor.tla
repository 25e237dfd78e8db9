---------------------------- MODULE MCSupervisor ----------------------------
(* The bridge threads are interchangeable; the sidecar has every feature. *)
EXTENDS Supervisor, TLC

CallerSymmetry == Permutations(Callers)
NewBuild == {{"datalink", "simbrief-prefile", "pdc-clearance", "sayintentions"}}
=============================================================================
