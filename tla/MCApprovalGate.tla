-------------------------- MODULE MCApprovalGate --------------------------
(* Small instances of ApprovalGate for TLC.  Every constant but Limit is a *)
(* set of model values, or one: runs, requests and workers are             *)
(* interchangeable where no liveness is checked.                           *)
EXTENDS ApprovalGate, TLC

Symmetry == Permutations(Run) \cup Permutations(Client) \cup Permutations(Worker)
=============================================================================
