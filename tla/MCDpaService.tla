---------------------------- MODULE MCDpaService ----------------------------
(* Small instances of DpaService for TLC.                                  *)
EXTENDS DpaService, TLC

Symmetry == Permutations(Client) \cup Permutations(Option \ Blocked)
=============================================================================
