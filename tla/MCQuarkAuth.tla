---------------------------- MODULE MCQuarkAuth ----------------------------
(* Model values of QuarkAuth for TLC.                                      *)
EXTENDS QuarkAuth, TLC

Symmetric == Permutations(Transfers) \cup Permutations(Syncs)

=============================================================================
