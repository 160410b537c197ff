---------------------------- MODULE MCPlayerPage ----------------------------
(* Model values of PlayerPage for TLC.                                     *)
EXTENDS PlayerPage, TLC

Symmetric == Permutations(Episodes) \cup Permutations(Plays)

=============================================================================
