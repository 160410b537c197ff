---------------------------- MODULE MCSharePlay ----------------------------
(* Model values of SharePlay for TLC.                                      *)
EXTENDS SharePlay, TLC

CONSTANTS e1, e2, e3

\* Two episodes of one name, each in a directory of its own in the share,
\* and a third one.
Names == (e1 :> "001") @@ (e2 :> "001") @@ (e3 :> "002")
TwoNames == (e1 :> "001") @@ (e2 :> "002")

=============================================================================
