-------------------------- MODULE MCSpiderProcess --------------------------
(* Model values of SpiderProcess for TLC.                                  *)
EXTENDS SpiderProcess, TLC

=============================================================================
